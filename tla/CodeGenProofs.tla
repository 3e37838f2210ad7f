--------------------------- MODULE CodeGenProofs ---------------------------
(***************************************************************************)
(* CodeGen, for every program: no label is emitted twice, and all that is  *)
(* jumped to or called is there.                                           *)
(***************************************************************************)
EXTENDS CodeGen, SequenceTheorems, TLAPS

---------------------------------------------------------------------------
\* Sequences, whatever their elements.
IsSeq(s) == \E S : s \in Seq(S)

\* What \o does, without what it is.
Joined(s, t) == s \o t

\* The instructions that go to a label of their function.
Leaps == {"jump", "branch_t", "branch_f"}

\* What a label is the label of: function labels are known by their function.
KeyOf(l) ==
  IF l[1] = "f" THEN <<"fun", l[2]>> ELSE IF l[1] = "lf" THEN <<"fun", l[3]>> ELSE l

IsInst(x, ops) == x.node.k = "inst" /\ x.node.i.op \in ops

\* The labels an item of the traversal will emit by itself.
Keys(x) ==
  IF x.node.k = "fundef" THEN {<<"fun", x.node.f>>}
  ELSE IF IsInst(x, {"label"}) THEN {KeyOf(x.node.i.to)} ELSE {}

All(s) == UNION {Keys(s[j]) : j \in 1..Len(s)}
Once(s) == \A j, k \in 1..Len(s) : j # k => Keys(s[j]) \cap Keys(s[k]) = {}
Targets(s, ops) == {s[j].node.i.to : j \in {k \in 1..Len(s) : IsInst(s[k], ops)}}

\* The same of the code.
Marks == {k \in 1..Len(code) : code[k].op = "label"}
Marked == {KeyOf(code[k].to) : k \in Marks}
Placed(l, f) == \E k \in Marks : code[k].to = l /\ owner[k] = f

\* A function whose label is final: the function around it has been reached.
Settled(f) ==
  LET p == source.funs[f].parent
  IN p = Global \/ <<"fun", p>> \in Marked

Callable == {label[f] : f \in {g \in DOMAIN source.funs : Settled(g)}}

IfLabels == {"pfalse", "pend", "else", "ifend"}
LoopLabels == {"while", "whileend"}

\* The number of a label has been counted.
CountedIn(key, c) ==
  /\ key[1] \in IfLabels => key[2] \in Nat /\ key[2] < c.ifs
  /\ key[1] \in LoopLabels => key[2] \in Nat /\ key[2] < c.loops

---------------------------------------------------------------------------
\* An item is an instruction, a function or a node of the current function.
ItemFits(x, p, f) ==
  \/ x.node.k = "inst"
  \/ x.node.k = "fundef" /\ x.node.f \in DOMAIN p.funs
  \/ f # Global /\ x.node \in NodesOf(p, f)

Shapes ==
  /\ \E i \in DOMAIN Sources : source = Sources[i]
  /\ IsSeq(todo) /\ IsSeq(code) /\ IsSeq(owner) /\ Len(owner) = Len(code)
  /\ counts \in [ifs : Nat, loops : Nat, lfs : Nat]
  /\ DOMAIN label = DOMAIN source.funs
  /\ \A f \in DOMAIN label : KeyOf(label[f]) = <<"fun", f>>
  /\ fundef # Global => fundef \in DOMAIN source.funs /\ <<"fun", fundef>> \in Marked

\* Functions come after all that is left of the current one.
Ordered(s, p, f) ==
  /\ \A j \in 1..Len(s) : ItemFits(s[j], p, f)
  /\ \A j, k \in 1..Len(s) : j < k /\ s[j].node.k = "fundef" => s[k].node.k = "fundef"

Order == Ordered(todo, source, fundef)

\* What is emitted and what will be has each label once, and none that is
\* still to be counted.
Unique ==
  /\ \A j, k \in Marks : KeyOf(code[j].to) = KeyOf(code[k].to) => j = k
  /\ Once(todo) /\ Marked \cap All(todo) = {}
  /\ \A key \in Marked \cup All(todo) : CountedIn(key, counts)

\* The functions that are or will be in the code are those whose surrounding
\* function is; their labels are the final ones.
Final ==
  /\ \A f \in DOMAIN source.funs : <<"fun", f>> \in Marked \cup All(todo) <=> Settled(f)
  /\ \A k \in Marks : KeyOf(code[k].to)[1] = "fun" =>
       \E f \in DOMAIN source.funs : code[k].to = label[f]
  /\ \A l \in Targets(todo, {"label"}) : KeyOf(l)[1] # "fun"

\* What is jumped to and called is there or will be.
Landing ==
  /\ \A k \in 1..Len(code) : code[k].op \in Leaps =>
       \/ Placed(code[k].to, owner[k])
       \/ owner[k] = fundef /\ code[k].to \in Targets(todo, {"label"})
  /\ \A l \in Targets(todo, Leaps) : l \in Targets(todo, {"label"}) \/ Placed(l, fundef)
  /\ \A k \in 1..Len(code) : code[k].op = "jsr" => code[k].to \in Callable
  /\ Targets(todo, {"jsr"}) \subseteq Callable

Inv == Shapes /\ Order /\ Unique /\ Final /\ Landing

---------------------------------------------------------------------------
\* Sequences, whatever their elements.

LEMMA SeqParts ==
    ASSUME NEW s, IsSeq(s)
    PROVE  Len(s) \in Nat /\ DOMAIN s = 1..Len(s) /\ (s = <<>> <=> Len(s) = 0)
  <1>1. PICK S : s \in Seq(S)
    BY DEF IsSeq
  <1> QED
    BY <1>1

LEMMA JoinedParts ==
    ASSUME NEW s, NEW t, IsSeq(s), IsSeq(t)
    PROVE  /\ IsSeq(Joined(s, t)) /\ Len(Joined(s, t)) = Len(s) + Len(t)
           /\ \A j \in 1..Len(s) : j \in 1..Len(Joined(s, t)) /\ Joined(s, t)[j] = s[j]
           /\ \A j \in 1..Len(t) : Len(s) + j \in 1..Len(Joined(s, t)) /\ Joined(s, t)[Len(s) + j] = t[j]
           /\ \A j \in 1..Len(Joined(s, t)) : j \in 1..Len(s) \/ \E k \in 1..Len(t) : j = Len(s) + k
  <1>1. PICK S : s \in Seq(S)
    BY DEF IsSeq
  <1>2. PICK T : t \in Seq(T)
    BY DEF IsSeq
  <1> DEFINE U == S \cup T
  <1>3. s \in Seq(U) /\ t \in Seq(U)
    BY <1>1, <1>2
  <1> HIDE DEF U
  <1>4. s \o t \in Seq(U) /\ Len(s \o t) = Len(s) + Len(t) /\ Len(s) \in Nat /\ Len(t) \in Nat
    BY <1>3
  <1>5. \A j \in 1..(Len(s) + Len(t)) : (s \o t)[j] = IF j <= Len(s) THEN s[j] ELSE t[j - Len(s)]
    BY <1>3
  <1>6. ASSUME NEW j \in 1..Len(s)
        PROVE  j \in 1..Len(s \o t) /\ (s \o t)[j] = s[j]
    BY <1>4, <1>5
  <1>7. ASSUME NEW j \in 1..Len(t)
        PROVE  Len(s) + j \in 1..Len(s \o t) /\ (s \o t)[Len(s) + j] = t[j]
    <2>1. Len(s) + j \in 1..Len(s \o t) /\ ~(Len(s) + j <= Len(s)) /\ (Len(s) + j) - Len(s) = j
      BY <1>4
    <2> QED
      BY <1>4, <1>5, <2>1
  <1>8. ASSUME NEW j \in 1..Len(s \o t)
        PROVE  j \in 1..Len(s) \/ \E k \in 1..Len(t) : j = Len(s) + k
    <2>1. CASE j <= Len(s)
      BY <1>4, <2>1
    <2>2. CASE ~(j <= Len(s))
      <3>1. j - Len(s) \in 1..Len(t) /\ j = Len(s) + (j - Len(s))
        BY <1>4, <2>2
      <3> QED
        BY <3>1
    <2> QED
      BY <2>1, <2>2
  <1> QED
    BY <1>4, <1>6, <1>7, <1>8 DEF IsSeq, Joined

LEMMA MadeSeq ==
    ASSUME NEW n \in Nat, NEW s, s = [j \in 1..n |-> s[j]]
    PROVE  IsSeq(s) /\ Len(s) = n
  <1> DEFINE S == {s[j] : j \in 1..n}
  <1>1. s \in [1..n -> S]
    <2>1. \A j \in 1..n : s[j] \in S
      OBVIOUS
    <2> HIDE DEF S
    <2> QED
      BY <2>1
  <1> HIDE DEF S
  <1>2. s \in Seq(S) /\ Len(s) = n
    BY <1>1
  <1> QED
    BY <1>2 DEF IsSeq

LEMMA HeadAndTail ==
    ASSUME NEW s, IsSeq(s), s # <<>>
    PROVE  /\ Len(s) \in Nat \ {0} /\ Head(s) = s[1]
           /\ IsSeq(Tail(s)) /\ Len(Tail(s)) = Len(s) - 1
           /\ \A j \in 1..Len(Tail(s)) : j + 1 \in 1..Len(s) /\ Tail(s)[j] = s[j + 1]
           /\ \A j \in 1..Len(s) : j = 1 \/ (j - 1 \in 1..Len(Tail(s)) /\ s[j] = Tail(s)[j - 1])
  <1>1. PICK S : s \in Seq(S)
    BY DEF IsSeq
  <1>2. Len(s) \in Nat \ {0} /\ Head(s) = s[1] /\ Tail(s) \in Seq(S) /\ Len(Tail(s)) = Len(s) - 1
    BY <1>1
  <1>3. \A j \in 1..(Len(s) - 1) : Tail(s)[j] = s[j + 1]
    BY <1>1
  <1>4. ASSUME NEW j \in 1..Len(s), j # 1
        PROVE  j - 1 \in 1..Len(Tail(s)) /\ s[j] = Tail(s)[j - 1]
    <2>1. j - 1 \in 1..(Len(s) - 1) /\ (j - 1) + 1 = j
      BY <1>2, <1>4
    <2> QED
      BY <1>2, <1>3, <2>1
  <1> QED
    BY <1>2, <1>3, <1>4 DEF IsSeq

IsJoined(u, s, t) ==
  /\ IsSeq(u) /\ Len(u) = Len(s) + Len(t) /\ Len(s) \in Nat /\ Len(t) \in Nat
  /\ \A j \in 1..Len(s) : j \in 1..Len(u) /\ u[j] = s[j]
  /\ \A j \in 1..Len(t) : Len(s) + j \in 1..Len(u) /\ u[Len(s) + j] = t[j]
  /\ \A j \in 1..Len(u) : j \in 1..Len(s) \/ \E k \in 1..Len(t) : j = Len(s) + k

LEMMA JoinedIs ==
    ASSUME NEW s, NEW t, IsSeq(s), IsSeq(t)
    PROVE  IsJoined(Joined(s, t), s, t)
  <1> DEFINE u == Joined(s, t)
  <1>1. /\ IsSeq(u) /\ Len(u) = Len(s) + Len(t)
        /\ \A j \in 1..Len(s) : j \in 1..Len(u) /\ u[j] = s[j]
        /\ \A j \in 1..Len(t) : Len(s) + j \in 1..Len(u) /\ u[Len(s) + j] = t[j]
        /\ \A j \in 1..Len(u) : j \in 1..Len(s) \/ \E k \in 1..Len(t) : j = Len(s) + k
    BY JoinedParts, ZenonT(40)
  <1>2. Len(s) \in Nat /\ Len(t) \in Nat
    BY SeqParts
  <1> QED
    BY <1>1, <1>2 DEF IsJoined

LEMMA SameSeq ==
    ASSUME NEW s, NEW t, IsSeq(s), IsSeq(t), Len(s) = Len(t), \A j \in 1..Len(s) : s[j] = t[j]
    PROVE  s = t
  <1>1. PICK S : s \in Seq(S)
    BY DEF IsSeq
  <1>2. PICK T : t \in Seq(T)
    BY DEF IsSeq
  <1>3. s \in Seq(S \cup T) /\ t \in Seq(S \cup T)
    BY <1>1, <1>2
  <1> QED
    BY <1>3, SeqEqual

LEMMA Tuples ==
    ASSUME NEW a, NEW b, NEW c, NEW d, NEW e, NEW f, NEW g
    PROVE  /\ IsSeq(<<>>) /\ IsSeq(<<a>>) /\ IsSeq(<<a, b>>) /\ IsSeq(<<a, b, c>>) /\ IsSeq(<<a, b, c, d>>)
           /\ IsSeq(<<a, b, c, d, e, f, g>>)
  <1>1. /\ <<>> \in Seq({a}) /\ <<a>> \in Seq({a}) /\ <<a, b>> \in Seq({a, b}) /\ <<a, b, c>> \in Seq({a, b, c})
        /\ <<a, b, c, d>> \in Seq({a, b, c, d}) /\ <<a, b, c, d, e, f, g>> \in Seq({a, b, c, d, e, f, g})
    OBVIOUS
  <1> QED
    BY <1>1 DEF IsSeq

LEMMA JoinedEqual ==
    ASSUME NEW w, NEW l, NEW r, IsSeq(w), IsSeq(l), IsSeq(r), Len(w) = Len(l) + Len(r),
           \A j \in 1..Len(l) : w[j] = l[j],
           \A j \in 1..Len(r) : w[Len(l) + j] = r[j]
    PROVE  w = Joined(l, r)
  <1> DEFINE v == Joined(l, r)
  <1>1. /\ IsSeq(v) /\ Len(v) = Len(w)
        /\ \A j \in 1..Len(l) : v[j] = l[j]
        /\ \A j \in 1..Len(r) : v[Len(l) + j] = r[j]
        /\ \A j \in 1..Len(v) : j \in 1..Len(l) \/ \E k \in 1..Len(r) : j = Len(l) + k
    BY JoinedParts
  <1> HIDE DEF v
  <1>2. \A j \in 1..Len(w) : w[j] = v[j]
    BY <1>1
  <1>3. w = v
    BY <1>1, <1>2, SameSeq
  <1> QED
    BY <1>3 DEF v

LEMMA LongTuples ==
    ASSUME NEW a, NEW b, NEW c, NEW d, NEW e, NEW f, NEW g
    PROVE  /\ <<a, b>> = <<a>> \o <<b>>
           /\ <<a, b, c>> = <<a>> \o <<b, c>>
           /\ <<a, b, c, d>> = <<a>> \o <<b, c, d>>
           /\ <<a, b, c, d, e, f, g>> = <<a, b, c>> \o <<d, e, f, g>>
  <1>1. <<a, b>> = <<a>> \o <<b>>
    <2> DEFINE l == <<a>>
                r == <<b>>
                w == <<a, b>>
    <2>1. IsSeq(l) /\ IsSeq(r) /\ IsSeq(w) /\ Len(l) = 1 /\ Len(r) = 1 /\ Len(w) = 2
      BY Tuples
    <2>2. w[1] = l[1]
      OBVIOUS
    <2>3. w[2] = r[1]
      OBVIOUS
    <2> HIDE DEF l, r, w, Joined
    <2>4. \A j \in 1..Len(l) : w[j] = l[j]
      BY <2>1, <2>2
    <2>5. \A j \in 1..Len(r) : w[Len(l) + j] = r[j]
      BY <2>1, <2>3
    <2>6. Len(w) = Len(l) + Len(r)
      BY <2>1
    <2>7. w = Joined(l, r)
      BY <2>1, <2>4, <2>5, <2>6, JoinedEqual, Zenon
    <2> QED
      BY <2>7 DEF l, r, w, Joined
  <1>2. <<a, b, c>> = <<a>> \o <<b, c>>
    <2> DEFINE l == <<a>>
                r == <<b, c>>
                w == <<a, b, c>>
    <2>1. IsSeq(l) /\ IsSeq(r) /\ IsSeq(w) /\ Len(l) = 1 /\ Len(r) = 2 /\ Len(w) = 3
      BY Tuples
    <2>2. w[1] = l[1]
      OBVIOUS
    <2>3. w[2] = r[1] /\ w[3] = r[2]
      OBVIOUS
    <2> HIDE DEF l, r, w, Joined
    <2>4. \A j \in 1..Len(l) : w[j] = l[j]
      BY <2>1, <2>2
    <2>5. \A j \in 1..Len(r) : w[Len(l) + j] = r[j]
      BY <2>1, <2>3
    <2>6. Len(w) = Len(l) + Len(r)
      BY <2>1
    <2>7. w = Joined(l, r)
      BY <2>1, <2>4, <2>5, <2>6, JoinedEqual, Zenon
    <2> QED
      BY <2>7 DEF l, r, w, Joined
  <1>3. <<a, b, c, d>> = <<a>> \o <<b, c, d>>
    <2> DEFINE l == <<a>>
                r == <<b, c, d>>
                w == <<a, b, c, d>>
    <2>1. IsSeq(l) /\ IsSeq(r) /\ IsSeq(w) /\ Len(l) = 1 /\ Len(r) = 3 /\ Len(w) = 4
      BY Tuples
    <2>2. w[1] = l[1]
      OBVIOUS
    <2>3. w[2] = r[1] /\ w[3] = r[2] /\ w[4] = r[3]
      OBVIOUS
    <2> HIDE DEF l, r, w, Joined
    <2>4. \A j \in 1..Len(l) : w[j] = l[j]
      BY <2>1, <2>2
    <2>5. \A j \in 1..Len(r) : w[Len(l) + j] = r[j]
      BY <2>1, <2>3
    <2>6. Len(w) = Len(l) + Len(r)
      BY <2>1
    <2>7. w = Joined(l, r)
      BY <2>1, <2>4, <2>5, <2>6, JoinedEqual, Zenon
    <2> QED
      BY <2>7 DEF l, r, w, Joined
  <1>4. <<a, b, c, d, e, f, g>> = <<a, b, c>> \o <<d, e, f, g>>
    <2> DEFINE l == <<a, b, c>>
                r == <<d, e, f, g>>
                w == <<a, b, c, d, e, f, g>>
    <2>1. IsSeq(l) /\ IsSeq(r) /\ IsSeq(w) /\ Len(l) = 3 /\ Len(r) = 4 /\ Len(w) = 7
      BY Tuples
    <2>2. w[1] = l[1] /\ w[2] = l[2] /\ w[3] = l[3]
      OBVIOUS
    <2>3. w[4] = r[1] /\ w[5] = r[2] /\ w[6] = r[3] /\ w[7] = r[4]
      OBVIOUS
    <2> HIDE DEF l, r, w, Joined
    <2>4. \A j \in 1..Len(l) : w[j] = l[j]
      BY <2>1, <2>2
    <2>5. \A j \in 1..Len(r) : w[Len(l) + j] = r[j]
      BY <2>1, <2>3
    <2>6. Len(w) = Len(l) + Len(r)
      BY <2>1
    <2>7. w = Joined(l, r)
      BY <2>1, <2>4, <2>5, <2>6, JoinedEqual, Zenon
    <2> QED
      BY <2>7 DEF l, r, w, Joined
  <1> QED
    BY <1>1, <1>2, <1>3, <1>4

---------------------------------------------------------------------------
\* Labels and jumps of sequences that are put together or taken apart.
LEMMA AllIs ==
    ASSUME NEW s, NEW key
    PROVE  key \in All(s) <=> \E j \in 1..Len(s) : key \in Keys(s[j])
  BY DEF All

LEMMA TargetsIs ==
    ASSUME NEW s, NEW ops, NEW l
    PROVE  l \in Targets(s, ops) <=> \E j \in 1..Len(s) : IsInst(s[j], ops) /\ s[j].node.i.to = l
  BY DEF Targets

LEMMA JoinedAll ==
    ASSUME NEW s, NEW t, IsSeq(s), IsSeq(t)
    PROVE  All(Joined(s, t)) = All(s) \cup All(t)
  <1>1. ASSUME NEW key, key \in All(s) \cup All(t)
        PROVE  key \in All(Joined(s, t))
    <2>1. CASE key \in All(s)
      <3>1. PICK j \in 1..Len(s) : key \in Keys(s[j])
        BY <2>1, AllIs
      <3>2. j \in 1..Len(Joined(s, t)) /\ Joined(s, t)[j] = s[j]
        BY JoinedParts
      <3> QED
        BY <3>1, <3>2, AllIs
    <2>2. CASE key \in All(t)
      <3>1. PICK j \in 1..Len(t) : key \in Keys(t[j])
        BY <2>2, AllIs
      <3>2. Len(s) + j \in 1..Len(Joined(s, t)) /\ Joined(s, t)[Len(s) + j] = t[j]
        BY JoinedParts
      <3> QED
        BY <3>1, <3>2, AllIs
    <2> QED
      BY <1>1, <2>1, <2>2
  <1>2. ASSUME NEW key, key \in All(Joined(s, t))
        PROVE  key \in All(s) \cup All(t)
    <2>1. PICK j \in 1..Len(Joined(s, t)) : key \in Keys(Joined(s, t)[j])
      BY <1>2, AllIs
    <2>2. CASE j \in 1..Len(s)
      <3>1. Joined(s, t)[j] = s[j]
        BY <2>2, JoinedParts
      <3> QED
        BY <2>1, <2>2, <3>1, AllIs
    <2>3. CASE \E k \in 1..Len(t) : j = Len(s) + k
      <3>1. PICK k \in 1..Len(t) : j = Len(s) + k
        BY <2>3
      <3>2. Joined(s, t)[j] = t[k]
        BY <3>1, JoinedParts
      <3> QED
        BY <2>1, <3>2, AllIs
    <2> QED
      BY <2>2, <2>3, JoinedParts
  <1> QED
    BY <1>1, <1>2

LEMMA JoinedTargets ==
    ASSUME NEW s, NEW t, IsSeq(s), IsSeq(t), NEW ops
    PROVE  Targets(Joined(s, t), ops) = Targets(s, ops) \cup Targets(t, ops)
  <1>1. ASSUME NEW l, l \in Targets(s, ops) \cup Targets(t, ops)
        PROVE  l \in Targets(Joined(s, t), ops)
    <2>1. CASE l \in Targets(s, ops)
      <3>1. PICK j \in 1..Len(s) : IsInst(s[j], ops) /\ s[j].node.i.to = l
        BY <2>1, TargetsIs
      <3>2. j \in 1..Len(Joined(s, t)) /\ Joined(s, t)[j] = s[j]
        BY JoinedParts
      <3> QED
        BY <3>1, <3>2, TargetsIs
    <2>2. CASE l \in Targets(t, ops)
      <3>1. PICK j \in 1..Len(t) : IsInst(t[j], ops) /\ t[j].node.i.to = l
        BY <2>2, TargetsIs
      <3>2. Len(s) + j \in 1..Len(Joined(s, t)) /\ Joined(s, t)[Len(s) + j] = t[j]
        BY JoinedParts
      <3> QED
        BY <3>1, <3>2, TargetsIs
    <2> QED
      BY <1>1, <2>1, <2>2
  <1>2. ASSUME NEW l, l \in Targets(Joined(s, t), ops)
        PROVE  l \in Targets(s, ops) \cup Targets(t, ops)
    <2>1. PICK j \in 1..Len(Joined(s, t)) :
            IsInst(Joined(s, t)[j], ops) /\ Joined(s, t)[j].node.i.to = l
      BY <1>2, TargetsIs
    <2>2. CASE j \in 1..Len(s)
      <3>1. Joined(s, t)[j] = s[j]
        BY <2>2, JoinedParts
      <3> QED
        BY <2>1, <2>2, <3>1, TargetsIs
    <2>3. CASE \E k \in 1..Len(t) : j = Len(s) + k
      <3>1. PICK k \in 1..Len(t) : j = Len(s) + k
        BY <2>3
      <3>2. Joined(s, t)[j] = t[k]
        BY <3>1, JoinedParts
      <3> QED
        BY <2>1, <3>2, TargetsIs
    <2> QED
      BY <2>2, <2>3, JoinedParts
  <1> QED
    BY <1>1, <1>2

LEMMA JoinedOnce ==
    ASSUME NEW s, NEW t, IsSeq(s), IsSeq(t), Once(s), Once(t), All(s) \cap All(t) = {}
    PROVE  Once(Joined(s, t))
  <1> SUFFICES ASSUME NEW j \in 1..Len(Joined(s, t)), NEW k \in 1..Len(Joined(s, t)), j # k,
                      NEW key, key \in Keys(Joined(s, t)[j]), key \in Keys(Joined(s, t)[k])
               PROVE  FALSE
    BY DEF Once
  <1>1. /\ \A n \in 1..Len(s) : Joined(s, t)[n] = s[n]
        /\ \A n \in 1..Len(t) : Joined(s, t)[Len(s) + n] = t[n]
    BY JoinedParts
  <1>2. CASE j \in 1..Len(s) /\ k \in 1..Len(s)
    <2>1. Joined(s, t)[j] = s[j] /\ Joined(s, t)[k] = s[k]
      BY <1>2, JoinedParts
    <2> QED
      BY <1>2, <2>1 DEF Once
  <1>3. CASE j \in 1..Len(s) /\ k \notin 1..Len(s)
    <2>1. PICK m \in 1..Len(t) : k = Len(s) + m
      BY <1>3, JoinedParts
    <2>2. Joined(s, t)[j] = s[j] /\ Joined(s, t)[k] = t[m]
      BY <1>1, <1>3, <2>1
    <2>3. key \in All(s) /\ key \in All(t)
      BY <1>3, <2>2, AllIs
    <2> QED
      BY <2>3
  <1>4. CASE j \notin 1..Len(s) /\ k \in 1..Len(s)
    <2>1. PICK m \in 1..Len(t) : j = Len(s) + m
      BY <1>4, JoinedParts
    <2>2. Joined(s, t)[k] = s[k] /\ Joined(s, t)[j] = t[m]
      BY <1>1, <1>4, <2>1
    <2>3. key \in All(s) /\ key \in All(t)
      BY <1>4, <2>2, AllIs
    <2> QED
      BY <2>3
  <1>5. CASE j \notin 1..Len(s) /\ k \notin 1..Len(s)
    <2>1. PICK m \in 1..Len(t) : j = Len(s) + m
      BY <1>5, JoinedParts
    <2>2. PICK n \in 1..Len(t) : k = Len(s) + n
      BY <1>5, JoinedParts
    <2>3. Joined(s, t)[j] = t[m] /\ Joined(s, t)[k] = t[n] /\ m # n
      BY <2>1, <2>2, JoinedParts
    <2> QED
      BY <2>3 DEF Once
  <1> QED
    BY <1>2, <1>3, <1>4, <1>5

LEMMA HeadItem ==
    ASSUME NEW s, IsSeq(s), s # <<>>
    PROVE  /\ All(s) = Keys(Head(s)) \cup All(Tail(s))
           /\ \A ops : Targets(s, ops) = Targets(Tail(s), ops)
                \cup IF IsInst(Head(s), ops) THEN {Head(s).node.i.to} ELSE {}
           /\ Once(s) => Once(Tail(s)) /\ Keys(Head(s)) \cap All(Tail(s)) = {}
  <1> DEFINE t == Tail(s)
             h == Head(s)
  <1>1. /\ Len(s) \in Nat \ {0} /\ h = s[1] /\ IsSeq(t) /\ Len(t) = Len(s) - 1
        /\ \A j \in 1..Len(t) : j + 1 \in 1..Len(s) /\ t[j] = s[j + 1]
        /\ \A j \in 1..Len(s) : j = 1 \/ (j - 1 \in 1..Len(t) /\ s[j] = t[j - 1])
    BY HeadAndTail
  <1>2. 1 \in 1..Len(s)
    BY <1>1
  <1> HIDE DEF t, h
  <1>3. ASSUME NEW key
        PROVE  key \in All(s) <=> key \in Keys(h) \/ key \in All(t)
    <2>1. ASSUME key \in All(s)
          PROVE  key \in Keys(h) \/ key \in All(t)
      <3>1. PICK j \in 1..Len(s) : key \in Keys(s[j])
        BY <2>1, AllIs
      <3>2. CASE j = 1
        BY <1>1, <3>1, <3>2
      <3>3. CASE j - 1 \in 1..Len(t) /\ s[j] = t[j - 1]
        BY <3>1, <3>3, AllIs
      <3> QED
        BY <1>1, <3>2, <3>3
    <2>2. ASSUME key \in Keys(h)
          PROVE  key \in All(s)
      BY <1>1, <1>2, <2>2, AllIs
    <2>3. ASSUME key \in All(t)
          PROVE  key \in All(s)
      <3>1. PICK j \in 1..Len(t) : key \in Keys(t[j])
        BY <2>3, AllIs
      <3>2. j + 1 \in 1..Len(s) /\ t[j] = s[j + 1]
        BY <1>1
      <3> QED
        BY <3>1, <3>2, AllIs
    <2> QED
      BY <2>1, <2>2, <2>3
  <1>4. ASSUME NEW ops, NEW l
        PROVE  l \in Targets(s, ops) <=> l \in Targets(t, ops) \/ (IsInst(h, ops) /\ l = h.node.i.to)
    <2>1. ASSUME l \in Targets(s, ops)
          PROVE  l \in Targets(t, ops) \/ (IsInst(h, ops) /\ l = h.node.i.to)
      <3>1. PICK j \in 1..Len(s) : IsInst(s[j], ops) /\ s[j].node.i.to = l
        BY <2>1, TargetsIs
      <3>2. CASE j = 1
        BY <1>1, <3>1, <3>2
      <3>3. CASE j - 1 \in 1..Len(t) /\ s[j] = t[j - 1]
        BY <3>1, <3>3, TargetsIs
      <3> QED
        BY <1>1, <3>2, <3>3
    <2>2. ASSUME IsInst(h, ops) /\ l = h.node.i.to
          PROVE  l \in Targets(s, ops)
      BY <1>1, <1>2, <2>2, TargetsIs
    <2>3. ASSUME l \in Targets(t, ops)
          PROVE  l \in Targets(s, ops)
      <3>1. PICK j \in 1..Len(t) : IsInst(t[j], ops) /\ t[j].node.i.to = l
        BY <2>3, TargetsIs
      <3>2. j + 1 \in 1..Len(s) /\ t[j] = s[j + 1]
        BY <1>1
      <3> QED
        BY <3>1, <3>2, TargetsIs
    <2> QED
      BY <2>1, <2>2, <2>3
  <1>5. ASSUME Once(s)
        PROVE  Once(t) /\ Keys(h) \cap All(t) = {}
    <2>1. ASSUME NEW j \in 1..Len(t), NEW k \in 1..Len(t), j # k
          PROVE  Keys(t[j]) \cap Keys(t[k]) = {}
      <3>1. j + 1 \in 1..Len(s) /\ k + 1 \in 1..Len(s) /\ j + 1 # k + 1
        BY <1>1, <2>1
      <3> QED
        BY <1>1, <1>5, <3>1 DEF Once
    <2>2. ASSUME NEW key, key \in Keys(h), key \in All(t)
          PROVE  FALSE
      <3>1. PICK j \in 1..Len(t) : key \in Keys(t[j])
        BY <2>2, AllIs
      <3>2. j + 1 \in 1..Len(s) /\ j + 1 # 1 /\ t[j] = s[j + 1]
        BY <1>1
      <3> QED
        BY <1>1, <1>2, <1>5, <2>2, <3>1, <3>2 DEF Once
    <2> QED
      BY <2>1, <2>2 DEF Once
  <1>6. All(s) = Keys(h) \cup All(t)
    BY <1>3
  <1>7. ASSUME NEW ops
        PROVE  Targets(s, ops) = Targets(t, ops) \cup IF IsInst(h, ops) THEN {h.node.i.to} ELSE {}
    BY <1>4
  <1> QED
    BY <1>5, <1>6, <1>7 DEF h, t

---------------------------------------------------------------------------
(* What is put in front of the traversal.                                  *)

\* An item for the current function, which is not a function itself.
Inner(x, p, f) ==
  \/ x.node.k = "inst"
  \/ x.node.k # "inst" /\ x.node.k # "fundef" /\ f # Global /\ x.node \in NodesOf(p, f)

\* Such items, with the labels K, each once, and jumps to the labels J.
Part(s, K, J) ==
  /\ IsSeq(s) /\ \A j \in 1..Len(s) : Inner(s[j], source, fundef)
  /\ Once(s) /\ All(s) = K /\ Targets(s, {"label"}) = K
  /\ Targets(s, Leaps) = J /\ Targets(s, {"jsr"}) \subseteq Callable

LEMMA OneItem ==
    ASSUME NEW x, NEW ops
    PROVE  /\ IsSeq(<<x>>) /\ Len(<<x>>) = 1 /\ <<x>>[1] = x /\ Once(<<x>>)
           /\ All(<<x>>) = Keys(x)
           /\ Targets(<<x>>, ops) = IF IsInst(x, ops) THEN {x.node.i.to} ELSE {}
  <1>1. IsSeq(<<x>>)
    BY Tuples
  <1>2. Len(<<x>>) = 1 /\ <<x>>[1] = x
    OBVIOUS
  <1>3. 1..Len(<<x>>) = {1}
    BY <1>2
  <1>4. Once(<<x>>)
    BY <1>3 DEF Once
  <1>5. All(<<x>>) = Keys(x)
    BY <1>2, <1>3 DEF All
  <1>6. \A l : l \in Targets(<<x>>, ops) <=> IsInst(x, ops) /\ l = x.node.i.to
    BY <1>2, <1>3, TargetsIs
  <1> QED
    BY <1>1, <1>2, <1>4, <1>5, <1>6

LEMMA PartJoined ==
    ASSUME NEW s, NEW t, NEW K, NEW L, NEW I, NEW J,
           Part(s, K, I), Part(t, L, J), K \cap L = {}
    PROVE  Part(s \o t, K \cup L, I \cup J)
  <1> DEFINE u == Joined(s, t)
  <1>1. IsSeq(s) /\ IsSeq(t)
    BY DEF Part
  <1>2. IsSeq(u) /\ \A j \in 1..Len(u) : Inner(u[j], source, fundef)
    <2>1. IsSeq(u)
      BY <1>1, JoinedParts
    <2>2. ASSUME NEW j \in 1..Len(u)
          PROVE  Inner(u[j], source, fundef)
      <3>1. CASE j \in 1..Len(s)
        <4>1. u[j] = s[j]
          BY <1>1, <3>1, JoinedParts
        <4> QED
          BY <3>1, <4>1 DEF Part
      <3>2. CASE \E k \in 1..Len(t) : j = Len(s) + k
        <4>1. PICK k \in 1..Len(t) : j = Len(s) + k
          BY <3>2
        <4>2. u[j] = t[k]
          BY <1>1, <4>1, JoinedParts
        <4> QED
          BY <4>2 DEF Part
      <3> QED
        BY <1>1, <3>1, <3>2, JoinedParts
    <2> QED
      BY <2>1, <2>2
  <1>3. Once(u)
    BY <1>1, JoinedOnce DEF Part
  <1>4. All(u) = K \cup L
    BY <1>1, JoinedAll DEF Part
  <1>5. \A ops : Targets(u, ops) = Targets(s, ops) \cup Targets(t, ops)
    BY <1>1, JoinedTargets
  <1>6. Part(u, K \cup L, I \cup J)
    <2> HIDE DEF u
    <2> QED
      BY <1>2, <1>3, <1>4, <1>5 DEF Part
  <1> QED
    BY <1>6 DEF Joined

LEMMA PartEmpty == Part(<<>>, {}, {})
  <1>1. IsSeq(<<>>)
    BY Tuples
  <1>2. 1..Len(<<>>) = {}
    OBVIOUS
  <1>3. Once(<<>>) /\ All(<<>>) = {} /\ \A ops : Targets(<<>>, ops) = {}
    BY <1>2 DEF Once, All, Targets
  <1> QED
    BY <1>1, <1>2, <1>3 DEF Part

LEMMA PartOne ==
    ASSUME NEW i, i.op = "label" => KeyOf(i.to) = i.to, i.op = "jsr" => i.to \in Callable
    PROVE  Part(<<Inst(i)>>, IF i.op = "label" THEN {i.to} ELSE {}, IF i.op \in Leaps THEN {i.to} ELSE {})
  <1> DEFINE x == Inst(i)
             K == IF i.op = "label" THEN {i.to} ELSE {}
             J == IF i.op \in Leaps THEN {i.to} ELSE {}
  <1>1. x.node.k = "inst" /\ x.node.i = i /\ \A ops : IsInst(x, ops) <=> i.op \in ops
    BY DEF Inst, Sub, IsInst
  <1> HIDE DEF x
  <1>2. Keys(x) = K
    BY <1>1 DEF Keys
  <1>3. Targets(<<x>>, {"label"}) = K /\ Targets(<<x>>, Leaps) = J
    BY <1>1, OneItem
  <1>4. Targets(<<x>>, {"jsr"}) \subseteq Callable
    <2>1. Targets(<<x>>, {"jsr"}) = IF IsInst(x, {"jsr"}) THEN {x.node.i.to} ELSE {}
      BY OneItem
    <2>2. IsInst(x, {"jsr"}) => i.op = "jsr" /\ x.node.i.to = i.to
      BY <1>1
    <2> QED
      BY <2>1, <2>2
  <1>5. IsSeq(<<x>>) /\ Once(<<x>>) /\ All(<<x>>) = K
    BY <1>2, OneItem
  <1>6. \A j \in 1..Len(<<x>>) : Inner(<<x>>[j], source, fundef)
    BY <1>1 DEF Inner
  <1> HIDE DEF K, J
  <1>7. Part(<<x>>, K, J)
    BY <1>3, <1>4, <1>5, <1>6 DEF Part
  <1> QED
    BY <1>7 DEF x, K, J

LEMMA PartInst ==
    ASSUME NEW i, i.op \notin Leaps \cup {"label", "jsr"}
    PROVE  Part(<<Inst(i)>>, {}, {})
  BY PartOne

LEMMA PartLabel ==
    ASSUME NEW l, KeyOf(l) = l
    PROVE  Part(<<LabelHere(l)>>, {l}, {})
  <1> DEFINE i == OpL("label", 0, l)
  <1>1. i.op = "label" /\ i.to = l
    BY DEF OpL
  <1> HIDE DEF i
  <1>2. Part(<<Inst(i)>>, {l}, {})
    BY <1>1, PartOne DEF Leaps
  <1> QED
    BY <1>2 DEF i, LabelHere

LEMMA PartJump ==
    ASSUME NEW op \in Leaps, NEW l
    PROVE  Part(<<Inst(OpL(op, 0, l))>>, {}, {l})
  <1> DEFINE i == OpL(op, 0, l)
  <1>1. i.op = op /\ i.to = l
    BY DEF OpL
  <1> HIDE DEF i
  <1>2. Part(<<Inst(i)>>, {}, {l})
    BY <1>1, PartOne DEF Leaps
  <1> QED
    BY <1>2 DEF i, LabelHere

LEMMA PartCall ==
    ASSUME NEW n, NEW l \in Callable
    PROVE  Part(<<Inst(OpL("jsr", n, l))>>, {}, {})
  <1> DEFINE i == OpL("jsr", n, l)
  <1>1. i.op = "jsr" /\ i.to = l
    BY DEF OpL
  <1> HIDE DEF i
  <1>2. Part(<<Inst(i)>>, {}, {})
    BY <1>1, PartOne DEF Leaps
  <1> QED
    BY <1>2 DEF i, LabelHere

LEMMA NodeItems ==
    ASSUME NEW p, NEW f, f # Global, NEW ns \in Seq(NodesOf(p, f)), NEW t,
           \A n \in NodesOf(p, f) : n.k # "inst" /\ n.k # "fundef",
           NEW s, s = [j \in DOMAIN ns |-> Sub(ns[j], t)]
    PROVE  /\ IsSeq(s)
           /\ \A j \in 1..Len(s) :
                Inner(s[j], p, f) /\ s[j].node.k # "inst" /\ s[j].node.k # "fundef"
  <1>1. DOMAIN ns = 1..Len(ns) /\ Len(ns) \in Nat /\ \A j \in 1..Len(ns) : ns[j] \in NodesOf(p, f)
    OBVIOUS
  <1>2. s = [j \in 1..Len(ns) |-> s[j]]
    BY <1>1
  <1>3. \A j \in 1..Len(ns) : s[j].node = ns[j]
    BY <1>1 DEF Sub
  <1>4. IsSeq(s) /\ Len(s) = Len(ns)
    BY <1>1, <1>2, MadeSeq
  <1>5. ASSUME NEW j \in 1..Len(s)
        PROVE  s[j].node \in NodesOf(p, f) /\ s[j].node.k # "inst" /\ s[j].node.k # "fundef"
    BY <1>1, <1>3, <1>4
  <1>6. \A j \in 1..Len(s) : Inner(s[j], p, f)
    BY <1>5 DEF Inner
  <1> QED
    BY <1>4, <1>5, <1>6

LEMMA StmtsItems ==
    ASSUME NEW p, NEW f, f # Global, NEW ns \in Seq(NodesOf(p, f)),
           \A n \in NodesOf(p, f) : n.k # "inst" /\ n.k # "fundef"
    PROVE  /\ IsSeq(Stmts(ns))
           /\ \A j \in 1..Len(Stmts(ns)) :
                /\ Inner(Stmts(ns)[j], p, f)
                /\ Stmts(ns)[j].node.k # "inst" /\ Stmts(ns)[j].node.k # "fundef"
  <1> DEFINE s == Stmts(ns)
  <1>1. s = [j \in DOMAIN ns |-> Sub(ns[j], "void")]
    BY DEF Stmts
  <1> HIDE DEF s
  <1>2. /\ IsSeq(s)
        /\ \A j \in 1..Len(s) :
             Inner(s[j], p, f) /\ s[j].node.k # "inst" /\ s[j].node.k # "fundef"
    BY <1>1, NodeItems, ZenonT(30)
  <1> QED
    BY <1>2 DEF s

LEMMA BareItems ==
    ASSUME NEW s, \A j \in 1..Len(s) : s[j].node.k # "inst" /\ s[j].node.k # "fundef"
    PROVE  Once(s) /\ All(s) = {} /\ \A ops : Targets(s, ops) = {}
  <1>1. \A j \in 1..Len(s) : Keys(s[j]) = {} /\ \A ops : ~IsInst(s[j], ops)
    BY DEF Keys, IsInst
  <1>2. Once(s) /\ All(s) = {}
    BY <1>1 DEF Once, All
  <1>3. ASSUME NEW ops
        PROVE  Targets(s, ops) = {}
    BY <1>1, TargetsIs
  <1> QED
    BY <1>2, <1>3

LEMMA PartNodes ==
    ASSUME fundef # Global, NEW ns \in Seq(NodesOf(source, fundef)), NEW t,
           \A n \in NodesOf(source, fundef) : n.k # "inst" /\ n.k # "fundef"
    PROVE  Part([j \in DOMAIN ns |-> Sub(ns[j], t)], {}, {})
  <1> DEFINE s == [j \in DOMAIN ns |-> Sub(ns[j], t)]
  <1>1. /\ IsSeq(s)
        /\ \A j \in 1..Len(s) :
             Inner(s[j], source, fundef) /\ s[j].node.k # "inst" /\ s[j].node.k # "fundef"
    BY NodeItems
  <1> HIDE DEF s
  <1>2. Part(s, {}, {})
    BY <1>1, BareItems DEF Part
  <1> QED
    BY <1>2 DEF s

LEMMA PartNode ==
    ASSUME fundef # Global, NEW n \in NodesOf(source, fundef), NEW t, n.k # "inst" /\ n.k # "fundef"
    PROVE  Part(<<Sub(n, t)>>, {}, {})
  <1> DEFINE x == Sub(n, t)
  <1>1. x.node = n
    BY DEF Sub
  <1> HIDE DEF x
  <1>2. Keys(x) = {} /\ Inner(x, source, fundef) /\ \A ops : ~IsInst(x, ops)
    BY <1>1 DEF Keys, Inner, IsInst
  <1>3. \A j \in 1..Len(<<x>>) : Inner(<<x>>[j], source, fundef)
    BY <1>2
  <1>4. Part(<<x>>, {}, {})
    BY <1>2, <1>3, OneItem DEF Part
  <1> QED
    BY <1>4 DEF x

---------------------------------------------------------------------------
(* What a step does to the code.                                           *)

\* The code gets longer; what is new is for the current function.
Longer ==
  /\ IsSeq(code') /\ IsSeq(owner') /\ Len(owner') = Len(code')
  /\ \A j \in 1..Len(code) : j \in 1..Len(code') /\ code'[j] = code[j] /\ owner'[j] = owner[j]
  /\ \A j \in 1..Len(code') : j \notin 1..Len(code) => owner'[j] = fundef

\* What is new has to do with no label.
Plain ==
  \A j \in 1..Len(code') :
    j \notin 1..Len(code) => code'[j].op \notin Leaps \cup {"label", "jsr"}

LEMMA EmitLonger ==
    ASSUME IsSeq(code), IsSeq(owner), Len(owner) = Len(code), NEW is, IsSeq(is),
           code' = code \o is, owner' = owner \o [j \in DOMAIN is |-> fundef]
    PROVE  /\ Longer /\ Len(code') = Len(code) + Len(is)
           /\ \A j \in 1..Len(is) : code'[Len(code) + j] = is[j]
           /\ \A j \in 1..Len(code') : j \notin 1..Len(code) =>
                \E k \in 1..Len(is) : j = Len(code) + k /\ code'[j] = is[k]
  <1> DEFINE os == [j \in DOMAIN is |-> fundef]
             c == code'
             o == owner'
  <1>1. Len(is) \in Nat /\ DOMAIN is = 1..Len(is) /\ Len(code) \in Nat
    BY SeqParts
  <1>2. os = [j \in 1..Len(is) |-> os[j]] /\ \A j \in 1..Len(is) : os[j] = fundef
    BY <1>1
  <1>3. c = Joined(code, is) /\ o = Joined(owner, os)
    BY DEF Joined
  <1> HIDE DEF os, c, o
  <1>4. IsSeq(os) /\ Len(os) = Len(is)
    BY <1>1, <1>2, MadeSeq
  <1>5. /\ IsSeq(c) /\ Len(c) = Len(code) + Len(is)
        /\ \A j \in 1..Len(code) : j \in 1..Len(c) /\ c[j] = code[j]
        /\ \A j \in 1..Len(is) : c[Len(code) + j] = is[j]
        /\ \A j \in 1..Len(c) : j \in 1..Len(code) \/ \E k \in 1..Len(is) : j = Len(code) + k
    BY <1>3, JoinedParts
  <1>6. /\ IsSeq(o) /\ Len(o) = Len(code) + Len(is)
        /\ \A j \in 1..Len(code) : o[j] = owner[j]
        /\ \A j \in 1..Len(is) : o[Len(code) + j] = os[j]
    <2>1. /\ IsSeq(o) /\ Len(o) = Len(owner) + Len(os)
          /\ \A j \in 1..Len(owner) : o[j] = owner[j]
          /\ \A j \in 1..Len(os) : o[Len(owner) + j] = os[j]
      <3>1. /\ IsSeq(Joined(owner, os)) /\ Len(Joined(owner, os)) = Len(owner) + Len(os)
            /\ \A j \in 1..Len(owner) : j \in 1..Len(Joined(owner, os)) /\ Joined(owner, os)[j] = owner[j]
            /\ \A j \in 1..Len(os) : Len(owner) + j \in 1..Len(Joined(owner, os)) /\ Joined(owner, os)[Len(owner) + j] = os[j]
            /\ \A j \in 1..Len(Joined(owner, os)) : j \in 1..Len(owner) \/ \E k \in 1..Len(os) : j = Len(owner) + k
        BY <1>4, JoinedParts, Zenon
      <3> QED
        BY <1>3, <3>1
    <2> QED
      BY <1>4, <2>1
  <1>7. ASSUME NEW j \in 1..Len(c), j \notin 1..Len(code)
        PROVE  o[j] = fundef /\ \E k \in 1..Len(is) : j = Len(code) + k /\ c[j] = is[k]
    <2>1. PICK k \in 1..Len(is) : j = Len(code) + k
      BY <1>5, <1>7
    <2> QED
      BY <1>2, <1>5, <1>6, <2>1
  <1> QED
    BY <1>5, <1>6, <1>7 DEF Longer, c, o

LEMMA SameLonger ==
    ASSUME IsSeq(code), IsSeq(owner), Len(owner) = Len(code), code' = code, owner' = owner
    PROVE  Longer /\ Plain
  BY DEF Longer, Plain

LEMMA PlainKeeps ==
    ASSUME Longer, Plain, UNCHANGED <<source, label>>
    PROVE  /\ Marks' = Marks /\ Marked' = Marked /\ Callable' = Callable
           /\ \A l, f : Placed(l, f) => Placed(l, f)'
           /\ \A f : Settled(f)' <=> Settled(f)
  <1>1. Marks' = Marks
    BY DEF Longer, Plain, Marks
  <1>2. \A k \in Marks : code'[k] = code[k] /\ owner'[k] = owner[k]
    BY DEF Longer, Marks
  <1>3. Marked' = Marked
    BY <1>1, <1>2 DEF Marked
  <1>4. \A f : Settled(f)' <=> Settled(f)
    BY <1>3 DEF Settled
  <1>5. Callable' = Callable
    BY <1>4 DEF Callable
  <1>6. ASSUME NEW l, NEW f, Placed(l, f)
        PROVE  Placed(l, f)'
    BY <1>1, <1>2, <1>6 DEF Placed
  <1> QED
    BY <1>1, <1>3, <1>4, <1>5, <1>6

---------------------------------------------------------------------------
(* Nodes of the program.                                                   *)
LEMMA ProgramFits ==
    ASSUME \E i \in DOMAIN Sources : source = Sources[i]
    PROVE  /\ FunsFit(source)
           /\ \A f \in DOMAIN source.funs :
                /\ source.funs[f].body \in Seq(NodesOf(source, f))
                /\ \A n \in NodesOf(source, f) : NodeFits(source, f, n)
  BY SourcesAssumption

LEMMA NodeKinds ==
    ASSUME \E i \in DOMAIN Sources : source = Sources[i], NEW f \in DOMAIN source.funs,
           NEW n \in NodesOf(source, f)
    PROVE  NodeFits(source, f, n) /\ n.k # "inst" /\ n.k # "fundef"
  <1>1. NodeFits(source, f, n)
    BY ProgramFits
  <1>2. n.k \in {"num", "var", "elem", "bin", "mon", "call", "cond", "pop", "assign", "alloc",
                 "store", "return", "if", "while", "dowhile"}
    BY <1>1 DEF NodeFits
  <1> QED
    BY <1>1, <1>2

---------------------------------------------------------------------------
(* Items in front of the rest.                                             *)
LEMMA ItemsThenFunctions ==
    ASSUME NEW s, NEW t, IsSeq(s), IsSeq(t), todo' = Joined(s, t),
           \A j \in 1..Len(s) : ItemFits(s[j], source', fundef') /\ s[j].node.k # "fundef",
           \A j \in 1..Len(t) : ItemFits(t[j], source', fundef'),
           \A j, k \in 1..Len(t) : j < k /\ t[j].node.k = "fundef" => t[k].node.k = "fundef"
    PROVE  Order'
  <1> DEFINE u == todo'
  <1>1. u = Joined(s, t)
    OBVIOUS
  <1> HIDE DEF u
  <1>2. /\ \A j \in 1..Len(s) : u[j] = s[j]
        /\ \A j \in 1..Len(t) : u[Len(s) + j] = t[j]
        /\ \A j \in 1..Len(u) : j \in 1..Len(s) \/ \E k \in 1..Len(t) : j = Len(s) + k
    BY <1>1, JoinedParts
  <1>3. Len(s) \in Nat /\ Len(t) \in Nat
    BY SeqParts
  <1>4. ASSUME NEW j \in 1..Len(u)
        PROVE  ItemFits(u[j], source', fundef')
    BY <1>2 DEF u
  <1>5. ASSUME NEW j \in 1..Len(u), NEW k \in 1..Len(u), j < k, u[j].node.k = "fundef"
        PROVE  u[k].node.k = "fundef"
    <2>1. j \notin 1..Len(s)
      BY <1>2, <1>5
    <2>2. PICK m \in 1..Len(t) : j = Len(s) + m
      BY <1>2, <2>1
    <2>3. k \notin 1..Len(s)
      BY <1>3, <1>5, <2>2
    <2>4. PICK n \in 1..Len(t) : k = Len(s) + n
      BY <1>2, <2>3
    <2>5. u[j] = t[m] /\ u[k] = t[n] /\ m < n
      BY <1>2, <1>3, <1>5, <2>2, <2>4
    <2> QED
      BY <1>5, <2>5
  <1> QED
    BY <1>4, <1>5 DEF Order, Ordered, u

LEMMA RestOrder ==
    ASSUME Order, IsSeq(todo), todo # <<>>
    PROVE  /\ \A j \in 1..Len(Tail(todo)) : ItemFits(Tail(todo)[j], source, fundef)
           /\ \A j, k \in 1..Len(Tail(todo)) :
                j < k /\ Tail(todo)[j].node.k = "fundef" => Tail(todo)[k].node.k = "fundef"
           /\ Head(todo).node.k = "fundef" => \A j \in 1..Len(Tail(todo)) : Tail(todo)[j].node.k = "fundef"
  <1> DEFINE t == Tail(todo)
  <1>1. /\ Len(todo) \in Nat \ {0} /\ Head(todo) = todo[1] /\ Len(t) = Len(todo) - 1
        /\ \A j \in 1..Len(t) : j + 1 \in 1..Len(todo) /\ t[j] = todo[j + 1]
    BY HeadAndTail
  <1> HIDE DEF t
  <1>2. \A j \in 1..Len(t) : ItemFits(t[j], source, fundef)
    BY <1>1 DEF Order, Ordered
  <1>3. ASSUME NEW j \in 1..Len(t), NEW k \in 1..Len(t), j < k, t[j].node.k = "fundef"
        PROVE  t[k].node.k = "fundef"
    <2>1. j + 1 \in 1..Len(todo) /\ k + 1 \in 1..Len(todo) /\ j + 1 < k + 1
      BY <1>1, <1>3
    <2> QED
      BY <1>1, <1>3, <2>1 DEF Order, Ordered
  <1>4. ASSUME NEW j \in 1..Len(t), todo[1].node.k = "fundef"
        PROVE  t[j].node.k = "fundef"
    <2>1. 1 \in 1..Len(todo) /\ j + 1 \in 1..Len(todo) /\ 1 < j + 1
      BY <1>1
    <2> QED
      BY <1>1, <1>4, <2>1 DEF Order, Ordered
  <1> QED
    BY <1>1, <1>2, <1>3, <1>4 DEF t

LEMMA OrderKept ==
    ASSUME Order, IsSeq(todo), todo # <<>>, NEW s, IsSeq(s), \A j \in 1..Len(s) : Inner(s[j], source, fundef),
           Then(s), UNCHANGED <<source, fundef>>
    PROVE  Order'
  <1> DEFINE t == Tail(todo)
  <1>1. IsSeq(t) /\ todo' = Joined(s, t)
    BY HeadAndTail DEF Then, Joined
  <1>2. /\ \A j \in 1..Len(t) : ItemFits(t[j], source, fundef)
        /\ \A j, k \in 1..Len(t) : j < k /\ t[j].node.k = "fundef" => t[k].node.k = "fundef"
    BY RestOrder
  <1> HIDE DEF t
  <1>3. \A x : ItemFits(x, source', fundef') <=> ItemFits(x, source, fundef)
    BY DEF ItemFits
  <1>4. \A x : Inner(x, source, fundef) => ItemFits(x, source, fundef) /\ x.node.k # "fundef"
    BY DEF ItemFits, Inner
  <1>5. \A j \in 1..Len(s) : ItemFits(s[j], source', fundef') /\ s[j].node.k # "fundef"
    BY <1>3, <1>4
  <1>6. \A j \in 1..Len(t) : ItemFits(t[j], source', fundef')
    BY <1>2, <1>3
  <1> QED
    BY <1>1, <1>2, <1>5, <1>6, ItemsThenFunctions

LEMMA RestItems ==
    ASSUME IsSeq(todo), todo # <<>>, NEW s, NEW K, NEW J, Part(s, K, J), Then(s)
    PROVE  /\ IsSeq(todo') /\ All(todo') = K \cup All(Tail(todo))
           /\ \A ops : Targets(todo', ops) = Targets(s, ops) \cup Targets(Tail(todo), ops)
           /\ Once(todo) /\ K \cap All(todo) = {} => Once(todo')
  <1> DEFINE t == Tail(todo)
             u == todo'
  <1>1. IsSeq(t) /\ u = Joined(s, t)
    BY HeadAndTail DEF Then, Joined
  <1>2. All(t) \subseteq All(todo) /\ (Once(todo) => Once(t))
    BY HeadItem
  <1> HIDE DEF t, u
  <1>3. IsSeq(s) /\ Once(s) /\ All(s) = K
    BY DEF Part
  <1>4. IsSeq(u) /\ All(u) = K \cup All(t)
    BY <1>1, <1>3, JoinedAll, JoinedParts
  <1>5. \A ops : Targets(u, ops) = Targets(s, ops) \cup Targets(t, ops)
    BY <1>1, <1>3, JoinedTargets
  <1>6. ASSUME Once(todo), K \cap All(todo) = {}
        PROVE  Once(u)
    <2>1. All(s) \cap All(t) = {}
      BY <1>2, <1>3, <1>6
    <2> QED
      BY <1>1, <1>2, <1>3, <1>6, <2>1, JoinedOnce
  <1> QED
    BY <1>4, <1>5, <1>6 DEF t, u

---------------------------------------------------------------------------
(* A node of a function is replaced by what it consists of.                *)
LEMMA Expanded ==
    ASSUME Inv, todo # <<>>, Head(todo).node.k # "inst", Head(todo).node.k # "fundef",
           NEW s, NEW K, NEW J, Part(s, K, J), J \subseteq K, Then(s), Longer, Plain,
           counts' \in [ifs : Nat, loops : Nat, lfs : Nat],
           counts.ifs <= counts'.ifs, counts.loops <= counts'.loops,
           \A l \in K : CountedIn(l, counts') /\ ~CountedIn(l, counts) /\ KeyOf(l)[1] # "fun" /\ KeyOf(l) = l,
           UNCHANGED <<source, label, fundef>>
    PROVE  Inv'
  <1> USE DEF Inv
  <1>1. /\ IsSeq(s) /\ \A j \in 1..Len(s) : Inner(s[j], source, fundef)
        /\ Targets(s, {"label"}) = K /\ Targets(s, Leaps) = J /\ Targets(s, {"jsr"}) \subseteq Callable
    BY DEF Part
  <1>2. Marks' = Marks /\ Marked' = Marked /\ Callable' = Callable
    BY PlainKeeps
  <1>3. /\ \A l, f : Placed(l, f) => Placed(l, f)'
        /\ \A f : Settled(f)' <=> Settled(f)
    BY PlainKeeps
  <1>4. \A k \in Marks : k \in 1..Len(code) /\ code'[k] = code[k]
    BY DEF Longer, Marks
  <1>5. /\ All(Tail(todo)) = All(todo)
        /\ \A ops : Targets(Tail(todo), ops) = Targets(todo, ops)
    <2>1. Keys(Head(todo)) = {} /\ \A ops : ~IsInst(Head(todo), ops)
      BY DEF Keys, IsInst
    <2>2. IsSeq(todo)
      BY DEF Shapes
    <2>3. All(Tail(todo)) = All(todo)
      <3>1. All(todo) = Keys(Head(todo)) \cup All(Tail(todo))
        BY <2>2, HeadItem
      <3> QED
        BY <2>1, <3>1
    <2>4. ASSUME NEW ops
          PROVE  Targets(Tail(todo), ops) = Targets(todo, ops)
      <3>1. Targets(todo, ops) = Targets(Tail(todo), ops)
              \cup IF IsInst(Head(todo), ops) THEN {Head(todo).node.i.to} ELSE {}
        BY <2>2, HeadItem
      <3> QED
        BY <2>1, <3>1
    <2> QED
      BY <2>3, <2>4
  <1>6. /\ IsSeq(todo') /\ All(todo') = K \cup All(todo)
        /\ \A ops : Targets(todo', ops) = Targets(s, ops) \cup Targets(todo, ops)
        /\ Once(todo) /\ K \cap All(todo) = {} => Once(todo')
    BY <1>5, RestItems DEF Shapes
  <1>7. K \cap (Marked \cup All(todo)) = {}
    BY DEF Unique
  <1>8. Shapes'
    BY <1>2, <1>6 DEF Shapes, Longer
  <1>9. Order'
    BY <1>1, OrderKept DEF Shapes
  <1>10. Unique'
    <2>1. ASSUME NEW j \in Marks', NEW k \in Marks', KeyOf(code'[j].to) = KeyOf(code'[k].to)
          PROVE  j = k
      BY <1>2, <1>4, <2>1 DEF Unique
    <2>2. Once(todo')
      BY <1>6, <1>7 DEF Unique
    <2>3. Marked' \cap All(todo') = {}
      BY <1>2, <1>6, <1>7 DEF Unique
    <2>4. ASSUME NEW key \in Marked' \cup All(todo')
          PROVE  CountedIn(key, counts')
      <3>1. CASE key \in K
        BY <3>1
      <3>2. CASE key \in Marked \cup All(todo)
        <4>1. CountedIn(key, counts)
          BY <3>2 DEF Unique
        <4> QED
          BY <4>1 DEF CountedIn, Shapes
      <3> QED
        BY <1>2, <1>6, <3>1, <3>2
    <2> QED
      BY <2>1, <2>2, <2>3, <2>4 DEF Unique
  <1>11. Final'
    <2>1. ASSUME NEW f \in DOMAIN source.funs
          PROVE  <<"fun", f>> \in Marked' \cup All(todo') <=> Settled(f)'
      <3>1. <<"fun", f>> \notin K
        <4>1. <<"fun", f>>[1] = "fun"
          OBVIOUS
        <4> QED
          BY <4>1
      <3>2. <<"fun", f>> \in Marked \cup All(todo) <=> Settled(f)
        BY DEF Final
      <3> QED
        BY <1>2, <1>3, <1>6, <3>1, <3>2
    <2>2. ASSUME NEW k \in Marks', KeyOf(code'[k].to)[1] = "fun"
          PROVE  \E f \in DOMAIN source.funs : code'[k].to = label[f]
      BY <1>2, <1>4, <2>2 DEF Final
    <2>3. \A l \in Targets(todo', {"label"}) : KeyOf(l)[1] # "fun"
      BY <1>1, <1>6 DEF Final
    <2> QED
      BY <2>1, <2>2, <2>3 DEF Final
  <1>12. Landing'
    <2>1. ASSUME NEW k \in 1..Len(code'), code'[k].op \in Leaps
          PROVE  \/ Placed(code[k].to, owner[k])'
                 \/ owner'[k] = fundef /\ code'[k].to \in Targets(todo', {"label"})
      <3>1. k \in 1..Len(code) /\ code'[k] = code[k] /\ owner'[k] = owner[k]
        BY <2>1 DEF Longer, Plain
      <3>2. \/ Placed(code[k].to, owner[k])
            \/ owner[k] = fundef /\ code[k].to \in Targets(todo, {"label"})
        BY <2>1, <3>1 DEF Landing
      <3>3. CASE Placed(code[k].to, owner[k])
        <4>1. PICK m \in Marks : code[m].to = code[k].to /\ owner[m] = owner[k]
          BY <3>3 DEF Placed
        <4>2. code'[m].to = code'[k].to /\ owner'[m] = owner'[k]
          BY <1>4, <3>1, <4>1 DEF Longer
        <4> QED
          BY <1>2, <4>1, <4>2 DEF Placed
      <3>4. CASE owner[k] = fundef /\ code[k].to \in Targets(todo, {"label"})
        BY <1>6, <3>1, <3>4
      <3> QED
        BY <3>2, <3>3, <3>4
    <2>2. ASSUME NEW l \in Targets(todo', Leaps)
          PROVE  l \in Targets(todo', {"label"}) \/ Placed(l, fundef)'
      BY <1>1, <1>3, <1>6 DEF Landing
    <2>3. ASSUME NEW k \in 1..Len(code'), code'[k].op = "jsr"
          PROVE  code'[k].to \in Callable'
      <3>1. k \in 1..Len(code) /\ code'[k] = code[k]
        BY <2>3 DEF Longer, Plain
      <3> QED
        BY <1>2, <2>3, <3>1 DEF Landing
    <2>4. Targets(todo', {"jsr"}) \subseteq Callable'
      BY <1>1, <1>2, <1>6 DEF Landing
    <2> QED
      BY <2>1, <2>2, <2>3, <2>4 DEF Landing
  <1> QED
    BY <1>8, <1>9, <1>10, <1>11, <1>12

\* An instruction is emitted.
LEMMA InstStep ==
    ASSUME Inv, CGinst
    PROVE  Inv'
  <1> DEFINE i == Node.i
             n == Len(code) + 1
             t == Tail(todo)
  <1> USE DEF Inv
  <1>1. /\ todo # <<>> /\ Head(todo).node.k = "inst" /\ Head(todo).node.i = i
        /\ Emit(<<i>>) /\ Then(<<>>) /\ UNCHANGED <<source, label, fundef, counts>>
    BY DEF CGinst, At, Only, Node
  <1>2. /\ IsSeq(todo) /\ IsSeq(code) /\ IsSeq(owner) /\ Len(owner) = Len(code) /\ Len(code) \in Nat
        /\ counts \in [ifs : Nat, loops : Nat, lfs : Nat]
    BY SeqParts DEF Shapes
  <1>3. Keys(Head(todo)) = IF i.op = "label" THEN {KeyOf(i.to)} ELSE {}
    BY <1>1 DEF Keys, IsInst
  <1>4. \A ops : IsInst(Head(todo), ops) <=> i.op \in ops
    BY <1>1 DEF IsInst
  <1>5. /\ Longer /\ n \in 1..Len(code') /\ n \notin 1..Len(code) /\ code'[n] = i /\ owner'[n] = fundef
        /\ \A j \in 1..Len(code') : j \in 1..Len(code) \/ j = n
    <2> DEFINE is == <<i>>
    <2>1. IsSeq(is) /\ Len(is) = 1 /\ is[1] = i
      BY OneItem
    <2>2. code' = code \o is /\ owner' = owner \o [j \in DOMAIN is |-> fundef]
      BY <1>1 DEF Emit
    <2> HIDE DEF is
    <2>3. /\ Longer /\ Len(code') = Len(code) + Len(is)
          /\ \A j \in 1..Len(is) : code'[Len(code) + j] = is[j]
          /\ \A j \in 1..Len(code') : j \notin 1..Len(code) =>
               \E k \in 1..Len(is) : j = Len(code) + k /\ code'[j] = is[k]
      BY <1>2, <2>1, <2>2, EmitLonger
    <2>4. n \in 1..Len(code') /\ n \notin 1..Len(code)
      BY <1>2, <2>1, <2>3
    <2> QED
      BY <1>2, <2>1, <2>3, <2>4 DEF Longer
  <1> HIDE DEF n, i
  <1>6. IsSeq(todo') /\ All(todo') = All(t) /\ \A ops : Targets(todo', ops) = Targets(t, ops)
    <2>1. /\ IsSeq(todo') /\ All(todo') = {} \cup All(t)
          /\ \A ops : Targets(todo', ops) = Targets(<<>>, ops) \cup Targets(t, ops)
      BY <1>1, <1>2, RestItems, PartEmpty
    <2>2. 1..Len(<<>>) = {}
      OBVIOUS
    <2>3. \A ops : Targets(<<>>, ops) = {}
      BY <2>2 DEF Targets
    <2> QED
      BY <2>1, <2>3
  <1>7. Once(todo) => Once(todo')
    BY <1>1, <1>2, RestItems, PartEmpty
  <1>8. /\ All(todo) = Keys(Head(todo)) \cup All(t)
        /\ Once(todo) => Keys(Head(todo)) \cap All(t) = {}
    BY <1>1, <1>2, HeadItem
  <1>9. ASSUME NEW ops
        PROVE  Targets(todo, ops) = Targets(t, ops) \cup IF i.op \in ops THEN {i.to} ELSE {}
    <2>1. Targets(todo, ops) = Targets(Tail(todo), ops)
            \cup IF IsInst(Head(todo), ops) THEN {Head(todo).node.i.to} ELSE {}
      BY <1>1, <1>2, HeadItem
    <2> QED
      BY <1>1, <1>4, <2>1
  <1> HIDE DEF t
  <1>10. \A k \in Marks : k \in 1..Len(code) /\ k \in Marks' /\ code'[k] = code[k] /\ owner'[k] = owner[k]
    BY <1>5 DEF Longer, Marks
  <1>11. \A k \in Marks' : k \in Marks \/ (k = n /\ code'[k] = i /\ i.op = "label")
    BY <1>5 DEF Longer, Marks
  <1>12. i.op = "label" => n \in Marks'
    BY <1>5 DEF Marks
  <1>13. Marked' = Marked \cup Keys(Head(todo))
    <2>1. ASSUME NEW key \in Marked'
          PROVE  key \in Marked \cup Keys(Head(todo))
      <3>1. PICK k \in Marks' : key = KeyOf(code'[k].to)
        BY <2>1 DEF Marked
      <3>2. CASE k \in Marks
        BY <1>10, <3>1, <3>2 DEF Marked
      <3>3. CASE code'[k] = i /\ i.op = "label"
        BY <1>3, <3>1, <3>3
      <3> QED
        BY <1>11, <3>2, <3>3
    <2>2. ASSUME NEW key \in Marked
          PROVE  key \in Marked'
      <3>1. PICK k \in Marks : key = KeyOf(code[k].to)
        BY <2>2 DEF Marked
      <3> QED
        BY <1>10, <3>1 DEF Marked
    <2>3. ASSUME NEW key \in Keys(Head(todo))
          PROVE  key \in Marked'
      BY <1>3, <1>5, <1>12, <2>3 DEF Marked
    <2> QED
      BY <2>1, <2>2, <2>3
  <1>14. i.op = "label" => KeyOf(i.to)[1] # "fun"
    BY <1>9 DEF Final
  <1>15. \A f : <<"fun", f>> \in Marked' <=> <<"fun", f>> \in Marked
    <2>1. \A f : <<"fun", f>>[1] = "fun"
      OBVIOUS
    <2> QED
      BY <1>3, <1>13, <1>14, <2>1
  <1>16. \A f : Settled(f)' <=> Settled(f)
    BY <1>1, <1>15 DEF Settled
  <1>17. Callable' = Callable
    BY <1>1, <1>16 DEF Callable
  <1>18. Marked \cap All(todo) = {} /\ Once(todo)
    BY DEF Unique
  <1>19. Shapes'
    BY <1>1, <1>5, <1>6, <1>13 DEF Shapes, Longer
  <1>20. Order'
    <2>1. IsSeq(<<>>) /\ \A j \in 1..Len(<<>>) : Inner(<<>>[j], source, fundef)
      BY PartEmpty DEF Part
    <2> QED
      BY <1>1, <1>2, <2>1, OrderKept
  <1>21. Unique'
    <2>1. ASSUME NEW j \in Marks', NEW k \in Marks', KeyOf(code'[j].to) = KeyOf(code'[k].to)
          PROVE  j = k
      <3>1. CASE j \in Marks /\ k \in Marks
        BY <1>10, <2>1, <3>1 DEF Unique
      <3>2. ASSUME NEW m \in Marks, i.op = "label"
            PROVE  KeyOf(code'[m].to) # KeyOf(i.to)
        <4>1. KeyOf(code'[m].to) \in Marked
          BY <1>10 DEF Marked
        <4>2. KeyOf(i.to) \in All(todo)
          BY <1>3, <1>8, <3>2
        <4> QED
          BY <1>18, <4>1, <4>2
      <3> QED
        BY <1>11, <2>1, <3>1, <3>2
    <2>2. Once(todo') /\ Marked' \cap All(todo') = {}
      BY <1>6, <1>7, <1>8, <1>13, <1>18
    <2>3. \A key \in Marked' \cup All(todo') : CountedIn(key, counts')
      BY <1>1, <1>6, <1>8, <1>13 DEF Unique
    <2> QED
      BY <2>1, <2>2, <2>3 DEF Unique
  <1>22. Final'
    <2>1. \A f \in DOMAIN source.funs : <<"fun", f>> \in Marked' \cup All(todo') <=> Settled(f)'
      <3>1. Marked' \cup All(todo') = Marked \cup All(todo)
        BY <1>6, <1>8, <1>13
      <3> QED
        BY <1>16, <3>1 DEF Final
    <2>2. ASSUME NEW k \in Marks', KeyOf(code'[k].to)[1] = "fun"
          PROVE  \E f \in DOMAIN source.funs : code'[k].to = label[f]
      BY <1>10, <1>11, <1>14, <2>2 DEF Final
    <2>3. \A l \in Targets(todo', {"label"}) : KeyOf(l)[1] # "fun"
      BY <1>6, <1>9 DEF Final
    <2> QED
      BY <1>1, <2>1, <2>2, <2>3 DEF Final
  <1>23. Landing'
    <2>1. ASSUME NEW l, i.op = "label", l = i.to
          PROVE  Placed(l, fundef)'
      BY <1>1, <1>5, <1>12, <2>1 DEF Placed
    <2>2. ASSUME NEW l \in Targets(todo, {"label"})
          PROVE  l \in Targets(todo', {"label"}) \/ Placed(l, fundef)'
      BY <1>6, <1>9, <2>1, <2>2
    <2>3. ASSUME NEW k \in 1..Len(code'), code'[k].op \in Leaps
          PROVE  \/ Placed(code[k].to, owner[k])'
                 \/ owner'[k] = fundef /\ code'[k].to \in Targets(todo', {"label"})
      <3>1. CASE k \in 1..Len(code)
        <4>1. code'[k] = code[k] /\ owner'[k] = owner[k]
          BY <1>5, <3>1 DEF Longer
        <4>2. CASE Placed(code[k].to, owner[k])
          <5>1. PICK m \in Marks : code[m].to = code[k].to /\ owner[m] = owner[k]
            BY <4>2 DEF Placed
          <5> QED
            BY <1>10, <4>1, <5>1 DEF Placed
        <4>3. CASE owner[k] = fundef /\ code[k].to \in Targets(todo, {"label"})
          <5>1. CASE code[k].to \in Targets(todo', {"label"})
            BY <4>1, <4>3, <5>1
          <5>2. CASE i.op = "label" /\ code[k].to = i.to
            BY <1>1, <1>5, <1>12, <4>1, <4>3, <5>2 DEF Placed
          <5> QED
            BY <1>6, <1>9, <4>3, <5>1, <5>2
        <4> QED
          BY <2>3, <3>1, <4>1, <4>2, <4>3 DEF Landing
      <3>2. CASE k = n
        <4>1. code'[k] = i /\ owner'[k] = fundef /\ i.op \in Leaps /\ i.op # "label"
          BY <1>5, <2>3, <3>2 DEF Leaps
        <4>2. i.to \in Targets(todo, Leaps)
          BY <1>9, <4>1
        <4>3. CASE i.to \in Targets(todo, {"label"})
          BY <1>6, <1>9, <4>1, <4>3
        <4>4. CASE Placed(i.to, fundef)
          <5>1. PICK m \in Marks : code[m].to = i.to /\ owner[m] = fundef
            BY <4>4 DEF Placed
          <5> QED
            BY <1>10, <4>1, <5>1 DEF Placed
        <4> QED
          BY <4>2, <4>3, <4>4 DEF Landing
      <3> QED
        BY <1>5, <3>1, <3>2
    <2>4. ASSUME NEW l \in Targets(todo', Leaps)
          PROVE  l \in Targets(todo', {"label"}) \/ Placed(l, fundef)'
      <3>1. l \in Targets(todo, {"label"}) \/ Placed(l, fundef)
        BY <1>6, <1>9, <2>4 DEF Landing
      <3>2. CASE l \in Targets(todo, {"label"})
        BY <2>2, <3>2
      <3>3. CASE Placed(l, fundef)
        <4>1. PICK m \in Marks : code[m].to = l /\ owner[m] = fundef
          BY <3>3 DEF Placed
        <4> QED
          BY <1>1, <1>10, <4>1 DEF Placed
      <3> QED
        BY <3>1, <3>2, <3>3
    <2>5. ASSUME NEW k \in 1..Len(code'), code'[k].op = "jsr"
          PROVE  code'[k].to \in Callable'
      <3>1. CASE k \in 1..Len(code)
        BY <1>5, <1>17, <2>5, <3>1 DEF Landing, Longer
      <3>2. CASE k = n
        BY <1>5, <1>9, <1>17, <2>5, <3>2 DEF Landing
      <3> QED
        BY <1>5, <3>1, <3>2
    <2>6. Targets(todo', {"jsr"}) \subseteq Callable'
      BY <1>6, <1>9, <1>17 DEF Landing
    <2> QED
      BY <1>1, <2>3, <2>4, <2>5, <2>6 DEF Landing
  <1> QED
    BY <1>19, <1>20, <1>21, <1>22, <1>23

---------------------------------------------------------------------------
(* Functions.                                                              *)
FunItems(fs) == [j \in DOMAIN fs |-> Sub([k |-> "fundef", f |-> fs[j]], "void")]

LEMMA FunctionItems ==
    ASSUME NEW D, NEW fs \in Seq(D), \A j, k \in DOMAIN fs : fs[j] = fs[k] => j = k
    PROVE  LET s == FunItems(fs)
           IN /\ IsSeq(s) /\ Once(s)
              /\ \A key : key \in All(s) <=> \E g \in D : Contains(fs, g) /\ key = <<"fun", g>>
              /\ \A ops : Targets(s, ops) = {}
              /\ \A j \in 1..Len(s) : s[j].node.k = "fundef" /\ s[j].node.f \in D
  <1> DEFINE s == FunItems(fs)
  <1>1. DOMAIN fs = 1..Len(fs) /\ Len(fs) \in Nat /\ \A j \in 1..Len(fs) : fs[j] \in D
    OBVIOUS
  <1>2. s = [j \in 1..Len(fs) |-> s[j]]
    BY <1>1 DEF FunItems
  <1>3. \A j \in 1..Len(fs) : s[j].node.k = "fundef" /\ s[j].node.f = fs[j]
    BY <1>1 DEF Sub, FunItems
  <1> HIDE DEF s
  <1>4. IsSeq(s) /\ Len(s) = Len(fs)
    BY <1>1, <1>2, MadeSeq
  <1>5. \A j \in 1..Len(s) : Keys(s[j]) = {<<"fun", fs[j]>>} /\ \A ops : ~IsInst(s[j], ops)
    BY <1>3, <1>4 DEF Keys, IsInst
  <1>6. Once(s)
    <2>1. ASSUME NEW j \in 1..Len(s), NEW k \in 1..Len(s), j # k
          PROVE  Keys(s[j]) \cap Keys(s[k]) = {}
      <3>1. <<"fun", fs[j]>> # <<"fun", fs[k]>>
        BY <1>1, <1>4, <2>1
      <3>2. Keys(s[j]) = {<<"fun", fs[j]>>} /\ Keys(s[k]) = {<<"fun", fs[k]>>}
        BY <1>5
      <3> QED
        BY <3>1, <3>2
    <2> QED
      BY <2>1 DEF Once
  <1>7. ASSUME NEW key
        PROVE  key \in All(s) <=> \E g \in D : Contains(fs, g) /\ key = <<"fun", g>>
    <2>1. key \in All(s) <=> \E j \in 1..Len(fs) : key = <<"fun", fs[j]>>
      BY <1>4, <1>5, AllIs
    <2>2. \A g : Contains(fs, g) <=> \E j \in 1..Len(fs) : fs[j] = g
      BY DEF Contains
    <2> QED
      BY <1>1, <2>1, <2>2
  <1>8. ASSUME NEW ops
        PROVE  Targets(s, ops) = {}
    BY <1>5, TargetsIs
  <1>9. \A j \in 1..Len(s) : s[j].node.k = "fundef" /\ s[j].node.f \in D
    BY <1>1, <1>3, <1>4
  <1> QED
    BY <1>4, <1>6, <1>7, <1>8, <1>9 DEF s

\* What is left when a function comes are functions, and so has no label.
LEMMA FunctionsLeft ==
    ASSUME Shapes, Order, todo # <<>>, Head(todo).node.k = "fundef"
    PROVE  /\ Head(todo).node.f \in DOMAIN source.funs
           /\ \A ops : Targets(Tail(todo), ops) = {} /\ Targets(todo, ops) = {}
           /\ \A j \in 1..Len(Tail(todo)) :
                Tail(todo)[j].node.k = "fundef" /\ Tail(todo)[j].node.f \in DOMAIN source.funs
  <1> DEFINE t == Tail(todo)
  <1>1. IsSeq(todo) /\ (\E i \in DOMAIN Sources : source = Sources[i])
        /\ (fundef # Global => fundef \in DOMAIN source.funs)
    BY DEF Shapes
  <1>2. ASSUME NEW x, ItemFits(x, source, fundef), x.node.k = "fundef"
        PROVE  x.node.f \in DOMAIN source.funs
    <2>1. x.node.k # "inst"
      BY <1>2
    <2>2. ~(fundef # Global /\ x.node \in NodesOf(source, fundef))
      BY <1>1, <1>2, NodeKinds
    <2> QED
      BY <1>2, <2>1, <2>2 DEF ItemFits
  <1>3. Head(todo) = todo[1] /\ 1 \in 1..Len(todo)
    BY <1>1, HeadAndTail
  <1>4. Head(todo).node.f \in DOMAIN source.funs
    BY <1>2, <1>3 DEF Order, Ordered
  <1>5. \A j \in 1..Len(t) : t[j].node.k = "fundef" /\ ItemFits(t[j], source, fundef)
    BY <1>1, RestOrder
  <1> HIDE DEF t
  <1>6. \A j \in 1..Len(t) : t[j].node.k = "fundef" /\ t[j].node.f \in DOMAIN source.funs
    BY <1>2, <1>5
  <1>7. ASSUME NEW ops
        PROVE  Targets(t, ops) = {}
    <2>1. \A j \in 1..Len(t) : ~IsInst(t[j], ops)
      BY <1>6 DEF IsInst
    <2> QED
      BY <2>1, TargetsIs
  <1>8. ASSUME NEW ops
        PROVE  Targets(todo, ops) = {}
    <2>1. Targets(todo, ops) = Targets(Tail(todo), ops)
            \cup IF IsInst(Head(todo), ops) THEN {Head(todo).node.i.to} ELSE {}
      BY <1>1, HeadItem
    <2>2. ~IsInst(Head(todo), ops)
      BY DEF IsInst
    <2> QED
      BY <1>7, <2>1, <2>2 DEF t
  <1> QED
    BY <1>4, <1>6, <1>7, <1>8 DEF t

LEMMA FunctionsAppended ==
    ASSUME NEW s, NEW t, NEW p, NEW f, IsSeq(s), IsSeq(t), Ordered(s, p, f),
           \A j \in 1..Len(t) : t[j].node.k = "fundef" /\ t[j].node.f \in DOMAIN p.funs
    PROVE  Ordered(Joined(s, t), p, f)
  <1> DEFINE u == Joined(s, t)
  <1>1. /\ \A j \in 1..Len(s) : u[j] = s[j]
        /\ \A j \in 1..Len(t) : u[Len(s) + j] = t[j]
        /\ \A j \in 1..Len(u) : j \in 1..Len(s) \/ \E k \in 1..Len(t) : j = Len(s) + k
    BY JoinedParts
  <1>2. Len(s) \in Nat /\ Len(t) \in Nat
    BY SeqParts
  <1> HIDE DEF u
  <1>3. ASSUME NEW j \in 1..Len(u)
        PROVE  ItemFits(u[j], p, f)
    <2>1. CASE j \in 1..Len(s)
      BY <1>1, <2>1 DEF Ordered
    <2>2. CASE \E k \in 1..Len(t) : j = Len(s) + k
      BY <1>1, <2>2 DEF ItemFits
    <2> QED
      BY <1>1, <2>1, <2>2
  <1>4. ASSUME NEW j \in 1..Len(u), NEW k \in 1..Len(u), j < k, u[j].node.k = "fundef"
        PROVE  u[k].node.k = "fundef"
    <2>1. CASE k \in 1..Len(s)
      <3>1. j \in 1..Len(s)
        BY <1>1, <1>2, <1>4, <2>1
      <3> QED
        BY <1>1, <1>4, <2>1, <3>1 DEF Ordered
    <2>2. CASE \E m \in 1..Len(t) : k = Len(s) + m
      <3>1. PICK m \in 1..Len(t) : k = Len(s) + m
        BY <2>2
      <3>2. u[Len(s) + m] = t[m] /\ t[m].node.k = "fundef"
        BY <1>1, <3>1
      <3> QED
        BY <3>1, <3>2
    <2> QED
      BY <1>1, <2>1, <2>2
  <1> QED
    BY <1>3, <1>4 DEF Ordered, u

LEMMA FunCode ==
    ASSUME IsSeq(code), IsSeq(owner), Len(owner) = Len(code), NEW f, NEW l, NEW room,
           code' = code \o <<OpL("label", 0, l)>> \o IF room = 0 THEN <<>> ELSE <<Op1("esr", room)>>,
           owner' = owner \o IF room = 0 THEN <<f>> ELSE <<f, f>>
    PROVE  /\ IsSeq(code') /\ IsSeq(owner') /\ Len(owner') = Len(code')
           /\ \A j \in 1..Len(code) : j \in 1..Len(code') /\ code'[j] = code[j] /\ owner'[j] = owner[j]
           /\ Len(code) + 1 \in 1..Len(code')
           /\ code'[Len(code) + 1].op = "label" /\ code'[Len(code) + 1].to = l
           /\ \A j \in 1..Len(code') :
                j \in 1..Len(code) \/ j = Len(code) + 1 \/ code'[j].op = "esr"
  <1> DEFINE one == <<OpL("label", 0, l)>>
             rest == IF room = 0 THEN <<>> ELSE <<Op1("esr", room)>>
             os == IF room = 0 THEN <<f>> ELSE <<f, f>>
             c == Joined(code, one)
             d == code'
             o == owner'
  <1>1. Len(code) \in Nat
    BY SeqParts
  <1>2. IsSeq(one) /\ Len(one) = 1 /\ one[1].op = "label" /\ one[1].to = l
    <2>1. one[1] = OpL("label", 0, l) /\ IsSeq(one) /\ Len(one) = 1
      BY OneItem
    <2> QED
      BY <2>1 DEF OpL
  <1>3. IsSeq(rest) /\ IsSeq(os) /\ Len(os) = Len(rest) + 1
    <2>1. IsSeq(<<>>) /\ IsSeq(<<f>>) /\ IsSeq(<<f, f>>) /\ IsSeq(<<Op1("esr", room)>>)
      BY Tuples
    <2>2. IsSeq(rest) /\ IsSeq(os)
      BY <2>1
    <2>3. CASE room = 0
      <3>1. rest = <<>> /\ os = <<f>>
        BY <2>3
      <3>2. Len(rest) = 0 /\ Len(os) = 1
        BY <3>1
      <3> HIDE DEF rest, os
      <3> QED
        BY <2>2, <3>2
    <2>4. CASE room # 0
      <3>1. rest = <<Op1("esr", room)>> /\ os = <<f, f>>
        BY <2>4
      <3>2. Len(rest) = 1 /\ Len(os) = 2
        BY <3>1
      <3> HIDE DEF rest, os
      <3> QED
        BY <2>2, <3>2
    <2> QED
      BY <2>3, <2>4
  <1>4. \A j \in 1..Len(rest) : rest[j].op = "esr"
    BY DEF Op1
  <1>5. d = Joined(c, rest) /\ o = Joined(owner, os)
    BY DEF Joined
  <1> HIDE DEF one, rest, os, d, o
  <1>6. /\ IsSeq(c) /\ Len(c) = Len(code) + 1
        /\ \A j \in 1..Len(code) : j \in 1..Len(c) /\ c[j] = code[j]
        /\ Len(code) + 1 \in 1..Len(c) /\ c[Len(code) + 1] = one[1]
        /\ \A j \in 1..Len(c) : j \in 1..Len(code) \/ j = Len(code) + 1
    <2>1. 1 \in 1..Len(one)
      BY <1>2
    <2>2. IsJoined(c, code, one)
      BY <1>2, JoinedIs
    <2> HIDE DEF c
    <2> QED
      BY <1>1, <1>2, <2>1, <2>2 DEF IsJoined
  <1> HIDE DEF c
  <1>7. IsJoined(d, c, rest)
    BY <1>3, <1>5, <1>6, JoinedIs
  <1>8. IsJoined(o, owner, os)
    BY <1>3, <1>5, JoinedIs
  <1>9. Len(o) = Len(d) /\ IsSeq(o) /\ IsSeq(d)
    BY <1>1, <1>3, <1>6, <1>7, <1>8 DEF IsJoined
  <1>10. \A j \in 1..Len(code) : j \in 1..Len(d) /\ d[j] = code[j] /\ o[j] = owner[j]
    BY <1>6, <1>7, <1>8 DEF IsJoined
  <1>11. /\ Len(code) + 1 \in 1..Len(d)
         /\ d[Len(code) + 1].op = "label" /\ d[Len(code) + 1].to = l
    BY <1>2, <1>6, <1>7 DEF IsJoined
  <1>12. ASSUME NEW j \in 1..Len(d)
         PROVE  j \in 1..Len(code) \/ j = Len(code) + 1 \/ d[j].op = "esr"
    <2>1. CASE j \in 1..Len(c)
      BY <1>6, <2>1
    <2>2. CASE \E k \in 1..Len(rest) : j = Len(c) + k
      <3>1. PICK k \in 1..Len(rest) : j = Len(c) + k
        BY <2>2
      <3>2. d[Len(c) + k] = rest[k]
        BY <1>7 DEF IsJoined
      <3> QED
        BY <1>4, <3>1, <3>2
    <2> QED
      BY <1>7, <2>1, <2>2 DEF IsJoined
  <1> QED
    BY <1>9, <1>10, <1>11, <1>12 DEF d, o

\* The items for a function: its statements, a return, its local functions.
LEMMA FunTodo ==
    ASSUME Shapes, Order, Unique, CGfundef, NEW f, f = Head(todo).node.f
    PROVE  /\ IsSeq(todo') /\ Ordered(todo', source, f)
           /\ Targets(todo', {"label"}) = {} /\ Targets(todo', Leaps) = {} /\ Targets(todo', {"jsr"}) = {}
           /\ \A key : key \in All(todo') <=>
                \/ key \in All(Tail(todo))
                \/ \E g \in DOMAIN source.funs : source.funs[g].parent = f /\ key = <<"fun", g>>
           /\ (\A g \in DOMAIN source.funs : source.funs[g].parent = f => <<"fun", g>> \notin All(todo))
                => Once(todo')
  <1> DEFINE def == source.funs[f]
             a == Stmts(def.body)
             e == IF EndsOpen(def.body, def.value) THEN <<Inst(Op0("return"))>> ELSE <<>>
             b == FunItems(def.locals)
             t == Tail(todo)
             ae == Joined(a, e)
             aeb == Joined(ae, b)
             u == todo'
             Ops == {{"label"}, Leaps, {"jsr"}}
  <1>1. /\ todo # <<>> /\ Head(todo).node.k = "fundef"
        /\ u = Joined(aeb, t)
    BY DEF CGfundef, At, Node, Then, Joined, FunItems
  <1>2. IsSeq(todo) /\ (\E i \in DOMAIN Sources : source = Sources[i]) /\ Once(todo)
    BY DEF Shapes, Unique
  <1>3. /\ f \in DOMAIN source.funs
        /\ \A ops : Targets(t, ops) = {}
        /\ \A j \in 1..Len(t) : t[j].node.k = "fundef" /\ t[j].node.f \in DOMAIN source.funs
    BY <1>1, FunctionsLeft
  <1>4. IsSeq(t) /\ Once(t) /\ All(t) \subseteq All(todo)
    <2>1. IsSeq(t)
      BY <1>1, <1>2, HeadAndTail
    <2>2. Once(t) /\ All(todo) = Keys(Head(todo)) \cup All(t)
      BY <1>1, <1>2, HeadItem
    <2> QED
      BY <2>1, <2>2
  <1>5. \A ops \in Ops : "return" \notin ops
    BY DEF Leaps
  <1>6. FunsFit(source) /\ f # Global /\ def.body \in Seq(NodesOf(source, f))
    BY <1>2, <1>3, ProgramFits DEF FunsFit
  <1>7. /\ def.locals \in Seq(DOMAIN source.funs)
        /\ \A j, k \in DOMAIN def.locals : def.locals[j] = def.locals[k] => j = k
        /\ \A g \in DOMAIN source.funs : source.funs[g].parent = f <=> Contains(def.locals, g)
    BY <1>3, <1>6 DEF FunsFit
  <1>8. /\ IsSeq(a)
        /\ \A j \in 1..Len(a) : Inner(a[j], source, f) /\ a[j].node.k # "inst" /\ a[j].node.k # "fundef"
    <2>1. \A n \in NodesOf(source, f) : n.k # "inst" /\ n.k # "fundef"
      BY <1>2, <1>3, NodeKinds
    <2>2. f # Global /\ def.body \in Seq(NodesOf(source, f))
      BY <1>6
    <2> HIDE DEF def
    <2> QED
      BY <2>1, <2>2, StmtsItems
  <1> HIDE DEF a
  <1>9. Once(a) /\ All(a) = {} /\ \A ops : Targets(a, ops) = {}
    BY <1>8, BareItems
  <1>10. /\ IsSeq(e) /\ Once(e) /\ All(e) = {} /\ \A ops \in Ops : Targets(e, ops) = {}
         /\ \A j \in 1..Len(e) : e[j].node.k = "inst"
    <2>1. CASE e = <<>>
      <3>1. 1..Len(<<>>) = {}
        OBVIOUS
      <3> HIDE DEF e
      <3>2. IsSeq(e) /\ 1..Len(e) = {}
        BY <2>1, <3>1, Tuples
      <3> QED
        BY <3>2 DEF Once, All, Targets
    <2>2. CASE e = <<Inst(Op0("return"))>>
      <3> DEFINE x == Inst(Op0("return"))
      <3>1. x.node.k = "inst" /\ x.node.i.op = "return"
        BY DEF Inst, Sub, Op0
      <3> HIDE DEF x, e
      <3>2. Keys(x) = {} /\ \A ops \in Ops : ~IsInst(x, ops)
        BY <1>5, <3>1 DEF Keys, IsInst
      <3>3. /\ IsSeq(<<x>>) /\ Len(<<x>>) = 1 /\ <<x>>[1] = x /\ Once(<<x>>) /\ All(<<x>>) = Keys(x)
            /\ \A ops : Targets(<<x>>, ops) = IF IsInst(x, ops) THEN {x.node.i.to} ELSE {}
        BY OneItem
      <3>4. \A j \in 1..Len(<<x>>) : <<x>>[j].node.k = "inst"
        BY <3>1, <3>3
      <3>5. e = <<x>>
        BY <2>2 DEF x
      <3> QED
        BY <3>2, <3>3, <3>4, <3>5
    <2> QED
      BY <2>1, <2>2
  <1> HIDE DEF e
  <1>11. /\ IsSeq(b) /\ Once(b)
         /\ \A key : key \in All(b) <=> \E g \in DOMAIN source.funs : Contains(def.locals, g) /\ key = <<"fun", g>>
         /\ \A ops : Targets(b, ops) = {}
         /\ \A j \in 1..Len(b) : b[j].node.k = "fundef" /\ b[j].node.f \in DOMAIN source.funs
    BY <1>7, FunctionItems
  <1> HIDE DEF b, t
  <1>12. IsJoined(ae, a, e)
    BY <1>8, <1>10, JoinedIs
  <1>13. IsSeq(ae) /\ Once(ae) /\ All(ae) = {} /\ \A ops \in Ops : Targets(ae, ops) = {}
    <2>1. IsSeq(ae)
      BY <1>12 DEF IsJoined
    <2>2. All(ae) = {}
      BY <1>8, <1>9, <1>10, JoinedAll
    <2>3. Once(ae)
      BY <1>8, <1>9, <1>10, JoinedOnce
    <2>4. ASSUME NEW ops \in Ops
          PROVE  Targets(ae, ops) = {}
      <3>1. Targets(ae, ops) = Targets(a, ops) \cup Targets(e, ops)
        BY <1>8, <1>10, JoinedTargets
      <3> QED
        BY <1>8, <1>9, <1>10, <3>1
    <2> QED
      BY <2>1, <2>2, <2>3, <2>4
  <1>14. Ordered(ae, source, f)
    <2>1. ASSUME NEW j \in 1..Len(ae)
          PROVE  ItemFits(ae[j], source, f) /\ ae[j].node.k # "fundef"
      <3>1. CASE j \in 1..Len(a)
        <4>1. ae[j] = a[j]
          BY <1>12, <3>1 DEF IsJoined
        <4> QED
          BY <1>8, <3>1, <4>1 DEF Inner, ItemFits
      <3>2. CASE \E k \in 1..Len(e) : j = Len(a) + k
        <4>1. PICK k \in 1..Len(e) : j = Len(a) + k
          BY <3>2
        <4>2. ae[j] = e[k]
          BY <1>12, <4>1 DEF IsJoined
        <4> QED
          BY <1>10, <4>2 DEF ItemFits
      <3> QED
        BY <1>12, <3>1, <3>2 DEF IsJoined
    <2> QED
      BY <2>1 DEF Ordered
  <1> HIDE DEF ae
  <1>15. /\ IsSeq(aeb) /\ Once(aeb) /\ All(aeb) = All(b) /\ \A ops \in Ops : Targets(aeb, ops) = {}
         /\ Ordered(aeb, source, f)
    <2>1. IsSeq(aeb)
      BY <1>11, <1>13, JoinedParts
    <2>2. All(aeb) = All(b)
      <3>1. All(aeb) = All(ae) \cup All(b)
        BY <1>11, <1>13, JoinedAll
      <3> QED
        BY <1>13, <3>1
    <2>3. Once(aeb)
      BY <1>11, <1>13, JoinedOnce
    <2>4. ASSUME NEW ops \in Ops
          PROVE  Targets(aeb, ops) = {}
      <3>1. Targets(aeb, ops) = Targets(ae, ops) \cup Targets(b, ops)
        BY <1>11, <1>13, JoinedTargets
      <3> QED
        BY <1>11, <1>13, <3>1
    <2>5. Ordered(aeb, source, f)
      BY <1>11, <1>13, <1>14, FunctionsAppended
    <2> QED
      BY <2>1, <2>2, <2>3, <2>4, <2>5
  <1> HIDE DEF aeb, u
  <1>16. IsSeq(u) /\ All(u) = All(aeb) \cup All(t) /\ \A ops \in Ops : Targets(u, ops) = {}
    <2>1. IsSeq(u)
      BY <1>1, <1>4, <1>15, JoinedParts
    <2>2. All(u) = All(aeb) \cup All(t)
      BY <1>1, <1>4, <1>15, JoinedAll
    <2>3. ASSUME NEW ops \in Ops
          PROVE  Targets(u, ops) = {}
      <3>1. Targets(u, ops) = Targets(aeb, ops) \cup Targets(t, ops)
        BY <1>1, <1>4, <1>15, JoinedTargets
      <3> QED
        BY <1>1, <1>3, <1>4, <1>15, <3>1
    <2> QED
      BY <2>1, <2>2, <2>3
  <1>17. Ordered(u, source, f)
    BY <1>1, <1>3, <1>4, <1>15, FunctionsAppended
  <1>18. \A key : key \in All(u) <=>
           \/ key \in All(t)
           \/ \E g \in DOMAIN source.funs : source.funs[g].parent = f /\ key = <<"fun", g>>
    BY <1>7, <1>11, <1>15, <1>16
  <1>19. ASSUME \A g \in DOMAIN source.funs : source.funs[g].parent = f => <<"fun", g>> \notin All(todo)
         PROVE  Once(u)
    <2>1. ASSUME NEW key \in All(aeb)
          PROVE  key \notin All(t)
      <3>1. PICK g \in DOMAIN source.funs : Contains(def.locals, g) /\ key = <<"fun", g>>
        BY <1>11, <1>15, <2>1
      <3> QED
        BY <1>4, <1>7, <1>19, <3>1
    <2> QED
      BY <1>1, <1>4, <1>15, <2>1, JoinedOnce
  <1> QED
    BY <1>16, <1>17, <1>18, <1>19 DEF u, t

LEMMA FunStep ==
    ASSUME Inv, CGfundef
    PROVE  Inv'
  <1> USE DEF Inv
  <1>1. PICK f : f = Head(todo).node.f
    OBVIOUS
  <1> DEFINE n == Len(code) + 1
             key(g) == <<"fun", g>>
             parent(g) == source.funs[g].parent
  <1>2. /\ todo # <<>> /\ Head(todo).node.k = "fundef"
        /\ fundef' = f /\ UNCHANGED source
    BY <1>1 DEF CGfundef, At, Node
  <1>3. /\ IsSeq(todo) /\ IsSeq(code) /\ IsSeq(owner) /\ Len(owner) = Len(code)
        /\ \E i \in DOMAIN Sources : source = Sources[i]
    BY DEF Shapes
  <1>4. /\ f \in DOMAIN source.funs
        /\ \A ops : Targets(todo, ops) = {}
    BY <1>1, <1>2, FunctionsLeft
  <1>5. /\ f # Global
        /\ \A g \in DOMAIN source.funs : parent(g) = f <=> Contains(source.funs[f].locals, g)
    BY <1>3, <1>4, ProgramFits DEF FunsFit
  <1>6. \A g \in DOMAIN source.funs : parent(g) # f => label'[g] = label[g]
    BY <1>1, <1>5 DEF CGfundef, Shapes, Node
  <1>7. DOMAIN label' = DOMAIN source.funs /\ \A g \in DOMAIN source.funs : KeyOf(label'[g]) = key(g)
    <2>1. DOMAIN label' = DOMAIN label /\ DOMAIN label = DOMAIN source.funs
      BY DEF CGfundef, Shapes
    <2>2. ASSUME NEW g \in DOMAIN source.funs, parent(g) = f
          PROVE  KeyOf(label'[g]) = key(g)
      <3>1. PICK m : label'[g] = <<"lf", m, g>>
        BY <1>1, <1>5, <2>1, <2>2 DEF CGfundef, Node
      <3> QED
        BY <3>1 DEF KeyOf
    <2>3. ASSUME NEW g \in DOMAIN source.funs, parent(g) # f
          PROVE  KeyOf(label'[g]) = key(g)
      BY <1>6, <2>1, <2>3 DEF Shapes
    <2> QED
      BY <2>1, <2>2, <2>3
  <1>8. counts' \in [ifs : Nat, loops : Nat, lfs : Nat] /\ counts'.ifs = counts.ifs /\ counts'.loops = counts.loops
    <2>1. Len(source.funs[f].locals) \in Nat
      BY <1>3, <1>4, ProgramFits DEF FunsFit
    <2>2. counts' = [counts EXCEPT !.lfs = @ + Len(source.funs[f].locals)]
      BY <1>1 DEF CGfundef, Node
    <2>3. PICK m \in Nat : counts' = [counts EXCEPT !.lfs = @ + m]
      BY <2>1, <2>2
    <2> QED
      BY <2>3 DEF Shapes
  <1>9. /\ IsSeq(code') /\ IsSeq(owner') /\ Len(owner') = Len(code')
        /\ \A j \in 1..Len(code) : j \in 1..Len(code') /\ code'[j] = code[j] /\ owner'[j] = owner[j]
        /\ n \in 1..Len(code') /\ code'[n].op = "label" /\ code'[n].to = label[f]
        /\ \A j \in 1..Len(code') : j \in 1..Len(code) \/ j = n \/ code'[j].op = "esr"
    <2> DEFINE room == Len(source.funs[f].vars)
    <2>1. /\ code' = code \o <<OpL("label", 0, label[f])>> \o IF room = 0 THEN <<>> ELSE <<Op1("esr", room)>>
          /\ owner' = owner \o IF room = 0 THEN <<f>> ELSE <<f, f>>
      BY <1>1 DEF CGfundef, Node
    <2>2. IsSeq(code) /\ IsSeq(owner) /\ Len(owner) = Len(code)
      BY <1>3
    <2> HIDE DEF room
    <2> QED
      BY <2>1, <2>2, FunCode, ZenonT(40)
  <1>10. n \notin 1..Len(code)
    BY <1>3, SeqParts
  <1>11. /\ IsSeq(todo') /\ Ordered(todo', source, f)
         /\ Targets(todo', {"label"}) = {} /\ Targets(todo', Leaps) = {} /\ Targets(todo', {"jsr"}) = {}
         /\ \A l : l \in All(todo') <=>
              l \in All(Tail(todo)) \/ \E g \in DOMAIN source.funs : parent(g) = f /\ l = key(g)
         /\ (\A g \in DOMAIN source.funs : parent(g) = f => key(g) \notin All(todo)) => Once(todo')
    BY <1>1, FunTodo
  <1>12. /\ All(todo) = {key(f)} \cup All(Tail(todo)) /\ key(f) \notin All(Tail(todo))
    BY <1>1, <1>2, <1>3, HeadItem DEF Keys, Unique
  <1> HIDE DEF n
  <1>13. \A k \in Marks : k \in 1..Len(code) /\ k \in Marks' /\ code'[k] = code[k] /\ owner'[k] = owner[k]
    BY <1>9 DEF Marks
  <1>14. n \in Marks' /\ \A k \in Marks' : k \in Marks \/ k = n
    BY <1>9 DEF Marks
  <1>15. KeyOf(label[f]) = key(f)
    BY <1>4 DEF Shapes
  <1>16. Marked' = Marked \cup {key(f)}
    <2>1. ASSUME NEW l \in Marked'
          PROVE  l \in Marked \cup {key(f)}
      <3>1. PICK k \in Marks' : l = KeyOf(code'[k].to)
        BY <2>1 DEF Marked
      <3> QED
        BY <1>9, <1>13, <1>14, <1>15, <3>1 DEF Marked
    <2>2. ASSUME NEW l \in Marked
          PROVE  l \in Marked'
      BY <1>13, <2>2 DEF Marked
    <2>3. key(f) \in Marked'
      BY <1>9, <1>14, <1>15 DEF Marked
    <2> QED
      BY <2>1, <2>2, <2>3
  <1>17. key(f) \notin Marked /\ Settled(f)
    BY <1>4, <1>12 DEF Unique, Final
  <1>18. \A g, h : key(g) = key(h) => g = h
    OBVIOUS
  <1>19. \A g : Settled(g)' <=> Settled(g) \/ parent(g) = f
    BY <1>2, <1>16, <1>18 DEF Settled
  <1>20. \A g \in DOMAIN source.funs : parent(g) = f => ~Settled(g) /\ key(g) \notin Marked \cup All(todo)
    BY <1>5, <1>17 DEF Settled, Final
  <1>21. \A g \in DOMAIN source.funs : Settled(g) => Settled(g)' /\ label'[g] = label[g]
    BY <1>6, <1>19, <1>20
  <1>22. Callable \subseteq Callable'
    <2>1. ASSUME NEW g \in DOMAIN source.funs, Settled(g)
          PROVE  label[g] \in Callable'
      BY <1>2, <1>21, <2>1 DEF Callable
    <2> QED
      BY <2>1 DEF Callable
  <1>23. Shapes'
    BY <1>2, <1>3, <1>4, <1>7, <1>8, <1>9, <1>11, <1>16 DEF Shapes
  <1>24. Order'
    BY <1>2, <1>11 DEF Order
  <1>25. Unique'
    <2>1. ASSUME NEW j \in Marks', NEW k \in Marks', KeyOf(code'[j].to) = KeyOf(code'[k].to)
          PROVE  j = k
      <3>1. CASE j \in Marks /\ k \in Marks
        BY <1>13, <2>1, <3>1 DEF Unique
      <3>2. ASSUME NEW m \in Marks
            PROVE  KeyOf(code'[m].to) # key(f)
        <4>1. KeyOf(code'[m].to) \in Marked
          BY <1>13 DEF Marked
        <4> QED
          BY <1>17, <4>1
      <3> QED
        BY <1>9, <1>14, <1>15, <2>1, <3>1, <3>2
    <2>2. Once(todo')
      BY <1>11, <1>20
    <2>3. ASSUME NEW l \in Marked', l \in All(todo')
          PROVE  FALSE
      <3>1. Marked \cap All(todo) = {}
        BY DEF Unique
      <3>2. CASE l \in All(Tail(todo))
        BY <1>12, <1>16, <2>3, <3>1, <3>2
      <3>3. CASE \E g \in DOMAIN source.funs : parent(g) = f /\ l = key(g)
        BY <1>12, <1>16, <1>20, <2>3, <3>3
      <3> QED
        BY <1>11, <2>3, <3>2, <3>3
    <2>4. ASSUME NEW l \in Marked' \cup All(todo')
          PROVE  CountedIn(l, counts')
      <3>1. CASE l \in Marked \cup All(todo)
        BY <1>8, <3>1 DEF Unique, CountedIn
      <3>2. CASE \E g : l = key(g)
        <4>1. l[1] = "fun"
          BY <3>2
        <4> QED
          BY <4>1 DEF CountedIn, IfLabels, LoopLabels
      <3> QED
        BY <1>11, <1>12, <1>16, <2>4, <3>1, <3>2
    <2> QED
      BY <2>1, <2>2, <2>3, <2>4 DEF Unique
  <1>26. Final'
    <2>1. ASSUME NEW g \in DOMAIN source.funs
          PROVE  key(g) \in Marked' \cup All(todo') <=> Settled(g)'
      <3>1. key(g) \in Marked \cup All(todo) <=> Settled(g)
        BY DEF Final
      <3>2. key(g) \in Marked' \cup All(todo') <=> key(g) \in Marked \cup All(todo) \/ parent(g) = f
        BY <1>11, <1>12, <1>16, <1>18
      <3> QED
        BY <1>19, <3>1, <3>2
    <2>2. ASSUME NEW k \in Marks', KeyOf(code'[k].to)[1] = "fun"
          PROVE  \E g \in DOMAIN source.funs : code'[k].to = label'[g]
      <3>1. CASE k = n
        BY <1>4, <1>9, <1>17, <1>21, <3>1
      <3>2. CASE k \in Marks
        <4>1. PICK g \in DOMAIN source.funs : code[k].to = label[g]
          BY <1>13, <2>2, <3>2 DEF Final
        <4>2. key(g) \in Marked
          <5>1. KeyOf(code[k].to) \in Marked
            BY <3>2 DEF Marked
          <5> QED
            BY <4>1, <5>1 DEF Shapes
        <4>3. Settled(g)
          BY <4>2 DEF Final
        <4> QED
          BY <1>13, <1>21, <3>2, <4>1, <4>3
      <3> QED
        BY <1>14, <3>1, <3>2
    <2> QED
      BY <1>2, <1>11, <2>1, <2>2 DEF Final
  <1>27. Landing'
    <2>1. ASSUME NEW k \in 1..Len(code'), code'[k].op \in Leaps \cup {"jsr"}
          PROVE  k \in 1..Len(code) /\ code'[k] = code[k] /\ owner'[k] = owner[k]
      <3>1. k # n /\ code'[k].op # "esr"
        BY <1>9, <2>1 DEF Leaps
      <3> QED
        BY <1>9, <3>1
    <2>2. ASSUME NEW k \in 1..Len(code'), code'[k].op \in Leaps
          PROVE  Placed(code[k].to, owner[k])'
      <3>1. k \in 1..Len(code) /\ code'[k] = code[k] /\ owner'[k] = owner[k]
        BY <2>1, <2>2
      <3>2. Placed(code[k].to, owner[k])
        BY <1>4, <2>2, <3>1 DEF Landing
      <3>3. PICK m \in Marks : code[m].to = code[k].to /\ owner[m] = owner[k]
        BY <3>2 DEF Placed
      <3> QED
        BY <1>13, <3>1, <3>3 DEF Placed
    <2>3. ASSUME NEW k \in 1..Len(code'), code'[k].op = "jsr"
          PROVE  code'[k].to \in Callable'
      BY <1>22, <2>1, <2>3 DEF Landing
    <2> QED
      BY <1>11, <2>2, <2>3 DEF Landing
  <1> QED
    BY <1>23, <1>24, <1>25, <1>26, <1>27

---------------------------------------------------------------------------
(* The handlers of nodes.                                                  *)

\* What is known of the node that is handled.
LEMMA NodeHandled ==
    ASSUME Inv, NEW k, At(k), k # "inst", k # "fundef"
    PROVE  /\ todo # <<>> /\ Head(todo).node = Node /\ Node.k = k
           /\ fundef # Global /\ Node \in NodesOf(source, fundef)
           /\ \A n \in NodesOf(source, fundef) :
                NodeFits(source, fundef, n) /\ n.k # "inst" /\ n.k # "fundef"
  <1>1. todo # <<>> /\ Head(todo).node = Node /\ Node.k = k
    BY DEF At, Node
  <1>2. /\ IsSeq(todo) /\ (\E i \in DOMAIN Sources : source = Sources[i])
        /\ (fundef # Global => fundef \in DOMAIN source.funs)
    BY DEF Inv, Shapes
  <1>3. Head(todo) = todo[1] /\ 1 \in 1..Len(todo)
    BY <1>1, <1>2, HeadAndTail
  <1>4. ItemFits(Head(todo), source, fundef)
    BY <1>3 DEF Inv, Order, Ordered
  <1>5. fundef # Global /\ Node \in NodesOf(source, fundef)
    BY <1>1, <1>4 DEF ItemFits
  <1> QED
    BY <1>1, <1>2, <1>5, NodeKinds

LEMMA PlainStep ==
    ASSUME Inv, NEW k, At(k), k # "inst", k # "fundef",
           NEW s, Part(s, {}, {}), Then(s), Longer, Plain, UNCHANGED <<source, label, fundef, counts>>
    PROVE  Inv'
  <1>1. todo # <<>> /\ Head(todo).node.k = k
    BY NodeHandled
  <1>2. counts \in [ifs : Nat, loops : Nat, lfs : Nat]
    BY DEF Inv, Shapes
  <1>3. counts' \in [ifs : Nat, loops : Nat, lfs : Nat] /\ counts.ifs <= counts'.ifs /\ counts.loops <= counts'.loops
    BY <1>2
  <1> DEFINE K == {}
  <1>4. Part(s, K, K) /\ K \subseteq K
    OBVIOUS
  <1>5. \A l \in K : CountedIn(l, counts') /\ ~CountedIn(l, counts) /\ KeyOf(l)[1] # "fun" /\ KeyOf(l) = l
    OBVIOUS
  <1> HIDE DEF K
  <1> QED
    BY <1>1, <1>3, <1>4, <1>5, Expanded

LEMMA Emitted ==
    ASSUME Inv, NEW is, IsSeq(is), Emit(is),
           \A j \in 1..Len(is) : is[j].op \notin Leaps \cup {"label", "jsr"}
    PROVE  Longer /\ Plain
  <1>1. IsSeq(code) /\ IsSeq(owner) /\ Len(owner) = Len(code)
    BY DEF Inv, Shapes
  <1>2. /\ Longer
        /\ \A j \in 1..Len(code') : j \notin 1..Len(code) =>
             \E k \in 1..Len(is) : j = Len(code) + k /\ code'[j] = is[k]
    BY <1>1, EmitLonger DEF Emit
  <1> QED
    BY <1>2 DEF Plain

LEMMA EmittedOne ==
    ASSUME Inv, NEW x, Emit(<<x>>), x.op \notin Leaps \cup {"label", "jsr"}
    PROVE  Longer /\ Plain
  <1> DEFINE is == <<x>>
  <1>1. IsSeq(is) /\ \A j \in 1..Len(is) : is[j] = x
    <2>1. IsSeq(is)
      BY Tuples
    <2>2. \A j \in 1..Len(is) : is[j] = x
      OBVIOUS
    <2> QED
      BY <2>1, <2>2
  <1>2. Emit(is)
    OBVIOUS
  <1> HIDE DEF is
  <1> QED
    BY <1>1, <1>2, Emitted

LEMMA NotEmitted ==
    ASSUME Inv, UNCHANGED <<code, owner>>
    PROVE  Longer /\ Plain
  BY SameLonger DEF Inv, Shapes

LEMMA PartTwo ==
    ASSUME NEW a, NEW b, NEW K, NEW L, NEW I, NEW J,
           Part(<<a>>, K, I), Part(<<b>>, L, J), K \cap L = {}
    PROVE  Part(<<a, b>>, K \cup L, I \cup J)
  <1>1. Part(<<a>> \o <<b>>, K \cup L, I \cup J)
    BY PartJoined
  <1>2. <<a, b>> = <<a>> \o <<b>>
    BY LongTuples
  <1> QED
    BY <1>1, <1>2, Zenon

LEMMA PartThree ==
    ASSUME NEW a, NEW b, NEW c, NEW K, NEW L, NEW M, NEW I, NEW J, NEW H,
           Part(<<a>>, K, I), Part(<<b>>, L, J), Part(<<c>>, M, H),
           K \cap L = {}, K \cap M = {}, L \cap M = {}
    PROVE  Part(<<a, b, c>>, K \cup (L \cup M), I \cup (J \cup H))
  <1>1. Part(<<b, c>>, L \cup M, J \cup H)
    BY PartTwo
  <1>2. K \cap (L \cup M) = {}
    OBVIOUS
  <1>3. Part(<<a>> \o <<b, c>>, K \cup (L \cup M), I \cup (J \cup H))
    BY <1>1, <1>2, PartJoined
  <1>4. <<a, b, c>> = <<a>> \o <<b, c>>
    BY LongTuples
  <1> QED
    BY <1>3, <1>4, Zenon

LEMMA BarePair ==
    ASSUME NEW a, NEW b, Part(<<a>>, {}, {}), Part(<<b>>, {}, {})
    PROVE  Part(<<a, b>>, {}, {})
  <1> DEFINE none == {}
  <1>1. none \cup none = none /\ none \cap none = {} /\ Part(<<a>>, none, none) /\ Part(<<b>>, none, none)
    OBVIOUS
  <1> HIDE DEF none
  <1>2. Part(<<a, b>>, none \cup none, none \cup none)
    BY <1>1, PartTwo
  <1> QED
    BY <1>1, <1>2 DEF none

LEMMA BareTriple ==
    ASSUME NEW a, NEW b, NEW c, Part(<<a>>, {}, {}), Part(<<b>>, {}, {}), Part(<<c>>, {}, {})
    PROVE  Part(<<a, b, c>>, {}, {})
  <1> DEFINE none == {}
  <1>1. /\ none \cup (none \cup none) = none /\ none \cap none = {}
        /\ Part(<<a>>, none, none) /\ Part(<<b>>, none, none) /\ Part(<<c>>, none, none)
    OBVIOUS
  <1> HIDE DEF none
  <1>2. Part(<<a, b, c>>, none \cup (none \cup none), none \cup (none \cup none))
    BY <1>1, PartThree
  <1> QED
    BY <1>1, <1>2 DEF none

LEMMA BareJoined ==
    ASSUME NEW s, NEW t, Part(s, {}, {}), Part(t, {}, {})
    PROVE  Part(s \o t, {}, {})
  <1> DEFINE none == {}
  <1>1. none \cup none = none /\ none \cap none = {} /\ Part(s, none, none) /\ Part(t, none, none)
    OBVIOUS
  <1> HIDE DEF none
  <1>2. Part(s \o t, none \cup none, none \cup none)
    BY <1>1, PartJoined
  <1> QED
    BY <1>1, <1>2 DEF none

LEMMA PlainOps ==
    ASSUME NEW x, NEW n, NEW i, NEW op, op \notin Leaps \cup {"label", "jsr"}
    PROVE  /\ Op0(op).op \notin Leaps \cup {"label", "jsr"}
           /\ Op1(op, i).op \notin Leaps \cup {"label", "jsr"}
           /\ Op2(op, n, i).op \notin Leaps \cup {"label", "jsr"}
           /\ LoadVar(x).op \notin Leaps \cup {"label", "jsr"}
           /\ StoreVar(x).op \notin Leaps \cup {"label", "jsr"}
           /\ OpenCall(x).op \notin Leaps \cup {"label", "jsr"}
  <1>1. LoadVar(x).op \in {"load", "loadn", "loadg"}
    BY DEF LoadVar, Access, Op1, Op2
  <1>2. StoreVar(x).op \in {"store", "storen", "storeg"}
    BY DEF StoreVar, Access, Op1, Op2
  <1>3. OpenCall(x).op \in {"isrl", "isr", "isrn", "isrg"}
    BY DEF OpenCall, Op0, Op2
  <1> QED
    BY <1>1, <1>2, <1>3 DEF Op0, Op1, Op2, Leaps

LEMMA PlainOp ==
    ASSUME NEW op, op \notin Leaps \cup {"label", "jsr"}
    PROVE  Part(<<Inst(Op0(op))>>, {}, {})
  BY PlainOps, PartInst

LEMMA IntStep ==
    ASSUME Inv, CGint
    PROVE  Inv'
  <1>1. At("num") /\ UNCHANGED <<source, label, fundef>>
    BY DEF CGint, Only
  <1>2. /\ fundef # Global /\ Node \in NodesOf(source, fundef) /\ Node.k = "num"
        /\ \A n \in NodesOf(source, fundef) : n.k # "inst" /\ n.k # "fundef"
        /\ NodeFits(source, fundef, Node)
    BY <1>1, NodeHandled
  <1>3. Part(<<>>, {}, {}) /\ Then(<<>>) /\ counts' = counts
    BY PartEmpty DEF CGint, Only
  <1>4. Longer /\ Plain
    <2> DEFINE v == Node.v
               a == IF v < 0 THEN -v ELSE v
    <2>1. CASE v \in {-1, 0, 1}
      <3>1. Emit(<<Op2("loadc_v", v, 0)>>)
        BY <2>1 DEF CGint
      <3>2. Op2("loadc_v", v, 0).op \notin Leaps \cup {"label", "jsr"}
        BY DEF Op2, Leaps
      <3> QED
        BY <3>1, <3>2, EmittedOne
    <2>2. CASE v \notin {-1, 0, 1}
      <3> DEFINE one == <<Op1("loadc", ConstSlot(a))>>
                 neg == IF v < 0 THEN <<Op0("neg")>> ELSE <<>>
                 is == Joined(one, neg)
      <3>1. Emit(is)
        BY <2>2 DEF CGint, Joined
      <3>2. IsSeq(one) /\ \A j \in 1..Len(one) : one[j].op = "loadc"
        <4>1. IsSeq(one)
          BY Tuples
        <4>2. \A j \in 1..Len(one) : one[j].op = "loadc"
          BY DEF Op1
        <4> QED
          BY <4>1, <4>2
      <3>3. IsSeq(neg) /\ \A j \in 1..Len(neg) : neg[j].op = "neg"
        <4>1. IsSeq(neg)
          BY Tuples
        <4>2. \A j \in 1..Len(neg) : neg[j].op = "neg"
          BY DEF Op0
        <4> QED
          BY <4>1, <4>2
      <3> HIDE DEF one, neg
      <3>4. IsJoined(is, one, neg)
        BY <3>2, <3>3, JoinedIs
      <3> HIDE DEF is
      <3>5. ASSUME NEW j \in 1..Len(is)
            PROVE  is[j].op \in {"loadc", "neg"}
        <4>1. CASE j \in 1..Len(one)
          BY <3>2, <3>4, <4>1 DEF IsJoined
        <4>2. CASE \E m \in 1..Len(neg) : j = Len(one) + m
          BY <3>3, <3>4, <4>2 DEF IsJoined
        <4> QED
          BY <3>4, <4>1, <4>2 DEF IsJoined
      <3>6. \A j \in 1..Len(is) : is[j].op \notin Leaps \cup {"label", "jsr"}
        BY <3>5 DEF Leaps
      <3>7. IsSeq(is)
        BY <3>4 DEF IsJoined
      <3> QED
        BY <3>1, <3>6, <3>7, Emitted
    <2> QED
      BY <2>1, <2>2
  <1> QED
    BY <1>1, <1>3, <1>4, PlainStep

LEMMA VarStep ==
    ASSUME Inv, CGvar
    PROVE  Inv'
  <1>1. At("var") /\ UNCHANGED <<source, label, fundef>>
    BY DEF CGvar, Only
  <1>2. /\ fundef # Global /\ Node \in NodesOf(source, fundef) /\ Node.k = "var"
        /\ \A n \in NodesOf(source, fundef) : n.k # "inst" /\ n.k # "fundef"
        /\ NodeFits(source, fundef, Node)
    BY <1>1, NodeHandled
  <1>3. Part(<<>>, {}, {}) /\ Then(<<>>) /\ counts' = counts
    BY PartEmpty DEF CGvar, Only
  <1>4. Longer /\ Plain
    <2>1. Emit(<<LoadVar(Node.x)>>)
      BY DEF CGvar
    <2>2. "pop" \notin Leaps \cup {"label", "jsr"}
      BY DEF Leaps
    <2>3. LoadVar(Node.x).op \notin Leaps \cup {"label", "jsr"}
      BY <2>2, PlainOps
    <2> QED
      BY <2>1, <2>3, EmittedOne
  <1> QED
    BY <1>1, <1>3, <1>4, PlainStep

LEMMA ArrayexprStep ==
    ASSUME Inv, CGarrayexpr
    PROVE  Inv'
  <1>1. At("elem") /\ UNCHANGED <<source, label, fundef>>
    BY DEF CGarrayexpr, Only
  <1>2. /\ fundef # Global /\ Node \in NodesOf(source, fundef) /\ Node.k = "elem"
        /\ \A n \in NodesOf(source, fundef) : n.k # "inst" /\ n.k # "fundef"
        /\ NodeFits(source, fundef, Node)
    BY <1>1, NodeHandled
  <1>3. Longer /\ Plain /\ counts' = counts
    BY NotEmitted DEF CGarrayexpr, Only
  <1>4. Node.is[1] \in NodesOf(source, fundef)
    BY <1>2 DEF NodeFits
  <1>5. Part(<<Sub(Node.is[1], "int")>>, {}, {})
    BY <1>2, <1>4, PartNode
  <1>6. "loada" \notin Leaps \cup {"label", "jsr"}
    BY DEF Leaps
  <1>7. Part(<<Inst(LoadVar(Node.a))>>, {}, {})
    BY <1>6, PlainOps, PartInst
  <1>8. Part(<<Sub(Node.is[1], "int"), Inst(LoadVar(Node.a)), Inst(Op0("loada"))>>, {}, {})
    BY <1>5, <1>6, <1>7, PlainOp, BareTriple
  <1> QED
    BY <1>1, <1>3, <1>8, PlainStep DEF CGarrayexpr

LEMMA BinopStep ==
    ASSUME Inv, CGbinop
    PROVE  Inv'
  <1>1. At("bin") /\ UNCHANGED <<source, label, fundef>>
    BY DEF CGbinop, Only
  <1>2. /\ fundef # Global /\ Node \in NodesOf(source, fundef) /\ Node.k = "bin"
        /\ \A n \in NodesOf(source, fundef) : n.k # "inst" /\ n.k # "fundef"
        /\ NodeFits(source, fundef, Node)
    BY <1>1, NodeHandled
  <1>3. Longer /\ Plain /\ counts' = counts
    BY NotEmitted DEF CGbinop, Only
  <1>4. Node.l \in NodesOf(source, fundef) /\ Node.r \in NodesOf(source, fundef) /\ Node.op \in Binary
    BY <1>2 DEF NodeFits
  <1>5. Part(<<Sub(Node.l, "int")>>, {}, {}) /\ Part(<<Sub(Node.r, "int")>>, {}, {})
    BY <1>2, <1>4, PartNode
  <1>6. Node.op \notin Leaps \cup {"label", "jsr"}
    BY <1>4 DEF Leaps, Binary
  <1>7. Part(<<Sub(Node.l, "int"), Sub(Node.r, "int"), Inst(Op0(Node.op))>>, {}, {})
    BY <1>5, <1>6, PlainOp, BareTriple
  <1> QED
    BY <1>1, <1>3, <1>7, PlainStep DEF CGbinop

LEMMA MonopStep ==
    ASSUME Inv, CGmonop
    PROVE  Inv'
  <1>1. At("mon") /\ UNCHANGED <<source, label, fundef>>
    BY DEF CGmonop, Only
  <1>2. /\ fundef # Global /\ Node \in NodesOf(source, fundef) /\ Node.k = "mon"
        /\ \A n \in NodesOf(source, fundef) : n.k # "inst" /\ n.k # "fundef"
        /\ NodeFits(source, fundef, Node)
    BY <1>1, NodeHandled
  <1>3. Longer /\ Plain /\ counts' = counts
    BY NotEmitted DEF CGmonop, Only
  <1>4. Node.e \in NodesOf(source, fundef) /\ Node.op \in Unary
    BY <1>2 DEF NodeFits
  <1>5. Part(<<Sub(Node.e, Type)>>, {}, {})
    BY <1>2, <1>4, PartNode
  <1>6. Node.op \notin Leaps \cup {"label", "jsr"}
    BY <1>4 DEF Leaps, Unary
  <1>7. Part(<<Sub(Node.e, Type), Inst(Op0(Node.op))>>, {}, {})
    BY <1>5, <1>6, PlainOp, BarePair
  <1> QED
    BY <1>1, <1>3, <1>7, PlainStep DEF CGmonop

LEMMA PopStep ==
    ASSUME Inv, CGpop
    PROVE  Inv'
  <1>1. At("pop") /\ UNCHANGED <<source, label, fundef>>
    BY DEF CGpop, Only
  <1>2. /\ fundef # Global /\ Node \in NodesOf(source, fundef) /\ Node.k = "pop"
        /\ \A n \in NodesOf(source, fundef) : n.k # "inst" /\ n.k # "fundef"
        /\ NodeFits(source, fundef, Node)
    BY <1>1, NodeHandled
  <1>3. Longer /\ Plain /\ counts' = counts
    BY NotEmitted DEF CGpop, Only
  <1>4. Node.e \in NodesOf(source, fundef) /\ Node.by \in NodesOf(source, fundef)
    BY <1>2 DEF NodeFits
  <1> DEFINE dropped == <<Sub(Node.e, "int"), Inst(Op0("pop"))>>
             by == <<Sub(Node.by, Type)>>
  <1>5. "pop" \notin Leaps \cup {"label", "jsr"}
    BY DEF Leaps
  <1>6. Part(<<Sub(Node.e, "int")>>, {}, {}) /\ Part(by, {}, {})
    BY <1>2, <1>4, PartNode
  <1>7. Part(dropped, {}, {})
    BY <1>5, <1>6, PlainOp, BarePair
  <1>8. Then(by \o dropped) \/ Then(dropped \o by)
    BY DEF CGpop
  <1> HIDE DEF dropped, by
  <1>9. Part(by \o dropped, {}, {}) /\ Part(dropped \o by, {}, {})
    BY <1>6, <1>7, BareJoined
  <1> QED
    BY <1>1, <1>3, <1>8, <1>9, PlainStep

LEMMA AssignStep ==
    ASSUME Inv, CGassign
    PROVE  Inv'
  <1>1. At("assign") /\ UNCHANGED <<source, label, fundef>>
    BY DEF CGassign, Only
  <1>2. /\ fundef # Global /\ Node \in NodesOf(source, fundef) /\ Node.k = "assign"
        /\ \A n \in NodesOf(source, fundef) : n.k # "inst" /\ n.k # "fundef"
        /\ NodeFits(source, fundef, Node)
    BY <1>1, NodeHandled
  <1>3. Longer /\ Plain /\ counts' = counts
    BY NotEmitted DEF CGassign, Only
  <1>4. Node.e \in NodesOf(source, fundef)
    BY <1>2 DEF NodeFits
  <1>5. Part(<<Sub(Node.e, "int")>>, {}, {})
    BY <1>2, <1>4, PartNode
  <1>6. "pop" \notin Leaps \cup {"label", "jsr"}
    BY DEF Leaps
  <1>7. Part(<<Inst(StoreVar(Node.x))>>, {}, {})
    BY <1>6, PlainOps, PartInst
  <1>8. Part(<<Sub(Node.e, "int"), Inst(StoreVar(Node.x))>>, {}, {})
    BY <1>5, <1>7, BarePair
  <1> QED
    BY <1>1, <1>3, <1>8, PlainStep DEF CGassign

LEMMA AllocStep ==
    ASSUME Inv, CGassignAlloc
    PROVE  Inv'
  <1>1. At("alloc") /\ UNCHANGED <<source, label, fundef>>
    BY DEF CGassignAlloc, Only
  <1>2. /\ fundef # Global /\ Node \in NodesOf(source, fundef) /\ Node.k = "alloc"
        /\ \A n \in NodesOf(source, fundef) : n.k # "inst" /\ n.k # "fundef"
        /\ NodeFits(source, fundef, Node)
    BY <1>1, NodeHandled
  <1>3. Longer /\ Plain /\ counts' = counts
    BY NotEmitted DEF CGassignAlloc, Only
  <1>4. Node.ds[1] \in NodesOf(source, fundef)
    BY <1>2 DEF NodeFits
  <1>5. Part(<<Sub(Node.ds[1], "int")>>, {}, {})
    BY <1>2, <1>4, PartNode
  <1>6. "newa" \notin Leaps \cup {"label", "jsr"}
    BY DEF Leaps
  <1>7. Part(<<Inst(StoreVar(Node.a))>>, {}, {})
    BY <1>6, PlainOps, PartInst
  <1>8. Part(<<Sub(Node.ds[1], "int"), Inst(Op0("newa")), Inst(StoreVar(Node.a))>>, {}, {})
    BY <1>5, <1>6, <1>7, PlainOp, BareTriple
  <1> QED
    BY <1>1, <1>3, <1>8, PlainStep DEF CGassignAlloc

LEMMA StoreStep ==
    ASSUME Inv, CGarrayassign
    PROVE  Inv'
  <1>1. At("store") /\ UNCHANGED <<source, label, fundef>>
    BY DEF CGarrayassign, Only
  <1>2. /\ fundef # Global /\ Node \in NodesOf(source, fundef) /\ Node.k = "store"
        /\ \A n \in NodesOf(source, fundef) : n.k # "inst" /\ n.k # "fundef"
        /\ NodeFits(source, fundef, Node)
    BY <1>1, NodeHandled
  <1>3. Longer /\ Plain /\ counts' = counts
    BY NotEmitted DEF CGarrayassign, Only
  <1>4. Node.e \in NodesOf(source, fundef) /\ Node.is[1] \in NodesOf(source, fundef)
    BY <1>2 DEF NodeFits
  <1>5. Part(<<Sub(Node.e, "int")>>, {}, {}) /\ Part(<<Sub(Node.is[1], "int")>>, {}, {})
    BY <1>2, <1>4, PartNode
  <1>6. "storea" \notin Leaps \cup {"label", "jsr"}
    BY DEF Leaps
  <1>7. Part(<<Inst(LoadVar(Node.a))>>, {}, {})
    BY <1>6, PlainOps, PartInst
  <1> DEFINE a == Sub(Node.e, "int")
             b == Sub(Node.is[1], "int")
             c == Inst(LoadVar(Node.a))
             d == Inst(Op0("storea"))
  <1>8. Then(<<a, b, c, d>>)
    BY DEF CGarrayassign
  <1>9. /\ Part(<<a>>, {}, {}) /\ Part(<<b>>, {}, {}) /\ Part(<<c>>, {}, {}) /\ Part(<<d>>, {}, {})
    BY <1>5, <1>6, <1>7, PlainOp
  <1> HIDE DEF a, b, c, d
  <1>10. Part(<<a, b, c, d>>, {}, {})
    <2>1. Part(<<b, c, d>>, {}, {})
      BY <1>9, BareTriple
    <2>2. Part(<<a>> \o <<b, c, d>>, {}, {})
      BY <1>9, <2>1, BareJoined
    <2>3. <<a, b, c, d>> = <<a>> \o <<b, c, d>>
      BY LongTuples
    <2> QED
      BY <2>2, <2>3, Zenon
  <1> QED
    BY <1>1, <1>3, <1>8, <1>10, PlainStep

LEMMA ReturnStep ==
    ASSUME Inv, CGretstatement
    PROVE  Inv'
  <1>1. At("return") /\ UNCHANGED <<source, label, fundef>>
    BY DEF CGretstatement, Only
  <1>2. /\ fundef # Global /\ Node \in NodesOf(source, fundef) /\ Node.k = "return"
        /\ \A n \in NodesOf(source, fundef) : n.k # "inst" /\ n.k # "fundef"
        /\ NodeFits(source, fundef, Node)
    BY <1>1, NodeHandled
  <1>3. Longer /\ Plain /\ counts' = counts
    BY NotEmitted DEF CGretstatement, Only
  <1>4. Node.e \in NodesOf(source, fundef)
    BY <1>2 DEF NodeFits
  <1>5. Part(<<Sub(Node.e, "int")>>, {}, {})
    BY <1>2, <1>4, PartNode
  <1>6. "return" \notin Leaps \cup {"label", "jsr"} /\ "return_v" \notin Leaps \cup {"label", "jsr"}
    BY DEF Leaps
  <1>7. Part(<<Inst(Op0("return"))>>, {}, {}) /\ Part(<<Inst(Op0("return_v"))>>, {}, {})
    BY <1>6, PlainOp
  <1>8. Part(<<Sub(Node.e, "int"), Inst(Op0("return_v"))>>, {}, {})
    BY <1>5, <1>7, BarePair
  <1>9. Then(<<Inst(Op0("return"))>>) \/ Then(<<Sub(Node.e, "int"), Inst(Op0("return_v"))>>)
    BY DEF CGretstatement
  <1> QED
    BY <1>1, <1>3, <1>7, <1>8, <1>9, PlainStep

LEMMA CountStep ==
    ASSUME Inv, CGassignCounts
    PROVE  Inv'
  <1>1. At("assign") /\ UNCHANGED <<source, label, fundef>>
    BY DEF CGassignCounts, Only
  <1>2. /\ fundef # Global /\ Node \in NodesOf(source, fundef) /\ Node.k = "assign"
        /\ \A n \in NodesOf(source, fundef) : n.k # "inst" /\ n.k # "fundef"
        /\ NodeFits(source, fundef, Node)
    BY <1>1, NodeHandled
  <1>3. Part(<<>>, {}, {}) /\ Then(<<>>) /\ counts' = counts
    BY PartEmpty DEF CGassignCounts, Only
  <1>4. Counted \in Int /\ Counted >= -1
    <2>1. Node.e \in NodesOf(source, fundef) /\ Node.e.k = "bin"
      BY <1>2 DEF CGassignCounts, Counts, NodeFits
    <2>2. Node.e.l \in NodesOf(source, fundef) /\ Node.e.r \in NodesOf(source, fundef)
      <3>1. NodeFits(source, fundef, Node.e)
        BY <1>1, <2>1, NodeHandled
      <3> QED
        BY <2>1, <3>1 DEF NodeFits
    <2>3. ASSUME NEW n \in NodesOf(source, fundef), n.k = "num"
          PROVE  n.v \in Int
      <3>1. NodeFits(source, fundef, n)
        BY <1>1, NodeHandled
      <3> QED
        BY <2>3, <3>1 DEF NodeFits
    <2>4. Node.e.r.k = "num" \/ Node.e.l.k = "num"
      BY DEF CGassignCounts, Counts
    <2> QED
      BY <2>2, <2>3, <2>4 DEF Counted, CGassignCounts
  <1>5. Longer /\ Plain
    <2> DEFINE v == Counted
               i == SlotOf(source, fundef, Node.x)
               up == (Node.e.op = "add") = (v > 0)
    <2>1. CASE v = 0
      <3>1. UNCHANGED <<code, owner>>
        BY <2>1 DEF CGassignCounts, Skipped
      <3> QED
        BY <3>1, NotEmitted
    <2>2. CASE v \in {1, -1}
      <3> DEFINE x == Op1(IF up THEN "inc_1" ELSE "dec_1", i)
      <3>0. v # 0 /\ ~(v > 1)
        BY <2>2
      <3>1. Emit(<<x>>)
        BY <2>2, <3>0 DEF CGassignCounts, Skipped
      <3>2. x.op \notin Leaps \cup {"label", "jsr"}
        BY DEF Op1, Leaps
      <3> HIDE DEF x
      <3> QED
        BY <3>1, <3>2, EmittedOne
    <2>3. CASE v > 1
      <3> DEFINE x == Op2(IF up THEN "inc" ELSE "dec", ConstSlot(v), i)
      <3>1. v # 0 /\ v \notin {1, -1}
        BY <1>4, <2>3
      <3>2. Emit(<<x>>)
        BY <2>3, <3>1 DEF CGassignCounts, Skipped
      <3>3. x.op \notin Leaps \cup {"label", "jsr"}
        BY DEF Op2, Leaps
      <3> HIDE DEF x
      <3> QED
        BY <3>2, <3>3, EmittedOne
    <2> HIDE DEF v
    <2>4. v = 0 \/ v \in {1, -1} \/ v > 1
      BY <1>4 DEF v
    <2> QED
      BY <2>1, <2>2, <2>3, <2>4
  <1> QED
    BY <1>1, <1>3, <1>5, PlainStep

\* What a function sees has been reached.
LEMMA CalleeSettled ==
    ASSUME Inv, fundef # Global, NEW g \in DOMAIN source.funs, Visible(source, fundef, g)
    PROVE  label[g] \in Callable
  <1> DEFINE key(h) == <<"fun", h>>
             A == {h \in DOMAIN source.funs : key(h) \in Marked}
  <1>1. fundef \in A /\ A \in SUBSET DOMAIN source.funs
    BY DEF Inv, Shapes
  <1>2. ASSUME NEW h \in A
        PROVE  source.funs[h].parent \in A \cup {Global}
    <2> DEFINE p == source.funs[h].parent
    <2>1. Settled(h)
      BY DEF Inv, Final
    <2>2. CASE key(p) \in Marked
      <3>1. PICK k \in Marks : KeyOf(code[k].to) = key(p)
        BY <2>2 DEF Marked
      <3>2. key(p)[1] = "fun"
        OBVIOUS
      <3>3. PICK f \in DOMAIN source.funs : code[k].to = label[f]
        BY <3>1, <3>2 DEF Inv, Final
      <3>4. KeyOf(label[f]) = key(f)
        BY DEF Inv, Shapes
      <3>5. key(p) = key(f)
        BY <3>1, <3>3, <3>4
      <3>6. p = f
        BY <3>5
      <3> QED
        BY <2>2, <3>6
    <2> QED
      BY <2>1, <2>2 DEF Settled
  <1> HIDE DEF A
  <1>3. source.funs[g].parent = Global \/ source.funs[g].parent \in A
    BY <1>1, <1>2 DEF Visible
  <1>4. Settled(g)
    BY <1>3 DEF A, Settled
  <1> QED
    BY <1>4 DEF Callable

LEMMA CallStep ==
    ASSUME Inv, CGproccall
    PROVE  Inv'
  <1>1. At("call") /\ UNCHANGED <<source, label, fundef>>
    BY DEF CGproccall, Only
  <1>2. /\ fundef # Global /\ Node \in NodesOf(source, fundef) /\ Node.k = "call"
        /\ \A n \in NodesOf(source, fundef) : n.k # "inst" /\ n.k # "fundef"
        /\ NodeFits(source, fundef, Node)
    BY <1>1, NodeHandled
  <1>3. counts' = counts /\ Emit(<<OpenCall(Node.f)>>)
    BY DEF CGproccall, Only
  <1>4. Longer /\ Plain
    <2>1. "pop" \notin Leaps \cup {"label", "jsr"}
      BY DEF Leaps
    <2>2. OpenCall(Node.f).op \notin Leaps \cup {"label", "jsr"}
      BY <2>1, PlainOps
    <2> QED
      BY <1>3, <2>2, EmittedOne
  <1> DEFINE ns == Node.args
             a == [j \in DOMAIN ns |-> Sub(ns[j], "int")]
             b == <<Inst(GoTo(Node.f, Len(ns)))>>
             c == IF Drops(Type, Node.f) THEN <<Inst(Op0("pop"))>> ELSE <<>>
  <1>5. ns \in Seq(NodesOf(source, fundef)) /\ (Node.f \in DOMAIN source.funs => Visible(source, fundef, Node.f))
    BY <1>2 DEF NodeFits
  <1>6. Part(a, {}, {})
    <2> HIDE DEF ns
    <2> QED
      BY <1>2, <1>5, PartNodes
  <1>7. Part(b, {}, {})
    <2>1. CASE Node.f \in DOMAIN source.funs
      <3>1. label[Node.f] \in Callable
        BY <1>2, <1>5, <2>1, CalleeSettled
      <3>2. Part(<<Inst(OpL("jsr", Len(ns), label[Node.f]))>>, {}, {})
        BY <3>1, PartCall
      <3> QED
        BY <2>1, <3>2 DEF GoTo
    <2>2. CASE Node.f \notin DOMAIN source.funs
      <3>1. Op1("jsre", Import(Node.f) - 1).op \notin Leaps \cup {"label", "jsr"}
        BY DEF Op1, Leaps
      <3>2. Part(<<Inst(Op1("jsre", Import(Node.f) - 1))>>, {}, {})
        BY <3>1, PartInst
      <3> QED
        BY <2>2, <3>2 DEF GoTo
    <2> QED
      BY <2>1, <2>2
  <1>8. Part(c, {}, {})
    <2>1. "pop" \notin Leaps \cup {"label", "jsr"}
      BY DEF Leaps
    <2> QED
      BY <2>1, PlainOp, PartEmpty
  <1>9. Then(a \o b \o c)
    BY DEF CGproccall
  <1> HIDE DEF a, b, c
  <1>10. Part(a \o b, {}, {})
    BY <1>6, <1>7, BareJoined
  <1>11. Part((a \o b) \o c, {}, {})
    BY <1>8, <1>10, BareJoined
  <1> QED
    BY <1>1, <1>3, <1>4, <1>9, <1>11, PlainStep

---------------------------------------------------------------------------
(* The handlers that make labels.                                          *)

\* A label with the number that comes next is new, and stands for itself.
LEMMA FreshLabels ==
    ASSUME Inv, NEW which \in {"ifs", "loops"}, Used(which)
    PROVE  /\ counts' \in [ifs : Nat, loops : Nat, lfs : Nat]
           /\ counts.ifs <= counts'.ifs /\ counts.loops <= counts'.loops
           /\ \A kind \in IF which = "ifs" THEN IfLabels ELSE LoopLabels :
                LET l == <<kind, counts[which]>>
                IN /\ KeyOf(l) = l /\ KeyOf(l)[1] # "fun"
                   /\ CountedIn(l, counts') /\ ~CountedIn(l, counts)
  <1>1. counts \in [ifs : Nat, loops : Nat, lfs : Nat]
    BY DEF Inv, Shapes
  <1>2. \A kind \in IfLabels \cup LoopLabels, n \in Nat :
          KeyOf(<<kind, n>>) = <<kind, n>> /\ KeyOf(<<kind, n>>)[1] # "fun"
    BY DEF KeyOf, IfLabels, LoopLabels
  <1>3. CASE which = "ifs"
    <2>1. /\ counts' \in [ifs : Nat, loops : Nat, lfs : Nat]
          /\ counts'.ifs = counts.ifs + 1 /\ counts'.loops = counts.loops
      BY <1>1, <1>3 DEF Used
    <2>2. \A kind \in IfLabels : CountedIn(<<kind, counts.ifs>>, counts') /\ ~CountedIn(<<kind, counts.ifs>>, counts)
      BY <1>1, <2>1 DEF CountedIn, IfLabels, LoopLabels
    <2> QED
      BY <1>1, <1>2, <1>3, <2>1, <2>2
  <1>4. CASE which = "loops"
    <2>1. /\ counts' \in [ifs : Nat, loops : Nat, lfs : Nat]
          /\ counts'.loops = counts.loops + 1 /\ counts'.ifs = counts.ifs
      BY <1>1, <1>4 DEF Used
    <2>2. \A kind \in LoopLabels : CountedIn(<<kind, counts.loops>>, counts') /\ ~CountedIn(<<kind, counts.loops>>, counts)
      BY <1>1, <2>1 DEF CountedIn, IfLabels, LoopLabels
    <2> QED
      BY <1>1, <1>2, <1>4, <2>1, <2>2
  <1> QED
    BY <1>3, <1>4

\* A node becomes items with labels that are new, K, and jumps to them, J.
LEMMA LabelsStep ==
    ASSUME Inv, NEW k, At(k), k # "inst", k # "fundef",
           NEW which \in {"ifs", "loops"}, Used(which),
           NEW kinds, kinds \subseteq IF which = "ifs" THEN IfLabels ELSE LoopLabels,
           NEW s, NEW K, NEW J, K = {<<kind, counts[which]>> : kind \in kinds}, J \subseteq K,
           Part(s, K, J), Then(s), UNCHANGED <<source, label, fundef, code, owner>>
    PROVE  Inv'
  <1>1. todo # <<>> /\ Head(todo).node.k = k
    BY NodeHandled
  <1>2. Longer /\ Plain
    BY NotEmitted
  <1>3. /\ counts' \in [ifs : Nat, loops : Nat, lfs : Nat]
        /\ counts.ifs <= counts'.ifs /\ counts.loops <= counts'.loops
    BY FreshLabels
  <1>4. ASSUME NEW l \in K
        PROVE  CountedIn(l, counts') /\ ~CountedIn(l, counts) /\ KeyOf(l)[1] # "fun" /\ KeyOf(l) = l
    <2>1. PICK kind \in kinds : l = <<kind, counts[which]>>
      OBVIOUS
    <2>2. kind \in IF which = "ifs" THEN IfLabels ELSE LoopLabels
      OBVIOUS
    <2> QED
      BY <2>1, <2>2, FreshLabels
  <1> QED
    BY <1>1, <1>2, <1>3, <1>4, Expanded

LEMMA DowhileStep ==
    ASSUME Inv, CGdowhileloop
    PROVE  Inv'
  <1>1. At("dowhile") /\ Used("loops") /\ UNCHANGED <<source, label, fundef, code, owner>>
    BY DEF CGdowhileloop, Only
  <1>2. /\ fundef # Global /\ Node \in NodesOf(source, fundef) /\ Node.k = "dowhile"
        /\ \A n \in NodesOf(source, fundef) : n.k # "inst" /\ n.k # "fundef"
        /\ NodeFits(source, fundef, Node)
    BY <1>1, NodeHandled
  <1>3. Node.c \in NodesOf(source, fundef) /\ Node.body \in Seq(NodesOf(source, fundef))
    BY <1>2 DEF NodeFits
  <1> DEFINE l == <<"while", counts.loops>>
             a == <<LabelHere(l)>>
             b == Stmts(Node.body)
             c == <<Sub(Node.c, "bool"), Inst(OpL("branch_t", 0, l))>>
             K == {l}
  <1>4. Part(a, K, {})
    <2>1. KeyOf(l) = l
      BY <1>1, FreshLabels DEF LoopLabels
    <2> HIDE DEF l
    <2> QED
      BY <2>1, PartLabel
  <1>5. Part(b, {}, {})
    BY <1>2, <1>3, PartNodes DEF Stmts
  <1>6. Part(c, {}, K)
    <2> HIDE DEF l
    <2>1. Part(<<Sub(Node.c, "bool")>>, {}, {})
      BY <1>2, <1>3, PartNode
    <2>2. Part(<<Inst(OpL("branch_t", 0, l))>>, {}, {l})
      BY PartJump DEF Leaps
    <2>3. Part(c, {} \cup {}, {} \cup {l})
      BY <2>1, <2>2, PartTwo
    <2> QED
      BY <2>3
  <1>7. Then((a \o b) \o c)
    BY DEF CGdowhileloop
  <1> HIDE DEF a, b, c
  <1>8. K = {<<kind, counts["loops"]>> : kind \in {"while"}} /\ {"while"} \subseteq LoopLabels
    BY DEF LoopLabels
  <1> HIDE DEF K
  <1>9. Part(a \o b, K \cup {}, {} \cup {})
    BY <1>4, <1>5, PartJoined
  <1>10. Part((a \o b) \o c, (K \cup {}) \cup {}, ({} \cup {}) \cup K)
    BY <1>6, <1>9, PartJoined
  <1>11. Part((a \o b) \o c, K, K)
    BY <1>10
  <1> QED
    BY <1>1, <1>7, <1>8, <1>11, LabelsStep

LEMMA WhileStep ==
    ASSUME Inv, CGwhileloop
    PROVE  Inv'
  <1>1. At("while") /\ Used("loops") /\ UNCHANGED <<source, label, fundef, code, owner>>
    BY DEF CGwhileloop, Only
  <1>2. /\ fundef # Global /\ Node \in NodesOf(source, fundef) /\ Node.k = "while"
        /\ \A n \in NodesOf(source, fundef) : n.k # "inst" /\ n.k # "fundef"
        /\ NodeFits(source, fundef, Node)
    BY <1>1, NodeHandled
  <1>3. Node.c \in NodesOf(source, fundef) /\ Node.body \in Seq(NodesOf(source, fundef))
    BY <1>2 DEF NodeFits
  <1> DEFINE l == <<"while", counts.loops>>
             m == <<"whileend", counts.loops>>
             a == <<LabelHere(l), Sub(Node.c, "bool"), Inst(OpL("branch_f", 0, m))>>
             b == Stmts(Node.body)
             c == <<Inst(OpL("jump", 0, l)), LabelHere(m)>>
  <1>4. KeyOf(l) = l /\ KeyOf(m) = m
    BY <1>1, FreshLabels DEF LoopLabels
  <1>5. l # m /\ {l, m} = {<<kind, counts["loops"]>> : kind \in {"while", "whileend"}}
        /\ {"while", "whileend"} \subseteq LoopLabels
    BY DEF LoopLabels
  <1>6. Then((a \o b) \o c)
    BY DEF CGwhileloop
  <1>7. Part(b, {}, {})
    BY <1>2, <1>3, PartNodes DEF Stmts
  <1> HIDE DEF b, l, m
  <1>8. Part(a, {l}, {m})
    <2>1. Part(<<LabelHere(l)>>, {l}, {})
      BY <1>4, PartLabel
    <2>2. Part(<<Sub(Node.c, "bool")>>, {}, {})
      BY <1>2, <1>3, PartNode
    <2>3. Part(<<Inst(OpL("branch_f", 0, m))>>, {}, {m})
      BY PartJump DEF Leaps
    <2>4. Part(a, {l} \cup ({} \cup {}), {} \cup ({} \cup {m}))
      BY <2>1, <2>2, <2>3, PartThree
    <2> QED
      BY <2>4
  <1>9. Part(c, {m}, {l})
    <2>1. Part(<<Inst(OpL("jump", 0, l))>>, {}, {l})
      BY PartJump DEF Leaps
    <2>2. Part(<<LabelHere(m)>>, {m}, {})
      BY <1>4, PartLabel
    <2>3. Part(c, {} \cup {m}, {l} \cup {})
      BY <2>1, <2>2, PartTwo
    <2> QED
      BY <2>3
  <1> HIDE DEF a, c
  <1>10. Part((a \o b) \o c, {l, m}, {l, m})
    <2>1. Part(a \o b, {l} \cup {}, {m} \cup {})
      BY <1>7, <1>8, PartJoined
    <2>2. ({l} \cup {}) \cap {m} = {}
      BY <1>5
    <2>3. Part((a \o b) \o c, ({l} \cup {}) \cup {m}, ({m} \cup {}) \cup {l})
      BY <1>9, <2>1, <2>2, PartJoined
    <2>4. ({l} \cup {}) \cup {m} = {l, m} /\ ({m} \cup {}) \cup {l} = {l, m}
      OBVIOUS
    <2> QED
      BY <2>3, <2>4
  <1> QED
    BY <1>1, <1>5, <1>6, <1>10, LabelsStep

LEMMA TernaryStep ==
    ASSUME Inv, CGternary
    PROVE  Inv'
  <1>1. At("cond") /\ Used("ifs") /\ UNCHANGED <<source, label, fundef, code, owner>>
    BY DEF CGternary, Only
  <1>2. /\ fundef # Global /\ Node \in NodesOf(source, fundef) /\ Node.k = "cond"
        /\ \A n \in NodesOf(source, fundef) : n.k # "inst" /\ n.k # "fundef"
        /\ NodeFits(source, fundef, Node)
    BY <1>1, NodeHandled
  <1>3. {Node.c, Node.t, Node.e} \subseteq NodesOf(source, fundef)
    BY <1>2 DEF NodeFits
  <1> DEFINE l == <<"pfalse", counts.ifs>>
             m == <<"pend", counts.ifs>>
             x1 == Sub(Node.c, "bool")
             x2 == Inst(OpL("branch_f", 0, l))
             x3 == Sub(Node.t, Type)
             x4 == Inst(OpL("jump", 0, m))
             x5 == LabelHere(l)
             x6 == Sub(Node.e, Type)
             x7 == LabelHere(m)
  <1>4. KeyOf(l) = l /\ KeyOf(m) = m
    BY <1>1, FreshLabels DEF IfLabels
  <1>5. l # m /\ {l, m} = {<<kind, counts["ifs"]>> : kind \in {"pfalse", "pend"}}
        /\ {"pfalse", "pend"} \subseteq IfLabels
    BY DEF IfLabels
  <1>6. Then(<<x1, x2, x3, x4, x5, x6, x7>>)
    BY DEF CGternary
  <1> HIDE DEF l, m
  <1>7. Part(<<x1>>, {}, {}) /\ Part(<<x3>>, {}, {}) /\ Part(<<x6>>, {}, {})
    BY <1>2, <1>3, PartNode
  <1>8. Part(<<x2>>, {}, {l}) /\ Part(<<x4>>, {}, {m})
    BY PartJump DEF Leaps
  <1>9. Part(<<x5>>, {l}, {}) /\ Part(<<x7>>, {m}, {})
    BY <1>4, PartLabel
  <1> HIDE DEF x1, x2, x3, x4, x5, x6, x7
  <1>10. Part(<<x1, x2, x3>>, {}, {l})
    <2>1. Part(<<x1, x2, x3>>, {} \cup ({} \cup {}), {} \cup ({l} \cup {}))
      BY <1>7, <1>8, PartThree
    <2> QED
      BY <2>1
  <1>11. Part(<<x4, x5, x6, x7>>, {l, m}, {m})
    <2>1. {l} \cap {} = {} /\ {l} \cap {m} = {} /\ {} \cap {m} = {}
      BY <1>5
    <2>2. Part(<<x5, x6, x7>>, {l} \cup ({} \cup {m}), {} \cup ({} \cup {}))
      BY <1>7, <1>9, <2>1, PartThree
    <2>3. Part(<<x4>> \o <<x5, x6, x7>>, {} \cup ({l} \cup ({} \cup {m})), {m} \cup ({} \cup ({} \cup {})))
      BY <1>8, <2>2, PartJoined
    <2>4. <<x4, x5, x6, x7>> = <<x4>> \o <<x5, x6, x7>>
      BY LongTuples
    <2>5. {} \cup ({l} \cup ({} \cup {m})) = {l, m} /\ {m} \cup ({} \cup ({} \cup {})) = {m}
      OBVIOUS
    <2> QED
      BY <2>3, <2>4, <2>5, Zenon
  <1>12. Part(<<x1, x2, x3, x4, x5, x6, x7>>, {l, m}, {l, m})
    <2>1. Part(<<x1, x2, x3>> \o <<x4, x5, x6, x7>>, {} \cup {l, m}, {l} \cup {m})
      BY <1>10, <1>11, PartJoined
    <2>2. <<x1, x2, x3, x4, x5, x6, x7>> = <<x1, x2, x3>> \o <<x4, x5, x6, x7>>
      BY LongTuples
    <2>3. {} \cup {l, m} = {l, m} /\ {l} \cup {m} = {l, m}
      OBVIOUS
    <2> QED
      BY <2>1, <2>2, <2>3, Zenon
  <1> QED
    BY <1>1, <1>5, <1>6, <1>12, LabelsStep

LEMMA PartThen ==
    ASSUME NEW s, NEW t, NEW K, NEW L, NEW I, NEW J, NEW M, NEW H,
           Part(s, K, I), Part(t, L, J), K \cap L = {}, M = K \cup L, H = I \cup J
    PROVE  Part(s \o t, M, H)
  <1>1. Part(s \o t, K \cup L, I \cup J)
    BY PartJoined
  <1> QED
    BY <1>1, Zenon

LEMMA Appended ==
    ASSUME NEW a, NEW b
    PROVE  Append(<<a>>, b) = <<a, b>>
  <1> DEFINE S == {a, b}
             s == <<a>>
  <1>1. s \in Seq(S) /\ b \in S
    OBVIOUS
  <1> HIDE DEF S, s
  <1>2. Append(s, b) = s \o <<b>>
    BY <1>1, AppendIsConcat, Zenon
  <1> USE DEF s
  <1>3. <<a>> \o <<b>> = <<a, b>>
    BY LongTuples, Zenon
  <1> QED
    BY <1>2, <1>3, Zenon

LEMMA IfStep ==
    ASSUME Inv, CGifstatement
    PROVE  Inv'
  <1>1. At("if") /\ Used("ifs") /\ UNCHANGED <<source, label, fundef, code, owner>>
    BY DEF CGifstatement, Only
  <1>2. /\ fundef # Global /\ Node \in NodesOf(source, fundef) /\ Node.k = "if"
        /\ \A n \in NodesOf(source, fundef) : n.k # "inst" /\ n.k # "fundef"
        /\ NodeFits(source, fundef, Node)
    BY <1>1, NodeHandled
  <1>3. /\ Node.c \in NodesOf(source, fundef)
        /\ Node.then \in Seq(NodesOf(source, fundef)) /\ Node.else \in Seq(NodesOf(source, fundef))
    BY <1>2 DEF NodeFits
  <1> DEFINE l == <<"else", counts.ifs>>
             m == <<"ifend", counts.ifs>>
             a == Sub(Node.c, "bool")
             c == <<a>>
             then == Stmts(Node.then)
             else == Stmts(Node.else)
             over(op, x) == <<Inst(OpL(op, 0, x))>>
             here(x) == <<LabelHere(x)>>
             pop == Inst(Op0("pop"))
  <1>4. \/ Then(c \o over("branch_f", l) \o then \o over("jump", m) \o here(l) \o else \o here(m))
        \/ Then(c \o over("branch_t", m) \o else \o here(m))
        \/ Then(c \o over("branch_f", m) \o then \o here(m))
        \/ Then(Append(c, pop))
    <2>1. CASE then # <<>> /\ else # <<>>
      BY <2>1 DEF CGifstatement, LabelHere
    <2>2. CASE then = <<>> /\ else # <<>>
      BY <2>2 DEF CGifstatement, LabelHere
    <2>3. CASE then # <<>> /\ else = <<>>
      BY <2>3 DEF CGifstatement, LabelHere
    <2>4. CASE then = <<>> /\ else = <<>>
      BY <2>4 DEF CGifstatement, LabelHere
    <2> QED
      BY <2>1, <2>2, <2>3, <2>4
  <1>5. KeyOf(l) = l /\ KeyOf(m) = m
    BY <1>1, FreshLabels DEF IfLabels
  <1>6. /\ l # m /\ {l, m} = {<<kind, counts["ifs"]>> : kind \in {"else", "ifend"}}
        /\ {m} = {<<kind, counts["ifs"]>> : kind \in {"ifend"}}
        /\ {} = {<<kind, counts["ifs"]>> : kind \in {}}
        /\ {"else", "ifend"} \subseteq IfLabels
    BY DEF IfLabels
  <1>7. Part(c, {}, {})
    BY <1>2, <1>3, PartNode
  <1>8. Part(then, {}, {}) /\ Part(else, {}, {})
    BY <1>2, <1>3, PartNodes DEF Stmts
  <1> HIDE DEF l, m
  <1>9. ASSUME NEW op \in Leaps, NEW x
        PROVE  Part(over(op, x), {}, {x})
    BY PartJump
  <1>10. Part(here(l), {l}, {}) /\ Part(here(m), {m}, {})
    BY <1>5, PartLabel
  <1>11. {"branch_f", "branch_t", "jump"} \subseteq Leaps
    BY DEF Leaps
  <1>12. Append(c, pop) = <<a, pop>>
    BY Appended, Zenon
  <1>13. Part(<<a, pop>>, {}, {})
    <2>1. "pop" \notin Leaps \cup {"label", "jsr"}
      BY DEF Leaps
    <2> QED
      BY <1>7, <2>1, PlainOp, BarePair
  <1> HIDE DEF a, c, then, else, over, here, pop
  <1>14. CASE Then(c \o over("branch_f", l) \o then \o over("jump", m) \o here(l) \o else \o here(m))
    <2> DEFINE s1 == c \o over("branch_f", l)
               s2 == s1 \o then
               s3 == s2 \o over("jump", m)
               s4 == s3 \o here(l)
               s5 == s4 \o else
               s6 == s5 \o here(m)
    <2>1. Then(s6)
      BY <1>14
    <2>2. Part(s1, {}, {l})
      BY <1>7, <1>9, <1>11, PartThen
    <2> HIDE DEF s1
    <2>3. Part(s2, {}, {l})
      BY <1>8, <2>2, PartThen
    <2> HIDE DEF s2
    <2>4. Part(s3, {}, {l, m})
      <3>1. Part(over("jump", m), {}, {m})
        BY <1>9, <1>11
      <3>2. {l, m} = {l} \cup {m} /\ {} = {} \cup {} /\ {} \cap {} = {}
        OBVIOUS
      <3> QED
        BY <2>3, <3>1, <3>2, PartThen
    <2> HIDE DEF s3
    <2>5. Part(s4, {l}, {l, m})
      BY <1>10, <2>4, PartThen
    <2> HIDE DEF s4
    <2>6. Part(s5, {l}, {l, m})
      BY <1>8, <2>5, PartThen
    <2> HIDE DEF s5
    <2>7. Part(s6, {l, m}, {l, m})
      BY <1>6, <1>10, <2>6, PartThen
    <2> HIDE DEF s6
    <2> QED
      BY <1>1, <1>6, <2>1, <2>7, LabelsStep
  <1>15. ASSUME NEW op \in Leaps, NEW t, Part(t, {}, {}), Then(c \o over(op, m) \o t \o here(m))
         PROVE  Inv'
    <2> DEFINE s1 == c \o over(op, m)
               s2 == s1 \o t
               s3 == s2 \o here(m)
    <2>1. Then(s3)
      BY <1>15
    <2>2. Part(s1, {}, {m})
      BY <1>7, <1>9, PartThen
    <2> HIDE DEF s1
    <2>3. Part(s2, {}, {m})
      BY <1>15, <2>2, PartThen
    <2> HIDE DEF s2
    <2>4. Part(s3, {m}, {m})
      BY <1>10, <2>3, PartThen
    <2> HIDE DEF s3
    <2>5. {"ifend"} \subseteq IfLabels
      BY <1>6
    <2> QED
      BY <1>1, <1>6, <2>1, <2>4, <2>5, LabelsStep
  <1>16. CASE Then(Append(c, pop))
    <2>1. Then(<<a, pop>>)
      BY <1>12, <1>16, Zenon
    <2>2. {} \subseteq IfLabels
      OBVIOUS
    <2> QED
      BY <1>1, <1>6, <1>13, <2>1, <2>2, LabelsStep
  <1> QED
    BY <1>4, <1>8, <1>11, <1>14, <1>15, <1>16

LEMMA FailsStep ==
    ASSUME Inv, UNCHANGED <<source, todo, code, owner, counts, label, fundef>>
    PROVE  Inv'
  <1>1. Marks' = Marks /\ Marked' = Marked /\ Callable' = Callable
    BY DEF Marks, Marked, Callable, Settled
  <1>2. Shapes' /\ Order'
    BY <1>1 DEF Inv, Shapes, Order, Ordered, ItemFits
  <1>3. Unique'
    BY <1>1 DEF Inv, Unique, CountedIn
  <1>4. Final'
    BY <1>1 DEF Inv, Final, Settled
  <1>5. Landing'
    BY <1>1 DEF Inv, Landing, Placed
  <1> QED
    BY <1>2, <1>3, <1>4, <1>5 DEF Inv

---------------------------------------------------------------------------
LEMMA Starts ==
    ASSUME NEW i \in DOMAIN Sources, CGprogram(Sources[i])
    PROVE  Inv
  <1> DEFINE t == todo
             fs == source.decls
  <1>1. /\ source = Sources[i] /\ t = FunItems(fs) /\ code = <<>> /\ owner = <<>>
        /\ counts = [ifs |-> 0, loops |-> 0, lfs |-> 0] /\ fundef = Global
        /\ label = [f \in DOMAIN source.funs |-> <<"f", f>>]
    BY DEF CGprogram, FunItems
  <1>2. FunsFit(source)
    BY <1>1, ProgramFits
  <1>3. /\ fs \in Seq(DOMAIN source.funs) /\ \A j, k \in DOMAIN fs : fs[j] = fs[k] => j = k
        /\ \A g \in DOMAIN source.funs : source.funs[g].parent = Global <=> Contains(fs, g)
    BY <1>2 DEF FunsFit
  <1> HIDE DEF fs, t
  <1>4. /\ IsSeq(t) /\ Once(t)
        /\ \A key : key \in All(t) <=> \E g \in DOMAIN source.funs : Contains(fs, g) /\ key = <<"fun", g>>
        /\ \A ops : Targets(t, ops) = {}
        /\ \A j \in 1..Len(t) : t[j].node.k = "fundef" /\ t[j].node.f \in DOMAIN source.funs
    BY <1>1, <1>3, FunctionItems
  <1>5. Len(code) = 0 /\ Len(owner) = 0 /\ 1..Len(code) = {} /\ IsSeq(code) /\ IsSeq(owner)
    <2>1. IsSeq(<<>>)
      BY Tuples
    <2>2. IsSeq(code) /\ IsSeq(owner)
      BY <1>1, <2>1, Zenon
    <2>3. Len(code) = 0 /\ Len(owner) = 0
      BY <1>1, <2>2, SeqParts
    <2> QED
      BY <2>2, <2>3
  <1>6. Marks = {} /\ Marked = {}
    BY <1>5 DEF Marks, Marked
  <1>7. \A g \in DOMAIN source.funs : <<"fun", g>> \in All(t) <=> source.funs[g].parent = Global
    <2>1. \A g, h : <<"fun", g>> = <<"fun", h>> => g = h
      OBVIOUS
    <2> QED
      BY <1>3, <1>4, <2>1
  <1>8. Shapes
    <2>1. \A f \in DOMAIN label : KeyOf(label[f]) = <<"fun", f>>
      BY <1>1 DEF KeyOf
    <2>2. counts \in [ifs : Nat, loops : Nat, lfs : Nat]
      BY <1>1
    <2>3. DOMAIN label = DOMAIN source.funs
      BY <1>1
    <2> QED
      BY <1>1, <1>4, <1>5, <2>1, <2>2, <2>3 DEF Shapes, t
  <1>9. Order
    BY <1>4 DEF Order, Ordered, ItemFits, t
  <1>10. Unique
    <2>1. \A key \in All(t) : CountedIn(key, counts)
      BY <1>4 DEF CountedIn, IfLabels, LoopLabels
    <2> QED
      BY <1>4, <1>6, <2>1 DEF Unique, t
  <1>11. Final
    BY <1>4, <1>6, <1>7 DEF Final, Settled, t
  <1>12. Landing
    BY <1>4, <1>5 DEF Landing, t
  <1> QED
    BY <1>8, <1>9, <1>10, <1>11, <1>12 DEF Inv

LEMMA Steps ==
    ASSUME Inv, [Traverse]_gen
    PROVE  Inv'
  <1>1. CASE CGassignFails
    BY <1>1, FailsStep DEF CGassignFails
  <1>2. CASE UNCHANGED gen
    BY <1>2, FailsStep DEF gen
  <1> QED
    BY <1>1, <1>2, InstStep, IntStep, VarStep, ArrayexprStep, BinopStep, MonopStep, CallStep,
       TernaryStep, PopStep, AssignStep, CountStep, AllocStep, StoreStep, ReturnStep, IfStep,
       WhileStep, DowhileStep, FunStep DEF Traverse

\* The code has been handed over.
Gone == todo = <<>> /\ code = <<>>

LEMMA Handed ==
    ASSUME Inv \/ Gone, [Traverse \/ HandOver]_gen
    PROVE  Inv' \/ Gone'
  <1>1. CASE HandOver
    BY <1>1 DEF HandOver, Gone
  <1>2. CASE Inv /\ [Traverse]_gen
    BY <1>2, Steps
  <1>3. CASE Gone /\ [Traverse]_gen
    <2>1. ~Traverse
      BY <1>3 DEF Gone, Traverse, At, CGinst, CGint, CGvar, CGarrayexpr, CGbinop, CGmonop, CGproccall,
         CGternary, CGpop, CGassign, CGassignCounts, CGassignFails, CGassignAlloc, CGarrayassign,
         CGretstatement, CGifstatement, CGwhileloop, CGdowhileloop, CGfundef
    <2> QED
      BY <1>3, <2>1 DEF Gone, gen
  <1> QED
    BY <1>1, <1>2, <1>3

LEMMA Always == GenSpec => [](Inv \/ Gone)
  <1>1. (\E i \in DOMAIN Sources : CGprogram(Sources[i])) => Inv
    BY Starts
  <1>2. (Inv \/ Gone) /\ [Traverse \/ HandOver]_gen => (Inv \/ Gone)'
    BY Handed
  <1> QED
    BY <1>1, <1>2, PTL DEF GenSpec

(***************************************************************************)
(* Whatever the program, no label is emitted twice: not where ifs, loops   *)
(* and functions are nested in each other, and not in two functions        *)
(* (if_counter, loop_counter and lfun_counter of code_gen.c).              *)
(***************************************************************************)
THEOREM LabelsAreOnce == GenSpec => LabelsOnce
  <1>1. ASSUME Inv \/ Gone, Inv'
        PROVE  \A k \in (Len(code) + 1)..Len(code') :
                 code'[k].op = "label" => \A j \in 1..(k - 1) : code'[j] # code'[k]
    <2>1. Len(code) \in Nat /\ Len(code') \in Nat
      <3>1. Len(<<>>) = 0
        OBVIOUS
      <3> QED
        BY <1>1, <3>1, SeqParts DEF Inv, Shapes, Gone
    <2>2. ASSUME NEW k \in (Len(code) + 1)..Len(code'), code'[k].op = "label",
                 NEW j \in 1..(k - 1), code'[j] = code'[k]
          PROVE  FALSE
      <3>1. j \in 1..Len(code') /\ k \in 1..Len(code') /\ j # k
        BY <2>1
      <3>2. j \in Marks' /\ k \in Marks'
        BY <2>2, <3>1 DEF Marks
      <3>3. KeyOf(code'[j].to) = KeyOf(code'[k].to)
        BY <2>2
      <3>4. \A x, y \in Marks' : KeyOf(code'[x].to) = KeyOf(code'[y].to) => x = y
        BY <1>1 DEF Inv, Unique, KeyOf
      <3> QED
        BY <3>1, <3>2, <3>3, <3>4
    <2> QED
      BY <2>2
  <1>2. ASSUME Inv \/ Gone, Gone'
        PROVE  (Len(code) + 1)..Len(code') = {}
    <2>1. Len(code') = 0
      BY <1>2 DEF Gone
    <2>2. Len(code) \in Nat
      <3>1. Len(<<>>) = 0
        OBVIOUS
      <3> QED
        BY <1>2, <3>1, SeqParts DEF Inv, Shapes, Gone
    <2> QED
      BY <2>1, <2>2
  <1>3. (Inv \/ Gone) /\ (Inv \/ Gone)' => [\A k \in (Len(code) + 1)..Len(code') :
          code'[k].op = "label" => \A j \in 1..(k - 1) : code'[j] # code'[k]]_code
    BY <1>1, <1>2
  <1> QED
    BY <1>3, Always, PTL DEF LabelsOnce

LEMMA AllPlaced ==
    ASSUME Inv
    PROVE  JumpsLand
  <1> SUFFICES ASSUME todo = <<>>, NEW k \in DOMAIN code, code[k].op \in Leaps \cup {"jsr"}
               PROVE  \E j \in DOMAIN code :
                        /\ code[j].op = "label" /\ code[j].to = code[k].to
                        /\ code[k].op # "jsr" => owner[j] = owner[k]
    BY DEF JumpsLand, Leaps
  <1>1. DOMAIN code = 1..Len(code) /\ DOMAIN label = DOMAIN source.funs
    BY SeqParts DEF Inv, Shapes
  <1>2. All(todo) = {} /\ Targets(todo, {"label"}) = {}
    BY PartEmpty DEF Part
  <1>3. CASE code[k].op \in Leaps
    <2>1. Placed(code[k].to, owner[k])
      BY <1>1, <1>2, <1>3 DEF Inv, Landing
    <2> QED
      BY <1>1, <2>1 DEF Placed, Marks
  <1>4. CASE code[k].op = "jsr"
    <2>1. code[k].to \in Callable
      BY <1>1, <1>4 DEF Inv, Landing
    <2>2. PICK f \in DOMAIN source.funs : code[k].to = label[f] /\ Settled(f)
      BY <2>1 DEF Callable
    <2>3. <<"fun", f>> \in Marked
      BY <1>2, <2>2 DEF Inv, Final
    <2>4. PICK j \in Marks : KeyOf(code[j].to) = <<"fun", f>>
      BY <2>3 DEF Marked
    <2>5. KeyOf(code[j].to)[1] = "fun"
      BY <2>4
    <2>6. PICK g \in DOMAIN source.funs : code[j].to = label[g]
      BY <2>5 DEF Inv, Final
    <2>7. KeyOf(label[g]) = <<"fun", g>>
      BY <1>1 DEF Inv, Shapes
    <2>8. <<"fun", f>> = <<"fun", g>>
      BY <2>4, <2>6, <2>7
    <2>9. f = g
      BY <2>8
    <2> QED
      BY <1>1, <1>4, <2>2, <2>6, <2>9 DEF Marks
  <1> QED
    BY <1>3, <1>4

(***************************************************************************)
(* Whatever the program, once it has been traversed every branch and jump  *)
(* has its label in the same function, and every call of a function of the *)
(* program its label in the code, though a call is emitted with the label  *)
(* of a function that comes later (CGfundef renames the local functions    *)
(* before their callers are traversed).                                    *)
(***************************************************************************)
THEOREM JumpsAlwaysLand == GenSpec => []JumpsLand
  <1>1. Inv => JumpsLand
    BY AllPlaced
  <1>2. Gone => JumpsLand
    BY DEF Gone, JumpsLand
  <1> QED
    BY <1>1, <1>2, Always, PTL
=============================================================================
