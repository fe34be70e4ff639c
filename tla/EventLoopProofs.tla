-------------------------- MODULE EventLoopProofs --------------------------
(***************************************************************************)
(* Proofs about EventLoop, for every tree of handlers: the caches of the   *)
(* earliest timer are right whenever select uses them, and the callers     *)
(* that set a timer are never without one.                                 *)
(*                                                                         *)
(* Between the calls of timeout_cb the timers of the handlers entered      *)
(* change without a calculation.  The invariant speaks of the caches that  *)
(* have none of these below them, and each calculation on the way out      *)
(* brings back what it could not speak of.  What timeout_calc_next does on *)
(* the way up is an induction, made with the least counterexample.         *)
(***************************************************************************)
EXTENDS EventLoop, SequenceTheorems, FiniteSetTheorems, WellFoundedInduction, TLAPS

\* Time left, or none.
Time == Nat \cup {Nil}

\* e is the earliest of the timers S, Nil when none is set.
IsEarliest(e, S) ==
  IF S \subseteq {Nil} THEN e = Nil
  ELSE e \in S \ {Nil} /\ \A u \in S \ {Nil} : e <= u

\* A set of numbers has a least one: the induction used below.
LEMMA Least ==
  ASSUME NEW S \in SUBSET Nat, S # {}
  PROVE  \E m \in S : \A k \in S : m <= k
<1> DEFINE R == {ss \in Nat \X Nat : ss[1] < ss[2]}
<1>1. IsWellFoundedOn(R, Nat)
  BY NatLessThanWellFounded DEF OpToRel
<1>2. PICK m \in S : \A k \in S : <<k, m>> \notin R
  BY <1>1, WFMin
<1>3. \A k \in S : m <= k
  <2>1. TAKE k \in S
  <2>2. k \in Nat /\ m \in Nat
    OBVIOUS
  <2>3. ~(k < m)
    BY <1>2, <2>2
  <2>4. QED
    BY <2>2, <2>3
<1>4. QED
  BY <1>3

\* Earliest is what it is named for.
LEMMA EarliestIs ==
  ASSUME NEW S \in SUBSET Time
  PROVE  Earliest(S) \in Time /\ IsEarliest(Earliest(S), S)
<1>1. CASE S \ {Nil} = {}
  BY <1>1 DEF Earliest, IsEarliest, Time, Nil
<1>2. CASE S \ {Nil} # {}
  <2>1. S \ {Nil} \in SUBSET Nat
    BY DEF Time
  <2>2. \E t \in S \ {Nil} : \A u \in S \ {Nil} : t <= u
    BY <1>2, <2>1, Least
  <2>3. QED
    BY <1>2, <2>1, <2>2 DEF Earliest, IsEarliest, Time
<1>3. QED
  BY <1>1, <1>2

\* Nothing else is.
LEMMA EarliestOnly ==
  ASSUME NEW S \in SUBSET Time, NEW e, IsEarliest(e, S)
  PROVE  e = Earliest(S)
<1> DEFINE f == Earliest(S)
<1>1. IsEarliest(f, S)
  BY EarliestIs
<1> HIDE DEF f
<1> SUFFICES e = f
  BY DEF f
<1>2. CASE S \subseteq {Nil}
  BY <1>1, <1>2 DEF IsEarliest
<1>3. CASE ~(S \subseteq {Nil})
  <2>1. e \in Nat /\ f \in Nat /\ e <= f /\ f <= e
    BY <1>1, <1>3 DEF IsEarliest, Time
  <2>2. QED
    BY <2>1
<1>4. QED
  BY <1>2, <1>3

-----------------------------------------------------------------------------
(* The tree *)

\* The handlers of the subtree of h.
Sub(h) == {k \in Handler : h \in ToSet(Path[k])}

\* What follows a handler on a path is the path of that handler.
LEMMA PathIs ==
  ASSUME NEW h \in Handler
  PROVE  /\ Path[h] \in Seq(Handler) /\ Len(Path[h]) \in Nat /\ Len(Path[h]) > 0
         /\ Path[h][1] = h
         /\ \A i \in 1 .. Len(Path[h]) :
              /\ Path[h][i] \in Handler
              /\ Len(Path[Path[h][i]]) = Len(Path[h]) - i + 1
              /\ \A j \in 1 .. Len(Path[h]) - i + 1 : Path[Path[h][i]][j] = Path[h][i + j - 1]
<1> DEFINE p == Path[h]
<1>1. p \in Seq(Handler) /\ p # <<>> /\ p[1] = h
      /\ \A i \in DOMAIN p : Path[p[i]] = SubSeq(p, i, Len(p))
  BY EventLoopAssumption
<1> HIDE DEF p
<1>2. Len(p) \in Nat /\ Len(p) > 0 /\ DOMAIN p = 1 .. Len(p)
  BY <1>1
<1>3. ASSUME NEW i \in 1 .. Len(p)
      PROVE  /\ p[i] \in Handler
             /\ Len(Path[p[i]]) = Len(p) - i + 1
             /\ \A j \in 1 .. Len(p) - i + 1 : Path[p[i]][j] = p[i + j - 1]
  <2>1. p[i] \in Handler
    BY <1>1, <1>2
  <2>2. Path[p[i]] = SubSeq(p, i, Len(p))
    BY <1>1, <1>2
  <2>3. QED
    BY <1>1, <1>2, <2>1, <2>2
<1>4. QED
  BY <1>1, <1>2, <1>3 DEF p

\* A handler is passed once: what is passed twice would never reach Dut.
LEMMA PathOnce ==
  ASSUME NEW h \in Handler, NEW i \in 1 .. Len(Path[h]), NEW j \in 1 .. Len(Path[h]),
         Path[h][i] = Path[h][j]
  PROVE  i = j
<1>1. /\ Len(Path[Path[h][i]]) = Len(Path[h]) - i + 1
      /\ Len(Path[Path[h][j]]) = Len(Path[h]) - j + 1
      /\ Len(Path[h]) \in Nat
  BY PathIs
<1>2. Len(Path[h]) - i + 1 = Len(Path[h]) - j + 1
  BY <1>1
<1>3. QED
  BY <1>1, <1>2

\* The subtree of k are the handlers whose path passes k.
LEMMA OnPath ==
  ASSUME NEW h \in Handler, NEW k \in Handler
  PROVE  h \in Sub(k) <=> \E i \in 1 .. Len(Path[h]) : Path[h][i] = k
<1>1. DOMAIN Path[h] = 1 .. Len(Path[h])
  BY PathIs
<1>2. QED
  BY <1>1 DEF Sub, ToSet

\* Of the children of a handler on the path of h one lies on that path.
LEMMA ChildrenOnPath ==
  ASSUME NEW h \in Handler, NEW i \in 1 .. Len(Path[h]), NEW c \in Handler
  PROVE  c \in Children(Path[h][i]) =>
           (h \in Sub(c) <=> i > 1 /\ c = Path[h][i - 1])
<1> DEFINE p == Path[h]
<1>1. SUFFICES ASSUME c \in Children(p[i])
               PROVE  h \in Sub(c) <=> i > 1 /\ c = p[i - 1]
  OBVIOUS
<1>2. Len(Path[c]) > 1 /\ Path[c][2] = p[i]
  BY <1>1 DEF Children
<1>3. ASSUME h \in Sub(c) PROVE i > 1 /\ c = p[i - 1]
  <2>1. PICK j \in 1 .. Len(p) : p[j] = c
    BY <1>3, OnPath
  <2>2. /\ Len(p) \in Nat
        /\ Len(Path[p[j]]) = Len(p) - j + 1
        /\ \A k \in 1 .. Len(p) - j + 1 : Path[p[j]][k] = p[j + k - 1]
    BY PathIs
  <2>5. Len(p) - j + 1 > 1 /\ Path[p[j]][2] = p[i]
    BY <1>2, <2>1, <2>2
  <2>6. 2 \in 1 .. Len(p) - j + 1 /\ j + 1 \in 1 .. Len(p)
    BY <2>2, <2>5
  <2>7. p[j + 1] = p[i]
    BY <2>2, <2>5, <2>6
  <2>3. j + 1 = i
    BY <2>6, <2>7, PathOnce
  <2>4. QED
    BY <2>1, <2>3
<1>4. ASSUME i > 1, c = p[i - 1] PROVE h \in Sub(c)
  <2>1. i - 1 \in 1 .. Len(p)
    BY <1>4, PathIs
  <2>2. QED
    BY <1>4, <2>1, OnPath
<1>5. QED
  BY <1>3, <1>4

\* A subtree is its root and the subtrees of the children.
LEMMA SubIs ==
  ASSUME NEW h \in Handler
  PROVE  Sub(h) = {h} \cup UNION {Sub(c) : c \in Children(h)}
<1>1. ASSUME NEW k \in Sub(h), k # h
      PROVE  \E c \in Children(h) : k \in Sub(c)
  <2>1. k \in Handler
    BY DEF Sub
  <2>2. PICK i \in 1 .. Len(Path[k]) : Path[k][i] = h
    BY <2>1, OnPath
  <2>3. i > 1 /\ i - 1 \in 1 .. Len(Path[k])
    BY <1>1, <2>1, <2>2, PathIs
  <2> DEFINE c == Path[k][i - 1]
  <2>8. /\ c \in Handler /\ Len(Path[k]) \in Nat
        /\ Len(Path[c]) = Len(Path[k]) - (i - 1) + 1
        /\ \A j \in 1 .. Len(Path[k]) - (i - 1) + 1 : Path[c][j] = Path[k][(i - 1) + j - 1]
    BY <2>1, <2>3, PathIs
  <2> HIDE DEF c
  <2>9. 2 \in 1 .. Len(Path[k]) - (i - 1) + 1 /\ (i - 1) + 2 - 1 = i
    BY <2>3, <2>8
  <2>4. c \in Handler /\ Len(Path[c]) > 1 /\ Path[c][2] = h
    BY <2>2, <2>8, <2>9
  <2>5. c \in Children(h)
    BY <2>4 DEF Children
  <2>6. k \in Sub(c)
    BY <2>1, <2>3, <2>4, OnPath DEF c
  <2>7. QED
    BY <2>5, <2>6
<1>2. h \in Sub(h)
  <2>1. 1 \in 1 .. Len(Path[h]) /\ Path[h][1] = h
    BY PathIs
  <2>2. QED
    BY <2>1, OnPath
<1>3. ASSUME NEW c \in Children(h), NEW k \in Sub(c)
      PROVE  k \in Sub(h)
  <2>1. c \in Handler /\ Len(Path[c]) > 1 /\ Path[c][2] = h /\ k \in Handler
    BY DEF Children, Sub
  <2>2. PICK i \in 1 .. Len(Path[k]) : Path[k][i] = c
    BY <2>1, OnPath
  <2>3. /\ Len(Path[k]) \in Nat
        /\ Len(Path[c]) = Len(Path[k]) - i + 1
        /\ \A j \in 1 .. Len(Path[k]) - i + 1 : Path[c][j] = Path[k][i + j - 1]
    BY <2>1, <2>2, PathIs
  <2>5. 2 \in 1 .. Len(Path[k]) - i + 1 /\ i + 2 - 1 = i + 1 /\ i + 1 \in 1 .. Len(Path[k])
    BY <2>1, <2>2, <2>3
  <2>6. Path[k][i + 1] = h
    BY <2>1, <2>3, <2>5
  <2>4. QED
    BY <2>1, <2>5, <2>6, OnPath
<1>4. QED
  BY <1>1, <1>2, <1>3

-----------------------------------------------------------------------------
(* timeout_calc_next *)

\* g is the recursive function of Calc, up to k.
Calculates(g, k, s, n, h) ==
  g = [i \in 0 .. k |-> IF i = 0 THEN n ELSE CalcAt(s, g[i - 1], Path[h][i])]

\* The recursive function in Calc exists.
LEMMA CalculationExists ==
  ASSUME NEW s, NEW n, NEW h \in Handler, NEW k \in Nat
  PROVE  \E g : Calculates(g, k, s, n, h)
<1> DEFINE Bad == {j \in Nat : ~ \E g : Calculates(g, j, s, n, h)}
<1>1. SUFFICES ASSUME Bad # {} PROVE FALSE
  OBVIOUS
<1>2. PICK j \in Bad : \A i \in Bad : j <= i
  BY <1>1, Least
<1>3. j \in Nat /\ ~ \E g : Calculates(g, j, s, n, h)
  OBVIOUS
<1>4. j # 0
  <2>1. Calculates([i \in 0 .. 0 |-> n], 0, s, n, h)
    BY DEF Calculates
  <2>2. QED
    BY <1>3, <2>1
<1>5. j - 1 \in Nat /\ j - 1 \notin Bad
  <2>1. j - 1 \in Nat /\ ~(j <= j - 1)
    BY <1>3, <1>4
  <2>2. QED
    BY <1>2, <2>1
<1>6. PICK g : Calculates(g, j - 1, s, n, h)
  BY <1>5
<1> DEFINE f == [i \in 0 .. j |-> IF i = j THEN CalcAt(s, g[j - 1], Path[h][j]) ELSE g[i]]
<1>7. f = [i \in 0 .. j |-> IF i = 0 THEN n ELSE CalcAt(s, f[i - 1], Path[h][i])]
  <2>1. ASSUME NEW i \in 0 .. j
        PROVE  f[i] = IF i = 0 THEN n ELSE CalcAt(s, f[i - 1], Path[h][i])
    <3>1. CASE i = j
      <4>1. f[i] = CalcAt(s, g[j - 1], Path[h][j])
        BY <3>1
      <4>2. j - 1 \in 0 .. j /\ j - 1 # j
        BY <1>3, <1>5
      <4>3. f[j - 1] = g[j - 1]
        BY <4>2
      <4>4. QED
        BY <1>4, <3>1, <4>1, <4>3
    <3>2. CASE i # j
      <4>1. i \in 0 .. j - 1
        BY <1>3, <3>2
      <4>2. f[i] = g[i]
        BY <3>2
      <4>3. g[i] = IF i = 0 THEN n ELSE CalcAt(s, g[i - 1], Path[h][i])
        BY <1>6, <4>1 DEF Calculates
      <4>4. i # 0 => f[i - 1] = g[i - 1]
        BY <4>1, <1>3
      <4>5. QED
        BY <4>2, <4>3, <4>4
    <3>3. QED
      BY <3>1, <3>2
  <2>2. QED
    BY <2>1
<1>8. Calculates(f, j, s, n, h)
  BY <1>7 DEF Calculates
<1>9. QED
  BY <1>3, <1>8

\* g are the caches after each step of the way up.
StepsOf(g, s, n, h) ==
  /\ g[0] = n
  /\ \A i \in 1 .. Len(Path[h]) : g[i] = CalcAt(s, g[i - 1], Path[h][i])
  /\ Calc(s, n, h) = g[Len(Path[h])]

\* Calc is the last of the steps of the way up.
LEMMA CalcIs ==
  ASSUME NEW s, NEW n, NEW h \in Handler
  PROVE  \E g : StepsOf(g, s, n, h)
<1> DEFINE N == Len(Path[h])
           G == CHOOSE g : Calculates(g, N, s, n, h)
<1>1. N \in Nat
  BY PathIs
<1>2. Calculates(G, N, s, n, h)
  BY <1>1, CalculationExists
<1>3. Calc(s, n, h) = G[N]
  BY DEF Calc, Calculates
<1> HIDE DEF G
<1>4. G[0] = n
  BY <1>1, <1>2 DEF Calculates
<1>5. ASSUME NEW i \in 1 .. N
      PROVE  G[i] = CalcAt(s, G[i - 1], Path[h][i])
  BY <1>1, <1>2 DEF Calculates
<1>6. QED
  BY <1>3, <1>4, <1>5 DEF StepsOf

\* What the cache of h ought to be.
EarliestOf(s, h) == Earliest({s[k] : k \in Sub(h)})

\* Every cache is right that has none of the handlers W in its subtree.
RightBut(s, n, W) == \A k \in Handler : Sub(k) \cap W = {} => n[k] = EarliestOf(s, k)

\* One handler, once its children are right.
LEMMA CalcAtRight ==
  ASSUME NEW s \in [Handler -> Time], NEW n \in [Handler -> Time], NEW h \in Handler
  PROVE  /\ CalcAt(s, n, h) \in [Handler -> Time]
         /\ \A k \in Handler \ {h} : CalcAt(s, n, h)[k] = n[k]
         /\ (\A c \in Children(h) : n[c] = EarliestOf(s, c)) => CalcAt(s, n, h)[h] = EarliestOf(s, h)
<1> DEFINE S == {s[h]} \cup {n[c] : c \in Children(h)}
           e == Earliest(S)
<1>1. CalcAt(s, n, h) = [n EXCEPT ![h] = e]
  BY DEF CalcAt
<1>2. S \in SUBSET Time
  BY DEF Children
<1>3. e \in Time /\ IsEarliest(e, S)
  BY <1>2, EarliestIs
<1> HIDE DEF e
<1>4. ASSUME \A c \in Children(h) : n[c] = EarliestOf(s, c)
      PROVE  e = EarliestOf(s, h)
  <2> DEFINE All == {s[k] : k \in Sub(h)}
  <2>1. \A k \in Handler : {s[x] : x \in Sub(k)} \in SUBSET Time
    BY DEF Sub
  <2>2. \A c \in Children(h) : IsEarliest(n[c], {s[k] : k \in Sub(c)})
    BY <1>4, <2>1, EarliestIs DEF EarliestOf, Children
  <2>3. Sub(h) = {h} \cup UNION {Sub(c) : c \in Children(h)}
    BY SubIs
  <2>4. IsEarliest(e, All)
    <3>1. CASE All \subseteq {Nil}
      <4>1. s[h] = Nil
        BY <2>3, <3>1
      <4>2. ASSUME NEW c \in Children(h) PROVE n[c] = Nil
        <5>1. {s[k] : k \in Sub(c)} \subseteq {Nil}
          BY <2>3, <3>1
        <5>2. QED
          BY <2>2, <5>1 DEF IsEarliest
      <4>3. QED
        BY <1>3, <3>1, <4>1, <4>2 DEF IsEarliest
    <3>2. CASE ~(All \subseteq {Nil})
      <4>1. ASSUME NEW k \in Sub(h), s[k] # Nil
            PROVE  e \in Nat /\ e <= s[k]
        <5>1. CASE k = h
          BY <1>2, <1>3, <4>1, <5>1 DEF IsEarliest, Time
        <5>2. CASE k # h
          <6>1. PICK c \in Children(h) : k \in Sub(c)
            BY <2>3, <5>2
          <6>2. n[c] \in Nat /\ n[c] <= s[k] /\ n[c] # Nil
            BY <2>1, <2>2, <4>1, <6>1 DEF IsEarliest, Time, Children
          <6>3. e \in Nat /\ e <= n[c]
            BY <1>2, <1>3, <6>1, <6>2 DEF IsEarliest, Time
          <6>4. s[k] \in Nat
            BY <4>1 DEF Time, Sub
          <6>5. QED
            BY <6>2, <6>3, <6>4
        <5>3. QED
          BY <5>1, <5>2
      <4>2. e \in S \ {Nil}
        <5>1. PICK k \in Sub(h) : s[k] # Nil
          BY <3>2
        <5>2. e \in Nat
          BY <4>1, <5>1
        <5>3. QED
          <6>1. e # Nil
            BY <5>2 DEF Nil
          <6>2. ~(S \subseteq {Nil})
            BY <1>3, <6>1 DEF IsEarliest
          <6>3. QED
            BY <1>3, <6>2 DEF IsEarliest
      <4>3. e \in All \ {Nil}
        <5>1. CASE e = s[h]
          BY <2>3, <4>2, <5>1
        <5>2. CASE \E c \in Children(h) : e = n[c]
          <6>1. PICK c \in Children(h) : e = n[c]
            BY <5>2
          <6>2. e \in {s[k] : k \in Sub(c)}
            BY <2>2, <4>2, <6>1 DEF IsEarliest
          <6>3. QED
            BY <2>3, <4>2, <6>1, <6>2
        <5>3. QED
          BY <4>2, <5>1, <5>2
      <4>4. QED
        BY <3>2, <4>1, <4>3 DEF IsEarliest
    <3>3. QED
      BY <3>1, <3>2
  <2>5. All \in SUBSET Time
    BY <2>1
  <2>6. QED
    BY <2>4, <2>5, EarliestOnly DEF EarliestOf
<1>5. QED
  BY <1>1, <1>3, <1>4

\* From a handler up to Dut.  W are handlers whose timers have changed without a
\* calculation: what has one of them below it is not spoken of.
LEMMA CalcRight ==
  ASSUME NEW s \in [Handler -> Time], NEW n \in [Handler -> Time], NEW h \in Handler,
         NEW W \in SUBSET Handler,
         RightBut(s, n, W \cup {h})
  PROVE  /\ Calc(s, n, h) \in [Handler -> Time]
         /\ RightBut(s, Calc(s, n, h), W)
<1>0. PICK g : StepsOf(g, s, n, h)
  BY CalcIs
<1>1. /\ g[0] = n
      /\ \A i \in 1 .. Len(Path[h]) : g[i] = CalcAt(s, g[i - 1], Path[h][i])
      /\ Calc(s, n, h) = g[Len(Path[h])]
  BY <1>0 DEF StepsOf
<1> DEFINE p == Path[h]
           N == Len(Path[h])
<1>2. N \in Nat /\ \A i \in 1 .. N : p[i] \in Handler
  BY PathIs
<1> DEFINE Later(k, i) == \E j \in i + 1 .. N : k = p[j]
           Right(i) == /\ g[i] \in [Handler -> Time]
                       /\ \A k \in Handler : ~Later(k, i) /\ Sub(k) \cap W = {}
                                            => g[i][k] = EarliestOf(s, k)
           Bad == {i \in 0 .. N : ~Right(i)}
<1>3. Right(0)
  <2>1. ASSUME NEW k \in Handler, ~Later(k, 0), Sub(k) \cap W = {}
        PROVE  n[k] = EarliestOf(s, k)
    <3>1. h \notin Sub(k)
      BY <2>1, OnPath
    <3>2. Sub(k) \cap (W \cup {h}) = {}
      BY <2>1, <3>1
    <3>3. QED
      BY <3>2 DEF RightBut
  <2>2. QED
    BY <1>1, <2>1
<1>4. ASSUME NEW i \in 1 .. N, Right(i - 1)
      PROVE  Right(i)
  <2>1. g[i] = CalcAt(s, g[i - 1], p[i]) /\ p[i] \in Handler
    BY <1>1, <1>2
  <2>2. ASSUME NEW k \in Handler, ~Later(k, i), k # p[i]
        PROVE  ~Later(k, i - 1)
    <3>1. SUFFICES ASSUME NEW j \in i - 1 + 1 .. N, k = p[j] PROVE FALSE
      OBVIOUS
    <3>2. j = i \/ j \in i + 1 .. N
      BY <1>2
    <3>3. QED
      BY <2>2, <3>1, <3>2
  <2>3. ASSUME Sub(p[i]) \cap W = {}, NEW c \in Children(p[i])
        PROVE  g[i - 1][c] = EarliestOf(s, c)
    <3>1. c \in Handler /\ Sub(c) \cap W = {}
      BY <2>1, <2>3, SubIs DEF Children
    <3>2. ASSUME NEW j \in i - 1 + 1 .. N, c = p[j] PROVE FALSE
      <4>1. j \in 1 .. N /\ j >= i /\ i - 1 # j
        BY <1>2
      <4>2. h \in Sub(c)
        BY <3>1, <3>2, <4>1, OnPath
      <4>3. i > 1 /\ c = p[i - 1]
        BY <3>1, <4>2, ChildrenOnPath
      <4>4. i - 1 \in 1 .. N
        BY <1>2, <4>3
      <4>5. i - 1 = j
        BY <3>2, <4>1, <4>3, <4>4, PathOnce
      <4>6. QED
        BY <4>1, <4>5
    <3>3. ~Later(c, i - 1)
      BY <3>2
    <3>4. QED
      BY <1>4, <3>1, <3>3
  <2>7. /\ g[i - 1] \in [Handler -> Time]
        /\ \A c \in Children(p[i]) : Sub(p[i]) \cap W = {} => g[i - 1][c] = EarliestOf(s, c)
    BY <1>4, <2>3
  <2> DEFINE x == p[i]
             m == g[i - 1]
  <2>8. m \in [Handler -> Time] /\ x \in Handler
    BY <2>1, <2>7
  <2> HIDE DEF x, m
  <2>9. /\ CalcAt(s, m, x) \in [Handler -> Time]
        /\ \A k \in Handler \ {x} : CalcAt(s, m, x)[k] = m[k]
        /\ (\A c \in Children(x) : m[c] = EarliestOf(s, c)) => CalcAt(s, m, x)[x] = EarliestOf(s, x)
    BY <2>8, CalcAtRight
  <2>4. /\ g[i] \in [Handler -> Time]
        /\ \A k \in Handler \ {p[i]} : g[i][k] = g[i - 1][k]
        /\ Sub(p[i]) \cap W = {} => g[i][p[i]] = EarliestOf(s, p[i])
    BY <2>1, <2>7, <2>9 DEF x, m
  <2>5. ASSUME NEW k \in Handler, ~Later(k, i), Sub(k) \cap W = {}
        PROVE  g[i][k] = EarliestOf(s, k)
    <3>1. CASE k = p[i]
      BY <2>4, <2>5, <3>1
    <3>2. CASE k # p[i]
      BY <1>4, <2>2, <2>4, <2>5, <3>2
    <3>3. QED
      BY <3>1, <3>2
  <2>6. QED
    BY <2>4, <2>5
<1>5. Bad = {}
  <2>1. SUFFICES ASSUME Bad # {} PROVE FALSE
    OBVIOUS
  <2>2. Bad \in SUBSET Nat
    BY <1>2
  <2>3. PICK i \in Bad : \A j \in Bad : i <= j
    BY <2>1, <2>2, Least
  <2>4. i \in 0 .. N /\ ~Right(i)
    OBVIOUS
  <2>5. i # 0
    BY <1>3, <2>4
  <2> HIDE DEF Right
  <2>6. i \in 1 .. N /\ i - 1 \in 0 .. N /\ ~(i <= i - 1)
    BY <1>2, <2>4, <2>5
  <2>7. Right(i - 1)
    BY <2>3, <2>6
  <2>8. QED
    BY <1>4, <2>4, <2>6, <2>7
<1>6. Right(N)
  BY <1>2, <1>5
<1>7. \A k \in Handler : ~Later(k, N)
  BY <1>2
<1>8. QED
  BY <1>1, <1>6, <1>7 DEF RightBut

-----------------------------------------------------------------------------
(* The invariant *)

\* The calls that timeout_cb has still to make.
Task == [do : {"enter", "leave"}, at : Handler]

\* The types the invariant needs.
TypeOK ==
  /\ pc \in {"idle", "loop", "select", "cb", "raised"}
  /\ caller \in Callers \cup {"none"}
  /\ pc \in {"loop", "select", "cb", "raised"} => caller \in Callers
  /\ self \in [Handler -> Time] /\ next \in [Handler -> Time]
  /\ deadline \in Time
  /\ tasks \in Seq(Task)

\* The handlers that timeout_cb has entered and not left.
Entered(ts) == {ts[i].at : i \in {j \in DOMAIN ts : ts[j].do = "leave"}}

\* The inductive invariant.
IInv ==
  /\ TypeOK
  /\ pc # "cb" => tasks = <<>>
  /\ RightBut(self, next, Entered(tasks))
  /\ pc = "select" => deadline = EarliestOf(self, Dut)
  /\ PollHasTimeout

\* A timer is set and the caches are brought up to date from there.
LEMMA SetRight ==
  ASSUME NEW s \in [Handler -> Time], NEW n \in [Handler -> Time], NEW h \in Handler,
         NEW t \in Time, NEW W \in SUBSET Handler, RightBut(s, n, W)
  PROVE  LET s1 == [s EXCEPT ![h] = t]
         IN  /\ s1 \in [Handler -> Time]
             /\ Calc(s1, n, h) \in [Handler -> Time]
             /\ RightBut(s1, Calc(s1, n, h), W)
<1> DEFINE s1 == [s EXCEPT ![h] = t]
<1>1. s1 \in [Handler -> Time] /\ \A k \in Handler \ {h} : s1[k] = s[k]
  OBVIOUS
<1>2. ASSUME NEW k \in Handler, h \notin Sub(k)
      PROVE  EarliestOf(s1, k) = EarliestOf(s, k)
  <2>1. \A x \in Sub(k) : s1[x] = s[x]
    BY <1>1, <1>2 DEF Sub
  <2>2. {s1[x] : x \in Sub(k)} = {s[x] : x \in Sub(k)}
    BY <2>1
  <2>3. QED
    BY <2>2 DEF EarliestOf
<1> HIDE DEF s1
<1>3. RightBut(s1, n, W \cup {h})
  <2>1. \A k \in Handler : Sub(k) \cap (W \cup {h}) = {} => Sub(k) \cap W = {} /\ h \notin Sub(k)
    OBVIOUS
  <2>2. QED
    BY <1>2, <2>1 DEF RightBut
<1>4. /\ Calc(s1, n, h) \in [Handler -> Time]
      /\ RightBut(s1, Calc(s1, n, h), W)
  BY <1>1, <1>3, CalcRight
<1>5. QED
  BY <1>1, <1>4 DEF s1

\* Time passes for a timer and its cache alike.
LEMMA LessEarliest ==
  ASSUME NEW s \in [Handler -> Time], NEW h \in Handler
  PROVE  LET s1 == [k \in Handler |-> Less(s[k])]
         IN  EarliestOf(s1, h) = Less(EarliestOf(s, h))
<1> DEFINE s1 == [k \in Handler |-> Less(s[k])]
           A == {s[k] : k \in Sub(h)}
           B == {s1[k] : k \in Sub(h)}
           e == Earliest(A)
<1>0. Sub(h) \subseteq Handler
  BY DEF Sub
<1>1. \A t \in Time : Less(t) \in Time /\ (Less(t) = Nil <=> t = Nil)
  BY DEF Less, Time, Nil
<1>2. \A t \in Nat, u \in Nat : t <= u => Less(t) \in Nat /\ Less(u) \in Nat /\ Less(t) <= Less(u)
  BY DEF Less
<1>3. A \in SUBSET Time
  BY <1>0
<1>4. \A k \in Sub(h) : s[k] \in Time /\ s1[k] = Less(s[k])
  BY <1>0
<1>5. B \in SUBSET Time
  BY <1>1, <1>4
<1>6. e \in Time /\ IsEarliest(e, A)
  BY <1>3, EarliestIs
<1> HIDE DEF s1, e
<1>7. IsEarliest(Less(e), B)
  <2>1. CASE A \subseteq {Nil}
    <3>1. \A k \in Sub(h) : s1[k] = Nil
      BY <1>1, <1>4, <2>1
    <3>2. e = Nil /\ Less(e) = Nil
      BY <1>1, <1>6, <2>1 DEF IsEarliest
    <3>3. QED
      BY <3>1, <3>2 DEF IsEarliest
  <2>2. CASE ~(A \subseteq {Nil})
    <3>1. e \in A \ {Nil} /\ \A u \in A \ {Nil} : e <= u
      BY <1>6, <2>2 DEF IsEarliest
    <3>2. Less(e) \in B \ {Nil}
      <4>1. PICK k \in Sub(h) : e = s[k]
        BY <3>1
      <4>2. QED
        BY <1>1, <1>4, <3>1, <4>1
    <3>3. ASSUME NEW k \in Sub(h), s1[k] # Nil
          PROVE  Less(e) <= s1[k]
      <4>1. s[k] # Nil /\ s[k] \in Nat /\ s1[k] = Less(s[k])
        BY <1>1, <1>4, <3>3 DEF Time
      <4>2. e \in Nat /\ e <= s[k]
        BY <1>6, <3>1, <4>1 DEF Time
      <4>3. QED
        BY <1>2, <4>1, <4>2
    <3>4. QED
      BY <3>2, <3>3 DEF IsEarliest
  <2>3. QED
    BY <2>1, <2>2
<1>8. Less(e) = Earliest(B)
  BY <1>5, <1>7, EarliestOnly
<1>9. QED
  BY <1>8 DEF e, s1, EarliestOf

\* Every path leads to Dut.
LEMMA SubOfDut == Sub(Dut) = Handler
<1>1. ASSUME NEW k \in Handler
      PROVE  k \in Sub(Dut)
  <2>1. Dut \in Handler /\ Last(Path[k]) = Dut
    BY EventLoopAssumption
  <2>2. Len(Path[k]) \in 1 .. Len(Path[k]) /\ Path[k][Len(Path[k])] = Dut
    BY <2>1, PathIs DEF Last
  <2>3. QED
    BY <2>1, <2>2, OnPath
<1>2. QED
  BY <1>1 DEF Sub

\* The earliest timer of the tree is none only where no handler has one.
LEMMA NilEarliest ==
  ASSUME NEW s \in [Handler -> Time], EarliestOf(s, Dut) = Nil, NEW h \in Handler
  PROVE  s[h] = Nil
<1>1. {s[k] : k \in Sub(Dut)} \in SUBSET Time
  BY SubOfDut
<1>2. IsEarliest(Nil, {s[k] : k \in Sub(Dut)})
  BY <1>1, EarliestIs DEF EarliestOf
<1>3. QED
  BY <1>2, SubOfDut DEF IsEarliest

\* Outside timeout_cb no handler is entered.
LEMMA EnteredNone == Entered(<<>>) = {}
BY DEF Entered

\* Only handlers are entered.
LEMMA EnteredIn ==
  ASSUME NEW ts \in Seq(Task)
  PROVE  Entered(ts) \in SUBSET Handler
<1>1. \A i \in DOMAIN ts : ts[i] \in Task
  OBVIOUS
<1>2. \A i \in DOMAIN ts : ts[i].at \in Handler
  BY <1>1 DEF Task
<1>3. QED
  BY <1>2 DEF Entered

\* What the proofs use of the constants.
LEMMA ConstantsAre ==
  /\ Dut \in Handler /\ Mup1 \in Handler /\ Coap \in Handler
  /\ AckTime \in Time \ {Nil} /\ MupTime \in Time \ {Nil} /\ PollTime \in Time \ {Nil}
  /\ Nil \in Time /\ WaitTime \in Nat
BY EventLoopAssumption DEF Time, Nil

\* The invariant holds at the start.
LEMMA InitIInv == Init => IInv
<1> SUFFICES ASSUME Init PROVE IInv
  OBVIOUS
<1>1. TypeOK
  <2>1. 0 \in Time /\ Nil \in Time
    BY DEF Time
  <2>2. QED
    BY <2>1 DEF Init, TypeOK
<1>2. \A k \in Handler : EarliestOf(self, k) = Nil
  <2>1. TAKE k \in Handler
  <2>2. {self[x] : x \in Sub(k)} \subseteq {Nil}
    BY DEF Init, Sub
  <2>3. QED
    BY <2>2 DEF EarliestOf, Earliest
<1>3. RightBut(self, next, Entered(tasks))
  BY <1>2 DEF Init, RightBut
<1>4. QED
  BY <1>1, <1>3 DEF Init, IInv, PollHasTimeout

-----------------------------------------------------------------------------
(* The steps *)

\* What a step keeps that leaves the timers and the calls of timeout_cb alone.
LEMMA SetStep ==
  ASSUME IInv, NEW h \in Handler, NEW t \in Time, Set(h, t)
  PROVE  /\ self' \in [Handler -> Time] /\ next' \in [Handler -> Time]
         /\ RightBut(self', next', Entered(tasks))
<1>1. Entered(tasks) \in SUBSET Handler
  BY EnteredIn DEF IInv, TypeOK
<1>2. QED
  BY <1>1, SetRight DEF Set, IInv, TypeOK

\* Coap sets its timer, or nothing changes.
LEMMA CallStep == IInv /\ Call => IInv'
<1> SUFFICES ASSUME IInv, Call PROVE IInv'
  OBVIOUS
<1>1. /\ self' \in [Handler -> Time] /\ next' \in [Handler -> Time]
      /\ RightBut(self', next', Entered(tasks))
  <2>1. CASE caller' = "coap"
    BY <2>1, SetStep, ConstantsAre DEF Call
  <2>2. CASE caller' # "coap"
    BY <2>2 DEF Call, IInv, TypeOK
  <2>3. QED
    BY <2>1, <2>2
<1>2. TypeOK'
  BY <1>1 DEF Call, IInv, TypeOK
<1>3. QED
  BY <1>1, <1>2 DEF Call, IInv, PollHasTimeout

\* After the calculation from Dut every cache is right, and Dut has its own timer or Coap has.
LEMMA PollStep == IInv /\ Poll => IInv'
<1> SUFFICES ASSUME IInv, Poll PROVE IInv'
  OBVIOUS
<1>1. Entered(tasks) = {} /\ tasks = <<>>
  BY EnteredNone DEF Poll, IInv
<1>2. /\ self' \in [Handler -> Time] /\ next' \in [Handler -> Time]
      /\ RightBut(self', next', {})
  <2>1. CASE caller \in {"ping", "listen"}
    <3>1. self' = [self EXCEPT ![Dut] = PollTime]
      BY <2>1 DEF Poll, PollTimer
    <3>2. Set(Dut, PollTime)
      BY <3>1 DEF Set, Poll
    <3>3. QED
      BY <1>1, <3>2, SetStep, ConstantsAre
  <2>2. CASE caller \notin {"ping", "listen"}
    <3>1. self' = self
      BY <2>2 DEF Poll, PollTimer
    <3>2. RightBut(self, next, {} \cup {Dut})
      BY <1>1 DEF IInv, RightBut
    <3>3. /\ Calc(self, next, Dut) \in [Handler -> Time]
          /\ RightBut(self, Calc(self, next, Dut), {})
      BY <3>2, CalcRight, ConstantsAre DEF IInv, TypeOK
    <3>4. QED
      BY <3>1, <3>3 DEF Poll, IInv, TypeOK
  <2>3. QED
    BY <2>1, <2>2
<1>3. next'[Dut] = EarliestOf(self', Dut) /\ next'[Dut] \in Time
  BY <1>2, ConstantsAre DEF RightBut
<1>4. TypeOK'
  <2>1. pc' \in {"raised", "select"} /\ deadline' \in Time
    BY <1>3 DEF Poll, IInv, TypeOK
  <2>2. caller' = caller /\ tasks' = tasks
    BY DEF Poll, call
  <2>3. QED
    BY <1>2, <2>1, <2>2 DEF Poll, IInv, TypeOK
<1>5. ASSUME next'[Dut] = Nil PROVE caller = "traces"
  <2>1. self'[Dut] = Nil /\ self'[Coap] = Nil
    BY <1>2, <1>3, <1>5, NilEarliest, ConstantsAre
  <2>2. caller \in Callers
    BY DEF Poll, IInv, TypeOK
  <2>3. CASE caller \in {"ping", "listen"}
    <3>1. self'[Dut] = PollTime
      BY <2>3, ConstantsAre DEF Poll, PollTimer, IInv, TypeOK
    <3>2. QED
      BY <2>1, <3>1, ConstantsAre
  <2>4. CASE caller = "coap"
    <3>1. self[Coap] # Nil
      BY <2>4 DEF Poll, Waiting
    <3>2. self' = self
      BY <2>4 DEF Poll, PollTimer
    <3>3. QED
      BY <2>1, <3>1, <3>2
  <2>5. QED
    BY <2>2, <2>3, <2>4 DEF Callers
<1>6. QED
  BY <1>1, <1>2, <1>3, <1>4, <1>5 DEF Poll, IInv, PollHasTimeout, call

\* Coap and Mup1 set their timers, each with its calculation.
LEMMA ReadStep == IInv /\ Read => IInv'
<1> SUFFICES ASSUME IInv, Read PROVE IInv'
  OBVIOUS
<1>1. /\ self' \in [Handler -> Time] /\ next' \in [Handler -> Time]
      /\ RightBut(self', next', Entered(tasks))
  <2>1. CASE Set(Mup1, MupTime)
    BY <2>1, SetStep, ConstantsAre
  <2>2. CASE \E t \in {Nil, self[Coap], AckTime} : SetBoth(t, MupTime)
    <3>1. PICK t \in {Nil, self[Coap], AckTime} : SetBoth(t, MupTime)
      BY <2>2
    <3>2. t \in Time
      BY <3>1, ConstantsAre DEF IInv, TypeOK
    <3>3. Entered(tasks) \in SUBSET Handler
      BY EnteredIn DEF IInv, TypeOK
    <3> DEFINE s1 == [self EXCEPT ![Coap] = t]
               n1 == Calc(s1, next, Coap)
               s2 == [s1 EXCEPT ![Mup1] = MupTime]
               n2 == Calc(s2, n1, Mup1)
    <3>4. self' = s2 /\ next' = n2
      BY <3>1 DEF SetBoth
    <3>5. /\ s1 \in [Handler -> Time] /\ n1 \in [Handler -> Time]
          /\ RightBut(s1, n1, Entered(tasks))
      BY <3>2, <3>3, SetRight, ConstantsAre DEF IInv, TypeOK
    <3> HIDE DEF s1, n1
    <3>6. /\ s2 \in [Handler -> Time] /\ n2 \in [Handler -> Time]
          /\ RightBut(s2, n2, Entered(tasks))
      BY <3>3, <3>5, SetRight, ConstantsAre
    <3>7. QED
      BY <3>4, <3>6
  <2>3. QED
    BY <2>1, <2>2 DEF Read
<1>2. TypeOK'
  BY <1>1 DEF Read, IInv, TypeOK
<1>3. QED
  BY <1>1, <1>2 DEF Read, IInv, PollHasTimeout

\* timeout_cb begins with no handler entered.
LEMMA ExpireStep == IInv /\ Expire => IInv'
<1> SUFFICES ASSUME IInv, Expire PROVE IInv'
  OBVIOUS
<1>1. tasks' = <<Enter(Dut)>> /\ Enter(Dut) \in Task
  BY ConstantsAre DEF Expire, Enter, Task
<1>2. Entered(tasks') = {} /\ tasks' \in Seq(Task)
  BY <1>1 DEF Entered, Enter
<1>3. Entered(tasks) = {}
  BY EnteredNone DEF IInv, Expire
<1>4. TypeOK'
  BY <1>2 DEF Expire, IInv, TypeOK, call
<1>5. QED
  BY <1>2, <1>3, <1>4 DEF Expire, IInv, PollHasTimeout, call

\* timeout_cb has left every handler.
LEMMA CbDoneStep == IInv /\ CbDone => IInv'
<1> SUFFICES ASSUME IInv, CbDone PROVE IInv'
  OBVIOUS
<1>1. TypeOK'
  BY DEF CbDone, IInv, TypeOK, call
<1>2. QED
  BY <1>1 DEF CbDone, IInv, PollHasTimeout, call

\* A concatenation is one sequence after the other.
LEMMA Joined ==
  ASSUME NEW a \in Seq(Task), NEW b \in Seq(Task)
  PROVE  /\ a \o b \in Seq(Task) /\ Len(a \o b) = Len(a) + Len(b)
         /\ \A i \in 1 .. Len(a) : (a \o b)[i] = a[i]
         /\ \A i \in 1 .. Len(b) : (a \o b)[Len(a) + i] = b[i]
<1>1. Len(a) \in Nat /\ Len(b) \in Nat
  OBVIOUS
<1>2. /\ a \o b \in Seq(Task) /\ Len(a \o b) = Len(a) + Len(b)
      /\ \A i \in 1 .. Len(a) + Len(b) : (a \o b)[i] = IF i <= Len(a) THEN a[i] ELSE b[i - Len(a)]
  BY ConcatProperties
<1>3. ASSUME NEW i \in 1 .. Len(b)
      PROVE  (a \o b)[Len(a) + i] = b[i]
  <2>1. /\ Len(a) + i \in 1 .. Len(a) + Len(b) /\ ~(Len(a) + i <= Len(a))
        /\ (Len(a) + i) - Len(a) = i
    BY <1>1
  <2>2. QED
    BY <1>2, <2>1
<1>4. ASSUME NEW i \in 1 .. Len(a)
      PROVE  (a \o b)[i] = a[i]
  <2>1. i \in 1 .. Len(a) + Len(b) /\ i <= Len(a)
    BY <1>1
  <2>2. QED
    BY <1>2, <2>1
<1>5. QED
  BY <1>2, <1>3, <1>4

\* The calls that timeout_cb of h adds to those that are left.
LEMMA TasksEntered ==
  ASSUME NEW h \in Handler, NEW ts \in Seq(Task), ts # <<>>, Head(ts).do = "enter"
  PROVE  LET us == [i \in 1 .. Cardinality(Children(h)) |-> Enter(SetToSeq(Children(h))[i])]
                     \o <<Leave(h)>> \o Tail(ts)
         IN  us \in Seq(Task) /\ Entered(us) = Entered(ts) \cup {h}
<1> DEFINE C == Children(h)
           N == Cardinality(C)
           q == SetToSeq(C)
           as == [i \in 1 .. N |-> Enter(q[i])]
           bs == as \o <<Leave(h)>>
           cs == Tail(ts)
<1>1. IsFiniteSet(C) /\ C \in SUBSET Handler
  BY EventLoopAssumption, FS_Subset DEF Children
<1>2. N \in Nat
  BY <1>1, FS_CardinalityType
<1>3. \A i \in 1 .. N : q[i] \in C
  <2>1. \E f : f \in [1 .. N -> C] /\ IsInjective(f)
    <3>1. PICK n \in Nat : ExistsBijection(1 .. n, C)
      BY <1>1, FS_NatBijection
    <3>2. N = n
      BY <3>1, FS_CountingElements
    <3>3. PICK f : f \in Bijection(1 .. N, C)
      BY <3>1, <3>2 DEF ExistsBijection
    <3>4. QED
      BY <3>3 DEF Bijection, Injection
  <2>2. QED
    BY <2>1 DEF SetToSeq
<1>4. \A i \in 1 .. N : Enter(q[i]) \in Task
  BY <1>1, <1>3 DEF Enter, Task
<1>5. as \in Seq(Task) /\ Len(as) = N /\ DOMAIN as = 1 .. N
  BY <1>2, <1>4
<1>6. Leave(h) \in Task
  BY DEF Leave, Task
<1>20. \A i \in 1 .. N : as[i].do = "enter"
  BY <1>5 DEF Enter
<1> HIDE DEF as, N
<1>19. <<Leave(h)>> \in Seq(Task) /\ Len(<<Leave(h)>>) = 1 /\ <<Leave(h)>>[1] = Leave(h)
  BY <1>6
<1>7. /\ bs \in Seq(Task) /\ Len(bs) = N + 1
      /\ \A i \in 1 .. N : bs[i] = as[i]
      /\ bs[N + 1] = Leave(h)
  <2>1. /\ bs \in Seq(Task) /\ Len(bs) = Len(as) + 1
        /\ \A i \in 1 .. Len(as) : bs[i] = as[i]
        /\ \A i \in 1 .. 1 : bs[Len(as) + i] = <<Leave(h)>>[i]
    BY <1>5, <1>19, Joined, Zenon
  <2>2. 1 \in 1 .. 1
    OBVIOUS
  <2>3. QED
    BY <1>5, <1>19, <2>1, <2>2
<1>8. /\ cs \in Seq(Task) /\ Len(cs) = Len(ts) - 1 /\ Len(ts) \in Nat
      /\ \A i \in 1 .. Len(cs) : cs[i] = ts[i + 1]
  OBVIOUS
<1> HIDE DEF bs, cs
<1> DEFINE us == bs \o cs
<1>9. /\ us \in Seq(Task) /\ Len(us) = N + 1 + Len(cs)
      /\ \A i \in 1 .. N + 1 : us[i] = bs[i]
      /\ \A i \in 1 .. Len(cs) : us[N + 1 + i] = cs[i]
  <2>1. /\ us \in Seq(Task) /\ Len(us) = Len(bs) + Len(cs)
        /\ \A i \in 1 .. Len(bs) : us[i] = bs[i]
        /\ \A i \in 1 .. Len(cs) : us[Len(bs) + i] = cs[i]
    BY <1>7, <1>8, Joined, Zenon
  <2>2. QED
    BY <1>7, <2>1
<1> HIDE DEF us
<1>10. DOMAIN us = 1 .. N + 1 + Len(cs) /\ DOMAIN ts = 1 .. Len(ts)
  BY <1>2, <1>8, <1>9
<1>11. \A i \in 1 .. N : us[i].do # "leave"
  <2>1. TAKE i \in 1 .. N
  <2>2. i \in 1 .. N + 1
    BY <1>2
  <2>3. QED
    BY <1>7, <1>9, <1>20, <2>2
<1>12. us[N + 1].do = "leave" /\ us[N + 1].at = h
  BY <1>2, <1>7, <1>9 DEF Leave
<1>13. \A i \in 1 .. Len(cs) : us[N + 1 + i] = ts[i + 1]
  BY <1>8, <1>9
<1>14. ts[1].do # "leave"
  OBVIOUS
<1>15. ASSUME NEW x \in Entered(us) PROVE x \in Entered(ts) \cup {h}
  <2>1. PICK i \in DOMAIN us : us[i].do = "leave" /\ us[i].at = x
    BY DEF Entered
  <2>2. i = N + 1 \/ \E j \in 1 .. Len(cs) : i = N + 1 + j
    <3>1. i \in 1 .. N + 1 + Len(cs) /\ ~(i \in 1 .. N)
      BY <1>10, <1>11, <2>1
    <3>4. Len(cs) \in Nat
      BY <1>8
    <3>2. i # N + 1 => i - N - 1 \in 1 .. Len(cs) /\ i = N + 1 + (i - N - 1)
      BY <1>2, <3>1, <3>4
    <3>3. QED
      BY <3>2
  <2>3. CASE i = N + 1
    BY <1>12, <2>1, <2>3
  <2>4. CASE \E j \in 1 .. Len(cs) : i = N + 1 + j
    <3>1. PICK j \in 1 .. Len(cs) : i = N + 1 + j
      BY <2>4
    <3>2. j + 1 \in DOMAIN ts /\ ts[j + 1] = us[i]
      BY <1>8, <1>10, <1>13, <3>1
    <3>3. QED
      BY <2>1, <3>2 DEF Entered
  <2>5. QED
    BY <2>2, <2>3, <2>4
<1>16. ASSUME NEW x \in Entered(ts) PROVE x \in Entered(us)
  <2>1. PICK i \in DOMAIN ts : ts[i].do = "leave" /\ ts[i].at = x
    BY DEF Entered
  <2>2. i - 1 \in 1 .. Len(cs) /\ (i - 1) + 1 = i
    BY <1>8, <1>10, <1>14, <2>1
  <2>3. us[N + 1 + (i - 1)] = ts[i] /\ N + 1 + (i - 1) \in DOMAIN us
    BY <1>2, <1>8, <1>10, <1>13, <2>2
  <2>4. QED
    BY <2>1, <2>3 DEF Entered
<1>17. h \in Entered(us)
  <2>1. N + 1 \in DOMAIN us
    BY <1>2, <1>8, <1>10
  <2>2. QED
    BY <1>12, <2>1 DEF Entered
<1>18. QED
  BY <1>9, <1>15, <1>16, <1>17 DEF us, bs, as, cs, N

\* The handler entered is no longer spoken of.
LEMMA CbEnterStep == IInv /\ CbEnter => IInv'
<1> SUFFICES ASSUME IInv, CbEnter PROVE IInv'
  OBVIOUS
<1> DEFINE h == Head(tasks).at
           W == Entered(tasks)
<1>1. tasks \in Seq(Task) /\ tasks # <<>> /\ Head(tasks).do = "enter"
  BY DEF CbEnter, IInv, TypeOK
<1>2. h \in Handler
  <2>1. Head(tasks) \in Task
    BY <1>1
  <2>2. QED
    BY <2>1 DEF Task
<1>3. W \in SUBSET Handler
  BY <1>1, EnteredIn
<1>4. tasks' \in Seq(Task) /\ Entered(tasks') = W \cup {h}
  BY <1>1, <1>2, TasksEntered DEF CbEnter
<1>5. /\ self' \in [Handler -> Time] /\ next' \in [Handler -> Time]
      /\ RightBut(self', next', W \cup {h})
  <2>1. CASE UNCHANGED <<self, next, retry>>
    BY <2>1 DEF IInv, TypeOK, RightBut
  <2>2. CASE h = Coap /\ CoapWork
    <3>1. PICK t \in {AckTime, Nil} : Set(Coap, t)
      BY <2>2 DEF CoapWork
    <3>2. /\ self' \in [Handler -> Time] /\ next' \in [Handler -> Time]
          /\ RightBut(self', next', W)
      BY <3>1, SetStep, ConstantsAre
    <3>3. QED
      BY <3>2 DEF RightBut
  <2>3. CASE ClearOnly(h)
    <3>1. self' = [self EXCEPT ![h] = Nil] /\ next' = next
      BY <2>3 DEF ClearOnly
    <3>2. ASSUME NEW k \in Handler, Sub(k) \cap (W \cup {h}) = {}
          PROVE  EarliestOf(self', k) = EarliestOf(self, k) /\ Sub(k) \cap W = {}
      <4>1. \A x \in Sub(k) : self'[x] = self[x]
        BY <3>1, <3>2 DEF Sub, IInv, TypeOK
      <4>2. {self'[x] : x \in Sub(k)} = {self[x] : x \in Sub(k)}
        BY <4>1
      <4>3. QED
        BY <3>2, <4>2 DEF EarliestOf
    <3>3. QED
      BY <3>1, <3>2, ConstantsAre DEF IInv, TypeOK, RightBut
  <2>4. QED
    BY <2>1, <2>2, <2>3 DEF CbEnter
<1>6. TypeOK'
  BY <1>4, <1>5 DEF CbEnter, IInv, TypeOK
<1>7. QED
  BY <1>4, <1>5, <1>6 DEF CbEnter, IInv, PollHasTimeout

\* The calculation makes up for the handler that is left.
LEMMA CbLeaveStep == IInv /\ CbLeave => IInv'
<1> SUFFICES ASSUME IInv, CbLeave PROVE IInv'
  OBVIOUS
<1> DEFINE h == Head(tasks).at
           W == Entered(tasks)
           V == Entered(Tail(tasks))
<1>1. tasks \in Seq(Task) /\ tasks # <<>> /\ Tail(tasks) \in Seq(Task)
  BY DEF CbLeave, IInv, TypeOK
<1>2. h \in Handler
  <2>1. Head(tasks) \in Task
    BY <1>1
  <2>2. QED
    BY <2>1 DEF Task
<1>3. V \in SUBSET Handler
  BY <1>1, EnteredIn
<1>4. W \subseteq V \cup {h}
  <2>1. SUFFICES ASSUME NEW x \in W, x # h PROVE x \in V
    OBVIOUS
  <2>2. PICK i \in DOMAIN tasks : tasks[i].do = "leave" /\ tasks[i].at = x
    BY DEF Entered
  <2>3. i # 1 /\ i \in 1 .. Len(tasks) /\ Len(tasks) \in Nat
    BY <1>1, <2>1, <2>2
  <2>4. i - 1 \in DOMAIN Tail(tasks) /\ Tail(tasks)[i - 1] = tasks[i]
    BY <1>1, <2>3
  <2>5. QED
    BY <2>2, <2>4 DEF Entered
<1>5. RightBut(self, next, V \cup {h})
  BY <1>4 DEF IInv, RightBut
<1>10. self \in [Handler -> Time] /\ next \in [Handler -> Time]
  BY DEF IInv, TypeOK
<1> HIDE DEF h, V
<1>6. /\ Calc(self, next, h) \in [Handler -> Time]
      /\ RightBut(self, Calc(self, next, h), V)
  BY <1>2, <1>3, <1>5, <1>10, CalcRight
<1>7. next' = Calc(self, next, h) /\ tasks' = Tail(tasks) /\ self' = self /\ Entered(tasks') = V
  BY DEF CbLeave, h, V
<1>8. TypeOK'
  BY <1>1, <1>6, <1>7 DEF CbLeave, IInv, TypeOK, call
<1>9. QED
  BY <1>6, <1>7, <1>8 DEF CbLeave, IInv, PollHasTimeout, call

\* Time takes from timers, caches and the deadline alike.
LEMMA TickStep == IInv /\ Tick => IInv'
<1> SUFFICES ASSUME IInv, Tick PROVE IInv'
  OBVIOUS
<1>1. \A t \in Time : Less(t) \in Time
  BY DEF Less, Time, Nil
<1>2. \A k \in Handler : EarliestOf(self', k) = Less(EarliestOf(self, k))
  BY LessEarliest DEF Tick, IInv, TypeOK
<1>3. RightBut(self', next', Entered(tasks))
  BY <1>2 DEF Tick, IInv, RightBut
<1>4. pc = "select" => deadline' = EarliestOf(self', Dut)
  BY <1>2, ConstantsAre DEF Tick, IInv
<1>5. self' \in [Handler -> Time] /\ next' \in [Handler -> Time] /\ deadline' \in Time
  BY <1>1 DEF Tick, IInv, TypeOK
<1>6. TypeOK'
  BY <1>5 DEF Tick, IInv, TypeOK
<1>7. QED
  BY <1>3, <1>4, <1>6 DEF Tick, IInv, PollHasTimeout

\* Every step keeps the invariant.
LEMMA NextIInv == IInv /\ [Next]_vars => IInv'
<1> SUFFICES ASSUME IInv, [Next]_vars PROVE IInv'
  OBVIOUS
<1>1. CASE Return
  <2>1. TypeOK'
    BY <1>1 DEF Return, IInv, TypeOK, call
  <2>2. QED
    BY <1>1, <2>1 DEF Return, IInv, PollHasTimeout, call
<1>2. CASE Arrive
  <2>1. TypeOK'
    BY <1>2 DEF Arrive, IInv, TypeOK, call
  <2>2. QED
    BY <1>2, <2>1 DEF Arrive, IInv, PollHasTimeout, call
<1>3. CASE UNCHANGED vars
  <2>1. TypeOK'
    BY <1>3 DEF vars, IInv, TypeOK, call
  <2>2. QED
    BY <1>3, <2>1 DEF vars, IInv, PollHasTimeout, call
<1>4. QED
  BY <1>1, <1>2, <1>3, CallStep, PollStep, ReadStep, ExpireStep, CbEnterStep, CbLeaveStep,
     CbDoneStep, TickStep DEF Next, Loop

\* The invariant holds throughout.
LEMMA AlwaysIInv == Spec => []IInv
BY InitIInv, NextIInv, PTL DEF Spec

-----------------------------------------------------------------------------
(* The properties *)

\* Outside timeout_cb every timeout_next is the earliest timer of its subtree,
\* and select was given the earliest of all: whatever the tree of handlers, the
\* times and the number of retransmissions.
THEOREM CachesAreRight == Spec => []NextIsEarliest
<1>1. IInv => NextIsEarliest
  <2>1. SUFFICES ASSUME IInv PROVE NextIsEarliest
    OBVIOUS
  <2>2. pc = "select" => deadline = Earliest({self[h] : h \in Handler})
    BY <2>1, SubOfDut DEF IInv, EarliestOf
  <2>3. ASSUME pc # "cb", NEW h \in Handler
        PROVE  next[h] = Earliest({self[x] : x \in Sub(h)})
    <3>1. Entered(tasks) = {}
      BY <2>1, <2>3, EnteredNone DEF IInv
    <3>2. QED
      BY <2>1, <3>1 DEF IInv, RightBut, EarliestOf
  <2>4. QED
    BY <2>2, <2>3 DEF NextIsEarliest, Sub
<1>2. QED
  BY <1>1, AlwaysIInv, PTL

\* Dut#poll never raises for want of a timer in a request, a ping or listen, since
\* each sets one that the tree does not lose before select.
THEOREM TimersForPoll == Spec => []PollHasTimeout
<1>1. IInv => PollHasTimeout
  BY DEF IInv
<1>2. QED
  BY <1>1, AlwaysIInv, PTL
=============================================================================
