-------------------------- MODULE YangTypesProofs --------------------------
(***************************************************************************)
(* Proofs about pyang's types.  First the restrictions: in a chain of      *)
(* ranges or lengths without an error, the numbers that are taken are      *)
(* those that all its statements ask for, and a restriction that fits is   *)
(* accepted.  Then the defaults: one without an error is what its text     *)
(* says, and a value of the type it ends up in.                            *)
(*                                                                         *)
(* The first invariant says of an exact chain (Tight) that its last        *)
(* restriction alone, between its own limits, is the set asked for so far: *)
(* that is all that the check of the next one looks at                     *)
(* (common_restriction).  The second (DInv) is about the shape of all      *)
(* layers, and needs of numbers only that none is taken that was not asked *)
(* for (Loose), which is true of a chain that overshoots as well.          *)
(***************************************************************************)
EXTENDS YangTypes, WellFoundedInduction, FiniteSetTheorems, TLAPS

----------------------------------------------------------------------------
(* Numbers and sequences *)

\* A set of numbers has a least one: the induction used below.
LEMMA Least ==
  ASSUME NEW S \in SUBSET Nat, S # {}
  PROVE  \E low \in S : \A k \in S : low <= k
<1> DEFINE R == {ss \in Nat \X Nat : ss[1] < ss[2]}
<1>1. IsWellFoundedOn(R, Nat)
  BY NatLessThanWellFounded DEF OpToRel
<1>2. PICK low \in S : \A k \in S : <<k, low>> \notin R
  BY <1>1, WFMin
<1>3. ASSUME NEW k \in S
      PROVE  low <= k
  <2>1. k \in Nat /\ low \in Nat
    OBVIOUS
  <2>2. ~(k < low)
    BY <1>2, <2>1
  <2>3. QED
    BY <2>1, <2>2
<1>4. QED
  BY <1>3

\* The two facts that make an induction up to n of Least.
LEMMA Climb ==
  ASSUME NEW n \in Nat, NEW S, 0 \in S,
         \A k \in 1 .. n : k - 1 \in S => k \in S
  PROVE  \A k \in 0 .. n : k \in S
<1> DEFINE Bad == {k \in 0 .. n : k \notin S}
<1>1. SUFFICES ASSUME Bad # {} PROVE FALSE
  OBVIOUS
<1>2. Bad \in SUBSET Nat
  OBVIOUS
<1>3. PICK j \in Bad : \A i \in Bad : j <= i
  BY <1>1, <1>2, Least
<1>4. j \in 0 .. n /\ j \notin S
  OBVIOUS
<1>5. j \in 1 .. n
  BY <1>4
<1>6. j - 1 \in 0 .. n /\ ~(j <= j - 1)
  BY <1>5
<1>7. j - 1 \notin Bad
  BY <1>3, <1>6
<1>8. j - 1 \in S
  BY <1>6, <1>7
<1>9. QED
  BY <1>4, <1>5, <1>8

\* A set of numbers with an upper bound has a greatest one.
LEMMA Greatest ==
  ASSUME NEW n \in Nat, NEW S \in SUBSET (1 .. n), S # {}
  PROVE  Max(S) \in S /\ \A k \in S : k <= Max(S)
<1> DEFINE Gaps == {n - k : k \in S}
<1>1. Gaps \in SUBSET Nat /\ Gaps # {}
  <2>1. ASSUME NEW k \in S
        PROVE  n - k \in Nat
    OBVIOUS
  <2>2. QED
    BY <2>1
<1>2. PICK g \in Gaps : \A h \in Gaps : g <= h
  BY <1>1, Least
<1>3. PICK m \in S : g = n - m
  OBVIOUS
<1>4. ASSUME NEW k \in S
      PROVE  m >= k
  <2>1. n - k \in Gaps
    OBVIOUS
  <2>2. n - m <= n - k
    BY <1>2, <1>3, <2>1
  <2>3. QED
    BY <2>2
<1>5. \E x \in S : \A y \in S : x >= y
  BY <1>4
<1>6. Max(S) \in S /\ \A y \in S : Max(S) >= y
  BY <1>5 DEF Max
<1>7. QED
  BY <1>6

\* The ends of a set that has them are its limits.
LEMMA LimitsAreEnds ==
  ASSUME NEW L \in SUBSET Int, NEW lo \in L, NEW hi \in L,
         \A v \in L : lo <= v /\ v <= hi
  PROVE  Min(L) = lo /\ Max(L) = hi
<1>1. Min(L) \in L /\ \A v \in L : Min(L) <= v
  BY DEF Min
<1>2. Max(L) \in L /\ \A v \in L : Max(L) >= v
  BY DEF Max
<1>3. Min(L) <= lo /\ lo <= Min(L) /\ Max(L) >= hi /\ Max(L) <= hi
  BY <1>1, <1>2
<1>4. Min(L) \in Int /\ Max(L) \in Int /\ lo \in Int /\ hi \in Int
  BY <1>1, <1>2
<1>5. QED
  BY <1>3, <1>4

----------------------------------------------------------------------------
(* A part is two ends, and they ascend. *)

LEMMA Words ==
  /\ MinWord \in End /\ MaxWord \in End /\ None \notin End
  /\ \A x \in End : x \in Int /\ x # None /\ MinWord <= x /\ x <= MaxWord
  BY LimitsAssumption DEF End, None

LEMMA PartIs ==
  ASSUME NEW p \in RangePart
  PROVE  /\ p = <<p[1], p[2]>>
         /\ p[1] \in End /\ Upper(p) \in End
         /\ p[2] # None => p[2] \in End /\ Upper(p) = p[2]
         /\ p[2] = None => Upper(p) = p[1]
  BY DEF RangePart, Upper

LEMMA PartGrows ==
  ASSUME NEW p \in RangePart, p[2] # None => p[1] < p[2]
  PROVE  p[1] <= Upper(p) /\ p[1] \in Int /\ Upper(p) \in Int
<1>1. p[1] \in Int /\ Upper(p) \in Int
  BY PartIs, Words
<1>2. QED
  BY <1>1, PartIs

\* is_smaller is the order of the ends, with min below and max above.
LEMMA SmallerIsLess ==
  ASSUME NEW lo \in End, NEW hi \in End
  PROVE  is_smaller(lo, hi) <=> lo < hi
  BY Words, LimitsAssumption DEF is_smaller, End, None

LEMMA SmallerAlone ==
  ASSUME NEW lo \in End
  PROVE  is_smaller(None, lo) /\ is_smaller(lo, None)
  BY Words, LimitsAssumption DEF is_smaller, None

(* Parts in ascending order: what the loop of validate_ranges lets pass.   *)
Ordered(parts) ==
  \A i \in DOMAIN parts :
    /\ parts[i][2] # None => parts[i][1] < parts[i][2]
    /\ \A j \in DOMAIN parts : i < j => Upper(parts[i]) < parts[j][1]

Before(parts, k) == IF k = 1 THEN None ELSE Upper(parts[k - 1])

----------------------------------------------------------------------------
(* The loop of validate_ranges *)

PState == [cur : End \cup {None}, ok : BOOLEAN, err : BOOLEAN, raised : BOOLEAN]
Start == [cur |-> None, ok |-> TRUE, err |-> FALSE, raised |-> FALSE]
Good(st) == st.ok /\ ~st.err /\ ~st.raised

\* a is the recursive function of validate_ranges, up to k.
StepsTo(a, k, spec, parts) ==
  a = [i \in 0 .. k |-> IF i = 0 THEN Start ELSE PartStep(spec, a[i - 1], parts[i])]

LEMMA StepsExist ==
  ASSUME NEW spec, NEW parts, NEW n \in Nat
  PROVE  \E a : StepsTo(a, n, spec, parts)
<1> DEFINE S == {k \in 0 .. n : \E a : StepsTo(a, k, spec, parts)}
<1>1. 0 \in S
  <2>1. StepsTo([i \in 0 .. 0 |-> Start], 0, spec, parts)
    BY DEF StepsTo
  <2>2. QED
    BY <2>1
<1>2. ASSUME NEW j \in 1 .. n, j - 1 \in S
      PROVE  j \in S
  <2>1. PICK a : StepsTo(a, j - 1, spec, parts)
    BY <1>2
  <2> DEFINE f == [i \in 0 .. j |-> IF i = j THEN PartStep(spec, a[j - 1], parts[j]) ELSE a[i]]
  <2>2. ASSUME NEW i \in 0 .. j
        PROVE  f[i] = IF i = 0 THEN Start ELSE PartStep(spec, f[i - 1], parts[i])
    <3>1. CASE i = j
      <4>1. j - 1 \in 0 .. j /\ j - 1 # j /\ i # 0
        BY <3>1
      <4>2. f[j - 1] = a[j - 1]
        BY <4>1
      <4>3. QED
        BY <3>1, <4>1, <4>2
    <3>2. CASE i # j
      <4>1. i \in 0 .. j - 1
        BY <3>2
      <4>2. f[i] = a[i]
        BY <3>2
      <4>3. a[i] = IF i = 0 THEN Start ELSE PartStep(spec, a[i - 1], parts[i])
        BY <2>1, <4>1 DEF StepsTo
      <4>4. i # 0 => f[i - 1] = a[i - 1]
        BY <4>1
      <4>5. QED
        BY <4>2, <4>3, <4>4
    <3>3. QED
      BY <3>1, <3>2
  <2>3. StepsTo(f, j, spec, parts)
    BY <2>2 DEF StepsTo
  <2>4. QED
    BY <2>3
<1> HIDE DEF S
<1>3. n \in S
  BY <1>1, <1>2, Climb
<1>4. QED
  BY <1>3 DEF S

\* The loop goes from part to part.
LEMMA LoopIs ==
  ASSUME NEW spec, NEW parts \in Seq(RangePart)
  PROVE  \E a : /\ a[0] = Start
                /\ \A k \in 1 .. Len(parts) : a[k] = PartStep(spec, a[k - 1], parts[k])
                /\ validate_ranges(spec, parts) = a[Len(parts)]
<1> DEFINE a == CHOOSE g : StepsTo(g, Len(parts), spec, parts)
<1>1. Len(parts) \in Nat
  OBVIOUS
<1>2. StepsTo(a, Len(parts), spec, parts)
  BY <1>1, StepsExist
<1>3. validate_ranges(spec, parts) = a[Len(parts)]
  BY DEF validate_ranges, Along, StepsTo, Start
<1> HIDE DEF a
<1>4. QED
  BY <1>1, <1>2, <1>3 DEF StepsTo

(* What one turn asks of a part: by the base, and by the part before.      *)
InBase(spec, p) ==
  IF Last(spec).class = "parts"
  THEN ~Against(spec, p[1], p[2]).err /\ ~Against(spec, p[1], p[2]).raised
  ELSE ~OutOf(spec, p[1]) /\ ~OutOf(spec, p[2])
Late(cur, p) == p[1] = MaxWord /\ cur \notin {None, MinWord}
Early(p) == p[1] = MinWord /\ p[2] \notin {None, MaxWord}
Accepts(spec, cur, p) ==
  /\ InBase(spec, p) /\ Ascends(cur, p)
  /\ Late(cur, p) => ~(cur >= Last(spec).max)
  /\ Early(p) => ~(p[2] < Last(spec).min)

Base(spec, p) ==
  IF Last(spec).class = "parts" THEN Against(spec, p[1], p[2])
  ELSE [err |-> OutOf(spec, p[1]) \/ OutOf(spec, p[2]), raised |-> FALSE]
Raises(spec, cur, p) ==
  Ascends(cur, p) /\ \/ Late(cur, p) /\ Keyword(Last(spec).max)
                     \/ Early(p) /\ Keyword(Last(spec).min)
Ascended(spec, cur, p) ==
  /\ Ascends(cur, p)
  /\ ~(Late(cur, p) /\ cur >= Last(spec).max)
  /\ ~(Early(p) /\ p[2] < Last(spec).min)

LEMMA StepIs ==
  ASSUME NEW spec, NEW st \in PState, NEW p
  PROVE  PartStep(spec, st, p) =
           IF ~st.ok \/ st.raised THEN st
           ELSE IF Base(spec, p).raised \/ Raises(spec, st.cur, p) THEN [st EXCEPT !.raised = TRUE]
           ELSE [cur |-> Upper(p), ok |-> Ascended(spec, st.cur, p),
                 err |-> st.err \/ Base(spec, p).err, raised |-> FALSE]
  BY DEF PartStep, Base, Raises, Ascended, Late, Early

LEMMA BaseIs ==
  ASSUME NEW spec, NEW p
  PROVE  /\ Base(spec, p).err \in BOOLEAN /\ Base(spec, p).raised \in BOOLEAN
         /\ InBase(spec, p) <=> ~Base(spec, p).err /\ ~Base(spec, p).raised
<1>1. Against(spec, p[1], p[2]).err \in BOOLEAN /\ Against(spec, p[1], p[2]).raised \in BOOLEAN
  BY DEF Against
<1>2. OutOf(spec, p[1]) \in BOOLEAN /\ OutOf(spec, p[2]) \in BOOLEAN
  BY DEF OutOf
<1>3. QED
  BY <1>1, <1>2 DEF Base, InBase

\* A turn keeps the state's type, and what is wrong stays wrong.
LEMMA StepTyped ==
  ASSUME NEW spec, NEW st \in PState, NEW p \in RangePart
  PROVE  /\ PartStep(spec, st, p) \in PState
         /\ Good(PartStep(spec, st, p)) =>
              Good(st) /\ Accepts(spec, st.cur, p) /\ PartStep(spec, st, p).cur = Upper(p)
<1> DEFINE next == PartStep(spec, st, p)
<1>1. next =
           IF ~st.ok \/ st.raised THEN st
           ELSE IF Base(spec, p).raised \/ Raises(spec, st.cur, p) THEN [st EXCEPT !.raised = TRUE]
           ELSE [cur |-> Upper(p), ok |-> Ascended(spec, st.cur, p),
                 err |-> st.err \/ Base(spec, p).err, raised |-> FALSE]
  BY StepIs
<1>2. Upper(p) \in End
  BY PartIs
<1>3. Ascended(spec, st.cur, p) \in BOOLEAN
  BY DEF Ascended
<1>4. Base(spec, p).err \in BOOLEAN
  BY BaseIs
<1> HIDE DEF next
<1>5. CASE ~st.ok \/ st.raised
  BY <1>1, <1>5 DEF Good, next
<1>6. CASE ~(~st.ok \/ st.raised) /\ (Base(spec, p).raised \/ Raises(spec, st.cur, p))
  <2>1. next = [st EXCEPT !.raised = TRUE]
    BY <1>1, <1>6
  <2>2. next \in PState /\ next.raised
    BY <2>1 DEF PState
  <2>3. QED
    BY <2>2 DEF Good, next
<1>7. CASE ~(~st.ok \/ st.raised) /\ ~(Base(spec, p).raised \/ Raises(spec, st.cur, p))
  <2>1. next = [cur |-> Upper(p), ok |-> Ascended(spec, st.cur, p),
                err |-> st.err \/ Base(spec, p).err, raised |-> FALSE]
    BY <1>1, <1>7
  <2>2. next \in PState
    BY <2>1, <1>2, <1>3, <1>4 DEF PState
  <2>3. ASSUME Good(next)
        PROVE  Good(st) /\ Accepts(spec, st.cur, p) /\ next.cur = Upper(p)
    <3>1. Ascended(spec, st.cur, p) /\ ~st.err /\ ~Base(spec, p).err
      BY <2>1, <2>3 DEF Good
    <3>2. InBase(spec, p)
      BY <3>1, <1>7, BaseIs
    <3>3. Good(st)
      BY <3>1, <1>7 DEF Good
    <3>4. QED
      BY <2>1, <3>1, <3>2, <3>3 DEF Accepts, Ascended
  <2>4. QED
    BY <2>2, <2>3 DEF next
<1>8. QED
  BY <1>5, <1>6, <1>7

LEMMA StepAccepts ==
  ASSUME NEW spec, NEW st \in PState, NEW p \in RangePart, Good(st),
         Accepts(spec, st.cur, p), ~Keyword(Last(spec).min), ~Keyword(Last(spec).max)
  PROVE  Good(PartStep(spec, st, p)) /\ PartStep(spec, st, p).cur = Upper(p)
<1>1. ~Base(spec, p).err /\ ~Base(spec, p).raised
  BY BaseIs DEF Accepts
<1>2. ~Raises(spec, st.cur, p)
  BY DEF Raises
<1>3. Ascended(spec, st.cur, p)
  BY DEF Accepts, Ascended
<1>4. st.ok /\ ~st.err /\ ~st.raised
  BY DEF Good
<1>5. PartStep(spec, st, p) = [cur |-> Upper(p), ok |-> Ascended(spec, st.cur, p),
                               err |-> st.err \/ Base(spec, p).err, raised |-> FALSE]
  BY StepIs, <1>1, <1>2, <1>4
<1> DEFINE next == PartStep(spec, st, p)
<1>6. next.ok = Ascended(spec, st.cur, p) /\ next.err = (st.err \/ Base(spec, p).err)
      /\ next.raised = FALSE /\ next.cur = Upper(p)
  BY <1>5
<1> HIDE DEF next
<1>7. next.ok /\ ~next.err /\ ~next.raised
  BY <1>1, <1>3, <1>4, <1>6
<1>8. QED
  BY <1>6, <1>7 DEF Good, next

\* The loop ends well only if each part was accepted after the one before.
LEMMA GoodMeansAccepted ==
  ASSUME NEW spec, NEW parts \in Seq(RangePart), Good(validate_ranges(spec, parts))
  PROVE  \A k \in 1 .. Len(parts) : Accepts(spec, Before(parts, k), parts[k])
<1> DEFINE n == Len(parts)
<1>1. PICK a : /\ a[0] = Start
               /\ \A k \in 1 .. n : a[k] = PartStep(spec, a[k - 1], parts[k])
               /\ validate_ranges(spec, parts) = a[n]
  BY LoopIs
<1>2. n \in Nat /\ \A k \in 1 .. n : parts[k] \in RangePart
  OBVIOUS
<1> HIDE DEF n
<1>3. \A k \in 0 .. n : a[k] \in PState
  <2> DEFINE S == {k \in 0 .. n : a[k] \in PState}
  <2>1. 0 \in S
    <3>1. Start \in PState
      BY DEF Start, PState
    <3>2. a[0] = Start
      BY <1>1
    <3>3. QED
      BY <1>2, <3>1, <3>2
  <2>2. ASSUME NEW k \in 1 .. n, k - 1 \in S
        PROVE  k \in S
    BY <2>2, <1>1, <1>2, StepTyped
  <2> HIDE DEF S
  <2>3. \A k \in 0 .. n : k \in S
    BY <1>2, <2>1, <2>2, Climb
  <2>4. QED
    BY <2>3 DEF S
<1>4. \A k \in 0 .. n : Good(a[k])
  <2> DEFINE S == {j \in 0 .. n : \A k \in 0 .. n : k = n - j => Good(a[k])}
  <2>1. 0 \in S
    <3>1. n - 0 = n /\ 0 \in 0 .. n
      BY <1>2
    <3>2. Good(a[n])
      BY <1>1
    <3>3. QED
      BY <3>1, <3>2
  <2>2. ASSUME NEW j \in 1 .. n, j - 1 \in S
        PROVE  j \in S
    <3> DEFINE k == n - j + 1
    <3>1. k \in 1 .. n /\ k - 1 = n - j /\ n - (j - 1) = k /\ k - 1 \in 0 .. n /\ k \in 0 .. n
      BY <1>2
    <3>2. Good(a[k])
      BY <2>2, <3>1
    <3>3. a[k - 1] \in PState /\ a[k] = PartStep(spec, a[k - 1], parts[k]) /\ parts[k] \in RangePart
      BY <1>1, <1>2, <1>3, <3>1
    <3> HIDE DEF k
    <3>4. Good(a[k - 1])
      BY <3>2, <3>3, StepTyped
    <3>5. j \in 0 .. n
      BY <1>2
    <3>6. QED
      BY <3>1, <3>4, <3>5
  <2> HIDE DEF S
  <2>3. \A j \in 0 .. n : j \in S
    BY <1>2, <2>1, <2>2, Climb
  <2>4. ASSUME NEW k \in 0 .. n
        PROVE  Good(a[k])
    <3>1. n - k \in 0 .. n /\ n - (n - k) = k
      BY <1>2
    <3>2. n - k \in S
      BY <2>3, <3>1
    <3>3. QED
      BY <3>1, <3>2 DEF S
  <2>5. QED
    BY <2>4
<1>5. ASSUME NEW k \in 1 .. n
      PROVE  Accepts(spec, a[k - 1].cur, parts[k]) /\ a[k].cur = Upper(parts[k])
  <2>1. k - 1 \in 0 .. n /\ k \in 0 .. n
    BY <1>2
  <2>2. a[k - 1] \in PState /\ a[k] = PartStep(spec, a[k - 1], parts[k]) /\ parts[k] \in RangePart
    BY <1>1, <1>2, <1>3, <2>1
  <2>3. QED
    BY <1>4, <2>1, <2>2, StepTyped
<1>6. ASSUME NEW k \in 1 .. n
      PROVE  a[k - 1].cur = Before(parts, k)
  <2>1. CASE k = 1
    BY <1>1, <2>1 DEF Before, Start
  <2>2. CASE k # 1
    <3>1. k - 1 \in 1 .. n
      BY <1>2, <2>2
    <3>2. a[k - 1].cur = Upper(parts[k - 1])
      BY <1>5, <3>1
    <3>3. QED
      BY <2>2, <3>2 DEF Before
  <2>3. QED
    BY <2>1, <2>2
<1>7. QED
  BY <1>5, <1>6 DEF n

\* And it does end well then.
LEMMA AcceptedMeansGood ==
  ASSUME NEW spec, NEW parts \in Seq(RangePart),
         ~Keyword(Last(spec).min), ~Keyword(Last(spec).max),
         \A k \in 1 .. Len(parts) : Accepts(spec, Before(parts, k), parts[k])
  PROVE  Good(validate_ranges(spec, parts))
<1> DEFINE n == Len(parts)
<1>1. PICK a : /\ a[0] = Start
               /\ \A k \in 1 .. n : a[k] = PartStep(spec, a[k - 1], parts[k])
               /\ validate_ranges(spec, parts) = a[n]
  BY LoopIs
<1>2. n \in Nat /\ \A k \in 1 .. n : parts[k] \in RangePart
  OBVIOUS
<1> HIDE DEF n
<1> DEFINE S == {k \in 0 .. n : /\ a[k] \in PState /\ Good(a[k])
                                /\ k < n => a[k].cur = Before(parts, k + 1)}
<1>3. 0 \in S
  <2>1. Start \in PState /\ Good(Start) /\ Start.cur = Before(parts, 1)
    BY DEF Start, PState, Good, Before
  <2>2. QED
    BY <1>1, <1>2, <2>1
<1>4. ASSUME NEW k \in 1 .. n, k - 1 \in S
      PROVE  k \in S
  <2>1. k - 1 < n /\ k - 1 + 1 = k /\ k \in 0 .. n
    BY <1>2
  <2>2. a[k - 1] \in PState /\ Good(a[k - 1]) /\ a[k - 1].cur = Before(parts, k)
    BY <1>4, <2>1
  <2>3. Accepts(spec, Before(parts, k), parts[k]) /\ parts[k] \in RangePart
    BY <1>2 DEF n
  <2>4. a[k] = PartStep(spec, a[k - 1], parts[k])
    BY <1>1
  <2>5. a[k] \in PState /\ Good(a[k]) /\ a[k].cur = Upper(parts[k])
    BY <2>2, <2>3, <2>4, StepTyped, StepAccepts
  <2>6. k + 1 # 1 /\ k + 1 - 1 = k
    BY <1>2
  <2>7. a[k].cur = Before(parts, k + 1)
    BY <2>5, <2>6 DEF Before
  <2>8. QED
    BY <2>1, <2>5, <2>7
<1> HIDE DEF S
<1>5. \A k \in 0 .. n : k \in S
  BY <1>2, <1>3, <1>4, Climb
<1>6. Good(a[n])
  <2>1. n \in 0 .. n
    BY <1>2
  <2>2. n \in S
    BY <1>5, <2>1
  <2>3. QED
    BY <2>2 DEF S
<1>7. QED
  BY <1>1, <1>6

----------------------------------------------------------------------------
(* Exact chains *)

(* What is known of a chain whose statements ask for the numbers in L, of  *)
(* which top is the last restriction: its limits are the ends of L, and    *)
(* between them its parts alone are L.                                     *)
Limit == MinWord + 1 .. MaxWord - 1

Outline(top, L) ==
  /\ L \subseteq Wide
  /\ top.min \in Limit /\ top.max \in Limit
  /\ top.min \in L /\ top.max \in L
  /\ \A v \in L : top.min <= v /\ v <= top.max
  /\ top.class = "parts" =>
       /\ top.parts \in Seq(RangePart) /\ Ordered(top.parts)
       /\ \A i \in DOMAIN top.parts : Piece(L, top.parts[i]) \subseteq L
  /\ \A v \in top.min .. top.max : v \in L <=> (top.class = "parts" => Parts(top, v) # {})

Tight(spec, top, L) ==
  /\ Outline(top, L)
  /\ \A v \in Int : NumberValid(spec, v) <=> v \in L

LEMMA WideIsInt == Wide \subseteq Int
  BY DEF Wide

LEMMA LimitIs ==
  ASSUME NEW x \in Limit
  PROVE  x \in Int /\ ~Keyword(x) /\ x \in End /\ x # None /\ MinWord < x /\ x < MaxWord
  BY LimitsAssumption DEF Limit, Keyword, End, None

LEMMA OutlineEnds ==
  ASSUME NEW top, NEW L, Outline(top, L)
  PROVE  /\ Min(L) = top.min /\ Max(L) = top.max /\ L \subseteq Int /\ L # {}
         /\ top.min \in Int /\ top.max \in Int /\ top.min <= top.max
         /\ ~Keyword(top.min) /\ ~Keyword(top.max)
<1>1. L \in SUBSET Int
  BY WideIsInt DEF Outline
<1>2. top.min \in L /\ top.max \in L /\ \A v \in L : top.min <= v /\ v <= top.max
  BY DEF Outline
<1>3. Min(L) = top.min /\ Max(L) = top.max
  BY <1>1, <1>2, LimitsAreEnds
<1>4. ~Keyword(top.min) /\ ~Keyword(top.max)
  BY LimitIs DEF Outline
<1>5. QED
  BY <1>1, <1>2, <1>3, <1>4

\* The ends of a part, its words read by L.
LEMMA MeantIs ==
  ASSUME NEW top, NEW L, Outline(top, L), NEW x \in End
  PROVE  /\ x = MinWord => Meant(L, x) = top.min
         /\ x = MaxWord => Meant(L, x) = top.max
         /\ x # MinWord /\ x # MaxWord => Meant(L, x) = x
         /\ Meant(L, x) \in Int
<1>1. MinWord # MaxWord
  BY LimitsAssumption
<1>2. QED
  BY <1>1, OutlineEnds, Words DEF Meant

\* A part of a layer is the piece it means, for the numbers within L's ends.
LEMMA PieceIs ==
  ASSUME NEW top, NEW L, Outline(top, L), NEW layer, NEW p \in RangePart,
         p[2] # None => p[1] < p[2],
         p[1] = MinWord /\ p[2] = None => layer.min = top.min,
         p[1] = MaxWord => layer.max = top.max,
         NEW v \in top.min .. top.max
  PROVE  InPart(layer, p, v) <=> v \in Piece(L, p)
<1>1. /\ p[1] \in End /\ Upper(p) \in End
      /\ p[2] # None => p[2] \in End /\ Upper(p) = p[2]
      /\ p[2] = None => Upper(p) = p[1]
  BY PartIs
<1>2. top.min \in Int /\ top.max \in Int /\ top.min <= top.max
  BY OutlineEnds
<1>3. /\ v \in Int /\ top.min <= v /\ v <= top.max
  BY <1>2
<1> DEFINE lo == Meant(L, p[1])
           hi == Meant(L, Upper(p))
<1>4. /\ p[1] = MinWord => lo = top.min
      /\ p[1] = MaxWord => lo = top.max
      /\ p[1] # MinWord /\ p[1] # MaxWord => lo = p[1]
      /\ lo \in Int
  BY <1>1, MeantIs
<1>5. /\ Upper(p) = MinWord => hi = top.min
      /\ Upper(p) = MaxWord => hi = top.max
      /\ Upper(p) # MinWord /\ Upper(p) # MaxWord => hi = Upper(p)
      /\ hi \in Int
  BY <1>1, MeantIs
<1>6. v \in Piece(L, p) <=> lo <= v /\ v <= hi
  BY <1>3, <1>4, <1>5 DEF Piece
<1> HIDE DEF lo, hi
<1>7. MinWord \in Int /\ MaxWord \in Int /\ MinWord < MaxWord /\ MinWord # None /\ MaxWord # None
  BY LimitsAssumption DEF None
<1>8. CASE p[2] = None
  <2>1. hi = lo
    BY <1>1, <1>4, <1>5, <1>8
  <2>2. InPart(layer, p, v) <=> (Keyword(p[1]) \/ v >= p[1]) /\ v = Resolved(layer, p[1])
    BY <1>7, <1>8 DEF InPart
  <2>3. Resolved(layer, p[1]) = lo
    BY <1>4, <1>7, <1>8 DEF Resolved
  <2>4. ~Keyword(p[1]) => lo = p[1]
    BY <1>4 DEF Keyword
  <2>5. QED
    BY <1>3, <1>4, <1>6, <2>1, <2>2, <2>3, <2>4
<1>9. CASE p[2] # None
  <2>1. p[2] \in End /\ Upper(p) = p[2] /\ p[1] < p[2]
    BY <1>1, <1>9
  <2>2. p[1] # MaxWord /\ p[2] # MinWord
    BY <1>1, <2>1, Words
  <2>3. (Keyword(p[1]) \/ v >= p[1]) <=> lo <= v
    BY <1>3, <1>4, <2>2 DEF Keyword
  <2>4. (p[2] = MaxWord \/ (p[2] # MaxWord /\ v <= p[2])) <=> v <= hi
    BY <1>3, <1>5, <2>1, <2>2
  <2>5. InPart(layer, p, v) <=> lo <= v /\ v <= hi
    BY <1>9, <2>3, <2>4 DEF InPart
  <2>6. QED
    BY <1>6, <2>5
<1>10. QED
  BY <1>8, <1>9

\* A low end that is accepted is a number of L; a high one is compared with
\* the part of the base that the low end is in.
LEMMA InBaseIs ==
  ASSUME NEW spec, NEW L, Tight(spec, Last(spec), L), NEW p \in RangePart,
         p[2] # None => p[1] < p[2], InBase(spec, p)
  PROVE  /\ Meant(L, p[1]) \in L
         /\ p[2] \notin {None, MaxWord} /\ Last(spec).class # "parts" => p[2] \in L
         /\ Last(spec).class = "parts" /\ p[1] # MaxWord => 
              \E i \in DOMAIN Last(spec).parts :
                /\ InPart(Last(spec), Last(spec).parts[i], Meant(L, p[1]))
                /\ p[2] # None => ~TooHigh(Last(spec).parts[i], Meant(L, Upper(p)))
<1> DEFINE top == Last(spec)
           low == Meant(L, p[1])
<1>0. Outline(top, L)
  BY DEF Tight
<1>1. /\ p[1] \in End /\ Upper(p) \in End
      /\ p[2] # None => p[2] \in End /\ Upper(p) = p[2] /\ p[1] < p[2]
  BY PartIs
<1>2. /\ p[1] = MinWord => low = top.min
      /\ p[1] = MaxWord => low = top.max
      /\ p[1] # MinWord /\ p[1] # MaxWord => low = p[1]
      /\ low \in Int
  BY <1>0, <1>1, MeantIs
<1>3. top.min \in L /\ top.max \in L /\ L \subseteq Int /\ ~Keyword(top.min)
  BY <1>0, OutlineEnds DEF Outline
<1>4. \A v \in Int : NumberValid(spec, v) <=> v \in L
  BY DEF Tight
<1>5. p[2] # None => p[1] # MaxWord /\ p[2] # MinWord /\ p[2] \in Int
  BY <1>1, Words
<1>6. p[2] # None /\ p[2] # MaxWord => Meant(L, Upper(p)) = p[2]
  BY <1>0, <1>1, <1>5, MeantIs
<1>7. p[2] = MaxWord => Meant(L, Upper(p)) = top.max
  BY <1>0, <1>1, MeantIs, Words
<1> HIDE DEF low
<1>8. CASE top.class # "parts"
  <2>1. ~OutOf(spec, p[1]) /\ ~OutOf(spec, p[2])
    BY <1>8 DEF InBase
  <2>2. p[1] # MinWord /\ p[1] # MaxWord => low \in L
    BY <2>1, <1>1, <1>2, <1>4, Words DEF OutOf
  <2>3. p[2] \notin {None, MaxWord} => p[2] \in L
    BY <2>1, <1>4, <1>5 DEF OutOf
  <2>4. QED
    BY <1>2, <1>3, <1>8, <2>2, <2>3 DEF low
<1>9. CASE top.class = "parts" /\ p[1] = MaxWord
  BY <1>2, <1>3, <1>9 DEF low
<1>10. CASE top.class = "parts" /\ p[1] # MaxWord
  <2> DEFINE part == IF NumberValid(spec, low) THEN CHOOSE i \in Parts(top, low) :
                                               \A j \in Parts(top, low) : i <= j ELSE 0
             base == Against(spec, p[1], p[2])
  <2>1. ~base.err /\ ~base.raised
    BY <1>10 DEF InBase
  <2>2. low = IF p[1] = MinWord THEN top.min ELSE p[1]
    BY <1>2, <1>10
  <2>3. ~Keyword(low)
    BY <1>3, <1>10, <2>2 DEF Keyword
  <2>4. base = IF Keyword(low) THEN [err |-> FALSE, raised |-> TRUE]
               ELSE [err |-> part = 0 \/ (p[2] \notin {None, MinWord}
                              /\ TooHigh(top.parts[part], IF p[2] = MaxWord THEN top.max ELSE p[2])),
                     raised |-> FALSE]
    BY <1>10, <2>2 DEF Against
  <2> HIDE DEF base, part
  <2>5. part # 0 /\ (p[2] \notin {None, MinWord} =>
                       ~TooHigh(top.parts[part], IF p[2] = MaxWord THEN top.max ELSE p[2]))
    BY <2>1, <2>3, <2>4
  <2>6. NumberValid(spec, low)
    BY <2>5 DEF part
  <2>7. low \in L
    BY <1>2, <1>4, <2>6
  <2>8. Parts(top, low) # {}
    <3>1. low \in top.min .. top.max
      BY <2>7, <1>0, <1>2, OutlineEnds DEF Outline
    <3>2. \A v \in top.min .. top.max : v \in L <=> (top.class = "parts" => Parts(top, v) # {})
      BY <1>0 DEF Outline
    <3>3. QED
      BY <1>10, <2>7, <3>1, <3>2
  <2>9. part \in Parts(top, low)
    <3>1. Parts(top, low) \in SUBSET Nat
      <4>1. top.parts \in Seq(RangePart)
        BY <1>0, <1>10 DEF Outline
      <4>2. DOMAIN top.parts \subseteq Nat
        BY <4>1
      <4>3. QED
        BY <4>2 DEF Parts
    <3>2. \E i \in Parts(top, low) : \A j \in Parts(top, low) : i <= j
      BY <2>8, <3>1, Least
    <3>3. QED
      BY <2>6, <3>2 DEF part
  <2>10. part \in DOMAIN top.parts /\ InPart(top, top.parts[part], low)
    BY <2>9 DEF Parts
  <2>11. p[2] # None => ~TooHigh(top.parts[part], Meant(L, Upper(p)))
    BY <2>5, <1>5, <1>6, <1>7
  <2>12. QED
    BY <1>10, <2>7, <2>10, <2>11 DEF low
<1>11. QED
  BY <1>8, <1>9, <1>10

\* What a part that is accepted means: it starts in L, and what it asks for
\* is in L as far as L goes.
LEMMA PartAccepted ==
  ASSUME NEW spec, NEW L, Tight(spec, Last(spec), L), NEW p \in RangePart,
         NEW cur \in End \cup {None}, Accepts(spec, cur, p)
  PROVE  /\ p[2] # None => p[1] < p[2]
         /\ cur # None => cur < p[1]
         /\ Meant(L, p[1]) \in L
         /\ Meant(L, p[1]) <= Meant(L, Upper(p))
         /\ \A v \in Piece(L, p) : v <= Max(L) => v \in L
<1> DEFINE top == Last(spec)
           lo == Meant(L, p[1])
           hi == Meant(L, Upper(p))
<1>0. Outline(top, L)
  BY DEF Tight
<1>1. /\ p[1] \in End /\ Upper(p) \in End
      /\ p[2] # None => p[2] \in End /\ Upper(p) = p[2]
      /\ p[2] = None => Upper(p) = p[1]
  BY PartIs
<1>2. Ascends(cur, p)
  BY DEF Accepts
<1>3. p[2] # None => p[1] < p[2]
  BY <1>1, <1>2, SmallerIsLess DEF Ascends
<1>4. cur # None => cur < p[1]
  BY <1>1, <1>2, SmallerIsLess DEF Ascends
<1>5. InBase(spec, p)
  BY DEF Accepts
<1>6. /\ lo \in L
      /\ p[2] \notin {None, MaxWord} /\ top.class # "parts" => p[2] \in L
      /\ top.class = "parts" /\ p[1] # MaxWord => 
           \E i \in DOMAIN top.parts :
             /\ InPart(top, top.parts[i], lo)
             /\ p[2] # None => ~TooHigh(top.parts[i], hi)
  BY <1>3, <1>5, InBaseIs
<1>7. /\ p[1] = MinWord => lo = top.min
      /\ p[1] = MaxWord => lo = top.max
      /\ p[1] # MinWord /\ p[1] # MaxWord => lo = p[1]
      /\ lo \in Int
  BY <1>0, <1>1, MeantIs
<1>8. /\ Upper(p) = MinWord => hi = top.min
      /\ Upper(p) = MaxWord => hi = top.max
      /\ Upper(p) # MinWord /\ Upper(p) # MaxWord => hi = Upper(p)
      /\ hi \in Int
  BY <1>0, <1>1, MeantIs
<1>9. /\ Min(L) = top.min /\ Max(L) = top.max /\ L \subseteq Int
      /\ top.min \in Int /\ top.max \in Int /\ top.min <= top.max
      /\ \A v \in L : top.min <= v /\ v <= top.max
      /\ top.min \in L /\ top.max \in L
  BY <1>0, OutlineEnds DEF Outline
<1>10. p[2] # None => p[1] # MaxWord /\ p[2] # MinWord
  BY <1>1, <1>3, Words
<1>11. lo <= hi
  <2>1. CASE p[2] = None
    BY <1>1, <1>7, <2>1
  <2>2. CASE p[2] = MaxWord
    BY <1>1, <1>6, <1>8, <1>9, <2>2, Words
  <2>3. CASE p[2] \notin {None, MaxWord}
    <3>1. hi = p[2] /\ p[2] \in Int
      BY <1>1, <1>8, <1>10, <2>3, Words
    <3>2. CASE p[1] = MinWord
      <4>1. ~(p[2] < top.min)
        BY <2>3, <3>2 DEF Accepts, Early
      <4>2. QED
        BY <1>7, <1>9, <3>1, <3>2, <4>1
    <3>3. CASE p[1] # MinWord
      BY <1>3, <1>7, <1>10, <2>3, <3>1, <3>3
    <3>4. QED
      BY <3>2, <3>3
  <2>4. QED
    BY <2>1, <2>2, <2>3
<1>12. ASSUME NEW v \in Piece(L, p), v <= Max(L)
       PROVE  v \in L
  <2>1. v \in Int /\ lo <= v /\ v <= hi /\ v <= top.max
    BY <1>7, <1>8, <1>9, <1>12 DEF Piece
  <2>2. top.min <= v /\ v \in top.min .. top.max
    BY <1>6, <1>7, <1>9, <2>1
  <2>3. v \in L <=> (top.class = "parts" => Parts(top, v) # {})
    BY <1>0, <2>2 DEF Outline
  <2>4. CASE p[2] = None
    <3>1. v = lo
      BY <1>1, <1>7, <2>1, <2>4
    <3>2. QED
      BY <1>6, <3>1
  <2>5. CASE p[2] # None /\ top.class = "parts"
    <3>1. PICK i \in DOMAIN top.parts : InPart(top, top.parts[i], lo) /\ ~TooHigh(top.parts[i], hi)
      BY <1>6, <1>10, <2>5
    <3> DEFINE q == top.parts[i]
    <3>2. q \in RangePart
      <4>1. top.parts \in Seq(RangePart)
        BY <1>0, <2>5 DEF Outline
      <4>2. QED
        BY <4>1
    <3>3. /\ q[1] \in End
          /\ q[2] # None => q[2] \in End
      BY <3>2, PartIs
    <3> HIDE DEF q
    <3>4. Keyword(q[1]) \/ lo >= q[1]
      BY <3>1 DEF InPart, q
    <3>5. Keyword(q[1]) \/ v >= q[1]
      BY <1>7, <2>1, <3>3, <3>4, Words
    <3>6. CASE q[2] = None
      <4>1. hi = q[1]
        BY <3>1, <3>6 DEF TooHigh, q
      <4>2. hi \in Limit
        <5>1. hi = top.max \/ hi \in End \ {MinWord, MaxWord}
          BY <1>1, <1>8, <1>10, <2>5, Words
        <5>2. top.max \in Limit
          BY <1>0 DEF Outline
        <5>3. \A x \in End \ {MinWord, MaxWord} : x \in Limit
          BY LimitsAssumption DEF End, Limit
        <5>4. QED
          BY <5>1, <5>2, <5>3
      <4>3. ~Keyword(q[1])
        BY <4>1, <4>2, LimitIs
      <4>4. lo = Resolved(top, q[1])
        BY <3>1, <3>6, Words DEF InPart, q
      <4>5. lo = q[1]
        BY <4>3, <4>4 DEF Resolved, Keyword
      <4>6. v = lo
        BY <1>7, <2>1, <4>1, <4>5
      <4>7. QED
        BY <1>6, <4>6
    <3>7. CASE q[2] # None
      <4>1. q[2] = MaxWord \/ hi <= q[2]
        BY <1>8, <3>1, <3>3, <3>7, Words DEF TooHigh, q
      <4>2. q[2] = MaxWord \/ v <= q[2]
        BY <1>8, <2>1, <3>3, <3>7, <4>1, Words
      <4>3. InPart(top, q, v)
        BY <3>5, <3>7, <4>2 DEF InPart
      <4>4. QED
        BY <2>3, <4>3 DEF Parts, q
    <3>8. QED
      BY <3>6, <3>7
  <2>6. CASE p[2] # None /\ top.class # "parts"
    BY <2>3, <2>6
  <2>7. QED
    BY <2>4, <2>5, <2>6
<1>13. QED
  BY <1>3, <1>4, <1>6, <1>11, <1>12

\* Parts that are accepted one after the other ascend.
LEMMA AcceptedOrdered ==
  ASSUME NEW spec, NEW parts \in Seq(RangePart),
         \A k \in 1 .. Len(parts) : Accepts(spec, Before(parts, k), parts[k])
  PROVE  Ordered(parts)
<1> DEFINE n == Len(parts)
<1>1. n \in Nat /\ DOMAIN parts = 1 .. n /\ \A k \in 1 .. n : parts[k] \in RangePart
  OBVIOUS
<1> HIDE DEF n
<1>2. ASSUME NEW k \in 1 .. n
      PROVE  /\ Before(parts, k) \in End \cup {None}
             /\ k # 1 => Before(parts, k) = Upper(parts[k - 1]) /\ Before(parts, k) # None
  <2>1. k # 1 => k - 1 \in 1 .. n
    BY <1>1
  <2>2. QED
    BY <1>1, <2>1, PartIs, Words DEF Before
<1>3. ASSUME NEW k \in 1 .. n
      PROVE  /\ parts[k][2] # None => parts[k][1] < parts[k][2]
             /\ k # 1 => Upper(parts[k - 1]) < parts[k][1]
  <2>1. Ascends(Before(parts, k), parts[k])
    BY DEF n, Accepts
  <2>2. parts[k][1] \in End /\ (parts[k][2] # None => parts[k][2] \in End)
    BY <1>1, PartIs
  <2>3. is_smaller(Before(parts, k), parts[k][1]) /\ is_smaller(parts[k][1], parts[k][2])
    BY <2>1 DEF Ascends
  <2>4. QED
    BY <1>2, <2>2, <2>3, SmallerIsLess
<1>4. ASSUME NEW i \in 1 .. n, NEW j \in 1 .. n, i < j
      PROVE  Upper(parts[i]) < parts[j][1]
  <2> DEFINE m == n - i - 1
             S == {d \in 0 .. m : Upper(parts[i]) < parts[i + 1 + d][1]}
  <2>1. m \in Nat
    BY <1>1, <1>4
  <2>2. 0 \in S
    <3>1. i + 1 \in 1 .. n /\ i + 1 # 1 /\ i + 1 - 1 = i /\ i + 1 + 0 = i + 1
      BY <1>1, <1>4
    <3>2. QED
      BY <1>3, <2>1, <3>1
  <2>3. ASSUME NEW d \in 1 .. m, d - 1 \in S
        PROVE  d \in S
    <3> DEFINE k == i + 1 + d
    <3>1. k \in 1 .. n /\ k - 1 \in 1 .. n /\ k # 1 /\ i + 1 + (d - 1) = k - 1 /\ d \in 0 .. m
      BY <1>1, <1>4
    <3>2. Upper(parts[i]) < parts[k - 1][1]
      BY <2>3, <3>1
    <3> HIDE DEF k
    <3>3. Upper(parts[k - 1]) < parts[k][1]
      BY <1>3, <3>1
    <3>4. parts[k - 1][1] <= Upper(parts[k - 1])
      BY <1>1, <1>3, <3>1, PartGrows
    <3>5. /\ Upper(parts[i]) \in Int /\ Upper(parts[k - 1]) \in Int
          /\ parts[k][1] \in Int /\ parts[k - 1][1] \in Int
      BY <1>1, <3>1, PartIs, Words
    <3>6. Upper(parts[i]) < parts[k][1]
      BY <3>2, <3>3, <3>4, <3>5
    <3>7. QED
      BY <3>1, <3>6 DEF k
  <2> HIDE DEF S, m
  <2>4. \A d \in 0 .. m : d \in S
    BY <2>1, <2>2, <2>3, Climb
  <2>5. j - i - 1 \in 0 .. m /\ i + 1 + (j - i - 1) = j
    BY <1>1, <1>4 DEF m
  <2>6. j - i - 1 \in S
    BY <2>4, <2>5
  <2>7. QED
    BY <2>5, <2>6 DEF S
<1>5. QED
  BY <1>1, <1>3, <1>4 DEF Ordered

LEMMA PartsSpecIs ==
  ASSUME NEW spec, NEW parts
  PROVE  /\ PartsSpec(spec, parts).class = "parts"
         /\ PartsSpec(spec, parts).parts = parts
         /\ PartsSpec(spec, parts).min =
              (IF parts[1][1] = MinWord THEN Last(spec).min ELSE parts[1][1])
         /\ PartsSpec(spec, parts).max =
              (IF Upper(Last(parts)) = MaxWord THEN Last(spec).max ELSE Upper(Last(parts)))
  BY DEF PartsSpec, Layer

\* A restriction that is accepted: what its parts take of L is what they ask
\* for of L, they ask for nothing in the gaps of L, and if they stay below
\* the limit and it is not one word, its layer is the outline of what is left.
LEMMA Narrows ==
  ASSUME NEW spec, NEW L, Tight(spec, Last(spec), L),
         NEW parts \in Seq(RangePart), parts # <<>>, Good(validate_ranges(spec, parts)),
         NEW N, N = PartsSpec(spec, parts)
  PROVE  /\ \A v \in Asked(parts, L) : v <= Max(L) => v \in L
         /\ \A v \in L : Parts(N, v) # {} <=> v \in Asked(parts, L)
         /\ ~Keyword(N.min) /\ ~Keyword(N.max) /\ ~(N.max > Last(spec).max) =>
              Outline(N, L \cap Asked(parts, L))
<1> DEFINE top == Last(spec)
           n == Len(parts)
           A == Asked(parts, L)
           lo(k) == Meant(L, parts[k][1])
           hi(k) == Meant(L, Upper(parts[k]))
<1>0. Outline(top, L)
  BY DEF Tight
<1>1. n \in Nat /\ n >= 1 /\ DOMAIN parts = 1 .. n /\ \A k \in 1 .. n : parts[k] \in RangePart
  OBVIOUS
<1>2. Last(parts) = parts[n] /\ 1 \in 1 .. n /\ n \in 1 .. n
  BY <1>1 DEF Last
<1>3. \A k \in 1 .. n : Accepts(spec, Before(parts, k), parts[k])
  BY GoodMeansAccepted
<1>4. Ordered(parts)
  BY <1>3, AcceptedOrdered
<1> HIDE DEF n
<1>5. ASSUME NEW k \in 1 .. n
      PROVE  /\ parts[k][2] # None => parts[k][1] < parts[k][2]
             /\ lo(k) \in L /\ lo(k) <= hi(k)
             /\ \A v \in Piece(L, parts[k]) : v <= Max(L) => v \in L
  <2>1. k # 1 => k - 1 \in 1 .. n
    BY <1>1
  <2>2. Before(parts, k) \in End \cup {None}
    BY <1>1, <2>1, PartIs DEF Before
  <2>3. QED
    BY <1>1, <1>3, <2>2, PartAccepted
<1>6. ASSUME NEW k \in 1 .. n
      PROVE  /\ parts[k][1] \in End /\ Upper(parts[k]) \in End
             /\ parts[k][1] <= Upper(parts[k])
             /\ \A j \in 1 .. n : j < k => Upper(parts[j]) < parts[k][1]
  BY <1>1, <1>4, <1>5, PartIs, PartGrows DEF Ordered
<1>7. /\ Min(L) = top.min /\ Max(L) = top.max /\ L \subseteq Int /\ L # {}
      /\ top.min \in Int /\ top.max \in Int /\ top.min <= top.max
      /\ \A v \in L : top.min <= v /\ v <= top.max
      /\ top.min \in L /\ top.max \in L /\ top.min \in Limit /\ top.max \in Limit /\ L \subseteq Wide
  BY <1>0, OutlineEnds DEF Outline
<1>8. /\ N.class = "parts" /\ N.parts = parts
      /\ N.min = (IF parts[1][1] = MinWord THEN top.min ELSE parts[1][1])
      /\ N.max = (IF Upper(parts[n]) = MaxWord THEN top.max ELSE Upper(parts[n]))
  BY <1>2, PartsSpecIs
<1>9. \A v : v \in A <=> \E k \in 1 .. n : v \in Piece(L, parts[k])
  BY <1>1, <1>7 DEF Asked
<1>10. ASSUME NEW k \in 1 .. n
       PROVE  /\ parts[k][1] = MinWord => k = 1
              /\ Upper(parts[k]) = MaxWord => k = n
              /\ parts[k][1] = MaxWord => Upper(parts[k]) = MaxWord
  <2>1. k # 1 => MinWord < parts[k][1]
    <3>1. k # 1 => Upper(parts[1]) < parts[k][1]
      BY <1>1, <1>2, <1>6
    <3>2. QED
      BY <1>2, <1>6, <3>1, Words
  <2>2. k # n => Upper(parts[k]) < MaxWord
    <3>1. k # n => Upper(parts[k]) < parts[n][1]
      BY <1>1, <1>2, <1>6
    <3>2. QED
      BY <1>2, <1>6, <3>1, Words
  <2>3. QED
    BY <1>6, <2>1, <2>2, Words
<1>11. ASSUME NEW k \in 1 .. n
       PROVE  /\ parts[k][1] = MinWord => lo(k) = top.min
              /\ parts[k][1] = MaxWord => lo(k) = top.max
              /\ parts[k][1] # MinWord /\ parts[k][1] # MaxWord => lo(k) = parts[k][1]
              /\ Upper(parts[k]) = MinWord => hi(k) = top.min
              /\ Upper(parts[k]) = MaxWord => hi(k) = top.max
              /\ Upper(parts[k]) # MinWord /\ Upper(parts[k]) # MaxWord => hi(k) = Upper(parts[k])
              /\ lo(k) \in Int /\ hi(k) \in Int
  BY <1>0, <1>6, MeantIs
<1>12. ASSUME NEW k \in 1 .. n, NEW v
       PROVE  v \in Piece(L, parts[k]) <=> v \in Int /\ lo(k) <= v /\ v <= hi(k)
  BY <1>11 DEF Piece
<1>13. ASSUME NEW k \in 1 .. n, NEW v \in top.min .. top.max
       PROVE  InPart(N, parts[k], v) <=> v \in Piece(L, parts[k])
  <2>1. parts[k][1] = MinWord => N.min = top.min
    BY <1>8, <1>10
  <2>2. parts[k][1] = MaxWord => N.max = top.max
    BY <1>8, <1>10
  <2>3. QED
    BY <1>0, <1>1, <1>5, <2>1, <2>2, PieceIs
<1>14. ASSUME NEW v \in top.min .. top.max
       PROVE  Parts(N, v) # {} <=> v \in A
  <2>1. Parts(N, v) = {k \in 1 .. n : InPart(N, parts[k], v)}
    BY <1>1, <1>8 DEF Parts
  <2>2. QED
    BY <1>9, <1>13, <2>1
<1>15. \A v \in A : v <= Max(L) => v \in L
  BY <1>5, <1>9
<1>16. \A v \in L : v \in top.min .. top.max
  BY <1>7
<1> HIDE DEF lo, hi, A
<1>17. ASSUME ~Keyword(N.min), ~Keyword(N.max), ~(N.max > top.max)
       PROVE  Outline(N, L \cap A)
  <2>1. N.min = lo(1)
    BY <1>2, <1>8, <1>11, <1>17 DEF Keyword
  <2>2. N.max = hi(n)
    BY <1>2, <1>8, <1>11, <1>17 DEF Keyword
  <2>3. N.min \in L /\ N.min \in A
    <3>1. lo(1) \in L /\ lo(1) <= hi(1) /\ lo(1) \in Int
      BY <1>2, <1>5, <1>11 DEF lo, hi
    <3>2. lo(1) \in Piece(L, parts[1])
      BY <1>2, <1>12, <3>1
    <3>3. QED
      BY <1>2, <1>9, <2>1, <3>1, <3>2
  <2>4. N.max \in L /\ N.max \in A
    <3>1. lo(n) <= hi(n) /\ hi(n) \in Int
      BY <1>2, <1>5, <1>11 DEF lo, hi
    <3>2. hi(n) \in Piece(L, parts[n])
      BY <1>2, <1>12, <3>1
    <3>3. hi(n) \in A
      BY <1>2, <1>9, <3>2
    <3>4. hi(n) <= Max(L)
      BY <1>7, <1>17, <2>2, <3>1
    <3>5. QED
      BY <1>15, <2>2, <3>3, <3>4
  <2>5. N.min \in Limit /\ N.max \in Limit
    <3>1. \A x \in End : ~Keyword(x) => x \in Limit
      BY LimitsAssumption DEF End, Keyword, Limit
    <3>2. parts[1][1] \in End /\ Upper(parts[n]) \in End
      BY <1>2, <1>6
    <3>3. QED
      BY <1>7, <1>8, <1>17, <3>1, <3>2
  <2>6. ASSUME NEW v \in L, v \in A
        PROVE  N.min <= v /\ v <= N.max
    <3>1. PICK k \in 1 .. n : v \in Piece(L, parts[k])
      BY <1>9, <2>6
    <3>2. v \in Int /\ lo(k) <= v /\ v <= hi(k) /\ top.min <= v /\ v <= top.max
      BY <1>7, <1>12, <3>1
    <3>3. N.min <= lo(k)
      <4>1. CASE k = 1
        BY <1>2, <1>11, <2>1, <4>1
      <4>2. CASE k # 1
        <5>1. parts[1][1] <= Upper(parts[1]) /\ Upper(parts[1]) < parts[k][1]
          BY <1>1, <1>2, <1>6, <4>2
        <5>2. parts[1][1] \in Int /\ Upper(parts[1]) \in Int /\ parts[k][1] \in Int
          BY <1>2, <1>6, Words
        <5>3. parts[1][1] < parts[k][1]
          BY <5>1, <5>2
        <5>4. N.min \in Int /\ top.min <= N.min /\ N.min <= top.max /\ lo(k) \in L /\ top.min <= lo(k)
          BY <1>5, <1>7, <2>3 DEF lo
        <5>5. CASE parts[1][1] = MinWord
          BY <1>8, <5>4, <5>5
        <5>6. CASE parts[1][1] # MinWord /\ parts[k][1] = MaxWord
          BY <1>11, <5>4, <5>6
        <5>7. CASE parts[1][1] # MinWord /\ parts[k][1] # MaxWord
          BY <1>8, <1>10, <1>11, <4>2, <5>2, <5>3, <5>7
        <5>8. QED
          BY <5>5, <5>6, <5>7
      <4>3. QED
        BY <4>1, <4>2
    <3>4. v <= N.max
      <4>1. CASE k = n
        BY <2>2, <3>2, <4>1
      <4>2. CASE Upper(parts[n]) = MaxWord
        BY <1>8, <3>2, <4>2
      <4>3. CASE k # n /\ Upper(parts[n]) # MaxWord
        <5>1. parts[n][1] <= Upper(parts[n]) /\ Upper(parts[k]) < parts[n][1]
          BY <1>1, <1>2, <1>6, <4>3
        <5>2. parts[n][1] \in Int /\ Upper(parts[n]) \in Int /\ Upper(parts[k]) \in Int
          BY <1>2, <1>6, Words
        <5>3. Upper(parts[k]) < N.max
          BY <1>8, <4>3, <5>1, <5>2
        <5>4. N.max \in Int /\ top.min <= N.max
          BY <1>7, <2>4
        <5>5. Upper(parts[k]) # MaxWord
          BY <1>10, <4>3
        <5>6. hi(k) <= N.max
          <6>1. CASE Upper(parts[k]) = MinWord
            BY <1>11, <5>4, <6>1
          <6>2. CASE Upper(parts[k]) # MinWord
            BY <1>11, <5>2, <5>3, <5>4, <5>5, <6>2
          <6>3. QED
            BY <6>1, <6>2
        <5>7. hi(k) \in Int
          BY <1>11
        <5>8. QED
          BY <3>2, <5>4, <5>6, <5>7
      <4>4. QED
        BY <4>1, <4>2, <4>3
    <3>5. N.min \in Int /\ lo(k) \in Int
      BY <1>7, <1>11, <2>3
    <3>6. QED
      BY <3>2, <3>3, <3>4, <3>5
  <2>7. ASSUME NEW v \in N.min .. N.max
        PROVE  v \in L \cap A <=> Parts(N, v) # {}
    <3>1. v \in top.min .. top.max
      <4>1. N.min \in Int /\ N.max \in Int /\ top.min <= N.min /\ N.max <= top.max
        BY <1>7, <2>3, <2>4
      <4>2. QED
        BY <1>7, <4>1
    <3>2. v \in A => v \in L
      BY <1>7, <1>15, <3>1
    <3>3. QED
      BY <1>14, <3>1, <3>2
  <2>8. L \cap A \subseteq Wide
    BY <1>7
  <2>9. N.min \in L \cap A /\ N.max \in L \cap A
    BY <2>3, <2>4
  <2>10. N.parts \in Seq(RangePart) /\ Ordered(N.parts)
    BY <1>4, <1>8
  <2>11. \A v \in L \cap A : N.min <= v /\ v <= N.max
    BY <2>6
  <2>12. \A v \in N.min .. N.max : v \in L \cap A <=> (N.class = "parts" => Parts(N, v) # {})
    BY <1>8, <2>7
  <2>13. ASSUME NEW i \in DOMAIN N.parts
         PROVE  Piece(L \cap A, N.parts[i]) \subseteq L \cap A
    <3>1. i \in 1 .. n /\ N.parts[i] = parts[i]
      BY <1>1, <1>8
    <3>2. L \cap A \in SUBSET Int
      BY <1>7
    <3>3. Min(L \cap A) = N.min /\ Max(L \cap A) = N.max
      BY <2>9, <2>11, <3>2, LimitsAreEnds
    <3>4. Meant(L \cap A, parts[i][1]) = lo(i)
      BY <1>8, <1>10, <1>11, <3>1, <3>3, Words DEF Meant
    <3>5. Meant(L \cap A, Upper(parts[i])) = hi(i)
      <4>1. Upper(parts[i]) = MinWord => N.min = top.min
        BY <1>6, <1>8, <1>10, <3>1, Words
      <4>2. Upper(parts[i]) = MaxWord => N.max = top.max
        BY <1>8, <1>10, <3>1
      <4>3. QED
        BY <1>11, <3>1, <3>3, <4>1, <4>2 DEF Meant
    <3>6. Piece(L \cap A, parts[i]) = Piece(L, parts[i])
      BY <3>4, <3>5 DEF Piece, lo, hi
    <3>7. hi(i) <= top.max
      <4>1. CASE i = n
        <5>1. hi(n) <= top.max
          BY <1>7, <2>2, <2>4
        <5>2. QED
          BY <4>1, <5>1
      <4>2. CASE i # n
        <5>1. i + 1 \in 1 .. n /\ i < i + 1 /\ i + 1 # 1 /\ i + 1 - 1 = i
          BY <1>1, <3>1, <4>2
        <5>2. Upper(parts[i]) < parts[i + 1][1] /\ Upper(parts[i]) \in Int /\ Upper(parts[i]) # MaxWord
          BY <1>6, <1>10, <3>1, <4>2, <5>1, Words
        <5>3. CASE Upper(parts[i]) = MinWord
          BY <1>7, <1>11, <3>1, <5>3
        <5>4. CASE Upper(parts[i]) # MinWord /\ parts[i + 1][1] # MaxWord
          <6>1. hi(i) = Upper(parts[i])
            BY <1>11, <3>1, <5>2, <5>4
          <6>2. lo(i + 1) = parts[i + 1][1]
            BY <1>10, <1>11, <5>1, <5>4
          <6>3. lo(i + 1) \in L
            BY <1>5, <5>1 DEF lo
          <6>4. parts[i + 1][1] \in Int /\ parts[i + 1][1] <= top.max
            BY <1>7, <6>2, <6>3
          <6>5. QED
            BY <1>7, <5>2, <6>1, <6>4
        <5>5. CASE Upper(parts[i]) # MinWord /\ parts[i + 1][1] = MaxWord
          <6>1. Before(parts, i + 1) = Upper(parts[i]) /\ Upper(parts[i]) # None
            BY <1>6, <3>1, <5>1, Words DEF Before
          <6>2. Late(Before(parts, i + 1), parts[i + 1])
            BY <5>5, <6>1 DEF Late
          <6>3. ~(Upper(parts[i]) >= top.max)
            BY <1>3, <5>1, <6>1, <6>2 DEF Accepts
          <6>4. QED
            BY <1>7, <1>11, <3>1, <5>2, <5>5, <6>3
        <5>6. QED
          BY <5>3, <5>4, <5>5
      <4>3. QED
        BY <4>1, <4>2
    <3>8. \A v \in Piece(L, parts[i]) : v \in A /\ v \in Int /\ v <= hi(i) /\ hi(i) \in Int
      BY <1>9, <1>11, <1>12, <3>1
    <3>9. \A v \in Piece(L, parts[i]) : v \in A /\ v <= Max(L)
      BY <1>7, <3>7, <3>8
    <3>10. QED
      BY <1>15, <3>1, <3>6, <3>9
  <2>14. QED
    BY <2>5, <2>8, <2>9, <2>10, <2>11, <2>12, <2>13 DEF Outline
<1>18. \A v \in L : Parts(N, v) # {} <=> v \in A
  BY <1>14, <1>16
<1>19. QED
  BY <1>15, <1>17, <1>18 DEF A

\* A restriction that fits is accepted.
LEMMA FitsAccepted ==
  ASSUME NEW spec, NEW L, Tight(spec, Last(spec), L),
         NEW parts \in Seq(RangePart),
         NEW base, Last(base) = Last(spec) \/ "parts" \notin {Last(base).class, Last(spec).class},
         Fits(parts, base, L)
  PROVE  Good(validate_ranges(spec, parts))
<1> DEFINE top == Last(spec)
           n == Len(parts)
           lo(k) == Meant(L, parts[k][1])
           hi(k) == Meant(L, Upper(parts[k]))
           pieces == IF top.class = "parts" THEN {Piece(L, q) : q \in ToSet(top.parts)} ELSE {L}
<1>0. Outline(top, L)
  BY DEF Tight
<1>1. n \in Nat /\ DOMAIN parts = 1 .. n /\ \A k \in 1 .. n : parts[k] \in RangePart
  OBVIOUS
<1>2. pieces = IF Last(base).class = "parts"
               THEN {Piece(L, q) : q \in ToSet(Last(base).parts)} ELSE {L}
  OBVIOUS
<1> HIDE DEF n, pieces
<1>3. /\ \A p, q \in pieces : p # q => p \cap q = {}
      /\ \A i \in 1 .. n :
           /\ \E piece \in pieces : {lo(i), hi(i)} \subseteq piece
           /\ parts[i][2] # None => lo(i) < hi(i)
           /\ i > 1 => hi(i - 1) < lo(i)
  <2> DEFINE los == [i \in DOMAIN parts |-> Meant(L, parts[i][1])]
             his == [i \in DOMAIN parts |-> Meant(L, Upper(parts[i]))]
  <2>1. /\ \A p, q \in pieces : p # q => p \cap q = {}
        /\ \A i \in DOMAIN parts :
             /\ \E piece \in pieces : {los[i], his[i]} \subseteq piece
             /\ parts[i][2] # None => los[i] < his[i]
             /\ i > 1 => his[i - 1] < los[i]
    BY <1>2 DEF Fits
  <2>2. \A i \in 1 .. n : los[i] = lo(i) /\ his[i] = hi(i)
    BY <1>1
  <2> HIDE DEF los, his
  <2>3. \A i \in 1 .. n : i > 1 => i - 1 \in 1 .. n
    BY <1>1
  <2>4. QED
    BY <1>1, <2>1, <2>2, <2>3
<1>4. /\ Min(L) = top.min /\ Max(L) = top.max /\ L \subseteq Int
      /\ top.min \in Int /\ top.max \in Int
      /\ \A v \in L : top.min <= v /\ v <= top.max
      /\ ~Keyword(top.min) /\ ~Keyword(top.max)
  BY <1>0, OutlineEnds DEF Outline
<1>5. \A piece \in pieces : piece \subseteq L
  BY <1>0 DEF pieces, Outline, ToSet
<1>6. ASSUME NEW k \in 1 .. n
      PROVE  lo(k) \in L /\ hi(k) \in L
  BY <1>3, <1>5
<1>7. ASSUME NEW k \in 1 .. n
       PROVE  /\ parts[k][1] = MinWord => lo(k) = top.min
              /\ parts[k][1] = MaxWord => lo(k) = top.max
              /\ parts[k][1] # MinWord /\ parts[k][1] # MaxWord => lo(k) = parts[k][1]
              /\ Upper(parts[k]) = MinWord => hi(k) = top.min
              /\ Upper(parts[k]) = MaxWord => hi(k) = top.max
              /\ Upper(parts[k]) # MinWord /\ Upper(parts[k]) # MaxWord => hi(k) = Upper(parts[k])
              /\ lo(k) \in Int /\ hi(k) \in Int
              /\ top.min <= lo(k) /\ lo(k) <= top.max /\ top.min <= hi(k) /\ hi(k) <= top.max
  BY <1>0, <1>1, <1>4, <1>6, MeantIs, PartIs
<1>8. ASSUME NEW k \in 1 .. n
      PROVE  /\ parts[k][1] \in End /\ Upper(parts[k]) \in End
             /\ parts[k][2] # None => parts[k][2] \in End /\ Upper(parts[k]) = parts[k][2]
             /\ parts[k][2] = None => Upper(parts[k]) = parts[k][1]
  BY <1>1, PartIs
<1>9. \A k \in 1 .. n : k > 1 => k - 1 \in 1 .. n
  BY <1>1
<1>10. ASSUME NEW k \in 1 .. n, parts[k][2] # None
       PROVE  parts[k][1] < parts[k][2]
  <2>1. lo(k) < hi(k)
    BY <1>3, <1>10
  <2> HIDE DEF lo, hi
  <2>2. parts[k][1] # MaxWord /\ parts[k][2] # MinWord
    BY <1>7, <1>8, <1>10, <2>1
  <2>3. QED
    BY <1>7, <1>8, <1>10, <2>1, <2>2, Words
<1>11. ASSUME NEW k \in 1 .. n, k > 1
       PROVE  /\ Upper(parts[k - 1]) < parts[k][1]
              /\ Upper(parts[k - 1]) # MaxWord
  <2>1. hi(k - 1) < lo(k) /\ k - 1 \in 1 .. n
    BY <1>3, <1>9, <1>11
  <2> HIDE DEF lo, hi
  <2>2. parts[k][1] # MinWord /\ Upper(parts[k - 1]) # MaxWord
    BY <1>7, <2>1
  <2>3. QED
    BY <1>7, <1>8, <2>1, <2>2, Words
<1>12. ASSUME NEW k \in 1 .. n
       PROVE  Accepts(spec, Before(parts, k), parts[k])
  <2> DEFINE p == parts[k]
             cur == Before(parts, k)
  <2>1. p \in RangePart /\ p[1] \in End /\ p[1] # None
    BY <1>1, <1>8, Words
  <2>2. k > 1 => cur = Upper(parts[k - 1]) /\ cur \in End /\ cur # None
    BY <1>8, <1>9, Words DEF Before
  <2>3. ~(k > 1) => cur = None
    BY <1>1 DEF Before
  <2>4. Ascends(cur, p)
    <3>1. is_smaller(cur, p[1])
      BY <1>11, <2>1, <2>2, <2>3, SmallerIsLess, SmallerAlone
    <3>2. is_smaller(p[1], p[2])
      BY <1>8, <1>10, <2>1, SmallerIsLess, SmallerAlone
    <3>3. QED
      BY <3>1, <3>2 DEF Ascends
  <2>5. ASSUME Late(cur, p)
        PROVE  ~(cur >= top.max)
    <3>1. p[1] = MaxWord /\ cur \notin {None, MinWord} /\ k > 1
      BY <2>3, <2>5 DEF Late
    <3>2. hi(k - 1) < lo(k) /\ k - 1 \in 1 .. n
      BY <1>3, <1>9, <3>1
    <3>3. hi(k - 1) = cur /\ lo(k) = top.max
      BY <1>7, <1>11, <2>2, <3>1, <3>2
    <3> HIDE DEF lo, hi, cur
    <3>4. cur \in Int
      BY <1>7, <3>2, <3>3
    <3>5. QED
      BY <1>4, <3>2, <3>3, <3>4
  <2>6. ASSUME Early(p)
        PROVE  ~(p[2] < top.min)
    <3>1. p[2] \notin {None, MaxWord} /\ p[1] = MinWord
      BY <2>6 DEF Early
    <3>2. p[2] # MinWord /\ Upper(p) = p[2] /\ p[2] \in Int
      BY <1>8, <1>10, <3>1, Words
    <3>3. hi(k) = p[2]
      BY <1>7, <3>1, <3>2
    <3>4. QED
      BY <1>4, <1>7, <3>2, <3>3
  <2>7. InBase(spec, p)
    <3>1. \A v \in Int : NumberValid(spec, v) <=> v \in L
      BY DEF Tight
    <3>2. CASE top.class # "parts"
      <4>1. ~OutOf(spec, p[1])
        BY <1>6, <1>7, <3>1 DEF OutOf
      <4>2. ~OutOf(spec, p[2])
        BY <1>6, <1>7, <1>8, <3>1 DEF OutOf
      <4>3. QED
        BY <3>2, <4>1, <4>2 DEF InBase
    <3>3. CASE top.class = "parts" /\ p[1] = MaxWord
      <4>1. p[2] = None
        BY <1>8, <1>10, <3>3, Words
      <4>2. Against(spec, p[1], p[2]) = [err |-> FALSE, raised |-> FALSE]
        BY <3>3, <4>1 DEF Against
      <4>3. QED
        BY <3>3, <4>2 DEF InBase
    <3>4. CASE top.class = "parts" /\ p[1] # MaxWord
      <4> DEFINE low == lo(k)
                 part == IF NumberValid(spec, low) THEN CHOOSE i \in Parts(top, low) :
                                               \A j \in Parts(top, low) : i <= j ELSE 0
                 high == IF p[2] = MaxWord THEN top.max ELSE p[2]
      <4>1. low = IF p[1] = MinWord THEN top.min ELSE p[1]
        BY <1>7, <3>4
      <4>2. low \in L /\ low \in Int /\ low \in top.min .. top.max
        BY <1>4, <1>6, <1>7
      <4>3. ~Keyword(low)
        BY <1>4, <3>4, <4>1 DEF Keyword
      <4>4. Against(spec, p[1], p[2]) =
              [err |-> part = 0 \/ (p[2] \notin {None, MinWord} /\ TooHigh(top.parts[part], high)),
               raised |-> FALSE]
        BY <3>4, <4>1, <4>3 DEF Against
      <4>5. NumberValid(spec, low)
        BY <3>1, <4>2
      <4>6. top.parts \in Seq(RangePart) /\ Ordered(top.parts)
        BY <1>0, <3>4 DEF Outline
      <4> HIDE DEF low, high
      <4>7. Parts(top, low) # {}
        BY <1>0, <3>4, <4>2 DEF Outline
      <4>8. part \in Parts(top, low)
        <5>1. DOMAIN top.parts \in SUBSET (Nat \ {0})
          BY <4>6
        <5>2. Parts(top, low) \in SUBSET Nat
          BY <5>1 DEF Parts
        <5>3. \E i \in Parts(top, low) : \A j \in Parts(top, low) : i <= j
          BY <4>7, <5>2, Least
        <5>4. QED
          BY <4>5, <5>3
      <4> HIDE DEF part
      <4>9. part # 0 /\ part \in DOMAIN top.parts /\ InPart(top, top.parts[part], low)
        <5>1. DOMAIN top.parts \in SUBSET (Nat \ {0})
          BY <4>6
        <5>2. QED
          BY <4>8, <5>1 DEF Parts
      <4> DEFINE q == top.parts[part]
      <4>10. q \in RangePart /\ (q[2] # None => q[1] < q[2])
        BY <4>6, <4>9 DEF Ordered
      <4>11. low \in Piece(L, q)
        BY <1>0, <4>2, <4>9, <4>10, PieceIs
      <4>12. Piece(L, q) \in pieces
        BY <3>4, <4>9 DEF pieces, ToSet
      <4>13. hi(k) \in Piece(L, q)
        <5>1. PICK piece \in pieces : {lo(k), hi(k)} \subseteq piece
          BY <1>3
        <5>2. low \in piece
          BY <5>1 DEF low
        <5>3. piece = Piece(L, q)
          BY <1>3, <4>11, <4>12, <5>2
        <5>4. QED
          BY <5>1, <5>3
      <4> HIDE DEF q
      <4>14. ASSUME p[2] \notin {None, MinWord}
             PROVE  ~TooHigh(q, high)
        <5>1. high = hi(k)
          BY <1>7, <1>8, <4>14 DEF high
        <5>2. low < hi(k)
          BY <1>3, <4>14 DEF low
        <5>3. /\ Meant(L, q[1]) <= low /\ hi(k) <= Meant(L, Upper(q))
              /\ Meant(L, q[1]) \in Int /\ Meant(L, Upper(q)) \in Int
          <6>1. Meant(L, q[1]) \in Int /\ Meant(L, Upper(q)) \in Int
            BY <1>0, <4>10, MeantIs, PartIs
          <6>2. QED
            BY <4>11, <4>13, <6>1 DEF Piece
        <5>4. CASE q[2] = None
          <6>1. Upper(q) = q[1]
            BY <4>10, <5>4, PartIs
          <6>2. QED
            BY <1>7, <4>2, <5>2, <5>3, <6>1
        <5>5. CASE q[2] = MaxWord
          BY <5>5, Words DEF TooHigh
        <5>6. CASE q[2] \notin {None, MaxWord}
          <6>1. q[2] \in End /\ Upper(q) = q[2] /\ q[2] # MinWord
            BY <4>10, <5>6, PartIs, Words
          <6>2. Meant(L, Upper(q)) = q[2]
            BY <1>0, <5>6, <6>1, MeantIs
          <6>3. ~(hi(k) > q[2])
            BY <1>7, <5>3, <6>2
          <6>4. QED
            BY <5>1, <5>6, <6>3 DEF TooHigh
        <5>7. QED
          BY <5>4, <5>5, <5>6
      <4>15. ~Against(spec, p[1], p[2]).err /\ ~Against(spec, p[1], p[2]).raised
        <5>1. p[2] \notin {None, MinWord} => ~TooHigh(top.parts[part], high)
          BY <4>14 DEF q
        <5>2. part # 0
          BY <4>9
        <5> DEFINE bad == part = 0 \/ (p[2] \notin {None, MinWord} /\ TooHigh(top.parts[part], high))
        <5>3. ~bad
          BY <5>1, <5>2
        <5>4. Against(spec, p[1], p[2]) = [err |-> bad, raised |-> FALSE]
          BY <4>4
        <5> DEFINE r == Against(spec, p[1], p[2])
        <5> HIDE DEF bad, r
        <5>5. r = [err |-> bad, raised |-> FALSE]
          BY <5>4 DEF r
        <5>6. r.err = bad /\ r.raised = FALSE
          BY <5>5
        <5>7. QED
          BY <5>3, <5>6 DEF r
      <4>16. QED
        BY <3>4, <4>15 DEF InBase
    <3>5. QED
      BY <3>2, <3>3, <3>4
  <2>8. QED
    BY <2>4, <2>5, <2>6, <2>7 DEF Accepts
<1>13. QED
  BY <1>4, <1>12, AcceptedMeansGood DEF n
----------------------------------------------------------------------------
(* Layers: what a new one does to the numbers, the limits and the top. *)

IsSeq(spec) == \E S : spec \in Seq(S)

LEMMA AppendIs ==
  ASSUME NEW spec, IsSeq(spec), NEW x
  PROVE  /\ Len(spec) \in Nat /\ DOMAIN spec = 1 .. Len(spec)
         /\ IsSeq(Append(spec, x))
         /\ Len(Append(spec, x)) = Len(spec) + 1
         /\ DOMAIN Append(spec, x) = 1 .. Len(spec) + 1
         /\ \A i \in 1 .. Len(spec) : Append(spec, x)[i] = spec[i]
         /\ Append(spec, x)[Len(spec) + 1] = x
<1>1. PICK S : spec \in Seq(S)
  BY DEF IsSeq
<1>2. spec \in Seq(S \cup {x})
  BY <1>1
<1>3. Append(spec, x) \in Seq(S \cup {x})
  BY <1>2
<1>4. QED
  BY <1>1, <1>2, <1>3 DEF IsSeq

Takes(layer, v) ==
  CASE layer.class \in {"int", "decimal", "string"} -> v >= layer.min /\ v <= layer.max
    [] layer.class = "parts" -> Parts(layer, v) # {}
    [] OTHER -> TRUE

LEMMA ValidIs ==
  ASSUME NEW spec, NEW v
  PROVE  NumberValid(spec, v) <=> \A i \in DOMAIN spec : Takes(spec[i], v)
  BY DEF NumberValid, Takes

LEMMA AppendValid ==
  ASSUME NEW spec, IsSeq(spec), NEW x, NEW v
  PROVE  NumberValid(Append(spec, x), v) <=> NumberValid(spec, v) /\ Takes(x, v)
<1> DEFINE t == Append(spec, x)
<1>1. /\ DOMAIN spec = 1 .. Len(spec) /\ DOMAIN t = 1 .. Len(spec) + 1 /\ Len(spec) \in Nat
      /\ \A i \in 1 .. Len(spec) : t[i] = spec[i]
      /\ t[Len(spec) + 1] = x
  BY AppendIs
<1> HIDE DEF t
<1>2. \A i : i \in 1 .. Len(spec) + 1 <=> i \in 1 .. Len(spec) \/ i = Len(spec) + 1
  BY <1>1
<1>3. (\A i \in DOMAIN t : Takes(t[i], v)) <=> (\A i \in DOMAIN spec : Takes(spec[i], v)) /\ Takes(x, v)
  BY <1>1, <1>2, Zenon
<1>4. QED
  BY <1>3, ValidIs DEF t

\* The layer that the next restriction is checked against.
Top(spec) == Last(SkipPattern(spec))

\* m is where SkipPattern stops.
Skips(spec, m) ==
  /\ m \in 1 .. Len(spec)
  /\ spec[m].class # "pattern"
  /\ \A i \in m + 1 .. Len(spec) : spec[i].class = "pattern"

LEMMA SkipIs ==
  ASSUME NEW spec, IsSeq(spec), NEW m, Skips(spec, m)
  PROVE  /\ Len(SkipPattern(spec)) = m /\ DOMAIN SkipPattern(spec) = 1 .. m
         /\ \A i \in 1 .. m : SkipPattern(spec)[i] = spec[i]
         /\ IsSeq(SkipPattern(spec))
         /\ Top(spec) = spec[m]
<1> DEFINE n == Len(spec)
           S == {i \in DOMAIN spec : spec[i].class # "pattern"}
           t == SkipPattern(spec)
<1>1. PICK T : spec \in Seq(T)
  BY DEF IsSeq
<1>2. n \in Nat /\ DOMAIN spec = 1 .. n
  BY <1>1
<1>3. m \in 1 .. n /\ m \in S /\ \A i \in m + 1 .. n : i \notin S
  BY <1>2 DEF Skips
<1> HIDE DEF n
<1>4. S \in SUBSET (1 .. n) /\ S # {}
  BY <1>2, <1>3
<1>5. Max(S) \in S /\ \A k \in S : k <= Max(S)
  BY <1>2, <1>4, Greatest
<1> HIDE DEF S
<1>6. Max(S) = m
  <2>1. m <= Max(S) /\ Max(S) \in 1 .. n
    BY <1>3, <1>4, <1>5
  <2>2. ~(Max(S) \in m + 1 .. n)
    BY <1>3, <1>5
  <2>3. QED
    BY <1>2, <1>3, <2>1, <2>2
<1>7. t = SubSeq(spec, 1, m)
  BY <1>6 DEF SkipPattern, S
<1>8. m \in 1 .. Len(spec)
  BY <1>3 DEF n
<1> HIDE DEF t
<1>9. t \in Seq(T) /\ Len(t) = m /\ \A i \in 1 .. m : t[i] = spec[i]
  BY <1>1, <1>7, <1>8
<1>10. DOMAIN t = 1 .. m
  BY <1>9
<1>11. Last(t) = spec[m]
  BY <1>8, <1>9 DEF Last
<1>12. QED
  BY <1>9, <1>10, <1>11 DEF IsSeq, Top, t

LEMMA SkipExists ==
  ASSUME NEW spec, IsSeq(spec), Len(spec) >= 1, spec[1].class # "pattern"
  PROVE  \E m : Skips(spec, m)
<1> DEFINE n == Len(spec)
           S == {i \in 1 .. n : spec[i].class # "pattern"}
<1>1. n \in Nat /\ 1 \in S
  BY AppendIs
<1>2. Max(S) \in S /\ \A k \in S : k <= Max(S)
  BY <1>1, Greatest
<1> HIDE DEF n
<1>3. \A i \in Max(S) + 1 .. n : i \in 1 .. n /\ ~(i <= Max(S))
  BY <1>1, <1>2
<1>4. Skips(spec, Max(S))
  BY <1>2, <1>3 DEF Skips, n
<1>5. QED
  BY <1>4

LEMMA SkipValid ==
  ASSUME NEW spec, IsSeq(spec), NEW m, Skips(spec, m), NEW v
  PROVE  NumberValid(SkipPattern(spec), v) <=> NumberValid(spec, v)
<1> DEFINE t == SkipPattern(spec)
<1>1. DOMAIN t = 1 .. m /\ \A i \in 1 .. m : t[i] = spec[i]
  BY SkipIs
<1>2. Len(spec) \in Nat /\ DOMAIN spec = 1 .. Len(spec)
  BY AppendIs
<1> HIDE DEF t
<1>3. \A i \in m + 1 .. Len(spec) : Takes(spec[i], v)
  BY DEF Skips, Takes
<1>4. \A i : i \in 1 .. Len(spec) <=> i \in 1 .. m \/ i \in m + 1 .. Len(spec)
  BY <1>2 DEF Skips
<1>5. (\A i \in DOMAIN t : Takes(t[i], v)) <=> (\A i \in DOMAIN spec : Takes(spec[i], v))
  BY <1>1, <1>2, <1>3, <1>4, Zenon
<1>6. QED
  BY <1>5, ValidIs DEF t

\* The layers of numbers and strings.
Chain(spec) ==
  /\ IsSeq(spec) /\ Len(spec) >= 1
  /\ spec[1].class \in {"int", "decimal", "string"}
  /\ \A i \in 2 .. Len(spec) :
       spec[i].class = "parts" \/ (spec[i].class = "pattern" /\ spec[1].class = "string")

LEMMA ChainSkips ==
  ASSUME NEW spec, Chain(spec)
  PROVE  \E m : Skips(spec, m)
  BY SkipExists DEF Chain

LEMMA PlainSkips ==
  ASSUME NEW spec, Chain(spec), spec[1].class # "string"
  PROVE  SkipPattern(spec) = spec
<1> DEFINE n == Len(spec)
<1>1. n \in Nat /\ n >= 1 /\ DOMAIN spec = 1 .. n
  BY AppendIs DEF Chain
<1>2. spec[n].class # "pattern"
  BY <1>1 DEF Chain
<1>3. Skips(spec, n)
  BY <1>1, <1>2 DEF Skips
<1>4. PICK T : spec \in Seq(T)
  BY DEF Chain, IsSeq
<1>5. /\ Len(SkipPattern(spec)) = n /\ DOMAIN SkipPattern(spec) = 1 .. n
      /\ \A i \in 1 .. n : SkipPattern(spec)[i] = spec[i]
      /\ IsSeq(SkipPattern(spec))
  BY <1>3, SkipIs DEF Chain
<1>6. PICK U : SkipPattern(spec) \in Seq(U)
  BY <1>5 DEF IsSeq
<1>7. QED
  BY <1>1, <1>4, <1>5, <1>6

LEMMA ChainAppend ==
  ASSUME NEW spec, Chain(spec), NEW x,
         x.class = "parts" \/ (x.class = "pattern" /\ spec[1].class = "string")
  PROVE  Chain(Append(spec, x)) /\ Append(spec, x)[1] = spec[1]
<1> DEFINE t == Append(spec, x)
<1>1. /\ IsSeq(t) /\ Len(t) = Len(spec) + 1 /\ Len(spec) \in Nat /\ Len(spec) >= 1
      /\ \A i \in 1 .. Len(spec) : t[i] = spec[i]
      /\ t[Len(spec) + 1] = x
  BY AppendIs DEF Chain
<1> HIDE DEF t
<1>2. t[1] = spec[1]
  BY <1>1
<1>3. \A i \in 2 .. Len(t) : (i \in 2 .. Len(spec) /\ i \in 1 .. Len(spec)) \/ i = Len(spec) + 1
  BY <1>1
<1>4. \A i \in 2 .. Len(t) :
        t[i].class = "parts" \/ (t[i].class = "pattern" /\ t[1].class = "string")
  BY <1>1, <1>2, <1>3 DEF Chain
<1>5. Len(t) >= 1 /\ t[1].class \in {"int", "decimal", "string"}
  BY <1>1, <1>2 DEF Chain
<1>6. QED
  BY <1>1, <1>2, <1>4, <1>5 DEF Chain, t

LEMMA TopAppend ==
  ASSUME NEW spec, Chain(spec), NEW x
  PROVE  /\ x.class # "pattern" => Top(Append(spec, x)) = x
         /\ x.class = "pattern" => Top(Append(spec, x)) = Top(spec)
<1> DEFINE t == Append(spec, x)
<1>1. /\ IsSeq(t) /\ Len(t) = Len(spec) + 1 /\ Len(spec) \in Nat /\ IsSeq(spec)
      /\ \A i \in 1 .. Len(spec) : t[i] = spec[i]
      /\ t[Len(spec) + 1] = x
  BY AppendIs DEF Chain
<1> HIDE DEF t
<1>2. CASE x.class # "pattern"
  <2>1. Skips(t, Len(spec) + 1)
    BY <1>1, <1>2 DEF Skips
  <2>2. QED
    BY <1>1, <1>2, <2>1, SkipIs DEF t
<1>3. CASE x.class = "pattern"
  <2>1. PICK m : Skips(spec, m)
    BY ChainSkips
  <2>2. m \in 1 .. Len(spec)
    BY <2>1 DEF Skips
  <2>3. \A i \in m + 1 .. Len(t) : (i \in m + 1 .. Len(spec) /\ i \in 1 .. Len(spec)) \/ i = Len(spec) + 1
    BY <1>1, <2>2
  <2>4. \A i \in m + 1 .. Len(t) : t[i].class = "pattern"
    BY <1>1, <1>3, <2>1, <2>3 DEF Skips
  <2>5. m \in 1 .. Len(t) /\ t[m] = spec[m]
    BY <1>1, <2>2
  <2>6. Skips(t, m)
    BY <2>1, <2>4, <2>5 DEF Skips
  <2>7. Top(t) = t[m] /\ Top(spec) = spec[m]
    BY <1>1, <2>1, <2>6, SkipIs
  <2>8. QED
    BY <1>3, <2>5, <2>7 DEF t
<1>4. QED
  BY <1>2, <1>3

\* An exact chain was exact before its last layer, which is below the others.
LEMMA ExactAppend ==
  ASSUME NEW spec, IsSeq(spec), NEW x, Exact(Append(spec, x))
  PROVE  /\ Exact(spec) /\ ~Keyword(x.min) /\ ~Keyword(x.max)
         /\ x.class = "parts" =>
              \A i \in DOMAIN spec : spec[i].class # "pattern" => ~(x.max > spec[i].max)
<1> DEFINE t == Append(spec, x)
           n == Len(spec)
<1>1. /\ n \in Nat /\ DOMAIN spec = 1 .. n /\ DOMAIN t = 1 .. n + 1
      /\ \A i \in 1 .. n : t[i] = spec[i]
      /\ t[n + 1] = x
  BY AppendIs
<1>2. ~WordAsLimit(t) /\ ~Overshoots(t)
  BY DEF Exact
<1> HIDE DEF t, n
<1>3. n + 1 \in DOMAIN t /\ \A i \in DOMAIN spec : i \in DOMAIN t /\ t[i] = spec[i] /\ i < n + 1
  BY <1>1
<1>4. ~WordAsLimit(spec) /\ ~Keyword(x.min) /\ ~Keyword(x.max)
  BY <1>1, <1>2, <1>3 DEF WordAsLimit
<1>5. \A i, j \in DOMAIN t : i < j /\ t[i].class # "pattern" /\ t[j].class = "parts" =>
                               ~(t[j].max > t[i].max)
  BY <1>2 DEF Overshoots
<1>6. ~Overshoots(spec)
  BY <1>3, <1>5 DEF Overshoots
<1>7. x.class = "parts" => \A i \in DOMAIN spec : spec[i].class # "pattern" => ~(x.max > spec[i].max)
  BY <1>1, <1>3, <1>5
<1>8. QED
  BY <1>4, <1>6, <1>7 DEF Exact

\* Restricted once more, an exact chain takes what is asked for as well.
LEMMA TightParts ==
  ASSUME NEW spec, Chain(spec), NEW L, Tight(spec, Top(spec), L),
         NEW parts \in Seq(RangePart), parts # <<>>,
         Good(validate_ranges(SkipPattern(spec), parts)),
         NEW N, N = PartsSpec(SkipPattern(spec), parts)
  PROVE  /\ \A v \in Int : NumberValid(Append(spec, N), v) <=> v \in L \cap Asked(parts, L)
         /\ \A v \in Asked(parts, L) : v <= Max(L) => v \in L
         /\ Exact(Append(spec, N)) =>
              Tight(Append(spec, N), Top(Append(spec, N)), L \cap Asked(parts, L))
<1> DEFINE sp == SkipPattern(spec)
           A == Asked(parts, L)
<1>1. PICK m : Skips(spec, m)
  BY ChainSkips
<1>2. IsSeq(spec) /\ DOMAIN spec = 1 .. Len(spec)
  BY AppendIs DEF Chain
<1>3. Last(sp) = Top(spec)
  BY DEF Top
<1>4. Tight(sp, Last(sp), L)
  <2>1. \A v \in Int : NumberValid(sp, v) <=> v \in L
    BY <1>1, <1>2, SkipValid DEF Tight
  <2> HIDE DEF sp
  <2>2. QED
    BY <1>3, <2>1 DEF Tight
<1>5. /\ \A v \in A : v <= Max(L) => v \in L
      /\ \A v \in L : Parts(N, v) # {} <=> v \in A
      /\ ~Keyword(N.min) /\ ~Keyword(N.max) /\ ~(N.max > Last(sp).max) => Outline(N, L \cap A)
  BY <1>4, Narrows
<1>6. N.class = "parts"
  BY PartsSpecIs
<1> HIDE DEF sp, A
<1>7. \A v : Takes(N, v) <=> Parts(N, v) # {}
  BY <1>6 DEF Takes
<1>8. ASSUME NEW v \in Int
      PROVE  NumberValid(Append(spec, N), v) <=> v \in L \cap A
  <2>1. NumberValid(spec, v) <=> v \in L
    BY DEF Tight
  <2>2. NumberValid(Append(spec, N), v) <=> NumberValid(spec, v) /\ Takes(N, v)
    BY <1>2, AppendValid
  <2>3. QED
    BY <1>5, <1>7, <2>1, <2>2
<1>9. ASSUME Exact(Append(spec, N))
      PROVE  Tight(Append(spec, N), Top(Append(spec, N)), L \cap A)
  <2>1. m \in DOMAIN spec /\ spec[m].class # "pattern" /\ Last(sp) = spec[m]
    BY <1>1, <1>2, <1>3, SkipIs DEF Skips
  <2>2. ~Keyword(N.min) /\ ~Keyword(N.max) /\ ~(N.max > Last(sp).max)
    BY <1>2, <1>6, <1>9, <2>1, ExactAppend
  <2>3. Outline(N, L \cap A)
    BY <1>5, <2>2
  <2>4. Top(Append(spec, N)) = N
    BY <1>6, TopAppend
  <2>5. QED
    BY <1>8, <2>3, <2>4 DEF Tight
<1>10. QED
  BY <1>5, <1>8, <1>9 DEF A

LEMMA TightPattern ==
  ASSUME NEW spec, Chain(spec), NEW L, Tight(spec, Top(spec), L), NEW x, x.class = "pattern"
  PROVE  Tight(Append(spec, x), Top(Append(spec, x)), L)
<1>1. \A v \in Int : NumberValid(Append(spec, x), v) <=> NumberValid(spec, v)
  <2>1. \A v : Takes(x, v)
    BY DEF Takes
  <2>2. IsSeq(spec)
    BY DEF Chain
  <2>3. QED
    BY <2>1, <2>2, AppendValid
<1>2. Top(Append(spec, x)) = Top(spec)
  BY TopAppend
<1>3. QED
  BY <1>1, <1>2 DEF Tight
----------------------------------------------------------------------------
(* The checks of a type statement.  Those that are not about numbers say   *)
(* nothing about them and leave the layers of numbers as they are.         *)

St(a, b, c) == [spec |-> a, errs |-> b, raised |-> c]
Yes == TRUE
No == FALSE
Hard == {"TYPE_VALUE", "BOUNDS", "raised"}    \* what FittingAccepted rules out
Mild(codes) == codes \cap Hard = {}
ItemTypes == {"enumeration", "bits", "identityref", "union"}

LEMMA StIs ==
  ASSUME NEW a, NEW b, NEW c
  PROVE  St(a, b, c).spec = a /\ St(a, b, c).errs = b /\ St(a, b, c).raised = c
  BY DEF St

LEMMA NoteIs ==
  ASSUME NEW a, NEW b, NEW c, NEW codes
  PROVE  Note(St(a, b, c), codes) = St(a, b \cup codes, c)
  BY DEF Note, St

LEMMA RestrictedIs ==
  ASSUME NEW a, NEW b, NEW c, NEW codes, NEW ok, NEW layer
  PROVE  /\ ok => Restricted(St(a, b, c), codes, ok, layer) = St(Append(a, layer), b \cup codes, c)
         /\ ~ok => Restricted(St(a, b, c), codes, ok, layer) = St(a, b \cup codes, c)
<1>1. Note(St(a, b, c), codes) = St(a, b \cup codes, c)
  BY NoteIs
<1> DEFINE t == St(a, b \cup codes, c)
<1>2. Restricted(St(a, b, c), codes, ok, layer) = [t EXCEPT !.spec = IF ok THEN Append(@, layer) ELSE @]
  BY <1>1, Zenon DEF Restricted
<1>3. \A x : [t EXCEPT !.spec = x] = St(x, b \cup codes, c)
  BY DEF St
<1>4. t.spec = a
  BY StIs
<1> HIDE DEF t
<1>5. ok => Restricted(St(a, b, c), codes, ok, layer) = [t EXCEPT !.spec = Append(a, layer)]
  BY <1>2, <1>4, Zenon
<1>6. ~ok => Restricted(St(a, b, c), codes, ok, layer) = [t EXCEPT !.spec = a]
  BY <1>2, <1>4, Zenon
<1>7. QED
  BY <1>3, <1>5, <1>6, Zenon

\* t is s with errors that are none of the hard ones.
Noted(t, a, b, c) == \E codes : Mild(codes) /\ t = St(a, b \cup codes, c)

LEMMA NotedAlready ==
  ASSUME NEW a, NEW b, NEW c
  PROVE  Noted(St(a, b, c), a, b, c)
<1>1. b \cup {} = b /\ Mild({})
  BY DEF Mild
<1>2. QED
  BY <1>1 DEF Noted

LEMMA NotedTwice ==
  ASSUME NEW a, NEW b, NEW c, NEW t, NEW codes, Mild(codes), Noted(t, a, b \cup codes, c)
  PROVE  Noted(t, a, b, c)
<1>1. PICK more : Mild(more) /\ t = St(a, (b \cup codes) \cup more, c)
  BY DEF Noted
<1>2. (b \cup codes) \cup more = b \cup (codes \cup more) /\ Mild(codes \cup more)
  BY <1>1 DEF Mild
<1>3. QED
  BY <1>1, <1>2 DEF Noted

LEMMA MildCodes ==
  /\ Mild({"BAD_RESTRICTION"}) /\ Mild({"MISSING_TYPE_SPEC"})
  /\ \A good : Mild({e \in {"PATTERN_ERROR"} : ~good})
  BY DEF Mild, Hard

LEMMA BaseNotes ==
  ASSUME NEW a, NEW b, NEW c, NEW stmt, NEW of, of # "identityref"
  PROVE  Noted(CheckBase(St(a, b, c), stmt, of), a, b, c)
<1>1. CASE stmt.bases # <<>>
  <2>1. CheckBase(St(a, b, c), stmt, of) = Note(St(a, b, c), {"BAD_RESTRICTION"})
    BY <1>1 DEF CheckBase
  <2>2. QED
    BY <2>1, NoteIs, MildCodes DEF Noted
<1>2. CASE stmt.bases = <<>>
  <2>1. CheckBase(St(a, b, c), stmt, of) = St(a, b, c)
    BY <1>2 DEF CheckBase
  <2>2. QED
    BY <2>1, NotedAlready
<1>3. QED
  BY <1>1, <1>2

LEMMA ItemsNote ==
  ASSUME NEW a, NEW b, NEW c, NEW items, NEW class, NEW restriction, NEW builtIn, NEW of,
         NEW r, restriction \notin Restrictions(a), of # builtIn
  PROVE  Noted(CheckItems(St(a, b, c), items, class, restriction, builtIn, of, r), a, b, c)
<1> DEFINE s == St(a, b, c)
           t == CheckItems(s, items, class, restriction, builtIn, of, r)
<1>0. s.spec = a
  BY StIs
<1>1. CASE items # <<>>
  <2> HIDE DEF s
  <2>1. t = Note(s, {"BAD_RESTRICTION"})
    BY <1>0, <1>1 DEF CheckItems
  <2> HIDE DEF t
  <2>2. t = St(a, b \cup {"BAD_RESTRICTION"}, c)
    BY <2>1, NoteIs DEF s
  <2>3. QED
    BY <2>2, MildCodes DEF Noted, s, t
<1>2. CASE items = <<>>
  <2>1. t = s
    BY <1>2 DEF CheckItems
  <2>2. QED
    BY <2>1, NotedAlready
<1>3. QED
  BY <1>1, <1>2

LEMMA UnionNotes ==
  ASSUME NEW a, NEW b, NEW c, NEW stmt, NEW of, NEW rs, of # "union"
  PROVE  Noted(CheckUnion(St(a, b, c), stmt, of, rs), a, b, c)
<1>1. CASE rs # <<>>
  <2>1. CheckUnion(St(a, b, c), stmt, of, rs) = Note(St(a, b, c), {"BAD_RESTRICTION"})
    BY <1>1 DEF CheckUnion
  <2>2. QED
    BY <2>1, NoteIs, MildCodes DEF Noted
<1>2. CASE rs = <<>>
  <2>1. CheckUnion(St(a, b, c), stmt, of, rs) = St(a, b, c)
    BY <1>2 DEF CheckUnion
  <2>2. QED
    BY <2>1, NotedAlready
<1>3. QED
  BY <1>1, <1>2

\* What the restrictions are is decided by the first layer.
LEMMA RestrictionsAre ==
  ASSUME NEW a
  PROVE  /\ a[1].class \in {"int", "decimal"} => Restrictions(a) = {"range"}
         /\ a[1].class = "string" => Restrictions(a) = {"pattern", "length"}
         /\ a[1].class \notin {"int", "decimal", "string"} =>
              Restrictions(a) \cap {"range", "length", "pattern"} = {}
         /\ a[1].class \in {"int", "decimal", "string"} => Restrictions(a) \cap {"enum", "bit"} = {}
<1>1. CASE a[1].class \in {"int", "decimal"}
  BY <1>1 DEF Restrictions
<1>2. CASE a[1].class = "string"
  BY <1>2 DEF Restrictions
<1>3. CASE a[1].class \notin {"int", "decimal", "string"}
  BY <1>3 DEF Restrictions
<1>4. QED
  BY <1>1, <1>2, <1>3

\* After the pattern: base, enum, bits and the members of a union.
Members(stmt) == [i \in DOMAIN stmt.members |-> MemberType(stmt.members[i])]
AfterPattern(s, stmt, of, rs) ==
  CheckUnion(CheckBits(CheckEnum(CheckBase(s, stmt, of), stmt, of), stmt, of), stmt, of, rs)
AfterFraction(s, stmt, of, rs) ==
  AfterPattern(CheckPattern(CheckLength(CheckRange(s, stmt), stmt), stmt), stmt, of, rs)

LEMMA StatementIs ==
  ASSUME NEW spec, NEW stmt, NEW of
  PROVE  v_type_type(spec, stmt, of) =
           AfterFraction(CheckFraction(St(spec, {}, No), stmt, of), stmt, of, Members(stmt))
  BY DEF v_type_type, TypeAlone, AfterFraction, AfterPattern, Members, St, No

LEMMA AfterPatternNotes ==
  ASSUME NEW a, NEW b, NEW c, NEW stmt, NEW rs, NEW of, of \notin ItemTypes,
         a[1].class \in {"int", "decimal", "string"}
  PROVE  Noted(AfterPattern(St(a, b, c), stmt, of, rs), a, b, c)
<1>1. "enum" \notin Restrictions(a) /\ "bit" \notin Restrictions(a)
  BY RestrictionsAre
<1>2. of # "identityref" /\ of # "enumeration" /\ of # "bits" /\ of # "union"
  BY DEF ItemTypes
<1>3. PICK b1 : Mild(b1) /\ CheckBase(St(a, b, c), stmt, of) = St(a, b \cup b1, c)
  BY <1>2, BaseNotes DEF Noted
<1> DEFINE B1 == b \cup b1
<1>4. Noted(CheckEnum(St(a, B1, c), stmt, of), a, B1, c)
  BY <1>1, <1>2, ItemsNote DEF CheckEnum
<1>5. PICK b2 : Mild(b2) /\ CheckEnum(St(a, B1, c), stmt, of) = St(a, B1 \cup b2, c)
  BY <1>4 DEF Noted
<1> DEFINE B2 == B1 \cup b2
<1>6. Noted(CheckBits(St(a, B2, c), stmt, of), a, B2, c)
  BY <1>1, <1>2, ItemsNote DEF CheckBits
<1>7. PICK b3 : Mild(b3) /\ CheckBits(St(a, B2, c), stmt, of) = St(a, B2 \cup b3, c)
  BY <1>6 DEF Noted
<1> DEFINE B3 == B2 \cup b3
           t == CheckUnion(St(a, B3, c), stmt, of, rs)
<1>8. Noted(t, a, B3, c)
  BY <1>2, UnionNotes
<1>9. AfterPattern(St(a, b, c), stmt, of, rs) = t
  BY <1>3, <1>5, <1>7 DEF AfterPattern
<1> HIDE DEF t
<1>10. Noted(t, a, B2, c)
  BY <1>7, <1>8, NotedTwice
<1>11. Noted(t, a, B1, c)
  BY <1>5, <1>10, NotedTwice
<1>12. Noted(t, a, b, c)
  BY <1>3, <1>11, NotedTwice
<1>13. QED
  BY <1>9, <1>12

\* A pattern is a layer of strings only.
LEMMA PatternNotes ==
  ASSUME NEW a, NEW b, NEW c, NEW stmt
  PROVE  \E a2 : /\ Noted(CheckPattern(St(a, b, c), stmt), a2, b, c)
                 /\ \/ a2 = a
                    \/ /\ "pattern" \in Restrictions(a)
                       /\ \E x : x.class = "pattern" /\ a2 = Append(a, x)
<1> DEFINE s == St(a, b, c)
           t == CheckPattern(s, stmt)
           good == \A i \in DOMAIN stmt.patterns : stmt.patterns[i].good
           x == [Layer("pattern") EXCEPT !.patterns = stmt.patterns]
<1>0. s.spec = a
  BY StIs
<1>1. CASE stmt.patterns = <<>>
  <2>1. t = St(a, b, c)
    BY <1>1 DEF CheckPattern
  <2>2. QED
    BY <2>1, NotedAlready
<1>2. CASE stmt.patterns # <<>> /\ "pattern" \notin Restrictions(a)
  <2> HIDE DEF s
  <2>1. t = Note(s, {"BAD_RESTRICTION"})
    BY <1>0, <1>2 DEF CheckPattern
  <2> HIDE DEF t
  <2>2. t = St(a, b \cup {"BAD_RESTRICTION"}, c)
    BY <2>1, NoteIs DEF s
  <2>3. Noted(t, a, b, c)
    BY <2>2, MildCodes DEF Noted
  <2>4. QED
    BY <2>3 DEF s, t
<1>3. CASE stmt.patterns # <<>> /\ "pattern" \in Restrictions(a)
  <2> DEFINE codes == {e \in {"PATTERN_ERROR"} : ~good}
  <2> HIDE DEF s, x
  <2>1. t = Restricted(s, codes, good, x)
    BY <1>0, <1>3 DEF CheckPattern, x
  <2>2. Mild(codes)
    BY MildCodes
  <2>3. x.class = "pattern"
    BY DEF Layer, x
  <2> HIDE DEF t, good, codes
  <2>4. /\ good => Restricted(s, codes, good, x) = St(Append(a, x), b \cup codes, c)
        /\ ~good => Restricted(s, codes, good, x) = St(a, b \cup codes, c)
    <3>1. s = St(a, b, c)
      BY DEF s
    <3>2. /\ good => Restricted(St(a, b, c), codes, good, x) = St(Append(a, x), b \cup codes, c)
          /\ ~good => Restricted(St(a, b, c), codes, good, x) = St(a, b \cup codes, c)
      BY RestrictedIs, SMTT(20)
    <3>3. QED
      BY <3>1, <3>2
  <2>5. CASE good
    <3>1. Noted(t, Append(a, x), b, c)
      BY <2>1, <2>2, <2>4, <2>5 DEF Noted
    <3>2. QED
      BY <1>3, <2>3, <3>1 DEF s, t
  <2>6. CASE ~good
    <3>1. Noted(t, a, b, c)
      BY <2>1, <2>2, <2>4, <2>6 DEF Noted
    <3>2. QED
      BY <3>1 DEF s, t
  <2>7. QED
    BY <2>5, <2>6
<1>4. QED
  BY <1>1, <1>2, <1>3

\* A restriction in parts, of the kind that the layers allow or not.
PartsCome(t, a, b, parts, allowed, base, r) ==
  LET codes == {e \in {"TYPE_VALUE"} : r.err} \cup {e \in {"BOUNDS"} : ~r.ok}
  IN /\ parts = <<>> => t = St(a, b, No)
     /\ parts # <<>> /\ ~allowed => t = St(a, b \cup {"BAD_RESTRICTION"}, No)
     /\ parts # <<>> /\ allowed /\ r.raised => t = St(a, b, Yes)
     /\ parts # <<>> /\ allowed /\ ~r.raised /\ r.ok =>
          t = St(Append(a, PartsSpec(base, parts)), b \cup codes, No)
     /\ parts # <<>> /\ allowed /\ ~r.raised /\ ~r.ok => t = St(a, b \cup codes, No)

LEMMA PartsCheck ==
  ASSUME NEW a, NEW b, NEW parts, NEW restriction, NEW base, NEW r
  PROVE  PartsCome(CheckParts(St(a, b, No), parts, restriction, base, r),
                   a, b, parts, restriction \in Restrictions(a), base, r)
<1> DEFINE s == St(a, b, No)
           t == CheckParts(s, parts, restriction, base, r)
           codes == {e \in {"TYPE_VALUE"} : r.err} \cup {e \in {"BOUNDS"} : ~r.ok}
           ok == r.ok
<1>1. s.spec = a /\ ~s.raised
  <2>1. s.spec = a /\ s.raised = No
    BY StIs
  <2> HIDE DEF s
  <2>2. QED
    BY <2>1, Zenon DEF No
<1>2. Note(s, {"BAD_RESTRICTION"}) = St(a, b \cup {"BAD_RESTRICTION"}, No)
  BY NoteIs
<1>3. [s EXCEPT !.raised = TRUE] = St(a, b, Yes)
  <2>1. \A y : [s EXCEPT !.raised = y] = St(a, b, y)
    BY DEF St
  <2> HIDE DEF s
  <2>2. QED
    BY <2>1, Zenon DEF Yes
<1> HIDE DEF ok, codes
<1>4. /\ ok => Restricted(s, codes, ok, PartsSpec(base, parts)) =
                 St(Append(a, PartsSpec(base, parts)), b \cup codes, No)
      /\ ~ok => Restricted(s, codes, ok, PartsSpec(base, parts)) = St(a, b \cup codes, No)
  BY RestrictedIs
<1> HIDE DEF s
<1>5. parts = <<>> => t = s
  BY DEF CheckParts
<1>6. parts # <<>> /\ restriction \notin Restrictions(a) => t = Note(s, {"BAD_RESTRICTION"})
  BY <1>1 DEF CheckParts
<1>7. parts # <<>> /\ restriction \in Restrictions(a) /\ r.raised => t = [s EXCEPT !.raised = TRUE]
  BY <1>1 DEF CheckParts
<1>8. parts # <<>> /\ restriction \in Restrictions(a) /\ ~r.raised =>
        t = Restricted(s, codes, ok, PartsSpec(base, parts))
  BY <1>1 DEF CheckParts, codes, ok
<1> HIDE DEF t
<1>9. /\ parts = <<>> => t = St(a, b, No)
      /\ parts # <<>> /\ restriction \notin Restrictions(a) =>
           t = St(a, b \cup {"BAD_RESTRICTION"}, No)
      /\ parts # <<>> /\ restriction \in Restrictions(a) /\ r.raised => t = St(a, b, Yes)
      /\ parts # <<>> /\ restriction \in Restrictions(a) /\ ~r.raised /\ ok =>
           t = St(Append(a, PartsSpec(base, parts)), b \cup codes, No)
      /\ parts # <<>> /\ restriction \in Restrictions(a) /\ ~r.raised /\ ~ok =>
           t = St(a, b \cup codes, No)
  <2>1. s = St(a, b, No)
    BY DEF s
  <2>2. QED
    BY <1>2, <1>3, <1>4, <1>5, <1>6, <1>7, <1>8, <2>1
<1>10. QED
  BY <1>9, Zenon DEF s, codes, t, ok, PartsCome
\* Of the kind that the layers allow: an error, or a new layer.
OwnCome(t, a, b, parts, base, r) ==
  \E a2, codes, c2 :
    /\ t = St(a2, b \cup codes, c2)
    /\ c2 \in {Yes, No}
    /\ a2 = a \/ (parts # <<>> /\ a2 = Append(a, PartsSpec(base, parts)))
    /\ codes = {} /\ c2 = No =>
         /\ parts = <<>> => a2 = a
         /\ parts # <<>> => Good(r) /\ a2 = Append(a, PartsSpec(base, parts))
    /\ parts # <<>> /\ Good(r) => codes = {} /\ c2 = No

LEMMA OwnParts ==
  ASSUME NEW a, NEW b, NEW parts, NEW restriction, restriction \in Restrictions(a),
         NEW base, NEW r
  PROVE  OwnCome(CheckParts(St(a, b, No), parts, restriction, base, r), a, b, parts, base, r)
<1> DEFINE t == CheckParts(St(a, b, No), parts, restriction, base, r)
           values == {e \in {"TYPE_VALUE"} : r.err}
           bounds == {e \in {"BOUNDS"} : ~r.ok}
           new == Append(a, PartsSpec(base, parts))
<1>1. /\ parts = <<>> => t = St(a, b, No)
      /\ parts # <<>> /\ r.raised => t = St(a, b, Yes)
      /\ parts # <<>> /\ ~r.raised /\ r.ok => t = St(new, b \cup (values \cup bounds), No)
      /\ parts # <<>> /\ ~r.raised /\ ~r.ok => t = St(a, b \cup (values \cup bounds), No)
  <2>1. PartsCome(t, a, b, parts, restriction \in Restrictions(a), base, r)
    BY PartsCheck
  <2> HIDE DEF t
  <2>2. QED
    BY <2>1 DEF PartsCome
<1>2. /\ values = {} => ~r.err
      /\ bounds = {} => r.ok
      /\ ~r.err => values = {}
      /\ r.ok => bounds = {}
  OBVIOUS
<1>3. Yes # No
  BY DEF Yes, No
<1>4. b \cup {} = b
  OBVIOUS
<1> HIDE DEF t, values, bounds, new
<1>5. CASE parts = <<>>
  <2>1. t = St(a, b \cup {}, No)
    BY <1>1, <1>4, <1>5
  <2>2. QED
    BY <1>5, <2>1 DEF t, OwnCome
<1>6. CASE parts # <<>> /\ r.raised
  <2>1. t = St(a, b \cup {}, Yes)
    BY <1>1, <1>4, <1>6
  <2>2. ~Good(r)
    BY <1>6 DEF Good
  <2>3. QED
    BY <1>3, <1>6, <2>1, <2>2 DEF t, OwnCome
<1>7. CASE parts # <<>> /\ ~r.raised /\ r.ok
  <2>1. t = St(new, b \cup (values \cup bounds), No)
    BY <1>1, <1>7
  <2>2. values \cup bounds = {} => Good(r)
    BY <1>2, <1>7 DEF Good
  <2>3. Good(r) => values \cup bounds = {}
    BY <1>2, <1>7 DEF Good
  <2>4. QED
    BY <1>7, <2>1, <2>2, <2>3 DEF t, new, OwnCome
<1>8. CASE parts # <<>> /\ ~r.raised /\ ~r.ok
  <2>1. t = St(a, b \cup (values \cup bounds), No)
    BY <1>1, <1>8
  <2>2. values \cup bounds # {} /\ ~Good(r)
    BY <1>2, <1>8 DEF Good
  <2>3. QED
    BY <1>8, <2>1, <2>2 DEF t, OwnCome
<1>9. QED
  BY <1>5, <1>6, <1>7, <1>8

\* Of the other kind: an error that is none of the hard ones.
ForeignCome(t, a, b, c, parts) ==
  \E codes : /\ t = St(a, b \cup codes, c)
             /\ Mild(codes)
             /\ codes = {} /\ c = No => parts = <<>>

LEMMA ForeignParts ==
  ASSUME NEW a, NEW b, NEW c \in {Yes, No}, NEW parts, NEW restriction,
         restriction \notin Restrictions(a), NEW base, NEW r
  PROVE  ForeignCome(CheckParts(St(a, b, c), parts, restriction, base, r), a, b, c, parts)
<1> DEFINE t == CheckParts(St(a, b, c), parts, restriction, base, r)
<1>1. b \cup {} = b /\ Mild({})
  BY DEF Mild
<1>2. CASE parts = <<>>
  <2>1. t = St(a, b, c)
    BY <1>2 DEF CheckParts
  <2> HIDE DEF t
  <2>2. t = St(a, b \cup {}, c)
    BY <1>1, <2>1
  <2>3. QED
    BY <1>1, <1>2, <2>2 DEF t, ForeignCome
<1>3. CASE parts # <<>> /\ c = No
  <2>1. t = St(a, b \cup {"BAD_RESTRICTION"}, No)
    <3>1. PartsCome(t, a, b, parts, restriction \in Restrictions(a), base, r)
      BY <1>3, PartsCheck
    <3> HIDE DEF t
    <3>2. QED
      BY <1>3, <3>1 DEF PartsCome
  <2> HIDE DEF t
  <2>2. QED
    BY <1>3, <2>1, MildCodes DEF t, ForeignCome
<1>4. CASE parts # <<>> /\ c # No
  <2> DEFINE s == St(a, b, c)
  <2>1. s.raised = Yes
    BY <1>4, StIs
  <2> HIDE DEF s
  <2>2. s.raised
    BY <2>1, Zenon DEF Yes
  <2>3. CheckParts(s, parts, restriction, base, r) = s
    BY <2>2 DEF CheckParts
  <2> HIDE DEF t
  <2>4. t = St(a, b \cup {}, c)
    BY <1>1, <2>3 DEF s, t
  <2>5. QED
    BY <1>1, <1>4, <2>4 DEF t, ForeignCome
<1>5. QED
  BY <1>2, <1>3, <1>4

\* The parts that are of the kind of the layers, and the others.
Own(a, stmt) == IF a[1].class = "string" THEN stmt.length ELSE stmt.range
Foreign(a, stmt) == IF a[1].class = "string" THEN stmt.range ELSE stmt.length
Result(a, stmt) == validate_ranges(SkipPattern(a), Own(a, stmt))
Wider(a, stmt) == Append(a, PartsSpec(SkipPattern(a), Own(a, stmt)))

LEMMA PartsNote ==
  ASSUME NEW a, Chain(a), NEW b, NEW stmt
  PROVE  \E a2, codes, c2 :
           /\ CheckLength(CheckRange(St(a, b, No), stmt), stmt) = St(a2, b \cup codes, c2)
           /\ c2 \in {Yes, No}
           /\ Chain(a2) /\ a2[1] = a[1]
           /\ codes = {} /\ c2 = No =>
                /\ Foreign(a, stmt) = <<>>
                /\ Own(a, stmt) = <<>> => a2 = a
                /\ Own(a, stmt) # <<>> => Good(Result(a, stmt)) /\ a2 = Wider(a, stmt)
           /\ Own(a, stmt) # <<>> /\ Good(Result(a, stmt)) => Mild(codes) /\ c2 = No
<1> DEFINE own == Own(a, stmt)
           r == Result(a, stmt)
           s == St(a, b, No)
<1>1. Mild({}) /\ \A x, y, z : (x \cup y) \cup z = x \cup (y \cup z)
  BY DEF Mild
<1>2. \A x, y : Mild(x) /\ Mild(y) => Mild(x \cup y)
  BY DEF Mild
<1>3. Chain(Wider(a, stmt)) /\ Wider(a, stmt)[1] = a[1]
  BY PartsSpecIs, ChainAppend DEF Wider
<1>4. \A x, y, z : St(x, y, z).spec = x
  BY StIs
<1>5. CASE a[1].class # "string"
  <2>1. SkipPattern(a) = a /\ own = stmt.range /\ Foreign(a, stmt) = stmt.length
    BY <1>5, PlainSkips DEF Own, Foreign
  <2>2. "range" \in Restrictions(a)
    BY <1>5, RestrictionsAre DEF Chain
  <2>3. CheckRange(s, stmt) = CheckParts(s, own, "range", SkipPattern(a), r)
    BY <1>4, <2>1 DEF CheckRange, Result
  <2> HIDE DEF r
  <2>4. PICK a2, codes, c2 :
          /\ CheckParts(s, own, "range", SkipPattern(a), r) = St(a2, b \cup codes, c2)
          /\ c2 \in {Yes, No}
          /\ a2 = a \/ (own # <<>> /\ a2 = Append(a, PartsSpec(SkipPattern(a), own)))
          /\ codes = {} /\ c2 = No =>
               /\ own = <<>> => a2 = a
               /\ own # <<>> => Good(r) /\ a2 = Append(a, PartsSpec(SkipPattern(a), own))
          /\ own # <<>> /\ Good(r) => codes = {} /\ c2 = No
    <3>1. OwnCome(CheckParts(s, own, "range", SkipPattern(a), r), a, b, own, SkipPattern(a), r)
      BY <2>2, OwnParts
    <3> HIDE DEF own, s
    <3>2. QED
      BY <3>1, Zenon DEF OwnCome
  <2>5. Chain(a2) /\ a2[1] = a[1]
    BY <1>3, <2>4 DEF Wider
  <2>6. "length" \notin Restrictions(a2)
    BY <1>5, <2>5, RestrictionsAre DEF Chain
  <2> DEFINE s2 == St(a2, b \cup codes, c2)
  <2>7. PICK more : /\ CheckLength(s2, stmt) = St(a2, (b \cup codes) \cup more, c2)
                    /\ Mild(more)
                    /\ more = {} /\ c2 = No => stmt.length = <<>>
    <3> DEFINE t == CheckLength(s2, stmt)
               B == b \cup codes
    <3>1. ForeignCome(t, a2, B, c2, stmt.length)
      BY <2>4, <2>6, ForeignParts DEF CheckLength
    <3> HIDE DEF t, B
    <3>2. PICK more : /\ t = St(a2, B \cup more, c2)
                      /\ Mild(more)
                      /\ more = {} /\ c2 = No => stmt.length = <<>>
      BY <3>1 DEF ForeignCome
    <3>3. QED
      BY <3>2 DEF t, B
  <2>8. CheckLength(CheckRange(s, stmt), stmt) = St(a2, b \cup (codes \cup more), c2)
    BY <1>1, <2>3, <2>4, <2>7
  <2>9. codes \cup more = {} => codes = {} /\ more = {}
    OBVIOUS
  <2>10. codes = {} => Mild(codes \cup more)
    BY <1>1, <1>2, <2>7
  <2> HIDE DEF own, s
  <2>11. codes \cup more = {} /\ c2 = No =>
           /\ Foreign(a, stmt) = <<>>
           /\ own = <<>> => a2 = a
           /\ own # <<>> => Good(r) /\ a2 = Wider(a, stmt)
    BY <2>1, <2>4, <2>7, <2>9 DEF Wider, own
  <2>12. own # <<>> /\ Good(r) => Mild(codes \cup more) /\ c2 = No
    BY <2>4, <2>10
  <2>13. QED
    BY <2>4, <2>5, <2>8, <2>11, <2>12 DEF own, r, s
<1>6. CASE a[1].class = "string"
  <2>1. own = stmt.length /\ Foreign(a, stmt) = stmt.range
    BY <1>6 DEF Own, Foreign
  <2>2. "range" \notin Restrictions(a) /\ "length" \in Restrictions(a)
    BY <1>6, RestrictionsAre
  <2>3. PICK codes : /\ CheckRange(s, stmt) = St(a, b \cup codes, No)
                     /\ Mild(codes)
                     /\ codes = {} => stmt.range = <<>>
    <3> DEFINE t == CheckRange(s, stmt)
    <3>1. ForeignCome(t, a, b, No, stmt.range)
      BY <2>2, ForeignParts DEF CheckRange
    <3> HIDE DEF t
    <3>2. QED
      BY <3>1 DEF ForeignCome, t
  <2> DEFINE B == b \cup codes
             s2 == St(a, B, No)
  <2>4. CheckLength(s2, stmt) = CheckParts(s2, own, "length", SkipPattern(a), r)
    BY <1>4, <2>1 DEF CheckLength, validate_length_expr, Result
  <2> HIDE DEF r, B
  <2>5. PICK a2, more, c2 :
          /\ CheckParts(s2, own, "length", SkipPattern(a), r) = St(a2, B \cup more, c2)
          /\ c2 \in {Yes, No}
          /\ a2 = a \/ (own # <<>> /\ a2 = Append(a, PartsSpec(SkipPattern(a), own)))
          /\ more = {} /\ c2 = No =>
               /\ own = <<>> => a2 = a
               /\ own # <<>> => Good(r) /\ a2 = Append(a, PartsSpec(SkipPattern(a), own))
          /\ own # <<>> /\ Good(r) => more = {} /\ c2 = No
    <3>1. OwnCome(CheckParts(s2, own, "length", SkipPattern(a), r), a, B, own, SkipPattern(a), r)
      BY <2>2, OwnParts
    <3> HIDE DEF own, s2
    <3>2. QED
      BY <3>1, Zenon DEF OwnCome
  <2>6. Chain(a2) /\ a2[1] = a[1]
    BY <1>3, <2>5 DEF Wider
  <2>7. CheckLength(CheckRange(s, stmt), stmt) = St(a2, B \cup more, c2)
    BY <2>3, <2>4, <2>5 DEF B
  <2>8. B \cup more = b \cup (codes \cup more)
    BY <1>1 DEF B
  <2>9. codes \cup more = {} => codes = {} /\ more = {}
    OBVIOUS
  <2>10. more = {} => Mild(codes \cup more)
    BY <1>1, <1>2, <2>3
  <2> HIDE DEF own, s
  <2>11. codes \cup more = {} /\ c2 = No =>
           /\ Foreign(a, stmt) = <<>>
           /\ own = <<>> => a2 = a
           /\ own # <<>> => Good(r) /\ a2 = Wider(a, stmt)
    BY <2>1, <2>3, <2>5, <2>9 DEF Wider, own
  <2>12. own # <<>> /\ Good(r) => Mild(codes \cup more) /\ c2 = No
    BY <2>5, <2>10
  <2>13. CheckLength(CheckRange(s, stmt), stmt) = St(a2, b \cup (codes \cup more), c2)
    BY <2>7, <2>8
  <2>14. QED
    BY <2>5, <2>6, <2>11, <2>12, <2>13 DEF own, r, s
<1>7. QED
  BY <1>5, <1>6
\* A statement on layers of numbers: without an error, the layers are those
\* of the restriction and at most a pattern; with a good restriction, none
\* of the errors is a hard one.
Widened(a, stmt) == IF Own(a, stmt) = <<>> THEN a ELSE Wider(a, stmt)
NumberCome(u, a, stmt) ==
  /\ Chain(u.spec) /\ u.spec[1] = a[1]
  /\ u.errs = {} /\ ~u.raised =>
       /\ Foreign(a, stmt) = <<>>
       /\ Own(a, stmt) # <<>> => Good(Result(a, stmt))
       /\ \/ u.spec = Widened(a, stmt)
          \/ \E x : x.class = "pattern" /\ u.spec = Append(Widened(a, stmt), x)
  /\ Own(a, stmt) # <<>> /\ Good(Result(a, stmt)) => Mild(u.errs) /\ ~u.raised

LEMMA NumberStatement ==
  ASSUME NEW a, Chain(a), NEW b, Mild(b), NEW stmt, NEW rs, NEW of, of \notin ItemTypes
  PROVE  NumberCome(AfterFraction(St(a, b, No), stmt, of, rs), a, stmt)
<1> DEFINE s1 == CheckLength(CheckRange(St(a, b, No), stmt), stmt)
           s2 == CheckPattern(s1, stmt)
           u == AfterPattern(s2, stmt, of, rs)
<1>1. AfterFraction(St(a, b, No), stmt, of, rs) = u
  BY DEF AfterFraction
<1>2. PICK a2, codes, c2 :
        /\ s1 = St(a2, b \cup codes, c2)
        /\ c2 \in {Yes, No}
        /\ Chain(a2) /\ a2[1] = a[1]
        /\ codes = {} /\ c2 = No =>
             /\ Foreign(a, stmt) = <<>>
             /\ Own(a, stmt) = <<>> => a2 = a
             /\ Own(a, stmt) # <<>> => Good(Result(a, stmt)) /\ a2 = Wider(a, stmt)
        /\ Own(a, stmt) # <<>> /\ Good(Result(a, stmt)) => Mild(codes) /\ c2 = No
  BY PartsNote
<1> DEFINE B == b \cup codes
<1> HIDE DEF s1
<1>3. PICK a3 : /\ Noted(CheckPattern(St(a2, B, c2), stmt), a3, B, c2)
                /\ \/ a3 = a2
                   \/ /\ "pattern" \in Restrictions(a2)
                      /\ \E x : x.class = "pattern" /\ a3 = Append(a2, x)
  BY PatternNotes
<1>4. "pattern" \in Restrictions(a2) => a2[1].class = "string"
  BY <1>2, RestrictionsAre DEF Chain
<1>5. Chain(a3) /\ a3[1] = a[1]
  BY <1>2, <1>3, <1>4, ChainAppend
<1>6. PICK p : Mild(p) /\ s2 = St(a3, B \cup p, c2)
  BY <1>2, <1>3 DEF Noted
<1> DEFINE P == B \cup p
<1> HIDE DEF s2
<1>7. Noted(AfterPattern(St(a3, P, c2), stmt, of, rs), a3, P, c2)
  BY <1>5, AfterPatternNotes DEF Chain
<1>8. PICK q : Mild(q) /\ u = St(a3, P \cup q, c2)
  BY <1>6, <1>7 DEF Noted
<1> HIDE DEF u
<1>9. u.spec = a3 /\ u.errs = P \cup q /\ u.raised = c2
  BY <1>8, StIs
<1>10. (u.errs = {} => codes = {}) /\ (Mild(codes) => Mild(u.errs))
  BY <1>6, <1>8, <1>9 DEF Mild
<1>11. (~u.raised => c2 = No) /\ (c2 = No => ~u.raised)
  <2>1. CASE c2 = Yes
    <3>1. u.raised = Yes /\ Yes # No
      BY <1>9, <2>1 DEF Yes, No
    <3>2. u.raised
      BY <3>1, Zenon DEF Yes
    <3>3. QED
      BY <2>1, <3>1, <3>2
  <2>2. CASE c2 = No
    <3>1. u.raised = No
      BY <1>9, <2>2
    <3>2. ~u.raised
      BY <3>1, Zenon DEF No
    <3>3. QED
      BY <2>2, <3>2
  <2>3. QED
    BY <1>2, <2>1, <2>2
<1>12. ASSUME u.errs = {}, ~u.raised
       PROVE  /\ Foreign(a, stmt) = <<>>
              /\ Own(a, stmt) # <<>> => Good(Result(a, stmt))
              /\ \/ u.spec = Widened(a, stmt)
                 \/ \E x : x.class = "pattern" /\ u.spec = Append(Widened(a, stmt), x)
  <2>1. codes = {} /\ c2 = No
    BY <1>10, <1>11, <1>12
  <2>2. a2 = Widened(a, stmt)
    BY <1>2, <2>1 DEF Widened
  <2>3. QED
    BY <1>2, <1>3, <1>9, <2>1, <2>2
<1>13. ASSUME Own(a, stmt) # <<>>, Good(Result(a, stmt))
       PROVE  Mild(u.errs) /\ ~u.raised
  BY <1>2, <1>10, <1>11, <1>13
<1>14. NumberCome(u, a, stmt)
  BY <1>5, <1>9, <1>12, <1>13 DEF NumberCome
<1>15. QED
  BY <1>1, <1>14

\* fraction-digits: nothing to other types, the layer of a decimal64.
LEMMA FractionNotes ==
  ASSUME NEW a, NEW b, NEW c, NEW stmt, NEW of, of # "decimal64"
  PROVE  Noted(CheckFraction(St(a, b, c), stmt, of), a, b, c)
<1> DEFINE s == St(a, b, c)
           t == CheckFraction(s, stmt, of)
<1>1. CASE stmt.fd # 0
  <2>1. t = Note(s, {"BAD_RESTRICTION"})
    BY <1>1 DEF CheckFraction
  <2> HIDE DEF t
  <2>2. t = St(a, b \cup {"BAD_RESTRICTION"}, c)
    BY <2>1, NoteIs
  <2>3. QED
    BY <2>2, MildCodes DEF Noted, t
<1>2. CASE stmt.fd = 0
  <2>1. t = s
    BY <1>2 DEF CheckFraction
  <2> HIDE DEF t
  <2>2. QED
    BY <2>1, NotedAlready DEF t
<1>3. QED
  BY <1>1, <1>2

LEMMA NoFraction ==
  ASSUME NEW a, NEW b, NEW c, NEW stmt, stmt.fd = 0
  PROVE  CheckFraction(St(a, b, c), stmt, "decimal64") = St(a, b \cup {"MISSING_TYPE_SPEC"}, c)
<1> DEFINE s == St(a, b, c)
<1>1. CheckFraction(s, stmt, "decimal64") = Note(s, {"MISSING_TYPE_SPEC"})
  BY DEF CheckFraction
<1>2. Note(s, {"MISSING_TYPE_SPEC"}) = St(a, b \cup {"MISSING_TYPE_SPEC"}, c)
  BY NoteIs
<1>3. QED
  BY <1>1, <1>2

LEMMA OwnFraction ==
  ASSUME NEW a, NEW b, NEW c, NEW stmt, stmt.fd # 0
  PROVE  CheckFraction(St(a, b, c), stmt, "decimal64") = St(<<DecimalSpec(stmt.fd)>>, b, c)
<1> DEFINE s == St(a, b, c)
<1>1. CheckFraction(s, stmt, "decimal64") = [s EXCEPT !.spec = <<DecimalSpec(stmt.fd)>>]
  BY DEF CheckFraction
<1>2. \A x : [s EXCEPT !.spec = x] = St(x, b, c)
  BY DEF St
<1> HIDE DEF s
<1>3. QED
  BY <1>1, <1>2 DEF s

----------------------------------------------------------------------------
(* A statement on layers that are not of numbers leaves them so. *)

OtherClasses == {"decimal64", "enumeration", "bits", "identityref", "identities", "union",
                 "boolean", "empty", "leafref"}
OtherSpec(a) == IsSeq(a) /\ Len(a) >= 1 /\ a[1].class \in OtherClasses
OtherState(t) == \E a, b : t = St(a, b, No) /\ OtherSpec(a)

LEMMA OtherIs ==
  ASSUME NEW a, OtherSpec(a)
  PROVE  /\ Restrictions(a) \cap {"range", "length", "pattern"} = {}
         /\ \A x : OtherSpec(Append(a, x))
<1>1. a[1].class \notin {"int", "decimal", "string"}
  BY DEF OtherSpec, OtherClasses
<1>2. Restrictions(a) \cap {"range", "length", "pattern"} = {}
  BY <1>1, RestrictionsAre
<1>3. ASSUME NEW x
      PROVE  OtherSpec(Append(a, x))
  <2>1. 1 \in 1 .. Len(a) /\ Len(a) \in Nat
    BY AppendIs DEF OtherSpec
  <2>2. IsSeq(Append(a, x)) /\ Len(Append(a, x)) = Len(a) + 1 /\ Append(a, x)[1] = a[1]
    BY <2>1, AppendIs DEF OtherSpec
  <2>3. QED
    BY <2>1, <2>2 DEF OtherSpec
<1>4. QED
  BY <1>2, <1>3

LEMMA OtherAlone ==
  ASSUME NEW x, x.class \in OtherClasses
  PROVE  OtherSpec(<<x>>)
<1> DEFINE a == <<x>>
<1>1. a \in Seq({x}) /\ Len(a) = 1 /\ a[1] = x
  OBVIOUS
<1> HIDE DEF a
<1>2. IsSeq(a)
  BY <1>1 DEF IsSeq
<1>3. OtherSpec(a)
  BY <1>1, <1>2 DEF OtherSpec
<1>4. QED
  BY <1>3 DEF a

LEMMA OtherParts ==
  ASSUME NEW s, OtherState(s), NEW parts, NEW restriction \in {"range", "length"}, NEW base, NEW r
  PROVE  OtherState(CheckParts(s, parts, restriction, base, r))
<1> DEFINE t == CheckParts(s, parts, restriction, base, r)
<1>1. PICK a, b : s = St(a, b, No) /\ OtherSpec(a)
  BY DEF OtherState
<1>2. restriction \notin Restrictions(a)
  BY <1>1, OtherIs
<1>3. No \in {Yes, No}
  OBVIOUS
<1>4. ForeignCome(t, a, b, No, parts)
  BY <1>1, <1>2, <1>3, ForeignParts
<1> HIDE DEF t
<1>5. QED
  BY <1>1, <1>4 DEF ForeignCome, OtherState, t

LEMMA OtherPattern ==
  ASSUME NEW s, OtherState(s), NEW stmt
  PROVE  OtherState(CheckPattern(s, stmt))
<1> DEFINE t == CheckPattern(s, stmt)
<1>1. PICK a, b : s = St(a, b, No) /\ OtherSpec(a)
  BY DEF OtherState
<1>2. "pattern" \notin Restrictions(a)
  BY <1>1, OtherIs
<1>3. Noted(t, a, b, No)
  BY <1>1, <1>2, PatternNotes
<1> HIDE DEF t
<1>4. QED
  BY <1>1, <1>3 DEF Noted, OtherState, t

LEMMA OtherBase ==
  ASSUME NEW s, OtherState(s), NEW stmt, NEW of
  PROVE  OtherState(CheckBase(s, stmt, of))
<1> DEFINE t == CheckBase(s, stmt, of)
           found == Existing(graph, stmt.bases)
           x == [Layer("identities") EXCEPT !.bases = found]
           new == <<x>>
           codes == {e \in {"IDENTITY_NOT_FOUND"} : found # stmt.bases}
           changed == [Note(s, codes) EXCEPT !.spec = IF found = <<>> THEN @ ELSE new]
<1>1. PICK a, b : s = St(a, b, No) /\ OtherSpec(a)
  BY DEF OtherState
<1>2. \/ t = s
      \/ \E more : t = Note(s, more)
      \/ t = changed
  BY DEF CheckBase
<1>3. \A more : Note(s, more) = St(a, b \cup more, No)
  BY <1>1, NoteIs
<1>4. x.class = "identities"
  BY DEF Layer
<1> HIDE DEF x
<1>5. OtherSpec(new)
  BY <1>4, OtherAlone DEF OtherClasses
<1> HIDE DEF t
<1>6. OtherState(changed)
  <2> HIDE DEF found, new, codes
  <2>1. Note(s, codes) = St(a, b \cup codes, No)
    BY <1>3
  <2>2. \A y : [St(a, b \cup codes, No) EXCEPT !.spec = y] = St(y, b \cup codes, No)
    BY DEF St
  <2>3. CASE found = <<>>
    <3>1. changed = St(a, b \cup codes, No)
      BY <2>1, <2>3 DEF St
    <3>2. QED
      BY <1>1, <3>1 DEF OtherState
  <2>4. CASE found # <<>>
    <3>1. changed = [St(a, b \cup codes, No) EXCEPT !.spec = new]
      BY <2>1, <2>4
    <3>2. QED
      BY <1>5, <2>2, <3>1 DEF OtherState
  <2>5. QED
    BY <2>3, <2>4
<1> HIDE DEF changed
<1>7. QED
  BY <1>1, <1>2, <1>3, <1>6 DEF OtherState, t

LEMMA OtherItems ==
  ASSUME NEW s, OtherState(s), NEW items, NEW class, NEW restriction, NEW builtIn, NEW of, NEW r
  PROVE  OtherState(CheckItems(s, items, class, restriction, builtIn, of, r))
<1> DEFINE t == CheckItems(s, items, class, restriction, builtIn, of, r)
           x == [Layer(class) EXCEPT !.items = r.items]
           n == Note(s, r.errs)
<1>1. PICK a, b : s = St(a, b, No) /\ OtherSpec(a)
  BY DEF OtherState
<1>2. \A more : Note(s, more) = St(a, b \cup more, No)
  BY <1>1, NoteIs
<1>3. \/ t = s
      \/ \E more : t = Note(s, more)
      \/ t = [n EXCEPT !.spec = Append(@, x)]
  BY DEF CheckItems, Restricted
<1>4. n = St(a, b \cup r.errs, No)
  BY <1>2
<1> HIDE DEF t, x, n
<1>5. [n EXCEPT !.spec = Append(@, x)] = St(Append(a, x), b \cup r.errs, No)
  <2>1. \A y, z : [St(a, y, No) EXCEPT !.spec = z] = St(z, y, No)
    BY DEF St
  <2>2. n.spec = a
    BY <1>4, StIs
  <2>3. QED
    BY <1>4, <2>1, <2>2
<1>6. OtherSpec(Append(a, x))
  BY <1>1, OtherIs
<1>7. QED
  BY <1>1, <1>2, <1>3, <1>5, <1>6 DEF OtherState, t

LEMMA OtherUnion ==
  ASSUME NEW s, OtherState(s), NEW stmt, NEW of, NEW rs
  PROVE  OtherState(CheckUnion(s, stmt, of, rs))
<1> DEFINE t == CheckUnion(s, stmt, of, rs)
           old == version1 /\ \E i \in DOMAIN rs : stmt.members[i].of \in {"empty", "leafref"}
           codes == (UNION {rs[i].errs : i \in DOMAIN rs}) \cup {e \in {"BAD_TYPE_IN_UNION"} : old}
           x == [Layer("union") EXCEPT !.members = [i \in DOMAIN rs |-> rs[i].spec]]
           n == Note(s, codes)
<1>1. PICK a, b : s = St(a, b, No) /\ OtherSpec(a)
  BY DEF OtherState
<1>2. \A more : Note(s, more) = St(a, b \cup more, No)
  BY <1>1, NoteIs
<1>3. \/ t = s
      \/ \E more : t = Note(s, more)
      \/ t = [n EXCEPT !.spec = <<x>>]
  BY DEF CheckUnion
<1>4. x.class = "union"
  BY DEF Layer
<1> HIDE DEF t, x, codes
<1>5. n = St(a, b \cup codes, No)
  BY <1>2
<1> HIDE DEF n
<1>6. [n EXCEPT !.spec = <<x>>] = St(<<x>>, b \cup codes, No)
  BY <1>5 DEF St
<1>7. OtherSpec(<<x>>)
  BY <1>4, OtherAlone DEF OtherClasses
<1>8. QED
  BY <1>1, <1>2, <1>3, <1>6, <1>7 DEF OtherState, t

LEMMA OtherStatement ==
  ASSUME NEW s, OtherState(s), NEW stmt, NEW of, NEW rs
  PROVE  OtherSpec(AfterFraction(s, stmt, of, rs).spec)
<1> DEFINE s1 == CheckRange(s, stmt)
           s2 == CheckLength(s1, stmt)
           s3 == CheckPattern(s2, stmt)
           s4 == CheckBase(s3, stmt, of)
           s5 == CheckEnum(s4, stmt, of)
           s6 == CheckBits(s5, stmt, of)
           s7 == CheckUnion(s6, stmt, of, rs)
<1>1. AfterFraction(s, stmt, of, rs) = s7
  BY DEF AfterFraction, AfterPattern
<1>2. OtherState(s1)
  BY OtherParts DEF CheckRange
<1> HIDE DEF s1
<1>3. OtherState(s2)
  BY <1>2, OtherParts DEF CheckLength
<1> HIDE DEF s2
<1>4. OtherState(s3)
  BY <1>3, OtherPattern
<1> HIDE DEF s3
<1>5. OtherState(s4)
  BY <1>4, OtherBase
<1> HIDE DEF s4
<1>6. OtherState(s5)
  BY <1>5, OtherItems DEF CheckEnum
<1> HIDE DEF s5
<1>7. OtherState(s6)
  BY <1>6, OtherItems DEF CheckBits
<1> HIDE DEF s6
<1>8. OtherState(s7)
  BY <1>7, OtherUnion
<1> HIDE DEF s7
<1>9. OtherSpec(s7.spec)
  BY <1>8, StIs DEF OtherState
<1>10. QED
  BY <1>1, <1>9
----------------------------------------------------------------------------
(* One statement in a chain of numbers. *)

LEMMA TightSkip ==
  ASSUME NEW a, Chain(a), NEW L, Tight(a, Top(a), L)
  PROVE  Tight(SkipPattern(a), Last(SkipPattern(a)), L)
<1>1. PICK m : Skips(a, m)
  BY ChainSkips
<1>2. \A v \in Int : NumberValid(SkipPattern(a), v) <=> v \in L
  BY <1>1, SkipValid DEF Tight, Chain
<1>3. QED
  BY <1>2 DEF Tight, Top

Left(stmt, L) == IF Numbers(stmt) = <<>> THEN L ELSE L \cap Asked(Numbers(stmt), L)

LEMMA NumbersAre ==
  ASSUME NEW a, NEW stmt, Foreign(a, stmt) = <<>>
  PROVE  Numbers(stmt) = Own(a, stmt)
  BY DEF Numbers, Own, Foreign

\* The layers of a statement without an error take what is left.
LEMMA WidenedIs ==
  ASSUME NEW a, Chain(a), NEW L, Tight(a, Top(a), L), NEW stmt, Foreign(a, stmt) = <<>>,
         Own(a, stmt) \in Seq(RangePart),
         Own(a, stmt) # <<>> => Good(Result(a, stmt))
  PROVE  /\ \A v \in Int : NumberValid(Widened(a, stmt), v) <=> v \in Left(stmt, L)
         /\ \A v \in Asked(Numbers(stmt), L) : v <= Max(L) => v \in L
         /\ Exact(Widened(a, stmt)) => Tight(Widened(a, stmt), Top(Widened(a, stmt)), Left(stmt, L))
<1>1. Numbers(stmt) = Own(a, stmt)
  BY NumbersAre
<1>2. CASE Own(a, stmt) = <<>>
  <2>1. Asked(<<>>, L) = {}
    BY DEF Asked
  <2>2. Widened(a, stmt) = a /\ Left(stmt, L) = L
    BY <1>1, <1>2 DEF Widened, Left
  <2>3. \A v \in Int : NumberValid(a, v) <=> v \in L
    BY DEF Tight
  <2>4. QED
    BY <1>1, <1>2, <2>1, <2>2, <2>3
<1>3. CASE Own(a, stmt) # <<>>
  <2> DEFINE own == Own(a, stmt)
             N == PartsSpec(SkipPattern(a), own)
  <2>1. Widened(a, stmt) = Append(a, N) /\ Left(stmt, L) = L \cap Asked(own, L)
    BY <1>1, <1>3 DEF Widened, Wider, Left
  <2>2. Good(validate_ranges(SkipPattern(a), own))
    BY <1>3 DEF Result
  <2> HIDE DEF own
  <2>3. own \in Seq(RangePart) /\ own # <<>>
    BY <1>3 DEF own
  <2>4. /\ \A v \in Int : NumberValid(Append(a, N), v) <=> v \in L \cap Asked(own, L)
        /\ \A v \in Asked(own, L) : v <= Max(L) => v \in L
        /\ Exact(Append(a, N)) => Tight(Append(a, N), Top(Append(a, N)), L \cap Asked(own, L))
    BY <2>2, <2>3, TightParts
  <2> HIDE DEF N
  <2>5. Numbers(stmt) = own
    BY <1>1 DEF own
  <2>6. QED
    BY <2>1, <2>4, <2>5
<1>4. QED
  BY <1>2, <1>3

LEMMA WidenedChain ==
  ASSUME NEW a, Chain(a), NEW stmt
  PROVE  /\ Chain(Widened(a, stmt))
         /\ Exact(Widened(a, stmt)) => Exact(a)
<1>1. CASE Own(a, stmt) = <<>>
  BY <1>1 DEF Widened
<1>2. CASE Own(a, stmt) # <<>>
  <2> DEFINE N == PartsSpec(SkipPattern(a), Own(a, stmt))
  <2>1. N.class = "parts"
    BY PartsSpecIs
  <2>2. Widened(a, stmt) = Append(a, N)
    BY <1>2 DEF Widened, Wider
  <2> HIDE DEF N
  <2>3. QED
    BY <2>1, <2>2, ChainAppend, ExactAppend DEF Chain
<1>3. QED
  BY <1>1, <1>2

LEMMA NumberMove ==
  ASSUME NEW a, Chain(a), NEW L, Exact(a) => Tight(a, Top(a), L),
         NEW stmt, stmt.range \in Seq(RangePart), stmt.length \in Seq(RangePart),
         NEW u, NumberCome(u, a, stmt), u.errs = {}, ~u.raised
  PROVE  /\ Exact(a) => /\ \A v \in Int : NumberValid(u.spec, v) <=> v \in Left(stmt, L)
                        /\ \A v \in Asked(Numbers(stmt), L) : v <= Max(L) => v \in L
         /\ Exact(u.spec) => Tight(u.spec, Top(u.spec), Left(stmt, L))
<1> DEFINE w == Widened(a, stmt)
           M == Left(stmt, L)
<1>1. Foreign(a, stmt) = <<>> /\ (Own(a, stmt) # <<>> => Good(Result(a, stmt)))
  BY DEF NumberCome
<1>2. Own(a, stmt) \in Seq(RangePart)
  BY DEF Own
<1>3. Exact(a) => /\ \A v \in Int : NumberValid(w, v) <=> v \in M
                  /\ \A v \in Asked(Numbers(stmt), L) : v <= Max(L) => v \in L
                  /\ Exact(w) => Tight(w, Top(w), M)
  BY <1>1, <1>2, WidenedIs
<1>4. Chain(w) /\ (Exact(w) => Exact(a))
  BY WidenedChain
<1>5. u.spec = w \/ \E x : x.class = "pattern" /\ u.spec = Append(w, x)
  BY DEF NumberCome
<1> HIDE DEF w, M
<1>6. CASE u.spec = w
  BY <1>3, <1>4, <1>6 DEF M
<1>7. ASSUME NEW x, x.class = "pattern", u.spec = Append(w, x)
      PROVE  /\ Exact(a) => /\ \A v \in Int : NumberValid(u.spec, v) <=> v \in M
                            /\ \A v \in Asked(Numbers(stmt), L) : v <= Max(L) => v \in L
             /\ Exact(u.spec) => Tight(u.spec, Top(u.spec), M)
  <2>1. \A v : Takes(x, v)
    BY <1>7 DEF Takes
  <2>2. \A v : NumberValid(u.spec, v) <=> NumberValid(w, v)
    BY <1>4, <1>7, <2>1, AppendValid DEF Chain
  <2>3. Exact(u.spec) => Exact(w)
    BY <1>4, <1>7, ExactAppend DEF Chain
  <2>4. Exact(u.spec) => Tight(u.spec, Top(u.spec), M)
    BY <1>3, <1>4, <1>7, <2>3, TightPattern
  <2>5. QED
    BY <1>3, <2>2, <2>4
<1>8. QED
  BY <1>5, <1>6, <1>7 DEF M

LEMMA NumberFits ==
  ASSUME NEW a, Chain(a), NEW L, Tight(a, Top(a), L),
         NEW stmt, stmt.range \in Seq(RangePart), stmt.length \in Seq(RangePart),
         NEW u, NumberCome(u, a, stmt), Own(a, stmt) # <<>>,
         NEW base, Last(base) = Top(a) \/ "parts" \notin {Last(base).class, Top(a).class},
         Fits(Own(a, stmt), base, L)
  PROVE  Mild(u.errs) /\ ~u.raised
<1>1. Tight(SkipPattern(a), Last(SkipPattern(a)), L)
  BY TightSkip
<1>2. Own(a, stmt) \in Seq(RangePart)
  BY DEF Own
<1>3. Last(SkipPattern(a)) = Top(a)
  BY DEF Top
<1>4. Good(validate_ranges(SkipPattern(a), Own(a, stmt)))
  BY <1>1, <1>2, <1>3, FitsAccepted
<1>5. QED
  BY <1>4 DEF NumberCome, Result

\* A layer of numbers by itself.
LEMMA AloneIs ==
  ASSUME NEW x, x.class \in {"int", "decimal", "string", "decimal64"}
  PROVE  /\ IsSeq(<<x>>) /\ Len(<<x>>) = 1 /\ <<x>>[1] = x /\ DOMAIN <<x>> = {1}
         /\ Top(<<x>>) = x
<1> DEFINE a == <<x>>
<1>1. a \in Seq({x}) /\ Len(a) = 1 /\ a[1] = x /\ DOMAIN a = {1}
  OBVIOUS
<1> HIDE DEF a
<1>2. IsSeq(a)
  BY <1>1 DEF IsSeq
<1>3. Skips(a, 1)
  BY <1>1 DEF Skips
<1>4. Top(a) = a[1]
  BY <1>2, <1>3, SkipIs
<1>5. QED
  BY <1>1, <1>2, <1>4 DEF a

LEMMA FirstLayer ==
  ASSUME NEW x, x.class \in {"int", "decimal", "string"},
         x.min \in Limit, x.max \in Limit, x.min <= x.max, x.min .. x.max \subseteq Wide
  PROVE  Chain(<<x>>) /\ Tight(<<x>>, Top(<<x>>), x.min .. x.max)
<1> DEFINE a == <<x>>
           L == x.min .. x.max
<1>1. IsSeq(a) /\ Len(a) = 1 /\ a[1] = x /\ DOMAIN a = {1} /\ Top(a) = x
  BY AloneIs
<1> HIDE DEF a
<1>2. Chain(a)
  BY <1>1 DEF Chain
<1>3. x.min \in Int /\ x.max \in Int
  BY LimitIs
<1>4. \A v \in Int : NumberValid(a, v) <=> v \in L
  <2>1. \A v \in Int : Takes(x, v) <=> v \in L
    BY <1>3 DEF Takes
  <2>2. QED
    BY <1>1, <2>1, ValidIs
<1>5. Outline(x, L)
  BY <1>3 DEF Outline
<1>6. Tight(a, Top(a), L)
  BY <1>1, <1>4, <1>5 DEF Tight
<1>7. QED
  BY <1>2, <1>6 DEF a
----------------------------------------------------------------------------
(* The invariant: a decimal64 before its fraction-digits, the layers of    *)
(* numbers, which are tight as long as they are exact, or other layers.    *)

NumberTypes == {"int", "string", "decimal64"}
Undecided ==
  builtin = "decimal64" /\ depth = 0 /\ type.spec = <<Layer("decimal64")>> /\ lang = IntMin .. IntMax
Decided ==
  /\ builtin \in NumberTypes /\ Of # "decimal64"
  /\ Chain(type.spec)
  /\ builtin = "string" <=> type.spec[1].class = "string"
  /\ Exact(type.spec) => Tight(type.spec, Top(type.spec), lang)
Elsewhere == Of # "decimal64" /\ OtherSpec(type.spec)

DepthBounded == builtin \in BuiltIns /\ depth \in Nat /\ (node = "none" => depth <= MaxDepth)
LayersKnown == Sound => Undecided \/ Decided \/ Elsewhere
IInv == DepthBounded /\ LayersKnown

LEMMA BuiltInSpecs ==
  /\ IntSpec.class = "int" /\ IntSpec.min = IntMin /\ IntSpec.max = IntMax
  /\ StringSpec.class = "string" /\ StringSpec.min = 0 /\ StringSpec.max = MaxLength
  /\ \A fd : /\ DecimalSpec(fd).class = "decimal"
             /\ DecimalSpec(fd).min = IntMin /\ DecimalSpec(fd).max = IntMax
  /\ \A c : Layer(c).class = c
  BY DEF IntSpec, StringSpec, DecimalSpec, Layer

LEMMA LimitsAre ==
  /\ IntMin \in Limit /\ IntMax \in Limit /\ IntMin <= IntMax /\ IntMin .. IntMax \subseteq Wide
  /\ 0 \in Limit /\ MaxLength \in Limit /\ 0 <= MaxLength /\ 0 .. MaxLength \subseteq Wide
<1>1. /\ IntMin \in Int /\ IntMin > MinWord /\ IntMin <= 0 /\ IntMax \in Int /\ IntMax >= 0 /\ IntMax < MaxWord
      /\ MaxLength \in Int /\ MaxLength >= 0 /\ MaxLength < MaxWord
  BY LimitsAssumption
<1>2. /\ IntMin \in Limit /\ IntMax \in Limit /\ 0 \in Limit /\ MaxLength \in Limit
  BY <1>1, LimitsAssumption DEF Limit
<1>3. IntMin .. IntMax \subseteq Wide /\ 0 .. MaxLength \subseteq Wide
  <2>1. CASE IntMax > MaxLength
    BY <1>1, <2>1 DEF Wide
  <2>2. CASE ~(IntMax > MaxLength)
    BY <1>1, <2>2 DEF Wide
  <2>3. QED
    BY <2>1, <2>2
<1>4. QED
  BY <1>1, <1>2, <1>3

LEMMA IntStart ==
  Chain(<<IntSpec>>) /\ Tight(<<IntSpec>>, Top(<<IntSpec>>), IntMin .. IntMax)
<1> DEFINE x == IntSpec
<1>1. /\ x.class = "int" /\ x.min \in Limit /\ x.max \in Limit
      /\ x.min <= x.max /\ x.min .. x.max \subseteq Wide /\ x.min .. x.max = IntMin .. IntMax
  BY BuiltInSpecs, LimitsAre
<1> HIDE DEF x
<1>2. Chain(<<x>>) /\ Tight(<<x>>, Top(<<x>>), IntMin .. IntMax)
  BY <1>1, FirstLayer
<1>3. QED
  BY <1>2 DEF x

LEMMA StringStart ==
  Chain(<<StringSpec>>) /\ Tight(<<StringSpec>>, Top(<<StringSpec>>), 0 .. MaxLength)
<1> DEFINE x == StringSpec
<1>1. /\ x.class = "string" /\ x.min \in Limit /\ x.max \in Limit
      /\ x.min <= x.max /\ x.min .. x.max \subseteq Wide /\ x.min .. x.max = 0 .. MaxLength
  BY BuiltInSpecs, LimitsAre
<1> HIDE DEF x
<1>2. Chain(<<x>>) /\ Tight(<<x>>, Top(<<x>>), 0 .. MaxLength)
  BY <1>1, FirstLayer
<1>3. QED
  BY <1>2 DEF x

LEMMA DecimalStart ==
  ASSUME NEW fd
  PROVE  Chain(<<DecimalSpec(fd)>>)
         /\ Tight(<<DecimalSpec(fd)>>, Top(<<DecimalSpec(fd)>>), IntMin .. IntMax)
<1> DEFINE x == DecimalSpec(fd)
<1>1. /\ x.class = "decimal" /\ x.min \in Limit /\ x.max \in Limit
      /\ x.min <= x.max /\ x.min .. x.max \subseteq Wide /\ x.min .. x.max = IntMin .. IntMax
  BY BuiltInSpecs, LimitsAre
<1> HIDE DEF x
<1>2. Chain(<<x>>) /\ Tight(<<x>>, Top(<<x>>), IntMin .. IntMax)
  BY <1>1, FirstLayer
<1>3. QED
  BY <1>2 DEF x

LEMMA InitLayers ==
  ASSUME Init
  PROVE  IInv
<1>1. /\ builtin \in BuiltIns /\ depth = 0 /\ node = "none"
      /\ type.spec = yang_type_specs(builtin)
      /\ lang = IF builtin = "string" THEN 0 .. MaxLength ELSE IntMin .. IntMax
      /\ Of = builtin
  BY DEF Init, Of
<1>2. DepthBounded
  BY <1>1, LimitsAssumption DEF DepthBounded
<1>3. CASE builtin = "int"
  <2>1. type.spec = <<IntSpec>> /\ lang = IntMin .. IntMax
    BY <1>1, <1>3 DEF yang_type_specs
  <2>2. type.spec[1].class = "int"
    BY <2>1, BuiltInSpecs
  <2>3. Decided
    BY <1>1, <1>3, <2>1, <2>2, IntStart DEF Decided, NumberTypes
  <2>4. QED
    BY <1>2, <2>3 DEF IInv, LayersKnown
<1>4. CASE builtin = "string"
  <2>1. type.spec = <<StringSpec>> /\ lang = 0 .. MaxLength
    BY <1>1, <1>4 DEF yang_type_specs
  <2>2. type.spec[1].class = "string"
    BY <2>1, BuiltInSpecs
  <2>3. Decided
    BY <1>1, <1>4, <2>1, <2>2, StringStart DEF Decided, NumberTypes
  <2>4. QED
    BY <1>2, <2>3 DEF IInv, LayersKnown
<1>5. CASE builtin = "decimal64"
  <2>1. Undecided
    BY <1>1, <1>5 DEF yang_type_specs, Undecided
  <2>2. QED
    BY <1>2, <2>1 DEF IInv, LayersKnown
<1>6. CASE builtin \notin NumberTypes
  <2>1. type.spec = <<Layer(builtin)>>
    BY <1>1, <1>6 DEF yang_type_specs, NumberTypes
  <2>2. builtin \in OtherClasses
    BY <1>1, <1>6, BuiltInsAssumption DEF TypeNames, NumberTypes, OtherClasses
  <2>3. Elsewhere
    BY <1>1, <1>6, <2>1, <2>2, BuiltInSpecs, OtherAlone DEF Elsewhere, NumberTypes
  <2>4. QED
    BY <1>2, <2>3 DEF IInv, LayersKnown
<1>7. QED
  BY <1>3, <1>4, <1>5, <1>6 DEF NumberTypes

\* What any of the three statements around a type does to it.
Moved(stmt, s) ==
  /\ type'.spec = s.spec
  /\ Sound' => s.errs = {} /\ ~s.raised
  /\ lang' = Left(stmt, lang)
  /\ last'.stmt = stmt /\ last'.spec = type.spec /\ last'.lang = lang
  /\ last'.errs = s.errs \cup {e \in {"raised"} : s.raised}
  /\ depth' = depth + 1 /\ builtin' = builtin

LEMMA StepMoves ==
  ASSUME NEW stmt, NEW s, NEW text, NEW default, NEW abort, NEW errs,
         Step(stmt, s, text, default, abort, errs)
  PROVE  Moved(stmt, s)
<1>1. type'.spec = s.spec
  BY DEF Step
<1>2. Sound' => s.errs = {} /\ ~s.raised
  <2>1. errors' = {} => s.errs = {}
    BY DEF Step
  <2>2. ~raised' => ~s.raised
    BY Zenon DEF Step
  <2>3. QED
    BY <2>1, <2>2 DEF Sound
<1>3. /\ last'.stmt = stmt /\ last'.spec = type.spec /\ last'.lang = lang
      /\ last'.errs = s.errs \cup {e \in {"raised"} : s.raised}
  BY DEF Step
<1>4. lang' = Left(stmt, lang) /\ depth' = depth + 1 /\ builtin' = builtin
  BY DEF Step, Left
<1>5. QED
  BY <1>1, <1>2, <1>3, <1>4 DEF Moved

LEMMA NextMoves ==
  ASSUME Next
  PROVE  \E stmt \in Statements[builtin][depth + 1] :
           /\ Moved(stmt, v_type_type(type.spec, stmt, Of))
           /\ node = "none" /\ Sound
           /\ node' = "none" => depth < MaxDepth
<1>1. node = "none" /\ Sound
  BY DEF Next, Sound
<1>2. PICK stmt \in Statements[builtin][depth + 1] :
        \E s \in {v_type_type(type.spec, stmt, Of)} :
          \/ \E text \in {<<>>} \cup {<<t>> : t \in Texts[builtin]} :
               \/ Typedef(stmt, s, text)
               \/ \E mandatory \in {FALSE, text # <<>>} : Leaf(stmt, s, text, mandatory)
          \/ \E list \in Lists[builtin] : LeafList(stmt, s, list.texts, list.min, list.max)
  BY DEF Next
<1> DEFINE u == v_type_type(type.spec, stmt, Of)
<1> HIDE DEF u
<1>3. \/ \E text : Typedef(stmt, u, text)
      \/ \E text, mandatory : Leaf(stmt, u, text, mandatory)
      \/ \E texts, min, max : LeafList(stmt, u, texts, min, max)
  BY <1>2 DEF u
<1>4. ASSUME NEW text, Typedef(stmt, u, text)
      PROVE  Moved(stmt, u) /\ (node' = "none" => depth < MaxDepth)
  BY <1>4, StepMoves DEF Typedef
<1>5. ASSUME NEW text, NEW mandatory, Leaf(stmt, u, text, mandatory)
      PROVE  Moved(stmt, u) /\ (node' = "none" => depth < MaxDepth)
  BY <1>5, StepMoves DEF Leaf
<1>6. ASSUME NEW texts, NEW min, NEW max, LeafList(stmt, u, texts, min, max)
      PROVE  Moved(stmt, u) /\ (node' = "none" => depth < MaxDepth)
  BY <1>6, StepMoves DEF LeafList
<1>7. Moved(stmt, u) /\ (node' = "none" => depth < MaxDepth)
  BY <1>3, <1>4, <1>5, <1>6
<1>8. QED
  BY <1>1, <1>7 DEF u
LEMMA ExactAlone ==
  ASSUME NEW x, x.class \in {"int", "decimal", "string"}, x.min \in Limit, x.max \in Limit
  PROVE  Exact(<<x>>)
<1> DEFINE a == <<x>>
<1>1. a[1] = x /\ DOMAIN a = {1}
  BY AloneIs
<1>2. ~Keyword(x.min) /\ ~Keyword(x.max)
  BY LimitIs
<1> HIDE DEF a
<1>3. ~WordAsLimit(a) /\ ~Overshoots(a)
  BY <1>1, <1>2 DEF WordAsLimit, Overshoots
<1>4. QED
  BY <1>3 DEF Exact, a

\* A step of a chain of numbers; a is the layers after fraction-digits.
LEMMA NumberNext ==
  ASSUME DepthBounded, builtin \in NumberTypes,
         NEW a, Chain(a), Exact(a) => Tight(a, Top(a), lang), Exact(type.spec) => Exact(a),
         builtin = "string" <=> a[1].class = "string",
         Last(SkipPattern(type.spec)) = Top(a)
           \/ "parts" \notin {Last(SkipPattern(type.spec)).class, Top(a).class},
         NEW stmt, stmt.range \in Seq(RangePart), stmt.length \in Seq(RangePart),
         NEW u, NumberCome(u, a, stmt), Moved(stmt, u)
  PROVE  (Sound' => Decided') /\ RestrictionsNarrow' /\ FittingAccepted'
<1>1. /\ type'.spec = u.spec /\ (Sound' => u.errs = {} /\ ~u.raised)
      /\ lang' = Left(stmt, lang)
      /\ last'.stmt = stmt /\ last'.spec = type.spec /\ last'.lang = lang
      /\ last'.errs = u.errs \cup {e \in {"raised"} : u.raised}
      /\ depth' = depth + 1 /\ builtin' = builtin
  BY DEF Moved
<1>2. Chain(u.spec) /\ u.spec[1] = a[1]
  BY DEF NumberCome
<1>3. ASSUME Sound'
      PROVE  /\ Exact(a) => /\ \A v \in Int : NumberValid(u.spec, v) <=> v \in Left(stmt, lang)
                            /\ \A v \in Asked(Numbers(stmt), lang) : v <= Max(lang) => v \in lang
             /\ Exact(u.spec) => Tight(u.spec, Top(u.spec), Left(stmt, lang))
  BY <1>1, <1>3, NumberMove
<1>4. Sound' => Decided'
  <2>1. Of' # "decimal64"
    <3>1. depth' # 0
      BY <1>1 DEF DepthBounded
    <3>2. QED
      BY <3>1 DEF Of
  <2>2. SUFFICES ASSUME Sound' PROVE Decided'
    OBVIOUS
  <2>3. Chain(type'.spec) /\ (builtin' = "string" <=> type'.spec[1].class = "string")
    BY <1>1, <1>2
  <2>4. Exact(type'.spec) => Tight(type'.spec, Top(type'.spec), lang')
    BY <1>1, <1>3, <2>2
  <2>5. builtin' \in NumberTypes
    BY <1>1
  <2>6. QED
    BY <2>1, <2>3, <2>4, <2>5 DEF Decided
<1>5. RestrictionsNarrow'
  <2>1. SUFFICES ASSUME Sound', Exact(type.spec)
                 PROVE  /\ {v \in Wide : NumberValid(u.spec, v)} = Left(stmt, lang)
                        /\ \A v \in Asked(Numbers(stmt), lang) : v <= Max(lang) => v \in lang
    BY <1>1 DEF RestrictionsNarrow
  <2>2. /\ \A v \in Int : NumberValid(u.spec, v) <=> v \in Left(stmt, lang)
        /\ \A v \in Asked(Numbers(stmt), lang) : v <= Max(lang) => v \in lang
    BY <1>3, <2>1
  <2>3. Left(stmt, lang) \subseteq lang /\ lang \subseteq Wide
    BY <2>1 DEF Left, Tight, Outline
  <2>4. QED
    BY <2>2, <2>3, WideIsInt
<1>6. FittingAccepted'
  <2>1. SUFFICES ASSUME Exact(type.spec), builtin = "string" <=> stmt.range = <<>>,
                        Numbers(stmt) # <<>>,
                        Fits(Numbers(stmt), SkipPattern(type.spec), lang)
                 PROVE  last'.errs \cap {"TYPE_VALUE", "BOUNDS", "raised"} = {}
    BY <1>1 DEF FittingAccepted
  <2>2. Numbers(stmt) = Own(a, stmt)
    BY <2>1 DEF Numbers, Own
  <2>3. Mild(u.errs) /\ ~u.raised
    BY <2>1, <2>2, NumberFits
  <2>4. QED
    BY <1>1, <2>3 DEF Mild, Hard
<1>7. QED
  BY <1>4, <1>5, <1>6

\* A step of other layers: the properties are not about them.
LEMMA OtherNext ==
  ASSUME DepthBounded, NEW stmt, NEW u, OtherSpec(u.spec), Moved(stmt, u)
  PROVE  Elsewhere' /\ RestrictionsNarrow' /\ FittingAccepted'
<1>1. type'.spec = u.spec /\ depth' # 0
  BY DEF Moved, DepthBounded
<1>2. Of' # "decimal64"
  BY <1>1 DEF Of
<1>3. OtherSpec(type'.spec)
  BY <1>1
<1>4. ~Numeric'
  BY <1>3 DEF Numeric, OtherSpec, OtherClasses
<1>5. QED
  BY <1>2, <1>3, <1>4 DEF Elsewhere, RestrictionsNarrow, FittingAccepted

LEMMA StatementKnown ==
  ASSUME DepthBounded, node = "none", NEW stmt \in Statements[builtin][depth + 1]
  PROVE  /\ stmt.range \in Seq(RangePart) /\ stmt.length \in Seq(RangePart) /\ IsStatement(stmt)
         /\ \A i \in DOMAIN stmt.members : stmt.members[i].of \in TypeNames \cup {"leafref"}
                                           /\ IsStatement(stmt.members[i].stmt)
<1>1. builtin \in BuiltIns /\ depth + 1 \in 1 .. MaxDepth + 1
  BY LimitsAssumption DEF DepthBounded
<1>2. QED
  BY <1>1, StatementsAssumption

LEMMA DecidedComes ==
  ASSUME Decided, NEW stmt
  PROVE  NumberCome(v_type_type(type.spec, stmt, Of), type.spec, stmt)
<1> DEFINE a == type.spec
           u == v_type_type(a, stmt, Of)
<1>1. Of \notin ItemTypes /\ Of # "decimal64"
  BY DEF Decided, Of, NumberTypes, ItemTypes
<1>2. PICK codes : Mild(codes) /\ CheckFraction(St(a, {}, No), stmt, Of) = St(a, {} \cup codes, No)
  <2> DEFINE t == CheckFraction(St(a, {}, No), stmt, Of)
  <2>1. Noted(t, a, {}, No)
    BY <1>1, FractionNotes
  <2> HIDE DEF t, u, a
  <2>2. \E codes : Mild(codes) /\ t = St(a, {} \cup codes, No)
    BY <2>1 DEF Noted
  <2>3. QED
    BY <2>2 DEF t
<1>3. Mild({} \cup codes)
  BY <1>2 DEF Mild
<1>4. u = AfterFraction(St(a, {} \cup codes, No), stmt, Of, Members(stmt))
  BY <1>2, StatementIs
<1>5. Chain(a)
  BY DEF Decided
<1>6. QED
  BY <1>1, <1>3, <1>4, <1>5, NumberStatement

LEMMA DecidedNext ==
  ASSUME DepthBounded, Decided, NEW stmt, stmt.range \in Seq(RangePart), stmt.length \in Seq(RangePart),
         Moved(stmt, v_type_type(type.spec, stmt, Of))
  PROVE  (Sound' => Decided') /\ RestrictionsNarrow' /\ FittingAccepted'
<1> DEFINE a == type.spec
           u == v_type_type(a, stmt, Of)
<1>1. NumberCome(u, a, stmt) /\ Moved(stmt, u)
  BY DecidedComes
<1>2. Last(SkipPattern(type.spec)) = Top(a)
  BY DEF Top
<1>3. /\ builtin \in NumberTypes /\ Chain(a) /\ (Exact(a) => Tight(a, Top(a), lang))
      /\ (builtin = "string" <=> a[1].class = "string")
  BY DEF Decided
<1> HIDE DEF u
<1>4. QED
  BY <1>1, <1>2, <1>3, NumberNext

LEMMA UndecidedNext ==
  ASSUME DepthBounded, Undecided, NEW stmt, stmt.range \in Seq(RangePart), stmt.length \in Seq(RangePart),
         Moved(stmt, v_type_type(type.spec, stmt, Of))
  PROVE  (Sound' => Decided' \/ Elsewhere') /\ RestrictionsNarrow' /\ FittingAccepted'
<1> DEFINE a == <<DecimalSpec(stmt.fd)>>
           u == v_type_type(type.spec, stmt, Of)
           e == {} \cup {"MISSING_TYPE_SPEC"}
<1>1. Of = "decimal64" /\ type.spec = <<Layer("decimal64")>> /\ lang = IntMin .. IntMax
  BY DEF Undecided, Of
<1>2. u = AfterFraction(CheckFraction(St(type.spec, {}, No), stmt, "decimal64"), stmt, "decimal64", Members(stmt))
  BY <1>1, StatementIs
<1>3. Layer("decimal64").class = "decimal64"
  BY BuiltInSpecs
<1>4. Moved(stmt, u)
  OBVIOUS
<1> HIDE DEF u
<1>5. CASE stmt.fd = 0
  <2>1. u = AfterFraction(St(type.spec, e, No), stmt, "decimal64", Members(stmt))
    <3>1. CheckFraction(St(type.spec, {}, No), stmt, "decimal64") = St(type.spec, e, No)
      BY <1>5, NoFraction
    <3> HIDE DEF e, a
    <3>2. QED
      BY <1>2, <3>1
  <2>2. OtherSpec(type.spec)
    BY <1>1, <1>3, OtherAlone DEF OtherClasses
  <2> HIDE DEF e
  <2>3. OtherState(St(type.spec, e, No))
    BY <2>2 DEF OtherState
  <2>4. OtherSpec(u.spec)
    BY <2>1, <2>3, OtherStatement
  <2>5. QED
    BY <1>4, <2>4, OtherNext
<1>6. CASE stmt.fd # 0
  <2>1. u = AfterFraction(St(a, {}, No), stmt, "decimal64", Members(stmt))
    <3>1. CheckFraction(St(type.spec, {}, No), stmt, "decimal64") = St(a, {}, No)
      BY <1>6, OwnFraction
    <3> HIDE DEF e, a
    <3>2. QED
      BY <1>2, <3>1
  <2>2. /\ DecimalSpec(stmt.fd).class = "decimal"
        /\ DecimalSpec(stmt.fd).min \in Limit /\ DecimalSpec(stmt.fd).max \in Limit
    BY BuiltInSpecs, LimitsAre
  <2>3. Chain(a) /\ Tight(a, Top(a), lang)
    BY <1>1, DecimalStart
  <2>4. Exact(a) /\ Top(a) = DecimalSpec(stmt.fd) /\ a[1] = DecimalSpec(stmt.fd)
    BY <2>2, ExactAlone, AloneIs
  <2> HIDE DEF a
  <2>5. NumberCome(u, a, stmt)
    <3>1. Mild({}) /\ "decimal64" \notin ItemTypes
      BY DEF Mild, ItemTypes
    <3>2. QED
      BY <2>1, <2>3, <3>1, NumberStatement
  <2>6. "parts" \notin {Last(SkipPattern(type.spec)).class, Top(a).class}
    <3>1. Top(<<Layer("decimal64")>>) = Layer("decimal64")
      BY <1>3, AloneIs
    <3>2. Last(SkipPattern(type.spec)).class = "decimal64"
      BY <1>1, <1>3, <3>1 DEF Top
    <3>3. QED
      BY <2>2, <2>4, <3>2
  <2>7. builtin \in NumberTypes /\ (builtin = "string" <=> a[1].class = "string")
    BY <2>2, <2>4 DEF Undecided, NumberTypes
  <2>8. QED
    BY <1>4, <2>3, <2>4, <2>5, <2>6, <2>7, NumberNext
<1>7. QED
  BY <1>5, <1>6

LEMMA ElsewhereNext ==
  ASSUME DepthBounded, Elsewhere, NEW stmt, Moved(stmt, v_type_type(type.spec, stmt, Of))
  PROVE  Elsewhere' /\ RestrictionsNarrow' /\ FittingAccepted'
<1> DEFINE a == type.spec
           u == v_type_type(a, stmt, Of)
<1>1. Of # "decimal64" /\ OtherSpec(a)
  BY DEF Elsewhere
<1>2. PICK codes : CheckFraction(St(a, {}, No), stmt, Of) = St(a, {} \cup codes, No)
  BY <1>1, FractionNotes DEF Noted
<1>3. u = AfterFraction(St(a, {} \cup codes, No), stmt, Of, Members(stmt))
  BY <1>2, StatementIs
<1>4. OtherState(St(a, {} \cup codes, No))
  BY <1>1 DEF OtherState
<1>5. OtherSpec(u.spec)
  BY <1>3, <1>4, OtherStatement
<1>6. QED
  BY <1>5, OtherNext

LEMMA NextLayers ==
  ASSUME IInv, Next
  PROVE  IInv' /\ RestrictionsNarrow' /\ FittingAccepted'
<1>1. PICK stmt \in Statements[builtin][depth + 1] :
        /\ Moved(stmt, v_type_type(type.spec, stmt, Of))
        /\ node = "none" /\ Sound
        /\ node' = "none" => depth < MaxDepth
  BY NextMoves
<1>2. DepthBounded
  BY DEF IInv
<1>3. stmt.range \in Seq(RangePart) /\ stmt.length \in Seq(RangePart)
  BY <1>1, <1>2, StatementKnown
<1>4. DepthBounded'
  <2>1. builtin' = builtin /\ depth' = depth + 1
    BY <1>1 DEF Moved
  <2>2. QED
    BY <1>1, <1>2, <2>1, LimitsAssumption DEF DepthBounded
<1>5. CASE Decided
  <2>1. (Sound' => Decided') /\ RestrictionsNarrow' /\ FittingAccepted'
    BY <1>1, <1>2, <1>3, <1>5, DecidedNext
  <2>2. QED
    BY <1>4, <2>1 DEF IInv, LayersKnown
<1>6. CASE Undecided
  <2>1. (Sound' => Decided' \/ Elsewhere') /\ RestrictionsNarrow' /\ FittingAccepted'
    BY <1>1, <1>2, <1>3, <1>6, UndecidedNext
  <2>2. QED
    BY <1>4, <2>1 DEF IInv, LayersKnown
<1>7. CASE Elsewhere
  <2>1. Elsewhere' /\ RestrictionsNarrow' /\ FittingAccepted'
    BY <1>1, <1>2, <1>7, ElsewhereNext
  <2>2. QED
    BY <1>4, <2>1 DEF IInv, LayersKnown
<1>8. QED
  BY <1>1, <1>5, <1>6, <1>7 DEF IInv, LayersKnown

LEMMA InitHolds ==
  ASSUME Init
  PROVE  RestrictionsNarrow /\ FittingAccepted
<1>1. /\ last.stmt = NoStmt /\ last.spec = type.spec /\ last.lang = lang
      /\ depth = 0 /\ Sound
  BY DEF Init, Sound
<1>2. Numbers(last.stmt) = <<>>
  BY <1>1 DEF Numbers, NoStmt
<1>3. Asked(<<>>, last.lang) = {}
  BY DEF Asked
<1>4. FittingAccepted
  BY <1>2 DEF FittingAccepted
<1>5. IInv
  BY InitLayers
<1>6. ASSUME Numeric, Exact(last.spec)
      PROVE  {v \in Wide : NumberValid(type.spec, v)} = lang
  <2>1. CASE Undecided
    <3>1. type.spec[1].class = "decimal64"
      BY <2>1, BuiltInSpecs, AloneIs DEF Undecided
    <3>2. QED
      BY <1>6, <3>1 DEF Numeric
  <2>2. CASE Decided
    <3>1. Tight(type.spec, Top(type.spec), lang)
      BY <1>1, <1>6, <2>2 DEF Decided
    <3>2. QED
      BY <3>1, WideIsInt DEF Tight, Outline
  <2>3. CASE Elsewhere
    BY <1>6, <2>3 DEF Elsewhere, OtherSpec, OtherClasses, Numeric
  <2>4. QED
    BY <1>1, <1>5, <2>1, <2>2, <2>3 DEF IInv, LayersKnown
<1>7. RestrictionsNarrow
  BY <1>2, <1>3, <1>6 DEF RestrictionsNarrow
<1>8. QED
  BY <1>4, <1>7

\* The invariant: as long as there is no error, the last restriction of an
\* exact chain alone, between its own limits, is what all the statements of
\* the chain ask for; that is why checking the next one against it is enough.
THEOREM LayersTight == Spec => []IInv
<1>1. Init => IInv
  BY InitLayers
<1>2. IInv /\ [Next]_vars => IInv'
  <2>1. ASSUME IInv, UNCHANGED vars PROVE IInv'
    BY <2>1 DEF vars, IInv, DepthBounded, LayersKnown, Sound, Undecided, Decided, Elsewhere, Of
  <2>2. QED
    BY <2>1, NextLayers
<1>3. QED
  BY <1>1, <1>2, PTL DEF Spec

\* A chain of ranges or lengths without an error takes exactly the numbers
\* that all its statements ask for, for every chain, limits and statements.
THEOREM SoundRestrictionsNarrow == Spec => []RestrictionsNarrow
<1>1. Init => RestrictionsNarrow
  BY InitHolds
<1>2. IInv /\ RestrictionsNarrow /\ [Next]_vars => RestrictionsNarrow'
  <2>1. ASSUME RestrictionsNarrow, UNCHANGED vars PROVE RestrictionsNarrow'
    BY <2>1 DEF vars, RestrictionsNarrow, Sound, Numeric
  <2>2. QED
    BY <2>1, NextLayers
<1>3. QED
  BY <1>1, <1>2, LayersTight, PTL DEF Spec

\* A restriction in ascending parts, each within one part of the base, is
\* taken without an error, whatever came before it.
THEOREM FittingRestrictionsAccepted == Spec => []FittingAccepted
<1>1. Init => FittingAccepted
  BY InitHolds
<1>2. IInv /\ FittingAccepted /\ [Next]_vars => FittingAccepted'
  <2>1. ASSUME FittingAccepted, UNCHANGED vars PROVE FittingAccepted'
    BY <2>1 DEF vars, FittingAccepted, Numeric
  <2>2. QED
    BY <2>1, NextLayers
<1>3. QED
  BY <1>1, <1>2, LayersTight, PTL DEF Spec

----------------------------------------------------------------------------
(* Loose chains: what is still true of a chain with a part beyond the      *)
(* limit of its base.  Nothing is taken that was not asked for.            *)

LEMMA EndsExist ==
  ASSUME NEW lo \in Int, NEW hi \in Int, NEW L \in SUBSET Int, L # {},
         \A v \in L : lo <= v /\ v <= hi
  PROVE  /\ Min(L) \in L /\ \A v \in L : Min(L) <= v
         /\ Max(L) \in L /\ \A v \in L : v <= Max(L)
<1> DEFINE Up == {v - lo : v \in L}
           Down == {hi - v : v \in L}
<1>1. Up \in SUBSET Nat /\ Up # {} /\ Down \in SUBSET Nat /\ Down # {}
  <2>1. \A v \in L : v - lo \in Nat /\ hi - v \in Nat
    OBVIOUS
  <2>2. QED
    BY <2>1
<1>2. PICK u \in Up : \A x \in Up : u <= x
  BY <1>1, Least
<1>3. PICK d \in Down : \A x \in Down : d <= x
  BY <1>1, Least
<1>4. PICK a \in L : u = a - lo
  OBVIOUS
<1>5. PICK b \in L : d = hi - b
  OBVIOUS
<1>6. \A v \in L : v - lo \in Up /\ hi - v \in Down
  OBVIOUS
<1> HIDE DEF Up, Down
<1>7. ASSUME NEW v \in L
      PROVE  a <= v /\ b >= v
  <2>1. a - lo <= v - lo /\ hi - b <= hi - v
    BY <1>2, <1>3, <1>4, <1>5, <1>6
  <2>2. QED
    BY <2>1
<1>8. Min(L) \in L /\ \A v \in L : Min(L) <= v
  BY <1>7 DEF Min
<1>9. Max(L) \in L /\ \A v \in L : Max(L) >= v
  BY <1>7 DEF Max
<1>10. QED
  BY <1>8, <1>9

Around(top, L) ==
  /\ L \subseteq Int
  /\ top.min \in Int /\ top.max \in Int
  /\ \A w \in L : top.min <= w /\ w <= top.max

Loose(spec, top, L) ==
  /\ Around(top, L)
  /\ \A v \in Int : NumberValid(spec, v) => v \in L

LEMMA TightIsLoose ==
  ASSUME NEW spec, NEW top, NEW L, Tight(spec, top, L)
  PROVE  Loose(spec, top, L)
  BY WideIsInt DEF Tight, Outline, Loose, Around, Limit

\* A low end that is accepted and a number is a value of the base.
LEMMA LowIsTaken ==
  ASSUME NEW spec, NEW p \in RangePart, InBase(spec, p), ~Keyword(p[1])
  PROVE  NumberValid(spec, p[1])
<1>1. p[1] # MinWord /\ p[1] # MaxWord /\ p[1] # None
  BY PartIs, Words DEF Keyword
<1>2. CASE Last(spec).class = "parts"
  <2>1. ~Against(spec, p[1], p[2]).err
    BY <1>2 DEF InBase
  <2>2. SUFFICES ASSUME ~NumberValid(spec, p[1]) PROVE FALSE
    OBVIOUS
  <2>3. Against(spec, p[1], p[2]).err
    BY <1>1, <2>2 DEF Against, Keyword
  <2>4. QED
    BY <2>1, <2>3
<1>3. CASE Last(spec).class # "parts"
  BY <1>1, <1>3 DEF InBase, OutOf
<1>4. QED
  BY <1>2, <1>3

\* A restriction of a loose chain that is accepted takes only what its parts
\* ask for of what was asked for before, and its limits are around that.
LEMMA LooseParts ==
  ASSUME NEW spec, NEW top, top = Last(spec), NEW L, Loose(spec, top, L),
         ~Keyword(top.min), ~Keyword(top.max),
         NEW parts \in Seq(RangePart), parts # <<>>, Good(validate_ranges(spec, parts)),
         NEW N, N = PartsSpec(spec, parts)
  PROVE  /\ \A v \in L : Parts(N, v) # {} => v \in Asked(parts, L)
         /\ ~Keyword(N.min) /\ ~Keyword(N.max) => Around(N, L \cap Asked(parts, L))
<1> DEFINE n == Len(parts)
           lo(k) == Meant(L, parts[k][1])
           hi(k) == Meant(L, Upper(parts[k]))
<1>1. n \in Nat /\ n >= 1 /\ DOMAIN parts = 1 .. n /\ \A k \in 1 .. n : parts[k] \in RangePart
  OBVIOUS
<1>2. Last(parts) = parts[n] /\ 1 \in 1 .. n /\ n \in 1 .. n
  BY <1>1 DEF Last
<1>3. \A k \in 1 .. n : Accepts(spec, Before(parts, k), parts[k])
  BY GoodMeansAccepted
<1>4. Ordered(parts)
  BY <1>3, AcceptedOrdered
<1> HIDE DEF n
<1>5. ASSUME NEW k \in 1 .. n
      PROVE  /\ parts[k][1] \in End /\ Upper(parts[k]) \in End
             /\ parts[k][1] <= Upper(parts[k])
             /\ parts[k][2] # None => parts[k][1] < parts[k][2] /\ Upper(parts[k]) = parts[k][2]
             /\ parts[k][2] = None => Upper(parts[k]) = parts[k][1]
             /\ \A j \in 1 .. n : j < k => Upper(parts[j]) < parts[k][1]
  BY <1>1, <1>4, PartIs, PartGrows DEF Ordered
<1>6. ASSUME NEW k \in 1 .. n
      PROVE  /\ parts[k][1] = MinWord => k = 1
             /\ Upper(parts[k]) = MaxWord => k = n
             /\ parts[k][1] = MaxWord => Upper(parts[k]) = MaxWord
  <2>1. k # 1 => MinWord < parts[k][1]
    <3>1. k # 1 => Upper(parts[1]) < parts[k][1]
      BY <1>1, <1>2, <1>5
    <3>2. QED
      BY <1>2, <1>5, <3>1, Words
  <2>2. k # n => Upper(parts[k]) < MaxWord
    <3>1. k # n => Upper(parts[k]) < parts[n][1]
      BY <1>1, <1>2, <1>5
    <3>2. QED
      BY <1>2, <1>5, <3>1, Words
  <2>3. QED
    BY <1>5, <2>1, <2>2, Words
<1>7. /\ N.class = "parts" /\ N.parts = parts
      /\ N.min = (IF parts[1][1] = MinWord THEN top.min ELSE parts[1][1])
      /\ N.max = (IF Upper(parts[n]) = MaxWord THEN top.max ELSE Upper(parts[n]))
  BY <1>2, PartsSpecIs
<1>8. L \in SUBSET Int /\ top.min \in Int /\ top.max \in Int
      /\ \A w \in L : top.min <= w /\ w <= top.max
  BY DEF Loose, Around
<1>9. CASE L = {}
  <2>1. Parts(N, 0) = Parts(N, 0) /\ L \cap Asked(parts, L) = {}
    BY <1>9
  <2>2. ~Keyword(N.min) /\ ~Keyword(N.max) => N.min \in Int /\ N.max \in Int
    BY <1>2, <1>5, <1>7, <1>8, Words
  <2>3. QED
    BY <1>9, <2>1, <2>2 DEF Around
<1>10. CASE L # {}
  <2>1. /\ Min(L) \in L /\ \A v \in L : Min(L) <= v
        /\ Max(L) \in L /\ \A v \in L : v <= Max(L)
    BY <1>8, <1>10, EndsExist
  <2> DEFINE least == Min(L)
             most == Max(L)
  <2>2. least \in Int /\ most \in Int
    BY <1>8, <2>1
  <2> HIDE DEF least, most
  <2>3. ASSUME NEW k \in 1 .. n
        PROVE  /\ parts[k][1] = MinWord => lo(k) = least
               /\ parts[k][1] = MaxWord => lo(k) = most
               /\ ~Keyword(parts[k][1]) => lo(k) = parts[k][1]
               /\ Upper(parts[k]) = MinWord => hi(k) = least
               /\ Upper(parts[k]) = MaxWord => hi(k) = most
               /\ ~Keyword(Upper(parts[k])) => hi(k) = Upper(parts[k])
               /\ lo(k) \in Int /\ hi(k) \in Int
    <3>1. MinWord # MaxWord
      BY LimitsAssumption
    <3>2. parts[k][1] \in Int /\ Upper(parts[k]) \in Int
      BY <1>5, Words
    <3>3. QED
      BY <2>2, <3>1, <3>2 DEF Meant, Keyword, least, most
  <2>4. ASSUME NEW k \in 1 .. n, NEW v
        PROVE  v \in Piece(L, parts[k]) <=> v \in Int /\ lo(k) <= v /\ v <= hi(k)
    BY <2>3 DEF Piece
  <2>5. \A v : v \in Asked(parts, L) <=> \E k \in 1 .. n : v \in Piece(L, parts[k])
    BY <1>1, <1>10 DEF Asked
  <2>6. ASSUME NEW k \in 1 .. n, ~Keyword(parts[k][1])
        PROVE  parts[k][1] \in L
    <3>1. InBase(spec, parts[k])
      BY <1>3 DEF Accepts
    <3>2. NumberValid(spec, parts[k][1])
      BY <1>1, <2>6, <3>1, LowIsTaken
    <3>3. parts[k][1] \in Int
      BY <1>5, Words
    <3>4. QED
      BY <3>2, <3>3 DEF Loose
  <2>7. ASSUME NEW v \in L, Parts(N, v) # {}
        PROVE  v \in Asked(parts, L)
    <3>1. PICK k \in 1 .. n : InPart(N, parts[k], v)
      BY <1>1, <1>7, <2>7 DEF Parts
    <3>2. v \in Int /\ least <= v /\ v <= most /\ top.min <= v /\ v <= top.max
          /\ top.min <= least /\ most <= top.max
      BY <1>8, <2>1 DEF least, most
    <3>3. lo(k) <= v /\ v <= hi(k)
      <4>1. CASE parts[k][2] = None
        <5>1. v = Resolved(N, parts[k][1]) /\ Upper(parts[k]) = parts[k][1] /\ None # MaxWord
          BY <1>5, <3>1, <4>1, Words DEF InPart
        <5>2. CASE parts[k][1] = MinWord
          <6>1. v = top.min
            BY <1>6, <1>7, <5>1, <5>2 DEF Resolved
          <6>2. lo(k) = least /\ hi(k) = least
            BY <2>3, <5>1, <5>2
          <6>3. QED
            BY <1>8, <2>2, <3>2, <6>1, <6>2
        <5>3. CASE parts[k][1] = MaxWord
          <6>1. v = top.max
            <7>1. MinWord # MaxWord
              BY LimitsAssumption
            <7>2. QED
              BY <1>6, <1>7, <5>1, <5>3, <7>1 DEF Resolved
          <6>2. lo(k) = most /\ hi(k) = most
            BY <2>3, <5>1, <5>3
          <6>3. QED
            BY <1>8, <2>2, <3>2, <6>1, <6>2
        <5>4. CASE ~Keyword(parts[k][1])
          <6>1. v = parts[k][1]
            BY <5>1, <5>4 DEF Resolved, Keyword
          <6>2. lo(k) = parts[k][1] /\ hi(k) = parts[k][1]
            BY <2>3, <5>1, <5>4
          <6>3. QED
            BY <3>2, <6>1, <6>2
        <5>5. QED
          BY <5>2, <5>3, <5>4 DEF Keyword
      <4>2. CASE parts[k][2] # None
        <5>1. Upper(parts[k]) = parts[k][2] /\ parts[k][1] < parts[k][2]
              /\ parts[k][1] \in End /\ parts[k][2] \in End
          BY <1>5, <4>2
        <5>2. parts[k][1] # MaxWord /\ parts[k][2] # MinWord
          BY <5>1, Words
        <5>3. lo(k) <= v
          <6>1. CASE Keyword(parts[k][1])
            BY <2>3, <3>2, <5>2, <6>1 DEF Keyword
          <6>2. CASE ~Keyword(parts[k][1])
            BY <2>3, <3>1, <5>1, <6>2, Words, <3>2 DEF InPart
          <6>3. QED
            BY <6>1, <6>2
        <5>4. v <= hi(k)
          <6>1. CASE Keyword(parts[k][2])
            BY <2>3, <3>2, <5>1, <5>2, <6>1 DEF Keyword
          <6>2. CASE ~Keyword(parts[k][2])
            BY <2>3, <3>1, <4>2, <5>1, <6>2 DEF InPart, Keyword
          <6>3. QED
            BY <6>1, <6>2
        <5>5. QED
          BY <5>3, <5>4
      <4>3. QED
        BY <4>1, <4>2
    <3>4. v \in Piece(L, parts[k])
      BY <2>4, <3>2, <3>3
    <3>5. QED
      BY <2>5, <3>4
  <2>8. ASSUME ~Keyword(N.min), ~Keyword(N.max)
        PROVE  Around(N, L \cap Asked(parts, L))
    <3>1. N.min \in Int /\ N.max \in Int
      BY <1>2, <1>5, <1>7, <1>8, Words
    <3>2. ASSUME NEW w \in L, w \in Asked(parts, L)
          PROVE  N.min <= w /\ w <= N.max
      <4>1. PICK k \in 1 .. n : w \in Int /\ lo(k) <= w /\ w <= hi(k)
        BY <2>4, <2>5, <3>2
      <4>2. top.min <= w /\ w <= top.max /\ least <= w /\ w <= most
        BY <1>8, <2>1 DEF least, most
      <4> DEFINE first == parts[1][1]
                 high == Upper(parts[n])
      <4>3. first \in Int /\ high \in Int /\ first \in End /\ high \in End
        BY <1>2, <1>5, Words
      <4>4. N.min <= w
        <5>1. CASE first = MinWord
          BY <1>7, <4>2, <5>1
        <5>2. CASE first = MaxWord
          <6>1. MinWord # MaxWord
            BY LimitsAssumption
          <6>2. Keyword(N.min)
            BY <1>7, <5>2, <6>1 DEF Keyword
          <6>3. QED
            BY <2>8, <6>2
        <5>3. CASE ~Keyword(first)
          <6>1. N.min = first /\ first \in L
            BY <1>2, <1>7, <2>6, <5>3 DEF Keyword
          <6>2. first <= lo(k)
            <7>1. CASE k = 1
              BY <2>3, <4>3, <5>3, <7>1
            <7>2. CASE k # 1
              <8>1. first <= Upper(parts[1]) /\ Upper(parts[1]) < parts[k][1]
                    /\ Upper(parts[1]) \in Int /\ parts[k][1] \in Int
                BY <1>1, <1>2, <1>5, <7>2, Words
              <8>2. first <= parts[k][1] /\ parts[k][1] # MinWord
                BY <1>6, <4>3, <7>2, <8>1
              <8>3. CASE parts[k][1] = MaxWord
                <9>1. first <= most
                  BY <2>1, <6>1 DEF most
                <9>2. QED
                  BY <2>3, <8>3, <9>1
              <8>4. CASE parts[k][1] # MaxWord
                BY <2>3, <8>2, <8>4 DEF Keyword
              <8>5. QED
                BY <8>3, <8>4
            <7>3. QED
              BY <7>1, <7>2
          <6>3. lo(k) \in Int
            BY <2>3
          <6> HIDE DEF first
          <6>4. QED
            BY <4>1, <4>3, <6>1, <6>2, <6>3
        <5>4. QED
          BY <5>1, <5>2, <5>3 DEF Keyword
      <4>5. w <= N.max
        <5>1. CASE high = MaxWord
          BY <1>7, <4>2, <5>1
        <5>2. CASE high = MinWord
          <6>1. MinWord # MaxWord
            BY LimitsAssumption
          <6>2. Keyword(N.max)
            BY <1>7, <5>2, <6>1 DEF Keyword
          <6>3. QED
            BY <2>8, <6>2
        <5>3. CASE ~Keyword(high)
          <6>1. N.max = high
            BY <1>2, <1>7, <5>3 DEF Keyword
          <6>2. hi(k) <= high
            <7>1. CASE k = n
              BY <2>3, <4>3, <5>3, <7>1
            <7>2. CASE k # n
              <8>1. Upper(parts[k]) < parts[n][1] /\ parts[n][1] <= high
                    /\ Upper(parts[k]) \in Int /\ parts[n][1] \in Int
                BY <1>1, <1>2, <1>5, <7>2, Words
              <8>2. Upper(parts[k]) <= high /\ Upper(parts[k]) # MaxWord
                BY <1>6, <4>3, <7>2, <8>1
              <8>3. CASE Upper(parts[k]) = MinWord
                <9>1. parts[n][1] # MinWord /\ parts[n][1] # MaxWord
                  BY <1>1, <1>2, <1>5, <1>6, <5>3, <7>2 DEF Keyword
                <9>2. parts[n][1] \in L
                  BY <1>2, <2>6, <9>1 DEF Keyword
                <9>3. least <= parts[n][1]
                  BY <2>1, <9>2 DEF least
                <9>4. hi(k) = least
                  BY <2>3, <8>3
                <9>5. QED
                  BY <2>2, <4>3, <8>1, <9>3, <9>4
              <8>4. CASE Upper(parts[k]) # MinWord
                BY <2>3, <8>2, <8>4 DEF Keyword
              <8>5. QED
                BY <8>3, <8>4
            <7>3. QED
              BY <7>1, <7>2
          <6>3. hi(k) \in Int
            BY <2>3
          <6> HIDE DEF high
          <6>4. QED
            BY <4>1, <4>3, <6>1, <6>2, <6>3
        <5>4. QED
          BY <5>1, <5>2, <5>3 DEF Keyword
      <4>6. QED
        BY <4>4, <4>5
    <3>3. QED
      BY <1>8, <3>1, <3>2 DEF Around
  <2>9. QED
    BY <2>7, <2>8
<1>11. QED
  BY <1>9, <1>10

LEMMA WordAppend ==
  ASSUME NEW spec, IsSeq(spec), NEW x, ~WordAsLimit(Append(spec, x))
  PROVE  ~WordAsLimit(spec) /\ ~Keyword(x.min) /\ ~Keyword(x.max)
<1> DEFINE t == Append(spec, x)
           n == Len(spec)
<1>1. /\ n \in Nat /\ DOMAIN spec = 1 .. n /\ DOMAIN t = 1 .. n + 1
      /\ \A i \in 1 .. n : t[i] = spec[i]
      /\ t[n + 1] = x
  BY AppendIs
<1> HIDE DEF t, n
<1>2. n + 1 \in DOMAIN t /\ \A i \in DOMAIN spec : i \in DOMAIN t /\ t[i] = spec[i]
  BY <1>1
<1>3. ~WordAsLimit(t)
  BY DEF t
<1>4. QED
  BY <1>1, <1>2, <1>3 DEF WordAsLimit

LEMMA TopLimits ==
  ASSUME NEW a, Chain(a), ~WordAsLimit(a)
  PROVE  ~Keyword(Top(a).min) /\ ~Keyword(Top(a).max)
<1>1. PICK m : Skips(a, m)
  BY ChainSkips
<1>2. Top(a) = a[m] /\ m \in DOMAIN a
  BY <1>1, SkipIs, AppendIs DEF Chain, Skips
<1>3. QED
  BY <1>2 DEF WordAsLimit

LEMMA LooseChain ==
  ASSUME NEW spec, Chain(spec), ~WordAsLimit(spec), NEW L, Loose(spec, Top(spec), L),
         NEW parts \in Seq(RangePart), parts # <<>>,
         Good(validate_ranges(SkipPattern(spec), parts)),
         NEW N, N = PartsSpec(SkipPattern(spec), parts)
  PROVE  /\ \A v \in Int : NumberValid(Append(spec, N), v) => v \in L \cap Asked(parts, L)
         /\ ~WordAsLimit(Append(spec, N)) =>
              Loose(Append(spec, N), Top(Append(spec, N)), L \cap Asked(parts, L))
<1> DEFINE sp == SkipPattern(spec)
           A == Asked(parts, L)
           top == Top(spec)
<1>1. PICK m : Skips(spec, m)
  BY ChainSkips
<1>2. IsSeq(spec)
  BY DEF Chain
<1>3. Last(sp) = top
  BY DEF Top
<1>4. Loose(sp, top, L)
  <2>1. \A v \in Int : NumberValid(sp, v) => v \in L
    BY <1>1, <1>2, SkipValid DEF Loose
  <2> HIDE DEF sp
  <2>2. QED
    BY <2>1 DEF Loose
<1>5. ~Keyword(top.min) /\ ~Keyword(top.max)
  BY TopLimits
<1> HIDE DEF sp, top
<1>6. /\ \A v \in L : Parts(N, v) # {} => v \in A
      /\ ~Keyword(N.min) /\ ~Keyword(N.max) => Around(N, L \cap A)
  <2>1. Good(validate_ranges(sp, parts)) /\ N = PartsSpec(sp, parts)
    BY DEF sp
  <2>2. QED
    BY <1>3, <1>4, <1>5, <2>1, LooseParts
<1>7. N.class = "parts"
  BY PartsSpecIs
<1> HIDE DEF A
<1>8. \A v : Takes(N, v) <=> Parts(N, v) # {}
  BY <1>7 DEF Takes
<1>9. ASSUME NEW v \in Int, NumberValid(Append(spec, N), v)
      PROVE  v \in L \cap A
  <2>1. NumberValid(spec, v) /\ Takes(N, v)
    BY <1>2, <1>9, AppendValid
  <2>2. v \in L
    BY <2>1 DEF Loose
  <2>3. QED
    BY <1>6, <1>8, <2>1, <2>2
<1>10. ASSUME ~WordAsLimit(Append(spec, N))
       PROVE  Loose(Append(spec, N), Top(Append(spec, N)), L \cap A)
  <2>1. ~Keyword(N.min) /\ ~Keyword(N.max)
    BY <1>2, <1>10, WordAppend
  <2>2. Around(N, L \cap A)
    BY <1>6, <2>1
  <2>3. Top(Append(spec, N)) = N
    BY <1>7, TopAppend
  <2>4. QED
    BY <1>9, <2>2, <2>3 DEF Loose
<1>11. QED
  BY <1>9, <1>10 DEF A

\* One statement without an error on a loose chain.
LEMMA LooseMove ==
  ASSUME NEW a, Chain(a), NEW L, ~WordAsLimit(a) => Loose(a, Top(a), L),
         NEW stmt, stmt.range \in Seq(RangePart), stmt.length \in Seq(RangePart),
         NEW u, NumberCome(u, a, stmt), u.errs = {}, ~u.raised
  PROVE  /\ ~WordAsLimit(a) => \A v \in Int : NumberValid(u.spec, v) => v \in Left(stmt, L)
         /\ ~WordAsLimit(u.spec) => Loose(u.spec, Top(u.spec), Left(stmt, L))
<1> DEFINE w == Widened(a, stmt)
           M == Left(stmt, L)
           own == Own(a, stmt)
<1>1. Foreign(a, stmt) = <<>> /\ (own # <<>> => Good(Result(a, stmt)))
  BY DEF NumberCome
<1>2. own \in Seq(RangePart) /\ Numbers(stmt) = own
  BY <1>1, NumbersAre DEF Own
<1>3. u.spec = w \/ \E x : x.class = "pattern" /\ u.spec = Append(w, x)
  BY <1>1 DEF NumberCome
<1>4. Chain(w)
  BY WidenedChain
<1>5. /\ ~WordAsLimit(w) => ~WordAsLimit(a)
      /\ ~WordAsLimit(a) => /\ \A v \in Int : NumberValid(w, v) => v \in M
                            /\ ~WordAsLimit(w) => Loose(w, Top(w), M)
  <2>1. CASE own = <<>>
    <3>1. w = a /\ M = L
      BY <1>2, <2>1 DEF Widened, Left
    <3>2. QED
      BY <3>1 DEF Loose
  <2>2. CASE own # <<>>
    <3> DEFINE N == PartsSpec(SkipPattern(a), own)
    <3>1. w = Append(a, N) /\ M = L \cap Asked(own, L)
      BY <1>2, <2>2 DEF Widened, Wider, Left
    <3>2. Good(validate_ranges(SkipPattern(a), own))
      BY <1>1, <2>2 DEF Result
    <3> HIDE DEF own
    <3>3. ~WordAsLimit(a) =>
            /\ \A v \in Int : NumberValid(Append(a, N), v) => v \in L \cap Asked(own, L)
            /\ ~WordAsLimit(Append(a, N)) =>
                 Loose(Append(a, N), Top(Append(a, N)), L \cap Asked(own, L))
      BY <1>2, <2>2, <3>2, LooseChain
    <3>4. ~WordAsLimit(Append(a, N)) => ~WordAsLimit(a)
      BY WordAppend DEF Chain
    <3> HIDE DEF N, w, M
    <3>5. QED
      BY <3>1, <3>3, <3>4
  <2>3. QED
    BY <2>1, <2>2
<1> HIDE DEF w, M
<1>6. CASE u.spec = w
  BY <1>5, <1>6 DEF M
<1>7. ASSUME NEW x, x.class = "pattern", u.spec = Append(w, x)
      PROVE  /\ ~WordAsLimit(a) => \A v \in Int : NumberValid(u.spec, v) => v \in M
             /\ ~WordAsLimit(u.spec) => Loose(u.spec, Top(u.spec), M)
  <2>1. \A v : NumberValid(u.spec, v) <=> NumberValid(w, v)
    <3>1. \A v : Takes(x, v)
      BY <1>7 DEF Takes
    <3>2. QED
      BY <1>4, <1>7, <3>1, AppendValid DEF Chain
  <2>2. ~WordAsLimit(u.spec) => ~WordAsLimit(w)
    BY <1>4, <1>7, WordAppend DEF Chain
  <2>3. Top(u.spec) = Top(w)
    BY <1>4, <1>7, TopAppend
  <2>4. QED
    BY <1>5, <2>1, <2>2, <2>3 DEF Loose
<1>8. QED
  BY <1>3, <1>6, <1>7 DEF M

----------------------------------------------------------------------------
(* Loops with a state in a known set *)

Folds(f, n, start, F) == f = [k \in 0 .. n |-> IF k = 0 THEN start ELSE F[k][f[k - 1]]]

\* A loop whose turns stay in S has a state in S after each turn.
LEMMA Folding ==
  ASSUME NEW n \in Nat, NEW S, NEW start \in S, NEW F,
         \A k \in 1 .. n : \A s \in S : F[k][s] \in S
  PROVE  \E f : Folds(f, n, start, F) /\ \A k \in 0 .. n : f[k] \in S
<1> DEFINE T == {m \in 0 .. n : \E f : Folds(f, m, start, F) /\ \A k \in 0 .. m : f[k] \in S}
<1>1. 0 \in T
  <2> DEFINE f == [k \in 0 .. 0 |-> start]
  <2>1. Folds(f, 0, start, F) /\ \A k \in 0 .. 0 : f[k] \in S
    BY DEF Folds
  <2> HIDE DEF f
  <2>2. QED
    BY <2>1
<1>2. ASSUME NEW m \in 1 .. n, m - 1 \in T
      PROVE  m \in T
  <2>1. PICK g : Folds(g, m - 1, start, F) /\ \A k \in 0 .. m - 1 : g[k] \in S
    BY <1>2
  <2> DEFINE f == [k \in 0 .. m |-> IF k = m THEN F[m][g[m - 1]] ELSE g[k]]
  <2> HIDE DEF T
  <2>2. ASSUME NEW k \in 0 .. m
        PROVE  f[k] = (IF k = 0 THEN start ELSE F[k][f[k - 1]]) /\ f[k] \in S
    <3>1. CASE k = m
      <4>1. m - 1 \in 0 .. m /\ m - 1 # m /\ k # 0 /\ m - 1 \in 0 .. m - 1
        BY <3>1
      <4>2. f[m - 1] = g[m - 1] /\ g[m - 1] \in S
        BY <2>1, <4>1
      <4>3. f[k] = F[m][g[m - 1]]
        BY <3>1
      <4> HIDE DEF f
      <4>4. QED
        BY <3>1, <4>1, <4>2, <4>3
    <3>2. CASE k # m
      <4>1. k \in 0 .. m - 1
        BY <3>2
      <4>2. f[k] = g[k]
        BY <3>2
      <4>3. g[k] = (IF k = 0 THEN start ELSE F[k][g[k - 1]]) /\ g[k] \in S
        BY <2>1, <4>1 DEF Folds
      <4>4. k # 0 => f[k - 1] = g[k - 1]
        BY <4>1
      <4> HIDE DEF f
      <4>5. QED
        BY <4>2, <4>3, <4>4
    <3>3. QED
      BY <3>1, <3>2
  <2>3. Folds(f, m, start, F)
    <3>1. f = [k \in 0 .. m |-> IF k = 0 THEN start ELSE F[k][f[k - 1]]]
      BY <2>2
    <3> HIDE DEF f
    <3>2. QED
      BY <3>1 DEF Folds
  <2> HIDE DEF f
  <2>4. QED
    BY <2>2, <2>3 DEF T
<1> HIDE DEF T
<1>3. n \in T
  BY <1>1, <1>2, Climb
<1>4. QED
  BY <1>3 DEF T

----------------------------------------------------------------------------
(* The digits of a number: what the readers make of them, from the left,   *)
(* is the sum of each with its weight.                                     *)

Counts(a, digits, base) ==
  a = [k \in 0 .. Len(digits) |-> IF k = 0 THEN 0 ELSE base * a[k - 1] + digits[k]]

LEMMA PositionalIs ==
  ASSUME NEW digits \in Seq(Nat), NEW base \in Nat
  PROVE  \E a : /\ a[0] = 0
                /\ \A k \in 1 .. Len(digits) : a[k] = base * a[k - 1] + digits[k]
                /\ \A k \in 0 .. Len(digits) : a[k] \in Nat
                /\ Positional(digits, base) = a[Len(digits)]
<1> DEFINE n == Len(digits)
           a == CHOOSE g : Counts(g, digits, base)
<1>1. n \in Nat /\ \A k \in 1 .. n : digits[k] \in Nat
  OBVIOUS
<1>2. Positional(digits, base) = a[n]
  BY DEF Positional, Along, Counts
<1> HIDE DEF n
<1>3. \E f : Counts(f, digits, base)
  <2> DEFINE F == [k \in 1 .. n |-> [v \in Nat |-> base * v + digits[k]]]
  <2>1. \A k \in 1 .. n : \A v \in Nat : F[k][v] = base * v + digits[k] /\ F[k][v] \in Nat
    BY <1>1
  <2> HIDE DEF F
  <2>2. PICK f : /\ Folds(f, n, 0, F)
                 /\ \A k \in 0 .. n : f[k] \in Nat
    BY <1>1, <2>1, Folding
  <2>3. ASSUME NEW k \in 0 .. n
        PROVE  k # 0 => F[k][f[k - 1]] = base * f[k - 1] + digits[k]
    <3>1. k # 0 => k \in 1 .. n /\ k - 1 \in 0 .. n
      BY <1>1
    <3>2. QED
      BY <2>1, <2>2, <3>1
  <2>4. f = [k \in 0 .. n |-> IF k = 0 THEN 0 ELSE base * f[k - 1] + digits[k]]
    BY <2>2, <2>3 DEF Folds
  <2>5. QED
    BY <2>4 DEF Counts, n
<1>4. Counts(a, digits, base)
  BY <1>3
<1> HIDE DEF a
<1>5. a[0] = 0 /\ \A k \in 1 .. n : a[k] = base * a[k - 1] + digits[k]
  BY <1>1, <1>4 DEF Counts, n
<1>6. \A k \in 0 .. n : a[k] \in Nat
  <2> DEFINE T == {k \in 0 .. n : a[k] \in Nat}
  <2>1. 0 \in T
    BY <1>1, <1>5
  <2>2. ASSUME NEW k \in 1 .. n, k - 1 \in T PROVE k \in T
    <3>1. a[k - 1] \in Nat /\ a[k] = base * a[k - 1] + digits[k] /\ digits[k] \in Nat
      BY <1>1, <1>5, <2>2
    <3> DEFINE x == a[k - 1]
               y == digits[k]
    <3> HIDE DEF x, y
    <3>2. base * x + y \in Nat
      BY <3>1 DEF x, y
    <3>3. a[k] \in Nat /\ k \in 0 .. n
      BY <1>1, <3>1, <3>2 DEF x, y
    <3>4. QED
      BY <3>3
  <2> HIDE DEF T
  <2>3. \A k \in 0 .. n : k \in T
    BY <1>1, <2>1, <2>2, Climb
  <2>4. QED
    BY <2>3 DEF T
<1>7. QED
  BY <1>2, <1>5, <1>6 DEF n

\* p is a table of the powers of base up to n.
Powers(p, base, n) ==
  /\ p[0] = 1 /\ \A k \in 1 .. n : p[k] = base * p[k - 1]
  /\ \A k \in 0 .. n : p[k] \in Nat

LEMMA PowersExist ==
  ASSUME NEW base \in Nat, NEW n \in Nat
  PROVE  \E p : Powers(p, base, n) /\ Power(base, n) = p[n]
<1> DEFINE Is(f) == f = [k \in 0 .. n |-> IF k = 0 THEN 1 ELSE base * f[k - 1]]
           a == CHOOSE g : Is(g)
<1>1. Power(base, n) = a[n]
  BY DEF Power
<1>2. \E f : Is(f)
  <2> DEFINE F == [k \in 1 .. n |-> [v \in Nat |-> base * v]]
  <2>1. \A k \in 1 .. n : \A v \in Nat : F[k][v] = base * v /\ F[k][v] \in Nat
    OBVIOUS
  <2> HIDE DEF F
  <2>2. PICK f : Folds(f, n, 1, F) /\ \A k \in 0 .. n : f[k] \in Nat
    BY <2>1, Folding
  <2>3. ASSUME NEW k \in 0 .. n
        PROVE  k # 0 => F[k][f[k - 1]] = base * f[k - 1]
    <3>1. k # 0 => k \in 1 .. n /\ k - 1 \in 0 .. n
      OBVIOUS
    <3>2. QED
      BY <2>1, <2>2, <3>1
  <2>4. f = [k \in 0 .. n |-> IF k = 0 THEN 1 ELSE base * f[k - 1]]
    BY <2>2, <2>3 DEF Folds
  <2>5. QED
    BY <2>4
<1>3. Is(a)
  <2> HIDE DEF Is
  <2>1. QED
    BY <1>2
<1> HIDE DEF a
<1>4. a[0] = 1 /\ \A k \in 1 .. n : a[k] = base * a[k - 1]
  BY <1>3
<1> HIDE DEF Is
<1>5. \A k \in 0 .. n : a[k] \in Nat
  <2> DEFINE T == {k \in 0 .. n : a[k] \in Nat}
  <2>1. 0 \in T
    BY <1>4
  <2>2. ASSUME NEW k \in 1 .. n, k - 1 \in T PROVE k \in T
    <3> DEFINE x == a[k - 1]
    <3>1. x \in Nat /\ a[k] = base * x /\ k \in 0 .. n
      BY <1>4, <2>2
    <3> HIDE DEF x
    <3>2. base * x \in Nat
      BY <3>1
    <3>3. QED
      BY <3>1, <3>2
  <2> HIDE DEF T
  <2>3. \A k \in 0 .. n : k \in T
    BY <2>1, <2>2, Climb
  <2>4. QED
    BY <2>3 DEF T
<1>6. QED
  BY <1>1, <1>4, <1>5 DEF Powers

LEMMA PowersAgree ==
  ASSUME NEW base \in Nat, NEW n \in Nat, NEW p, NEW q, Powers(p, base, n), Powers(q, base, n)
  PROVE  \A k \in 0 .. n : p[k] = q[k]
<1> DEFINE T == {k \in 0 .. n : p[k] = q[k]}
<1>1. 0 \in T
  BY DEF Powers
<1>2. ASSUME NEW k \in 1 .. n, k - 1 \in T PROVE k \in T
  <2>1. p[k] = base * p[k - 1] /\ q[k] = base * q[k - 1] /\ p[k - 1] = q[k - 1]
    BY <1>2 DEF Powers
  <2>2. p[k] = q[k] /\ k \in 0 .. n
    BY <2>1
  <2>3. QED
    BY <2>2
<1> HIDE DEF T
<1>3. \A k \in 0 .. n : k \in T
  BY <1>1, <1>2, Climb
<1>4. QED
  BY <1>3 DEF T

LEMMA PowerIs ==
  ASSUME NEW base \in Nat
  PROVE  /\ \A n \in Nat : Power(base, n) \in Nat
         /\ Power(base, 0) = 1
         /\ \A n \in Nat : Power(base, n + 1) = base * Power(base, n)
<1>1. ASSUME NEW n \in Nat
      PROVE  Power(base, n) \in Nat
  <2>1. PICK p : Powers(p, base, n) /\ Power(base, n) = p[n]
    BY PowersExist
  <2>2. QED
    BY <2>1 DEF Powers
<1>2. Power(base, 0) = 1
  <2>1. PICK p : Powers(p, base, 0) /\ Power(base, 0) = p[0]
    BY PowersExist
  <2>2. QED
    BY <2>1 DEF Powers
<1>3. ASSUME NEW n \in Nat
      PROVE  Power(base, n + 1) = base * Power(base, n)
  <2>1. n + 1 \in Nat
    OBVIOUS
  <2>2. PICK p : Powers(p, base, n) /\ Power(base, n) = p[n]
    BY PowersExist
  <2>3. PICK q : Powers(q, base, n + 1) /\ Power(base, n + 1) = q[n + 1]
    BY <2>1, PowersExist
  <2>4. Powers(q, base, n)
    <3>1. \A k \in 0 .. n : k \in 0 .. n + 1
      OBVIOUS
    <3>2. \A k \in 1 .. n : k \in 1 .. n + 1
      OBVIOUS
    <3>3. QED
      BY <2>3, <3>1, <3>2 DEF Powers
  <2>5. n \in 0 .. n
    OBVIOUS
  <2>6. p[n] = q[n]
    BY <2>2, <2>4, <2>5, PowersAgree
  <2>7. q[n + 1] = base * q[n]
    <3>1. n + 1 \in 1 .. n + 1 /\ (n + 1) - 1 = n
      OBVIOUS
    <3>2. \A k \in 1 .. n + 1 : q[k] = base * q[k - 1]
      BY <2>3 DEF Powers
    <3>3. q[n + 1] = base * q[(n + 1) - 1]
      BY <3>1, <3>2
    <3>4. QED
      BY <3>1, <3>3
  <2>8. QED
    BY <2>2, <2>3, <2>6, <2>7
<1>4. QED
  BY <1>1, <1>2, <1>3

\* Two rules of sums and products, for the terms below.
LEMMA Shifted ==
  ASSUME NEW x \in Nat, NEW d \in Nat, NEW b \in Nat, NEW p \in Nat
  PROVE  x * (b * p) + d * p = (b * x + d) * p
  OBVIOUS

LEMMA ShiftedTwice ==
  ASSUME NEW x \in Nat, NEW p \in Nat, NEW y \in Nat, NEW d \in Nat, NEW b \in Nat
  PROVE  b * (x * p + y) + d = x * (b * p) + (b * y + d)
  OBVIOUS

LEMMA WeightedIs ==
  ASSUME NEW digits \in Seq(Nat), NEW base \in Nat
  PROVE  \E a : /\ a[0] = 0
                /\ \A k \in 1 .. Len(digits) :
                     a[k] = a[k - 1] + digits[k] * Power(base, Len(digits) - k)
                /\ Weighted(digits, base) = a[Len(digits)]
<1> DEFINE n == Len(digits)
           w(k) == digits[k] * Power(base, n - k)
           Is(f) == f = [k \in 0 .. n |-> IF k = 0 THEN 0 ELSE f[k - 1] + w(k)]
           a == CHOOSE g : Is(g)
<1>1. n \in Nat /\ \A k \in 1 .. n : digits[k] \in Nat
  OBVIOUS
<1>2. Weighted(digits, base) = a[n]
  BY DEF Weighted
<1> HIDE DEF n
<1>3. ASSUME NEW k \in 1 .. n
      PROVE  w(k) \in Nat
  <2>1. n - k \in Nat
    BY <1>1
  <2> DEFINE x == digits[k]
             y == Power(base, n - k)
  <2>2. x \in Nat /\ y \in Nat
    BY <1>1, <2>1, PowerIs
  <2> HIDE DEF x, y
  <2>3. x * y \in Nat
    BY <2>2
  <2>4. QED
    BY <2>3 DEF x, y
<1>4. \E f : Is(f)
  <2> HIDE DEF w
  <2> DEFINE F == [k \in 1 .. n |-> [v \in Nat |-> v + w(k)]]
  <2>1. \A k \in 1 .. n : \A v \in Nat : F[k][v] = v + w(k) /\ F[k][v] \in Nat
    BY <1>3
  <2> HIDE DEF F
  <2>2. PICK f : Folds(f, n, 0, F) /\ \A k \in 0 .. n : f[k] \in Nat
    BY <1>1, <2>1, Folding
  <2>3. ASSUME NEW k \in 0 .. n
        PROVE  k # 0 => F[k][f[k - 1]] = f[k - 1] + w(k)
    <3>1. k # 0 => k \in 1 .. n /\ k - 1 \in 0 .. n
      BY <1>1
    <3>2. QED
      BY <2>1, <2>2, <3>1
  <2>4. f = [k \in 0 .. n |-> IF k = 0 THEN 0 ELSE f[k - 1] + w(k)]
    BY <2>2, <2>3 DEF Folds
  <2>5. QED
    BY <2>4
<1>5. Is(a)
  <2> HIDE DEF Is
  <2>1. QED
    BY <1>4
<1> HIDE DEF a, w
<1>6. a[0] = 0 /\ \A k \in 1 .. n : a[k] = a[k - 1] + w(k)
  BY <1>1, <1>5
<1>7. QED
  BY <1>2, <1>6 DEF n, w

LEMMA WeightedIsPositional ==
  ASSUME NEW digits \in Seq(Nat), NEW base \in Nat
  PROVE  Weighted(digits, base) = Positional(digits, base) /\ Positional(digits, base) \in Nat
<1> DEFINE n == Len(digits)
<1>1. n \in Nat /\ \A k \in 1 .. n : digits[k] \in Nat
  OBVIOUS
<1>2. PICK a : /\ a[0] = 0 /\ \A k \in 1 .. n : a[k] = base * a[k - 1] + digits[k]
               /\ \A k \in 0 .. n : a[k] \in Nat
               /\ Positional(digits, base) = a[n]
  BY PositionalIs
<1>3. PICK b : /\ b[0] = 0
               /\ \A k \in 1 .. n : b[k] = b[k - 1] + digits[k] * Power(base, n - k)
               /\ Weighted(digits, base) = b[n]
  BY WeightedIs
<1> HIDE DEF n
<1> DEFINE T == {k \in 0 .. n : b[k] = a[k] * Power(base, n - k)}
<1>4. 0 \in T
  <2>1. n - 0 \in Nat
    BY <1>1
  <2> DEFINE y == Power(base, n - 0)
  <2>2. y \in Nat
    BY <2>1, PowerIs
  <2> HIDE DEF y
  <2>3. b[0] = a[0] * y
    BY <1>2, <1>3, <2>2
  <2>4. QED
    BY <1>1, <2>3 DEF y
<1>5. ASSUME NEW k \in 1 .. n, k - 1 \in T PROVE k \in T
  <2>1. n - k \in Nat /\ n - (k - 1) = (n - k) + 1 /\ k - 1 \in 0 .. n /\ k \in 0 .. n
    BY <1>1
  <2> DEFINE x == a[k - 1]
             d == digits[k]
             y == Power(base, n - k)
  <2>2. Power(base, n - (k - 1)) = base * y /\ y \in Nat
    BY <2>1, PowerIs
  <2>3. x \in Nat /\ d \in Nat
    BY <1>1, <1>2, <2>1
  <2>4. b[k - 1] = x * (base * y)
    BY <1>5, <2>2
  <2>5. b[k] = b[k - 1] + d * y /\ a[k] = base * x + d
    BY <1>2, <1>3
  <2> HIDE DEF x, d, y
  <2>6. b[k] = a[k] * y
    BY <2>2, <2>3, <2>4, <2>5, Shifted
  <2>7. QED
    BY <2>1, <2>6 DEF y
<1> HIDE DEF T
<1>6. \A k \in 0 .. n : k \in T
  BY <1>1, <1>4, <1>5, Climb
<1>7. n \in 0 .. n /\ n - n = 0
  BY <1>1
<1>8. b[n] = a[n] * Power(base, 0) /\ a[n] \in Nat
  BY <1>2, <1>6, <1>7 DEF T
<1>9. b[n] = a[n]
  <2> DEFINE x == a[n]
  <2>1. Power(base, 0) = 1
    BY PowerIs
  <2> HIDE DEF x
  <2>2. b[n] = x * 1 /\ x \in Nat
    BY <1>8, <2>1 DEF x
  <2>3. b[n] = x
    BY <2>2
  <2>4. QED
    BY <2>3 DEF x
<1>10. QED
  BY <1>2, <1>3, <1>8, <1>9

\* Digits behind others: the first ones move up.
LEMMA Behind ==
  ASSUME NEW A \in Seq(Nat), NEW B \in Seq(Nat), NEW base \in Nat
  PROVE  Positional(A \o B, base) = Positional(A, base) * Power(base, Len(B)) + Positional(B, base)
<1> DEFINE m == Len(A)
           n == Len(B)
           C == A \o B
<1>1. /\ m \in Nat /\ n \in Nat /\ C \in Seq(Nat) /\ Len(C) = m + n
      /\ \A k \in 1 .. m : C[k] = A[k] /\ A[k] \in Nat
      /\ \A k \in 1 .. n : C[m + k] = B[k] /\ B[k] \in Nat
  OBVIOUS
<1> HIDE DEF C
<1>2. PICK a : /\ a[0] = 0 /\ \A k \in 1 .. m : a[k] = base * a[k - 1] + A[k]
               /\ \A k \in 0 .. m : a[k] \in Nat
               /\ Positional(A, base) = a[m]
  BY PositionalIs
<1>3. PICK b : /\ b[0] = 0 /\ \A k \in 1 .. n : b[k] = base * b[k - 1] + B[k]
               /\ \A k \in 0 .. n : b[k] \in Nat
               /\ Positional(B, base) = b[n]
  BY PositionalIs
<1>4. PICK c : /\ c[0] = 0 /\ \A k \in 1 .. Len(C) : c[k] = base * c[k - 1] + C[k]
               /\ Positional(C, base) = c[Len(C)]
  BY <1>1, PositionalIs
<1> HIDE DEF m, n
<1>0. Len(C) = m + n
  BY <1>1
<1> DEFINE S == {k \in 0 .. m : c[k] = a[k]}
<1>5. 0 \in S
  BY <1>1, <1>2, <1>4
<1>6. ASSUME NEW k \in 1 .. m, k - 1 \in S PROVE k \in S
  <2>1. k \in 1 .. m + n /\ k \in 0 .. m /\ c[k - 1] = a[k - 1]
    BY <1>1, <1>6
  <2>2. c[k] = base * c[k - 1] + C[k] /\ a[k] = base * a[k - 1] + A[k] /\ C[k] = A[k]
    BY <1>0, <1>1, <1>2, <1>4, <2>1
  <2>3. c[k] = a[k]
    BY <2>1, <2>2
  <2>4. QED
    BY <2>1, <2>3
<1> HIDE DEF S
<1>7. c[m] = a[m] /\ a[m] \in Nat
  <2>1. \A k \in 0 .. m : k \in S
    BY <1>1, <1>5, <1>6, Climb
  <2>2. m \in 0 .. m
    BY <1>1
  <2>3. QED
    BY <1>2, <2>1, <2>2 DEF S
<1> DEFINE x == a[m]
           T == {k \in 0 .. n : c[m + k] = x * Power(base, k) + b[k]}
<1>8. 0 \in T
  <2>1. m + 0 = m /\ 0 \in 0 .. n
    BY <1>1
  <2>2. x * 1 + 0 = x
    BY <1>7
  <2> HIDE DEF x
  <2>3. c[m + 0] = x * Power(base, 0) + b[0]
    BY <1>3, <1>7, <2>1, <2>2, PowerIs DEF x
  <2>4. QED
    BY <2>1, <2>3
<1>9. ASSUME NEW k \in 1 .. n, k - 1 \in T PROVE k \in T
  <2>1. k - 1 \in Nat /\ (k - 1) + 1 = k /\ k - 1 \in 0 .. n /\ k \in 0 .. n
        /\ m + k \in 1 .. m + n /\ m + (k - 1) = (m + k) - 1
    BY <1>1
  <2> DEFINE p == Power(base, k - 1)
             y == b[k - 1]
             d == B[k]
  <2>2. Power(base, k) = base * p /\ p \in Nat
    BY <2>1, PowerIs
  <2>3. y \in Nat /\ d \in Nat /\ x \in Nat
    BY <1>1, <1>3, <1>7, <2>1
  <2>4. c[m + (k - 1)] = x * p + y
    BY <1>9
  <2>5. c[m + k] = base * c[(m + k) - 1] + C[m + k] /\ C[m + k] = d
    BY <1>0, <1>1, <1>4, <2>1
  <2>6. b[k] = base * y + d
    BY <1>3
  <2> HIDE DEF p, y, d, x
  <2>7. c[m + k] = base * (x * p + y) + d
    BY <2>1, <2>4, <2>5
  <2>8. c[m + k] = x * (base * p) + (base * y + d)
    BY <2>2, <2>3, <2>7, ShiftedTwice
  <2>9. c[m + k] = x * Power(base, k) + b[k]
    BY <2>2, <2>6, <2>8
  <2>10. QED
    BY <2>1, <2>9
<1> HIDE DEF T
<1>10. \A k \in 0 .. n : k \in T
  BY <1>1, <1>8, <1>9, Climb
<1>11. n \in 0 .. n
  BY <1>1
<1>12. c[m + n] = x * Power(base, n) + b[n]
  BY <1>10, <1>11 DEF T
<1>13. QED
  BY <1>0, <1>2, <1>3, <1>4, <1>12 DEF n, C

\* Fraction digits that are filled up, and what a text then stands for.
LEMMA OneDigit ==
  ASSUME NEW d \in Nat, NEW base \in Nat
  PROVE  Positional(<<d>>, base) = d
<1> DEFINE D == <<d>>
<1>1. D \in Seq(Nat) /\ Len(D) = 1 /\ D[1] = d
  OBVIOUS
<1> HIDE DEF D
<1>2. PICK a : /\ a[0] = 0 /\ \A k \in 1 .. Len(D) : a[k] = base * a[k - 1] + D[k]
               /\ Positional(D, base) = a[Len(D)]
  BY <1>1, PositionalIs
<1>3. 1 \in 1 .. Len(D) /\ 1 - 1 = 0
  BY <1>1
<1>4. a[1] = base * a[1 - 1] + D[1]
  BY <1>2, <1>3
<1>5. a[1] = base * 0 + d
  BY <1>1, <1>2, <1>3, <1>4
<1>6. a[1] = d
  BY <1>5
<1>7. QED
  BY <1>1, <1>2, <1>6 DEF D

LEMMA Zeros ==
  ASSUME NEW Z \in Seq(Nat), NEW base \in Nat, \A i \in 1 .. Len(Z) : Z[i] = 0
  PROVE  Positional(Z, base) = 0
<1> DEFINE n == Len(Z)
<1>1. PICK a : /\ a[0] = 0 /\ \A k \in 1 .. n : a[k] = base * a[k - 1] + Z[k]
               /\ Positional(Z, base) = a[n]
  BY PositionalIs
<1>2. n \in Nat /\ \A i \in 1 .. n : Z[i] = 0
  OBVIOUS
<1> HIDE DEF n
<1> DEFINE T == {k \in 0 .. n : a[k] = 0}
<1>3. 0 \in T
  BY <1>1, <1>2
<1>4. ASSUME NEW k \in 1 .. n, k - 1 \in T PROVE k \in T
  <2>1. a[k] = base * 0 + 0 /\ k \in 0 .. n
    BY <1>1, <1>2, <1>4
  <2>2. a[k] = 0
    BY <2>1
  <2>3. QED
    BY <2>1, <2>2
<1> HIDE DEF T
<1>5. \A k \in 0 .. n : k \in T
  BY <1>2, <1>3, <1>4, Climb
<1>6. n \in T
  BY <1>2, <1>5
<1>7. QED
  BY <1>1, <1>6 DEF T

\* A zero in front of the digits is nothing.
LEMMA LeadingZero ==
  ASSUME NEW D \in Seq(Nat), D # <<>>, D[1] = 0, NEW base \in Nat
  PROVE  Positional(Tail(D), base) = Positional(D, base)
<1> DEFINE B == Tail(D)
           A == <<0>>
<1>1. B \in Seq(Nat) /\ A \in Seq(Nat) /\ Len(B) \in Nat
  OBVIOUS
<1>2. D = A \o B
  <2>1. Len(D) \in Nat /\ Len(D) >= 1 /\ Len(B) = Len(D) - 1 /\ Len(A) = 1
    OBVIOUS
  <2>2. A \o B \in Seq(Nat) /\ Len(A \o B) = Len(D)
    BY <2>1
  <2>3. ASSUME NEW i \in 1 .. Len(D) PROVE (A \o B)[i] = D[i]
    BY <2>1
  <2>4. QED
    BY <2>2, <2>3
<1>3. Positional(A, base) = 0
  BY OneDigit
<1> HIDE DEF A, B
<1>4. Positional(D, base) = Positional(A, base) * Power(base, Len(B)) + Positional(B, base)
  BY <1>1, <1>2, Behind
<1> DEFINE p == Power(base, Len(B))
           q == Positional(B, base)
<1>5. p \in Nat /\ q \in Nat
  BY <1>1, PowerIs, WeightedIsPositional
<1> HIDE DEF p, q
<1>6. 0 * p + q = q
  BY <1>5
<1>7. QED
  BY <1>3, <1>4, <1>6 DEF B, p, q

\* Filling up moves the digits behind the point up by what is filled.
LEMMA FilledIs ==
  ASSUME NEW F \in Seq(Nat), NEW fd \in Nat, Len(F) <= fd
  PROVE  /\ Filled(F, fd) \in Seq(Nat) /\ Len(Filled(F, fd)) = fd
         /\ Positional(Filled(F, fd), 10) = Positional(F, 10) * Power(10, fd - Len(F))
<1> DEFINE n == Len(F)
           z == fd - n
           Z == [i \in 1 .. z |-> 0]
           W == Filled(F, fd)
<1>1. n \in Nat /\ z \in Nat /\ fd = n + z /\ \A i \in 1 .. n : F[i] \in Nat
  OBVIOUS
<1>2. Z \in Seq(Nat) /\ Len(Z) = z /\ \A i \in 1 .. z : Z[i] = 0
  BY <1>1
<1>3. W \in Seq(Nat) /\ Len(W) = fd /\ \A i \in 1 .. fd : W[i] = IF i <= n THEN F[i] ELSE 0
  BY <1>1 DEF Filled
<1> HIDE DEF n, z, Z, W
<1>4. W = F \o Z
  <2>1. F \o Z \in Seq(Nat) /\ Len(F \o Z) = fd
    <3>1. F \o Z \in Seq(Nat) /\ Len(F \o Z) = Len(F) + Len(Z)
      BY <1>2
    <3>2. QED
      BY <1>1, <1>2, <3>1 DEF n
  <2>2. ASSUME NEW i \in 1 .. fd PROVE (F \o Z)[i] = W[i]
    <3>1. CASE i <= n
      BY <1>1, <1>2, <1>3, <3>1 DEF n
    <3>2. CASE ~(i <= n)
      <4>1. i - n \in 1 .. z
        BY <1>1, <3>2
      <4>2. (F \o Z)[i] = Z[i - n]
        BY <1>1, <1>2, <3>2 DEF n
      <4>3. QED
        BY <1>2, <1>3, <3>2, <4>1, <4>2
    <3>3. QED
      BY <3>1, <3>2
  <2>3. QED
    BY <1>3, <2>1, <2>2
<1>5. Positional(Z, 10) = 0
  BY <1>2, Zeros
<1>6. Positional(F \o Z, 10) = Positional(F, 10) * Power(10, Len(Z)) + Positional(Z, 10)
  BY <1>2, Behind
<1> DEFINE p == Power(10, z)
           q == Positional(F, 10)
<1>7. p \in Nat /\ q \in Nat
  BY <1>1, PowerIs, WeightedIsPositional
<1> HIDE DEF p, q
<1>8. q * p + 0 = q * p
  BY <1>7
<1>9. QED
  BY <1>2, <1>3, <1>4, <1>5, <1>6, <1>8 DEF p, q, z, n, W

----------------------------------------------------------------------------
(* What the readers give is what the text says. *)

LEMMA IntMeans ==
  ASSUME NEW text, IsText(text), ReadInt(text).val # <<>>
  PROVE  /\ ReadInt(text).val = <<ReadInt(text).val[1]>>
         /\ ReadInt(text).val[1] = IF text.neg THEN -Says(text) ELSE Says(text)
         /\ ReadInt(text).val[1] \in Int
<1> DEFINE D == text.digits
           octal == ~text.hex /\ Len(D) > 1 /\ D[1] = 0
           digits == IF octal THEN Tail(D) ELSE D
           base == IF text.hex THEN 16 ELSE IF octal THEN 8 ELSE 10
           number == Positional(digits, base)
<1>1. D \in Seq(Nat)
  BY DEF IsText
<1>2. digits # <<>> /\ ReadInt(text) = Read(Signed(text, number))
  BY DEF ReadInt, Refused
<1>3. ReadInt(text).val = <<Signed(text, number)>>
  BY <1>2 DEF Read
<1>4. D # <<>>
  <2>1. octal => D # <<>>
    BY <1>1
  <2>2. ~octal => digits = D
    OBVIOUS
  <2>3. QED
    BY <1>2, <2>1, <2>2
<1>5. number = Says(text) /\ number \in Nat
  <2>1. CASE text.hex
    <3>1. digits = D /\ base = 16 /\ Says(text) = Weighted(D, 16)
      BY <2>1 DEF Says
    <3>2. QED
      BY <1>1, <3>1, WeightedIsPositional
  <2>2. CASE ~text.hex /\ octal
    <3>1. digits = Tail(D) /\ base = 8 /\ Says(text) = Weighted(D, 8)
      BY <2>2 DEF Says
    <3>2. number = Positional(D, 8)
      BY <1>1, <1>4, <2>2, <3>1, LeadingZero
    <3>3. QED
      BY <1>1, <3>1, <3>2, WeightedIsPositional
  <2>3. CASE ~text.hex /\ ~octal /\ D[1] # 0
    <3>1. digits = D /\ base = 10 /\ Says(text) = Weighted(D, 10)
      BY <2>3 DEF Says
    <3>2. QED
      BY <1>1, <3>1, WeightedIsPositional
  <2>4. CASE ~text.hex /\ ~octal /\ D[1] = 0
    <3>1. digits = D /\ base = 10 /\ Says(text) = Weighted(D, 8)
      BY <2>4 DEF Says
    <3>2. D = <<0>>
      BY <1>1, <1>4, <2>4
    <3>3. Positional(D, 10) = 0 /\ Positional(D, 8) = 0
      BY <3>2, OneDigit
    <3>4. Weighted(D, 8) = Positional(D, 8)
      BY <1>1, WeightedIsPositional
    <3>5. QED
      BY <3>1, <3>3, <3>4
  <2>5. QED
    BY <2>1, <2>2, <2>3, <2>4
<1> HIDE DEF number
<1>6. QED
  BY <1>3, <1>5 DEF Signed

LEMMA DecimalMeans ==
  ASSUME NEW text, IsText(text), NEW fd \in Nat, ReadDecimal(fd, text).val # <<>>
  PROVE  /\ ReadDecimal(fd, text).val = <<ReadDecimal(fd, text).val[1]>>
         /\ ReadDecimal(fd, text).val[1] = (IF text.neg THEN -1 ELSE 1) * SaysDecimal(text, fd)
         /\ ReadDecimal(fd, text).val[1] \in Int
<1> DEFINE D == text.digits
           F == text.frac
           W == Filled(F, fd)
           number == Positional(D \o W, 10)
<1>1. D \in Seq(Nat) /\ F \in Seq(Nat) /\ Len(F) \in Nat
  BY DEF IsText
<1>2. ~(Len(F) > fd) /\ ReadDecimal(fd, text) = Read(Signed(text, number))
  BY DEF ReadDecimal, Refused
<1>3. ReadDecimal(fd, text).val = <<Signed(text, number)>>
  BY <1>2 DEF Read
<1>4. W \in Seq(Nat) /\ Len(W) = fd /\ Positional(W, 10) = Positional(F, 10) * Power(10, fd - Len(F))
  <2>1. Len(F) <= fd
    BY <1>1, <1>2
  <2> HIDE DEF F
  <2>2. QED
    BY <1>1, <2>1, FilledIs
<1>5. Weighted(D, 10) = Positional(D, 10) /\ Weighted(F, 10) = Positional(F, 10)
  BY <1>1, WeightedIsPositional
<1> HIDE DEF W, D, F
<1>6. number = Positional(D, 10) * Power(10, fd) + Positional(W, 10)
  BY <1>1, <1>4, Behind
<1>7. number \in Nat
  <2>1. D \o W \in Seq(Nat)
    BY <1>1, <1>4
  <2>2. QED
    BY <2>1, WeightedIsPositional
<1> HIDE DEF number
<1>8. number = SaysDecimal(text, fd)
  BY <1>4, <1>5, <1>6 DEF SaysDecimal, D, F
<1>9. Signed(text, number) = (IF text.neg THEN -1 ELSE 1) * number /\ Signed(text, number) \in Int
  BY <1>7 DEF Signed
<1>10. QED
  BY <1>3, <1>8, <1>9

----------------------------------------------------------------------------
(* Identities: what is said to be derived can be reached. *)

\* A loop that keeps to S, once it is known what its turns do.
LEMMA Stays ==
  ASSUME NEW n \in Nat, NEW S, NEW a, a[0] \in S, \A k \in 1 .. n : a[k - 1] \in S => a[k] \in S
  PROVE  \A k \in 0 .. n : a[k] \in S
<1> DEFINE T == {k \in 0 .. n : a[k] \in S}
<1>1. 0 \in T
  OBVIOUS
<1>2. \A k \in 1 .. n : k - 1 \in T => k \in T
  OBVIOUS
<1> HIDE DEF T
<1>3. \A k \in 0 .. n : k \in T
  BY <1>1, <1>2, Climb
<1>4. QED
  BY <1>3 DEF T

Kept(g, bs, b) == IF b \in DOMAIN g THEN Append(bs, b) ELSE bs
Collects(a, g, bases) ==
  a = [k \in 0 .. Len(bases) |-> IF k = 0 THEN <<>> ELSE Kept(g, a[k - 1], bases[k])]

\* Only identities that exist are kept.
LEMMA ExistingIs ==
  ASSUME NEW g, NEW X, NEW bases \in Seq(X)
  PROVE  Existing(g, bases) \in Seq(DOMAIN g)
<1> DEFINE n == Len(bases)
           S == Seq(DOMAIN g)
           a == CHOOSE f : Collects(f, g, bases)
           F == [k \in 1 .. n |-> [s \in S |-> Kept(g, s, bases[k])]]
<1>1. n \in Nat
  OBVIOUS
<1>2. Existing(g, bases) = a[n]
  BY DEF Existing, Along, Collects, Kept
<1> HIDE DEF n
<1>3. <<>> \in S
  OBVIOUS
<1>4. \A k \in 1 .. n : \A s \in S : F[k][s] = Kept(g, s, bases[k]) /\ F[k][s] \in S
  <2>1. ASSUME NEW k \in 1 .. n, NEW s \in S PROVE Kept(g, s, bases[k]) \in S
    <3> DEFINE y == bases[k]
    <3> HIDE DEF y
    <3>1. y \in DOMAIN g => Append(s, y) \in S
      OBVIOUS
    <3> HIDE DEF S
    <3>2. QED
      BY <3>1 DEF Kept, y
  <2> HIDE DEF S
  <2>2. QED
    BY <2>1
<1> HIDE DEF F, S
<1>5. \E f : Collects(f, g, bases)
  <2>1. PICK f : Folds(f, n, <<>>, F) /\ \A k \in 0 .. n : f[k] \in S
    BY <1>1, <1>3, <1>4, Folding
  <2>2. ASSUME NEW k \in 0 .. n
        PROVE  k # 0 => F[k][f[k - 1]] = Kept(g, f[k - 1], bases[k])
    <3>1. k # 0 => k \in 1 .. n /\ k - 1 \in 0 .. n
      BY <1>1
    <3>2. QED
      BY <1>4, <2>1, <3>1
  <2>3. f = [k \in 0 .. n |-> IF k = 0 THEN <<>> ELSE Kept(g, f[k - 1], bases[k])]
    BY <2>1, <2>2 DEF Folds
  <2>4. QED
    BY <2>3 DEF Collects, n
<1>6. Collects(a, g, bases)
  BY <1>5
<1> HIDE DEF a
<1>7. /\ a[0] = <<>>
      /\ \A k \in 1 .. n : a[k] = Kept(g, a[k - 1], bases[k])
  BY <1>1, <1>6 DEF Collects, n
<1>8. \A k \in 1 .. n : a[k - 1] \in S => a[k] \in S
  BY <1>4, <1>7
<1>9. \A k \in 0 .. n : a[k] \in S
  BY <1>1, <1>3, <1>7, <1>8, Stays
<1>10. n \in 0 .. n
  BY <1>1
<1>11. QED
  BY <1>2, <1>9, <1>10 DEF S

States(R) == [found : BOOLEAN, visited : SUBSET R, raised : BOOLEAN]
\* If S holds x, and the bases of what it holds, it holds b.
Hits(g, S, b, x) == x \in DOMAIN g /\ (x \in S => b \in S)
Ends(g, S, b, x, R) == {r \in States(R) : r.found => Hits(g, S, b, x)}
Through(g, S, b, x, R) == {r \in States(R) : r.found => \E p \in ToSet(g[x]) : Hits(g, S, b, p)}
Walks(g, S, b, R, w) == \A p \in R : \A visited \in SUBSET R : w[p][visited] \in Ends(g, S, b, p, R)

Branch(walk, r, p) == IF r.found \/ r.raised \/ p \in r.visited THEN r ELSE walk[p][r.visited \cup {p}]
BranchedOut(a, walk, bases, visited) ==
  a = [k \in 0 .. Len(bases) |-> IF k = 0 THEN Unfound(visited) ELSE Branch(walk, a[k - 1], bases[k])]

LEMMA BranchIn ==
  ASSUME NEW g, NEW S, NEW b, NEW x, NEW R, ToSet(g[x]) \subseteq R, NEW w, Walks(g, S, b, R, w),
         NEW r \in Through(g, S, b, x, R), NEW p \in ToSet(g[x])
  PROVE  Branch(w, r, p) \in Through(g, S, b, x, R)
<1>1. r \in States(R)
  BY DEF Through
<1>2. CASE r.found \/ r.raised \/ p \in r.visited
  <2>1. Branch(w, r, p) = r
    BY <1>2 DEF Branch
  <2>2. QED
    BY <2>1
<1>3. CASE ~(r.found \/ r.raised \/ p \in r.visited)
  <2> DEFINE t == w[p][r.visited \cup {p}]
  <2>1. Branch(w, r, p) = t
    BY <1>3 DEF Branch
  <2>2. r.visited \cup {p} \in SUBSET R /\ p \in R
    BY <1>1 DEF States
  <2>3. t \in Ends(g, S, b, p, R)
    BY <2>2 DEF Walks
  <2> HIDE DEF t
  <2>4. t \in States(R) /\ (t.found => Hits(g, S, b, p))
    BY <2>3 DEF Ends
  <2>5. t \in Through(g, S, b, x, R)
    BY <2>4 DEF Through
  <2>6. QED
    BY <2>1, <2>5
<1>4. QED
  BY <1>2, <1>3

LEMMA UnfoundIn ==
  ASSUME NEW g, NEW S, NEW b, NEW x, NEW R, NEW visited \in SUBSET R
  PROVE  /\ Unfound(visited) \in Through(g, S, b, x, R)
         /\ Unfound(visited) \in Ends(g, S, b, x, R)
         /\ [Unfound(visited) EXCEPT !.raised = TRUE] \in Ends(g, S, b, x, R)
         /\ [Unfound(visited) EXCEPT !.found = TRUE] \in States(R)
  BY DEF Unfound, Through, Ends, States

LEMMA BranchesIn ==
  ASSUME NEW g, NEW S, NEW b, NEW x, NEW R, g[x] \in Seq(ToSet(g[x])), ToSet(g[x]) \subseteq R,
         NEW w, Walks(g, S, b, R, w), NEW visited \in SUBSET R
  PROVE  Branches(w, g[x], visited) \in Through(g, S, b, x, R)
<1> DEFINE bases == g[x]
           n == Len(bases)
           A == Through(g, S, b, x, R)
           a == CHOOSE f : BranchedOut(f, w, bases, visited)
           F == [k \in 1 .. n |-> [r \in A |-> Branch(w, r, bases[k])]]
<1>1. n \in Nat /\ \A k \in 1 .. n : bases[k] \in ToSet(g[x])
  OBVIOUS
<1>2. Branches(w, g[x], visited) = a[n]
  BY DEF Branches, Along, BranchedOut, Branch
<1> HIDE DEF n, bases
<1>3. Unfound(visited) \in A
  BY UnfoundIn
<1>4. \A k \in 1 .. n : \A r \in A : F[k][r] = Branch(w, r, bases[k]) /\ F[k][r] \in A
  BY <1>1, BranchIn
<1> HIDE DEF F, A
<1>5. \E f : BranchedOut(f, w, bases, visited)
  <2>1. PICK f : Folds(f, n, Unfound(visited), F) /\ \A k \in 0 .. n : f[k] \in A
    BY <1>1, <1>3, <1>4, Folding
  <2>2. ASSUME NEW k \in 0 .. n
        PROVE  k # 0 => F[k][f[k - 1]] = Branch(w, f[k - 1], bases[k])
    <3>1. k # 0 => k \in 1 .. n /\ k - 1 \in 0 .. n
      BY <1>1
    <3>2. QED
      BY <1>4, <2>1, <3>1
  <2>3. f = [k \in 0 .. n |-> IF k = 0 THEN Unfound(visited) ELSE Branch(w, f[k - 1], bases[k])]
    BY <2>1, <2>2 DEF Folds
  <2>4. QED
    BY <2>3 DEF BranchedOut, n
<1>6. BranchedOut(a, w, bases, visited)
  BY <1>5
<1> HIDE DEF a
<1>7. a[0] = Unfound(visited) /\ \A k \in 1 .. n : a[k] = Branch(w, a[k - 1], bases[k])
  BY <1>1, <1>6 DEF BranchedOut, n
<1>8. \A k \in 1 .. n : a[k - 1] \in A => a[k] \in A
  BY <1>4, <1>7
<1>9. \A k \in 0 .. n : a[k] \in A
  BY <1>1, <1>3, <1>7, <1>8, Stays
<1>10. n \in 0 .. n
  BY <1>1
<1>11. QED
  BY <1>2, <1>9, <1>10 DEF A

\* S is closed under the bases that exist.
Closed(g, S) == S \subseteq DOMAIN g /\ \A x \in S : ToSet(g[x]) \cap DOMAIN g \subseteq S

LEMMA VisitIn ==
  ASSUME NEW g, IsGraph(g), NEW S, Closed(g, S), NEW b \in DOMAIN g, NEW R,
         \A x \in DOMAIN g : ToSet(g[x]) \subseteq R,
         NEW w, Walks(g, S, b, R, w), NEW x \in R, NEW visited \in SUBSET R
  PROVE  Visit(g, w, x, b, visited) \in Ends(g, S, b, x, R)
<1>1. CASE x = b
  <2>1. Visit(g, w, x, b, visited) = [Unfound(visited) EXCEPT !.found = TRUE]
    BY <1>1 DEF Visit
  <2>2. Hits(g, S, b, x)
    BY <1>1 DEF Hits
  <2> DEFINE t == [Unfound(visited) EXCEPT !.found = TRUE]
  <2>3. t \in States(R)
    BY UnfoundIn
  <2> HIDE DEF t
  <2>4. t \in Ends(g, S, b, x, R)
    BY <2>2, <2>3 DEF Ends
  <2>5. QED
    BY <2>1, <2>4 DEF t
<1>2. CASE x # b /\ x \notin DOMAIN g
  <2>1. Visit(g, w, x, b, visited) = [Unfound(visited) EXCEPT !.raised = TRUE]
    BY <1>2 DEF Visit
  <2> DEFINE t == [Unfound(visited) EXCEPT !.raised = TRUE]
  <2>2. t \in Ends(g, S, b, x, R)
    BY UnfoundIn
  <2> HIDE DEF t
  <2>3. QED
    BY <2>1, <2>2 DEF t
<1>3. CASE x # b /\ x \in DOMAIN g
  <2> DEFINE t == Branches(w, g[x], visited)
  <2>1. Visit(g, w, x, b, visited) = t
    BY <1>3 DEF Visit
  <2>2. t \in Through(g, S, b, x, R)
    BY <1>3, BranchesIn DEF IsGraph
  <2> HIDE DEF t
  <2>3. (\E p \in ToSet(g[x]) : Hits(g, S, b, p)) => Hits(g, S, b, x)
    BY <1>3 DEF Hits, Closed
  <2>4. t \in Ends(g, S, b, x, R)
    BY <2>2, <2>3 DEF Through, Ends
  <2>5. QED
    BY <2>1, <2>4
<1>4. QED
  BY <1>1, <1>2, <1>3

Turned(g, w, b, R) == [x \in R |-> [visited \in SUBSET R |-> Visit(g, w, x, b, visited)]]
Unturned(R) == [x \in R |-> [visited \in SUBSET R |-> Unfound(visited)]]
Table(a, g, b, R, K) ==
  a = [k \in 0 .. K |->
        [x \in R |-> [visited \in SUBSET R |->
           IF k = 0 THEN Unfound(visited) ELSE Visit(g, a[k - 1], x, b, visited)]]]
Walkers(g, S, b, R) == {w \in [R -> [SUBSET R -> States(R)]] : Walks(g, S, b, R, w)}

LEMMA TableIs ==
  ASSUME NEW a, NEW g, NEW b, NEW R, NEW K \in Nat
  PROVE  Table(a, g, b, R, K) <=>
           a = [k \in 0 .. K |-> IF k = 0 THEN Unturned(R) ELSE Turned(g, a[k - 1], b, R)]
<1>1. ASSUME NEW k \in 0 .. K
      PROVE  [x \in R |-> [visited \in SUBSET R |->
                IF k = 0 THEN Unfound(visited) ELSE Visit(g, a[k - 1], x, b, visited)]]
             = IF k = 0 THEN Unturned(R) ELSE Turned(g, a[k - 1], b, R)
  <2>1. CASE k = 0
    BY <2>1 DEF Unturned
  <2>2. CASE k # 0
    BY <2>2 DEF Turned
  <2>3. QED
    BY <2>1, <2>2
<1>2. QED
  BY <1>1 DEF Table

LEMMA TurnedIn ==
  ASSUME NEW g, IsGraph(g), NEW S, Closed(g, S), NEW b \in DOMAIN g, NEW R,
         \A x \in DOMAIN g : ToSet(g[x]) \subseteq R
  PROVE  /\ Unturned(R) \in Walkers(g, S, b, R)
         /\ \A w \in Walkers(g, S, b, R) : Turned(g, w, b, R) \in Walkers(g, S, b, R)
<1>1. \A x, R1 : Ends(g, S, b, x, R1) \subseteq States(R1)
  BY DEF Ends
<1>2. Unturned(R) \in Walkers(g, S, b, R)
  <2> DEFINE t == Unturned(R)
  <2>1. \A x \in R : \A visited \in SUBSET R : t[x][visited] = Unfound(visited)
    BY DEF Unturned
  <2>2. \A x \in R : \A visited \in SUBSET R : t[x][visited] \in Ends(g, S, b, x, R)
    <3>1. ASSUME NEW x \in R, NEW visited \in SUBSET R
          PROVE  t[x][visited] \in Ends(g, S, b, x, R)
      <4>1. Unfound(visited) \in Ends(g, S, b, x, R)
        BY UnfoundIn
      <4>2. t[x][visited] = Unfound(visited)
        BY <2>1
      <4> HIDE DEF t
      <4>3. QED
        BY <4>1, <4>2
    <3> HIDE DEF t
    <3>2. QED
      BY <3>1
  <2>3. t = [x \in R |-> [visited \in SUBSET R |-> t[x][visited]]]
    BY DEF Unturned
  <2> HIDE DEF t
  <2>4. t \in [R -> [SUBSET R -> States(R)]]
    BY <1>1, <2>2, <2>3
  <2>5. t \in Walkers(g, S, b, R)
    BY <2>2, <2>4 DEF Walkers, Walks
  <2>6. QED
    BY <2>5 DEF t
<1>3. ASSUME NEW w \in Walkers(g, S, b, R)
      PROVE  Turned(g, w, b, R) \in Walkers(g, S, b, R)
  <2> DEFINE t == Turned(g, w, b, R)
  <2>1. \A x \in R : \A visited \in SUBSET R : t[x][visited] = Visit(g, w, x, b, visited)
    BY DEF Turned
  <2>2. \A x \in R : \A visited \in SUBSET R : t[x][visited] \in Ends(g, S, b, x, R)
    <3>1. Walks(g, S, b, R, w)
      BY DEF Walkers
    <3>2. ASSUME NEW x \in R, NEW visited \in SUBSET R
          PROVE  t[x][visited] \in Ends(g, S, b, x, R)
      <4>1. Visit(g, w, x, b, visited) \in Ends(g, S, b, x, R)
        BY <3>1, VisitIn
      <4>2. t[x][visited] = Visit(g, w, x, b, visited)
        BY <2>1
      <4> HIDE DEF t
      <4>3. QED
        BY <4>1, <4>2
    <3> HIDE DEF t
    <3>3. QED
      BY <3>2
  <2>3. t = [x \in R |-> [visited \in SUBSET R |-> t[x][visited]]]
    BY DEF Turned
  <2> HIDE DEF t
  <2>4. t \in [R -> [SUBSET R -> States(R)]]
    BY <1>1, <2>2, <2>3
  <2>5. t \in Walkers(g, S, b, R)
    BY <2>2, <2>4 DEF Walkers, Walks
  <2>6. QED
    BY <2>5 DEF t
<1>4. QED
  BY <1>2, <1>3

LEMMA ReachedFinite ==
  ASSUME NEW g, IsGraph(g), NEW a
  PROVE  /\ Cardinality(Reached(g, a)) \in Nat
         /\ a \in Reached(g, a)
         /\ \A x \in DOMAIN g : ToSet(g[x]) \subseteq Reached(g, a)
<1> DEFINE F == {ToSet(g[x]) : x \in DOMAIN g}
<1>1. IsFiniteSet(DOMAIN g)
  BY DEF IsGraph
<1>2. IsFiniteSet(F)
  <2> DEFINE f == [x \in DOMAIN g |-> ToSet(g[x])]
  <2>1. f \in Surjection(DOMAIN g, F)
    BY DEF Surjection
  <2> HIDE DEF f, F
  <2>2. QED
    BY <1>1, <2>1, FS_Surjection
<1>3. ASSUME NEW x \in DOMAIN g PROVE IsFiniteSet(ToSet(g[x]))
  <2> DEFINE n == Len(g[x])
             f == [i \in 1 .. n |-> g[x][i]]
  <2>1. g[x] \in Seq(ToSet(g[x]))
    BY DEF IsGraph
  <2>2. n \in Nat /\ DOMAIN g[x] = 1 .. n
    BY <2>1
  <2>3. ToSet(g[x]) = {g[x][i] : i \in 1 .. n}
    BY <2>2 DEF ToSet
  <2>4. IsFiniteSet(1 .. n)
    BY <2>2, FS_Interval
  <2> DEFINE T == {g[x][i] : i \in 1 .. n}
  <2>5. f \in Surjection(1 .. n, T)
    BY DEF Surjection
  <2> HIDE DEF n, f, T
  <2>6. IsFiniteSet(T)
    BY <2>4, <2>5, FS_Surjection
  <2>7. QED
    BY <2>3, <2>6 DEF T
<1>4. IsFiniteSet(UNION F)
  <2>1. \A T \in F : IsFiniteSet(T)
    BY <1>3
  <2> HIDE DEF F
  <2>2. QED
    BY <1>2, <2>1, FS_UNION
<1>5. Reached(g, a) = ({a} \cup DOMAIN g) \cup UNION F
  BY DEF Reached
<1> HIDE DEF F
<1>6. IsFiniteSet({a})
  BY FS_Singleton
<1>7. IsFiniteSet({a} \cup DOMAIN g)
  BY <1>1, <1>6, FS_Union
<1>8. IsFiniteSet(Reached(g, a))
  BY <1>4, <1>5, <1>7, FS_Union
<1>9. Cardinality(Reached(g, a)) \in Nat
  BY <1>8, FS_CardinalityType
<1>10. a \in Reached(g, a) /\ \A x \in DOMAIN g : ToSet(g[x]) \subseteq Reached(g, a)
  BY DEF Reached
<1>11. QED
  BY <1>9, <1>10

\* What is found is reached through one of the bases.
LEMMA DerivedIs ==
  ASSUME NEW g, IsGraph(g), NEW S, Closed(g, S), NEW a \in DOMAIN g, NEW b \in DOMAIN g, a # b,
         DerivedOrSelf(g, a, b).found
  PROVE  \E p \in ToSet(g[a]) : Hits(g, S, b, p)
<1> DEFINE R == Reached(g, a)
           K == Cardinality(R) + 1
           W == Walkers(g, S, b, R)
           w == CHOOSE f : Table(f, g, b, R, K)
           F == [k \in 1 .. K |-> [v \in W |-> Turned(g, v, b, R)]]
<1>1. DerivedOrSelf(g, a, b) = w[K][a][{}]
  BY DEF DerivedOrSelf, Table
<1>2. /\ K \in Nat /\ K - 1 \in Nat /\ a \in R
      /\ \A x \in DOMAIN g : ToSet(g[x]) \subseteq R
  BY ReachedFinite
<1> HIDE DEF R, K
<1>3. Unturned(R) \in W /\ \A v \in W : Turned(g, v, b, R) \in W
  BY <1>2, TurnedIn
<1> HIDE DEF W
<1>4. \A k \in 1 .. K : \A v \in W : F[k][v] = Turned(g, v, b, R) /\ F[k][v] \in W
  BY <1>3
<1> HIDE DEF F
<1>0. \A k \in 1 .. K : \A v \in W : F[k][v] \in W
  BY <1>4
<1>5. \E f : Table(f, g, b, R, K)
  <2>1. PICK f : Folds(f, K, Unturned(R), F) /\ \A k \in 0 .. K : f[k] \in W
    BY <1>0, <1>2, <1>3, Folding
  <2>2. ASSUME NEW k \in 0 .. K
        PROVE  k # 0 => F[k][f[k - 1]] = Turned(g, f[k - 1], b, R)
    <3>1. k # 0 => k \in 1 .. K /\ k - 1 \in 0 .. K
      BY <1>2
    <3>2. QED
      BY <1>4, <2>1, <3>1
  <2>3. f = [k \in 0 .. K |-> IF k = 0 THEN Unturned(R) ELSE Turned(g, f[k - 1], b, R)]
    BY <2>1, <2>2 DEF Folds
  <2>4. QED
    BY <1>2, <2>3, TableIs
<1>6. Table(w, g, b, R, K)
  BY <1>5
<1> HIDE DEF w
<1>7. w = [k \in 0 .. K |-> IF k = 0 THEN Unturned(R) ELSE Turned(g, w[k - 1], b, R)]
  BY <1>2, <1>6, TableIs
<1>8. w[0] = Unturned(R) /\ \A k \in 1 .. K : w[k] = Turned(g, w[k - 1], b, R)
  BY <1>2, <1>7
<1>9. \A k \in 0 .. K : w[k] \in W
  <2>1. \A k \in 1 .. K : w[k - 1] \in W => w[k] \in W
    BY <1>3, <1>8
  <2>2. QED
    BY <1>2, <1>3, <1>8, <2>1, Stays
<1>10. K \in 1 .. K /\ K - 1 \in 0 .. K
  BY <1>2
<1> DEFINE v == w[K - 1]
<1>11. w[K] = Turned(g, v, b, R) /\ v \in W
  BY <1>8, <1>9, <1>10
<1> HIDE DEF v
<1>12. w[K][a][{}] = Visit(g, v, a, b, {})
  BY <1>2, <1>11 DEF Turned
<1> DEFINE t == Branches(v, g[a], {})
<1>13. Visit(g, v, a, b, {}) = t
  BY DEF Visit
<1>14. t \in Through(g, S, b, a, R)
  <2>1. Walks(g, S, b, R, v)
    BY <1>11 DEF W, Walkers
  <2>2. QED
    BY <1>2, <2>1, BranchesIn DEF IsGraph
<1> HIDE DEF t
<1>15. t.found
  BY <1>1, <1>12, <1>13
<1>16. QED
  BY <1>14, <1>15 DEF Through

LEMMA FoundDerives ==
  ASSUME NEW g, IsGraph(g), NEW a \in DOMAIN g, NEW b \in DOMAIN g, IsDerivedFrom(g, a, b).found
  PROVE  DerivesIn(g, a, b)
<1>1. a # b
  BY DEF IsDerivedFrom
<1>2. DerivedOrSelf(g, a, b).found
  BY <1>1 DEF IsDerivedFrom
<1>3. ASSUME NEW S \in SUBSET DOMAIN g, ToSet(g[a]) \cap DOMAIN g \subseteq S,
             \A x \in S : ToSet(g[x]) \cap DOMAIN g \subseteq S
      PROVE  b \in S
  <2>1. Closed(g, S)
    BY <1>3 DEF Closed
  <2>2. PICK p \in ToSet(g[a]) : Hits(g, S, b, p)
    BY <1>1, <1>2, <2>1, DerivedIs
  <2>3. QED
    BY <1>3, <2>2 DEF Hits
<1>4. QED
  BY <1>1, <1>3 DEF DerivesIn

----------------------------------------------------------------------------
(* A value of a type is what its text says. *)

Stands(spec, text, v) ==
  CASE spec[1].class = "int" -> v \in Int /\ v = IF text.neg THEN -Says(text) ELSE Says(text)
    [] spec[1].class = "decimal" ->
         v \in Int /\ v = (IF text.neg THEN -1 ELSE 1) * SaysDecimal(text, spec[1].digits)
    [] spec[1].class = "empty" -> FALSE
    [] OTHER -> v = text
Means(g, spec, text, v) ==
  /\ Stands(spec, text, v)
  /\ spec[1].class = "identities" =>
       \A i \in DOMAIN spec[1].bases : DerivesIn(g, text.name, spec[1].bases[i])
  /\ spec[1].class = "boolean" => text.name \in {"true", "false"}

\* What the reading of a text needs to know of a type.
Grounded(g, spec) ==
  /\ spec[1].class = "decimal" => spec[1].digits \in Nat
  /\ spec[1].class = "identities" => spec[1].bases \in Seq(DOMAIN g)

LEMMA ReadIs ==
  ASSUME NEW v
  PROVE  Read(v).val = <<v>> /\ Refused.val = <<>> /\ [Refused EXCEPT !.raised = TRUE].val = <<>>
  BY DEF Read, Refused

LEMMA IdentityMeans ==
  ASSUME NEW g, IsGraph(g), NEW spec, Grounded(g, spec), spec[1].class = "identities",
         NEW text, ReadIdentity(g, spec, text).val # <<>>
  PROVE  /\ ReadIdentity(g, spec, text).val = <<text>>
         /\ \A i \in DOMAIN spec[1].bases : DerivesIn(g, text.name, spec[1].bases[i])
<1> DEFINE bases == spec[1].bases
           rs == [i \in DOMAIN bases |-> IsDerivedFrom(g, text.name, bases[i])]
           bad == {i \in DOMAIN rs : ~rs[i].found}
<1>1. text.name \in DOMAIN g /\ bad = {} /\ ReadIdentity(g, spec, text) = Read(text)
  BY ReadIs DEF ReadIdentity
<1>2. ASSUME NEW i \in DOMAIN bases
      PROVE  DerivesIn(g, text.name, bases[i])
  <2>1. IsDerivedFrom(g, text.name, bases[i]).found
    BY <1>1
  <2>2. bases[i] \in DOMAIN g
    BY DEF Grounded
  <2> HIDE DEF bases
  <2>3. QED
    BY <1>1, <2>1, <2>2, FoundDerives
<1>3. QED
  BY <1>1, <1>2, ReadIs

LEMMA ReadMeans ==
  ASSUME NEW g, IsGraph(g), NEW spec, Grounded(g, spec), NEW text, IsText(text),
         StrToVal(g, spec, text).val # <<>>
  PROVE  \E v : StrToVal(g, spec, text).val = <<v>> /\ Means(g, spec, text, v)
<1> DEFINE c == spec[1].class
<1>1. CASE c = "int"
  <2> DEFINE v == ReadInt(text).val[1]
  <2>1. StrToVal(g, spec, text) = ReadInt(text)
    BY <1>1 DEF StrToVal
  <2>2. /\ ReadInt(text).val = <<v>>
        /\ v = IF text.neg THEN -Says(text) ELSE Says(text)
        /\ v \in Int
    BY <2>1, IntMeans
  <2> HIDE DEF v
  <2>3. Means(g, spec, text, v)
    BY <1>1, <2>2 DEF Means, Stands
  <2>4. QED
    BY <2>1, <2>2, <2>3
<1>2. CASE c = "decimal"
  <2> DEFINE fd == spec[1].digits
             v == ReadDecimal(fd, text).val[1]
  <2>1. StrToVal(g, spec, text) = ReadDecimal(fd, text) /\ fd \in Nat
    BY <1>2 DEF StrToVal, Grounded
  <2> HIDE DEF fd
  <2>2. /\ ReadDecimal(fd, text).val = <<v>>
        /\ v = (IF text.neg THEN -1 ELSE 1) * SaysDecimal(text, fd)
        /\ v \in Int
    BY <2>1, DecimalMeans
  <2> HIDE DEF v
  <2>3. Means(g, spec, text, v)
    BY <1>2, <2>2 DEF Means, Stands, fd
  <2>4. QED
    BY <2>1, <2>2, <2>3
<1>3. CASE c = "identities"
  <2>1. StrToVal(g, spec, text) = ReadIdentity(g, spec, text)
    BY <1>3 DEF StrToVal
  <2>2. /\ StrToVal(g, spec, text).val = <<text>>
        /\ \A i \in DOMAIN spec[1].bases : DerivesIn(g, text.name, spec[1].bases[i])
    BY <1>3, <2>1, IdentityMeans
  <2>3. Means(g, spec, text, text)
    BY <1>3, <2>2 DEF Means, Stands
  <2>4. QED
    BY <2>2, <2>3
<1>4. CASE c = "boolean"
  <2>1. StrToVal(g, spec, text) = Read(text) /\ text.name \in {"true", "false"}
    BY <1>4, ReadIs DEF StrToVal
  <2>2. Means(g, spec, text, text)
    BY <1>4, <2>1 DEF Means, Stands
  <2>3. QED
    BY <2>1, <2>2, ReadIs
<1>5. c # "empty"
  BY ReadIs DEF StrToVal
<1>6. CASE c \notin {"int", "decimal", "identities", "boolean", "empty"}
  <2>1. StrToVal(g, spec, text) = Read(text)
    BY <1>6 DEF StrToVal
  <2>2. Means(g, spec, text, text)
    BY <1>6 DEF Means, Stands
  <2>3. QED
    BY <2>1, <2>2, ReadIs
<1>7. QED
  BY <1>1, <1>2, <1>3, <1>4, <1>5, <1>6

Names(layer) == {layer.items[k][1] : k \in DOMAIN layer.items}
Nested(spec, class) ==
  \A i \in 2 .. Len(spec) :
    spec[i].class = class /\ spec[i].items # <<>> /\ Names(Last(spec)) \subseteq Names(spec[i])
Unbounded(layer) ==
  /\ layer.class \in {"int", "decimal"} => layer.min = IntMin /\ layer.max = IntMax
  /\ layer.class = "string" => layer.min = 0 /\ layer.max = MaxLength
Shape(g, spec) ==
  /\ IsSeq(spec) /\ Len(spec) >= 1
  /\ Grounded(g, spec)
  /\ spec[1].class \in {"int", "decimal", "string"} => Chain(spec) /\ Unbounded(spec[1])
  /\ spec[1].class = "enumeration" => Nested(spec, "enum")
  /\ spec[1].class = "bits" => Nested(spec, "bit")

\* A value that means what the text says and is taken by the type fits.
LEMMA FittingIs ==
  ASSUME NEW spec, Shape(graph, spec), NEW text, IsText(text), NEW v, Means(graph, spec, text, v),
         ValidAlone(spec, v), NEW L,
         spec[1].class \in {"int", "decimal", "string"} => \A w \in Int : NumberValid(spec, w) => w \in L
  PROVE  Fitting(spec, text, v, L)
<1> DEFINE c == spec[1].class
           n == Len(spec)
<1>0. n \in Nat /\ n >= 1 /\ Last(spec) = spec[n] /\ DOMAIN spec = 1 .. n
  BY AppendIs DEF Shape, Last
<1>1. c \in {"int", "decimal", "string"} => Last(spec).class \notin {"enum", "bit"}
  <2>1. c \in {"int", "decimal", "string"} => Chain(spec)
    BY DEF Shape
  <2>2. n = 1 \/ n \in 2 .. n
    BY <1>0
  <2>3. QED
    BY <1>0, <2>1, <2>2 DEF Chain
<1>2. CASE c = "int"
  <2>1. v \in Int /\ v = IF text.neg THEN -Says(text) ELSE Says(text)
    BY <1>2 DEF Means, Stands
  <2>2. NumberValid(spec, v)
    BY <1>1, <1>2 DEF ValidAlone
  <2>3. v \in L
    BY <1>2, <2>1, <2>2
  <2>4. QED
    BY <1>2, <2>1, <2>3 DEF Fitting
<1>3. CASE c = "decimal"
  <2>1. v \in Int /\ v = (IF text.neg THEN -1 ELSE 1) * SaysDecimal(text, spec[1].digits)
    BY <1>3 DEF Means, Stands
  <2>2. NumberValid(spec, v)
    BY <1>1, <1>3 DEF ValidAlone
  <2>3. v \in L
    BY <1>3, <2>1, <2>2
  <2>4. QED
    BY <1>3, <2>1, <2>3 DEF Fitting
<1>4. CASE c = "string"
  <2>1. v = text
    BY <1>4 DEF Means, Stands
  <2>2. /\ NumberValid(spec, text.len)
        /\ \A i \in DOMAIN spec : \A k \in DOMAIN spec[i].patterns : Matches(spec[i].patterns[k], text)
    BY <1>1, <1>4, <2>1 DEF ValidAlone
  <2>3. text.len \in L
    BY <1>4, <2>2 DEF IsText
  <2>4. AllPatterns(spec, text)
    BY <2>2 DEF AllPatterns, Matches
  <2>5. QED
    BY <1>4, <2>3, <2>4 DEF Fitting
<1>5. CASE c = "enumeration"
  <2>1. v = text
    BY <1>5 DEF Means, Stands
  <2>2. SUFFICES ASSUME NEW i \in 2 .. n
                 PROVE  \E k \in DOMAIN spec[i].items : spec[i].items[k][1] = text.name
    BY <1>5 DEF Fitting
  <2>3. Nested(spec, "enum") /\ n \in 2 .. n
    BY <1>0, <1>5, <2>2 DEF Shape
  <2>4. Last(spec).class = "enum" /\ Names(Last(spec)) \subseteq Names(spec[i])
    BY <1>0, <2>3 DEF Nested
  <2>5. text.name \in ItemNames(spec)
    BY <1>5, <2>1, <2>4 DEF ValidAlone
  <2>6. text.name \in Names(spec[i])
    BY <2>4, <2>5 DEF ItemNames, Names
  <2>7. QED
    BY <2>6 DEF Names
<1>6. CASE c = "bits"
  <2>1. v = text
    BY <1>6 DEF Means, Stands
  <2>2. SUFFICES ASSUME NEW i \in 2 .. n
                 PROVE  ToSet(text.words) \subseteq {spec[i].items[k][1] : k \in DOMAIN spec[i].items}
    BY <1>6 DEF Fitting
  <2>3. Nested(spec, "bit") /\ n \in 2 .. n
    BY <1>0, <1>6, <2>2 DEF Shape
  <2>4. Last(spec).class = "bit" /\ Names(Last(spec)) \subseteq Names(spec[i])
    BY <1>0, <2>3 DEF Nested
  <2>5. \A k \in DOMAIN text.words : text.words[k] \in ItemNames(spec)
    BY <1>6, <2>1, <2>4 DEF ValidAlone
  <2>6. \A k \in DOMAIN text.words : text.words[k] \in Names(spec[i])
    BY <2>4, <2>5 DEF ItemNames, Names
  <2>7. QED
    BY <2>6 DEF Names, ToSet
<1>7. CASE c = "identities"
  BY <1>7 DEF Means, Fitting, Derives
<1>8. CASE c = "boolean"
  BY <1>8 DEF Means, Fitting
<1>9. c # "empty"
  BY DEF Means, Stands
<1>10. CASE c \notin {"int", "decimal", "string", "enumeration", "bits", "identities", "boolean"}
  BY <1>9, <1>10 DEF Fitting
<1>11. QED
  BY <1>2, <1>3, <1>4, <1>5, <1>6, <1>7, <1>8, <1>10

----------------------------------------------------------------------------
(* Enums and bits: without an error, their names are names of the base. *)

Codes == {"TYPE_VALUE", "BAD_VALUE", "ENUM_VALUE", "DUPLICATE_VALUE", "DUPLICATE_NAME"}
\* Loop states in which the names are of the base, or that is an error.
Named(spec, N) ==
  {st \in [auto : Int, values : SUBSET Int, items : Seq(N \X Int), errs : SUBSET Codes] :
     "TYPE_VALUE" \notin st.errs /\ Last(spec).items # <<>> =>
       \A i \in DOMAIN st.items : st.items[i][1] \in ItemNames(spec)}
AssignedTo(a, lo, hi, spec, items) ==
  a = [k \in 0 .. Len(items) |-> IF k = 0 THEN Unassigned ELSE Assign(lo, hi, spec, a[k - 1], items[k])]

LEMMA AssignIn ==
  ASSUME NEW lo, NEW hi, NEW spec, NEW N, NEW st \in Named(spec, N),
         NEW item, item.name \in N, item.value \in Seq(Int)
  PROVE  /\ Assign(lo, hi, spec, st, item) \in Named(spec, N)
         /\ Assign(lo, hi, spec, st, item).items # <<>>
<1> DEFINE given == item.value # <<>>
           x == IF given THEN item.value[1] ELSE st.auto
           inside == lo <= x /\ x <= hi
           kept == inside \/ ~given
           old == ValueOf(spec, item.name)
           auto == IF kept THEN NextAuto(st.auto, x) ELSE st.auto
           values == IF kept THEN st.values \cup {x} ELSE st.values
           items == Append(st.items, <<item.name, x>>)
           strange == {e \in {"TYPE_VALUE"} : Last(spec).items # <<>> /\ item.name \notin ItemNames(spec)}
           bad == {e \in {"BAD_VALUE"} : given /\ old \notin {<<>>, <<x>>}}
           far == {e \in {"ENUM_VALUE"} : ~inside}
           twice == {e \in {"DUPLICATE_VALUE"} : given /\ inside /\ x \in st.values}
           same == {e \in {"DUPLICATE_NAME"} : \E i \in DOMAIN st.items : st.items[i][1] = item.name}
           errs == st.errs \cup strange \cup bad \cup far \cup twice \cup same
           t == [auto |-> auto, values |-> values, items |-> items, errs |-> errs]
<1>1. Assign(lo, hi, spec, st, item) = t
  BY DEF Assign
<1>2. /\ st.auto \in Int /\ st.values \in SUBSET Int /\ st.items \in Seq(N \X Int)
      /\ st.errs \in SUBSET Codes
      /\ "TYPE_VALUE" \notin st.errs /\ Last(spec).items # <<>> =>
           \A i \in DOMAIN st.items : st.items[i][1] \in ItemNames(spec)
  BY DEF Named
<1>3. x \in Int
  BY <1>2
<1> HIDE DEF inside, old
<1>4. strange \cup bad \cup far \cup twice \cup same \subseteq Codes
  BY DEF Codes
<1> HIDE DEF bad, far, twice, same, kept
<1>5. errs \in SUBSET Codes /\ st.errs \subseteq errs /\ strange \subseteq errs
  BY <1>2, <1>4
<1> HIDE DEF errs
<1>6. "TYPE_VALUE" \notin errs => "TYPE_VALUE" \notin st.errs
        /\ (Last(spec).items # <<>> => item.name \in ItemNames(spec))
  BY <1>5
<1> HIDE DEF strange, x
<1>7. auto \in Int /\ values \in SUBSET Int
  BY <1>2, <1>3 DEF NextAuto
<1> HIDE DEF auto, values
<1>8. /\ items \in Seq(N \X Int) /\ items # <<>>
      /\ \A i \in DOMAIN items : items[i][1] = item.name
                                 \/ (i \in DOMAIN st.items /\ items[i] = st.items[i])
  <2> DEFINE y == <<item.name, x>>
  <2>1. y \in N \X Int /\ y[1] = item.name
    BY <1>3
  <2> HIDE DEF y
  <2>2. /\ Len(st.items) \in Nat /\ DOMAIN st.items = 1 .. Len(st.items)
        /\ items \in Seq(N \X Int) /\ Len(items) = Len(st.items) + 1
        /\ DOMAIN items = 1 .. Len(st.items) + 1
        /\ \A i \in 1 .. Len(st.items) : items[i] = st.items[i]
        /\ items[Len(st.items) + 1] = y
    BY <1>2, <2>1 DEF y
  <2> HIDE DEF items
  <2>3. items # <<>>
    BY <2>2
  <2>4. \A i \in DOMAIN items : i = Len(st.items) + 1 \/ i \in 1 .. Len(st.items)
    BY <2>2
  <2>5. QED
    BY <2>1, <2>2, <2>3, <2>4
<1> HIDE DEF items
<1>9. /\ t \in [auto : Int, values : SUBSET Int, items : Seq(N \X Int), errs : SUBSET Codes]
      /\ t.errs = errs /\ t.items = items
  BY <1>5, <1>7, <1>8
<1> HIDE DEF t
<1>10. ASSUME "TYPE_VALUE" \notin errs, Last(spec).items # <<>>
       PROVE  \A i \in DOMAIN items : items[i][1] \in ItemNames(spec)
  BY <1>2, <1>6, <1>8, <1>10
<1>11. t \in Named(spec, N)
  BY <1>9, <1>10 DEF Named
<1>12. QED
  BY <1>1, <1>8, <1>9, <1>11

LEMMA AssignedIs ==
  ASSUME NEW lo, NEW hi, NEW spec, NEW items, AreItems(items), items # <<>>
  PROVE  LET r == Assigned(lo, hi, spec, items)
         IN /\ r.items # <<>>
            /\ r.errs = {} /\ Last(spec).items # <<>> =>
                 \A i \in DOMAIN r.items : r.items[i][1] \in ItemNames(spec)
<1> DEFINE n == Len(items)
           N == {i.name : i \in ToSet(items)}
           A == Named(spec, N)
           a == CHOOSE f : AssignedTo(f, lo, hi, spec, items)
           F == [k \in 1 .. n |-> [st \in A |-> Assign(lo, hi, spec, st, items[k])]]
           r == Assigned(lo, hi, spec, items)
<1>1. n \in Nat /\ n >= 1 /\ \A k \in 1 .. n : items[k].name \in N /\ items[k].value \in Seq(Int)
  <2>1. items \in Seq(ToSet(items)) /\ \A i \in ToSet(items) : i.value \in Seq(Int)
    BY DEF AreItems
  <2>2. n \in Nat /\ n >= 1 /\ \A k \in 1 .. n : items[k] \in ToSet(items)
    BY <2>1
  <2>3. QED
    BY <2>1, <2>2
<1>2. r = a[n]
  BY DEF Assigned, Along, AssignedTo
<1> HIDE DEF n, N, r
<1>3. Unassigned \in A
  BY DEF Unassigned, Named
<1>4. \A k \in 1 .. n : \A st \in A :
        /\ F[k][st] = Assign(lo, hi, spec, st, items[k]) /\ F[k][st] \in A
        /\ Assign(lo, hi, spec, st, items[k]).items # <<>>
  BY <1>1, AssignIn
<1> HIDE DEF F, A
<1>0. \A k \in 1 .. n : \A st \in A : F[k][st] \in A
  BY <1>4
<1>5. \E f : AssignedTo(f, lo, hi, spec, items)
  <2>1. PICK f : Folds(f, n, Unassigned, F) /\ \A k \in 0 .. n : f[k] \in A
    BY <1>0, <1>1, <1>3, Folding
  <2>2. ASSUME NEW k \in 0 .. n
        PROVE  k # 0 => F[k][f[k - 1]] = Assign(lo, hi, spec, f[k - 1], items[k])
    <3>1. k # 0 => k \in 1 .. n /\ k - 1 \in 0 .. n
      BY <1>1
    <3>2. QED
      BY <1>4, <2>1, <3>1
  <2>3. f = [k \in 0 .. n |-> IF k = 0 THEN Unassigned ELSE Assign(lo, hi, spec, f[k - 1], items[k])]
    BY <2>1, <2>2 DEF Folds
  <2>4. QED
    BY <2>3 DEF AssignedTo, n
<1>6. AssignedTo(a, lo, hi, spec, items)
  BY <1>5
<1> HIDE DEF a
<1>7. a[0] = Unassigned /\ \A k \in 1 .. n : a[k] = Assign(lo, hi, spec, a[k - 1], items[k])
  BY <1>1, <1>6 DEF AssignedTo, n
<1>8. \A k \in 0 .. n : a[k] \in A
  <2>1. \A k \in 1 .. n : a[k - 1] \in A => a[k] \in A
    BY <1>4, <1>7
  <2>2. QED
    BY <1>1, <1>3, <1>7, <2>1, Stays
<1>9. n \in 0 .. n /\ n \in 1 .. n /\ n - 1 \in 0 .. n
  BY <1>1
<1>10. r \in A /\ r.items # <<>>
  BY <1>2, <1>4, <1>7, <1>8, <1>9
<1>11. QED
  BY <1>10 DEF A, Named, r

----------------------------------------------------------------------------
(* A statement on layers that are not of numbers keeps their shape. *)

Whole(g, spec) ==
  /\ Shape(g, spec)
  /\ spec[1].class = "union" => \A i \in DOMAIN spec[1].members : Shape(g, spec[1].members[i])

\* s has come from the layers a0 of a type; no error means that they are whole.
Fair(s, a0, of) ==
  \E a, b : /\ s = St(a, b, No) /\ OtherSpec(a)
            /\ b = {} => Whole(graph, a) /\ (of \notin {"identityref", "union"} => a[1] = a0[1])

LEMMA NestedAppend ==
  ASSUME NEW a, IsSeq(a), Len(a) >= 1, NEW class, Nested(a, class), NEW x, x.class = class, x.items # <<>>,
         Last(a).items # <<>> => Names(x) \subseteq Names(Last(a))
  PROVE  Nested(Append(a, x), class)
<1> DEFINE t == Append(a, x)
           n == Len(a)
<1>1. /\ n \in Nat /\ n >= 1 /\ Len(t) = n + 1 /\ t[n + 1] = x
      /\ \A i \in 1 .. n : t[i] = a[i]
  BY AppendIs
<1>2. Last(t) = x /\ Last(a) = a[n]
  BY <1>1 DEF Last
<1> HIDE DEF t, n
<1>3. ASSUME NEW i \in 2 .. n + 1
      PROVE  t[i].class = class /\ t[i].items # <<>> /\ Names(x) \subseteq Names(t[i])
  <2>1. CASE i = n + 1
    BY <1>1, <2>1
  <2>2. CASE i # n + 1
    <3>1. i \in 2 .. n /\ n \in 2 .. n /\ i \in 1 .. n
      BY <1>1, <2>2
    <3>2. a[n].items # <<>> /\ a[i].class = class /\ a[i].items # <<>> /\ Names(a[n]) \subseteq Names(a[i])
      BY <1>2, <3>1 DEF Nested, n
    <3>3. QED
      BY <1>1, <1>2, <3>1, <3>2
  <2>3. QED
    BY <2>1, <2>2
<1>4. QED
  BY <1>1, <1>2, <1>3 DEF Nested, t

ItemKinds == {<<"enumeration", "enum">>, <<"bits", "bit">>}

LEMMA WholeAppend ==
  ASSUME NEW a, OtherSpec(a), Whole(graph, a), NEW kind, NEW class, <<kind, class>> \in ItemKinds,
         a[1].class = kind, NEW x, x.class = class, x.items # <<>>,
         Last(a).items # <<>> => Names(x) \subseteq Names(Last(a))
  PROVE  OtherSpec(Append(a, x)) /\ Whole(graph, Append(a, x)) /\ Append(a, x)[1] = a[1]
<1> DEFINE t == Append(a, x)
<1>1. OtherSpec(t)
  BY OtherIs
<1>2. t[1] = a[1]
  <2>1. 1 \in 1 .. Len(a)
    BY AppendIs DEF OtherSpec
  <2>2. QED
    BY <2>1, AppendIs DEF OtherSpec
<1>3. kind \in {"enumeration", "bits"} /\ (kind = "enumeration" => class = "enum")
        /\ (kind = "bits" => class = "bit")
  BY DEF ItemKinds
<1>4. Nested(a, class)
  BY <1>3 DEF Whole, Shape
<1>5. Nested(t, class)
  BY <1>4, NestedAppend DEF OtherSpec
<1> HIDE DEF t
<1>6. Whole(graph, t)
  BY <1>1, <1>2, <1>3, <1>5 DEF Whole, Shape, Grounded, OtherSpec
<1>7. QED
  BY <1>1, <1>2, <1>6 DEF t

\* A layer alone that is not of numbers, with what it refers to.
LEMMA WholeAlone ==
  ASSUME NEW x, x.class \in OtherClasses,
         x.class = "identities" => x.bases \in Seq(DOMAIN graph),
         x.class = "union" => \A i \in DOMAIN x.members : Shape(graph, x.members[i])
  PROVE  OtherSpec(<<x>>) /\ Whole(graph, <<x>>) /\ <<x>>[1] = x
<1> DEFINE a == <<x>>
<1>1. OtherSpec(a)
  BY OtherAlone
<1>2. a[1] = x /\ Len(a) = 1
  OBVIOUS
<1> HIDE DEF a
<1>3. x.class \notin {"int", "decimal", "string"}
  BY DEF OtherClasses
<1>4. \A class : Nested(a, class)
  BY <1>2 DEF Nested
<1>5. Whole(graph, a)
  BY <1>1, <1>2, <1>3, <1>4 DEF Whole, Shape, Grounded, OtherSpec
<1>6. QED
  BY <1>1, <1>2, <1>5 DEF a

LEMMA FairNoted ==
  ASSUME NEW a, OtherSpec(a), NEW b, NEW a0, NEW of, Fair(St(a, b, No), a0, of), NEW codes
  PROVE  Fair(St(a, b \cup codes, No), a0, of)
<1>1. PICK a1, b1 : /\ St(a, b, No) = St(a1, b1, No)
                    /\ b1 = {} => Whole(graph, a1) /\ (of \notin {"identityref", "union"} => a1[1] = a0[1])
  BY DEF Fair
<1>2. a1 = a /\ b1 = b
  BY <1>1, StIs
<1>3. b \cup codes = {} => b = {}
  OBVIOUS
<1>4. QED
  BY <1>1, <1>2, <1>3 DEF Fair

LEMMA FairParts ==
  ASSUME NEW s, NEW a0, NEW of, Fair(s, a0, of), NEW parts, NEW restriction \in {"range", "length"},
         NEW base, NEW r
  PROVE  Fair(CheckParts(s, parts, restriction, base, r), a0, of)
<1> DEFINE t == CheckParts(s, parts, restriction, base, r)
<1>1. PICK a, b : s = St(a, b, No) /\ OtherSpec(a)
  BY DEF Fair
<1>2. restriction \notin Restrictions(a)
  BY <1>1, OtherIs
<1>3. No \in {Yes, No}
  OBVIOUS
<1>4. ForeignCome(t, a, b, No, parts)
  BY <1>1, <1>2, <1>3, ForeignParts
<1> HIDE DEF t
<1>5. PICK codes : t = St(a, b \cup codes, No)
  BY <1>4 DEF ForeignCome
<1>6. QED
  BY <1>1, <1>5, FairNoted DEF t

LEMMA FairPattern ==
  ASSUME NEW s, NEW a0, NEW of, Fair(s, a0, of), NEW stmt
  PROVE  Fair(CheckPattern(s, stmt), a0, of)
<1> DEFINE t == CheckPattern(s, stmt)
<1>1. PICK a, b : s = St(a, b, No) /\ OtherSpec(a)
  BY DEF Fair
<1>2. "pattern" \notin Restrictions(a)
  BY <1>1, OtherIs
<1>3. Noted(t, a, b, No)
  BY <1>1, <1>2, PatternNotes
<1> HIDE DEF t
<1>4. PICK codes : t = St(a, b \cup codes, No)
  BY <1>3 DEF Noted
<1>5. QED
  BY <1>1, <1>4, FairNoted DEF t

LEMMA FairBase ==
  ASSUME NEW s, NEW a0, NEW of, Fair(s, a0, of), NEW stmt, IsStatement(stmt)
  PROVE  Fair(CheckBase(s, stmt, of), a0, of)
<1> DEFINE t == CheckBase(s, stmt, of)
           found == Existing(graph, stmt.bases)
           x == [Layer("identities") EXCEPT !.bases = found]
           new == <<x>>
           codes == {e \in {"IDENTITY_NOT_FOUND"} : found # stmt.bases}
           changed == [Note(s, codes) EXCEPT !.spec = IF found = <<>> THEN @ ELSE new]
<1>1. PICK a, b : s = St(a, b, No) /\ OtherSpec(a)
  BY DEF Fair
<1>2. \/ t = s
      \/ \E more : t = Note(s, more)
      \/ t = changed /\ stmt.bases # <<>> /\ of = "identityref"
  BY DEF CheckBase
<1>3. \A more : Note(s, more) = St(a, b \cup more, No)
  BY <1>1, NoteIs
<1>4. x.class = "identities" /\ x.bases = found
  BY DEF Layer
<1>5. found \in Seq(DOMAIN graph)
  BY ExistingIs DEF IsStatement
<1> HIDE DEF x, found
<1>6. OtherSpec(new) /\ Whole(graph, new)
  BY <1>4, <1>5, WholeAlone DEF OtherClasses
<1> HIDE DEF t
<1>7. stmt.bases # <<>> /\ of = "identityref" => Fair(changed, a0, of)
  <2>1. Note(s, codes) = St(a, b \cup codes, No)
    BY <1>3
  <2>2. \A y : [St(a, b \cup codes, No) EXCEPT !.spec = y] = St(y, b \cup codes, No)
    BY DEF St
  <2>3. b \cup codes = {} /\ stmt.bases # <<>> => found # <<>>
    OBVIOUS
  <2> HIDE DEF new, codes
  <2>4. CASE found = <<>>
    <3>1. changed = St(a, b \cup codes, No)
      BY <2>1, <2>4 DEF St
    <3>2. QED
      BY <1>1, <2>3, <2>4, <3>1 DEF Fair
  <2>5. CASE found # <<>>
    <3>1. changed = St(new, b \cup codes, No)
      BY <2>1, <2>2, <2>5
    <3>2. QED
      BY <1>6, <3>1 DEF Fair
  <2>6. QED
    BY <2>4, <2>5
<1> HIDE DEF changed
<1>8. ASSUME NEW more, t = Note(s, more)
      PROVE  Fair(t, a0, of)
  <2>1. t = St(a, b \cup more, No)
    BY <1>3, <1>8
  <2>2. QED
    BY <1>1, <2>1, FairNoted
<1>9. QED
  BY <1>2, <1>7, <1>8 DEF t

LEMMA RestrictedYes ==
  ASSUME NEW a, NEW b, NEW c, NEW codes, NEW layer
  PROVE  Restricted(St(a, b, c), codes, Yes, layer) = St(Append(a, layer), b \cup codes, c)
<1>1. Note(St(a, b, c), codes) = St(a, b \cup codes, c)
  BY NoteIs
<1> DEFINE t == St(a, b \cup codes, c)
<1>2. Restricted(St(a, b, c), codes, Yes, layer) = [t EXCEPT !.spec = Append(@, layer)]
  BY <1>1, Zenon DEF Restricted, Yes
<1>3. \A y : [t EXCEPT !.spec = y] = St(y, b \cup codes, c)
  BY DEF St
<1>4. t.spec = a
  BY StIs
<1> HIDE DEF t
<1>5. QED
  BY <1>2, <1>3, <1>4

LEMMA FairItems ==
  ASSUME NEW s, NEW a0, NEW of, Fair(s, a0, of), NEW items,
         NEW kind, NEW class, <<kind, class>> \in ItemKinds,
         NEW restriction, \A a : restriction \in Restrictions(a) => a[1].class = kind,
         NEW r, items # <<>> => /\ r.items # <<>>
                                /\ r.errs = {} /\ Last(s.spec).items # <<>> =>
                                     \A i \in DOMAIN r.items : r.items[i][1] \in ItemNames(s.spec)
  PROVE  Fair(CheckItems(s, items, class, restriction, kind, of, r), a0, of)
<1> DEFINE t == CheckItems(s, items, class, restriction, kind, of, r)
           x == [Layer(class) EXCEPT !.items = r.items]
<1>1. PICK a, b : /\ s = St(a, b, No) /\ OtherSpec(a)
                  /\ b = {} => Whole(graph, a) /\ (of \notin {"identityref", "union"} => a[1] = a0[1])
  BY DEF Fair
<1>2. s.spec = a
  BY <1>1, StIs
<1>3. \/ t = s
      \/ \E more : t = Note(s, more)
      \/ /\ t = Restricted(s, r.errs, Yes, x)
         /\ items # <<>> /\ restriction \in Restrictions(a)
  BY <1>2 DEF CheckItems, Yes
<1>4. \A more : Note(s, more) = St(a, b \cup more, No)
  BY <1>1, NoteIs
<1>5. Restricted(s, r.errs, Yes, x) = St(Append(a, x), b \cup r.errs, No)
  <2> HIDE DEF x
  <2>1. QED
    BY <1>1, RestrictedYes
<1>6. x.class = class /\ x.items = r.items
  BY DEF Layer
<1> HIDE DEF t, x
<1>7. ASSUME items # <<>>, restriction \in Restrictions(a)
      PROVE  Fair(St(Append(a, x), b \cup r.errs, No), a0, of)
  <2>1. a[1].class = kind /\ x.items # <<>>
    BY <1>6, <1>7
  <2>2. OtherSpec(Append(a, x))
    BY <1>1, OtherIs
  <2>3. ASSUME b \cup r.errs = {}
        PROVE  Whole(graph, Append(a, x)) /\ Append(a, x)[1] = a[1]
    <3>1. b = {} /\ r.errs = {}
      BY <2>3
    <3>2. Last(a).items # <<>> => Names(x) \subseteq Names(Last(a))
      BY <1>2, <1>6, <1>7, <3>1 DEF Names, ItemNames
    <3>3. QED
      BY <1>1, <1>6, <2>1, <3>1, <3>2, WholeAppend
  <2>4. b \cup r.errs = {} => b = {}
    OBVIOUS
  <2>5. QED
    BY <1>1, <2>2, <2>3, <2>4 DEF Fair
<1>8. ASSUME NEW more, t = Note(s, more)
      PROVE  Fair(t, a0, of)
  <2>1. t = St(a, b \cup more, No)
    BY <1>4, <1>8
  <2>2. QED
    BY <1>1, <2>1, FairNoted
<1>9. QED
  BY <1>3, <1>5, <1>7, <1>8 DEF t

LEMMA FairEnum ==
  ASSUME NEW s, NEW a0, NEW of, Fair(s, a0, of), NEW stmt, IsStatement(stmt)
  PROVE  Fair(CheckEnum(s, stmt, of), a0, of)
<1>1. \A a : "enum" \in Restrictions(a) => a[1].class = "enumeration"
  BY DEF Restrictions
<1>2. <<"enumeration", "enum">> \in ItemKinds
  BY DEF ItemKinds
<1> DEFINE r == validate_enums(s.spec, stmt.enums)
<1>3. stmt.enums # <<>> => /\ r.items # <<>>
                           /\ r.errs = {} /\ Last(s.spec).items # <<>> =>
                                \A i \in DOMAIN r.items : r.items[i][1] \in ItemNames(s.spec)
  BY AssignedIs DEF IsStatement, validate_enums
<1> HIDE DEF r
<1>4. Fair(CheckItems(s, stmt.enums, "enum", "enum", "enumeration", of, r), a0, of)
  BY <1>1, <1>2, <1>3, FairItems
<1>5. QED
  BY <1>4 DEF CheckEnum, r

LEMMA FairBits ==
  ASSUME NEW s, NEW a0, NEW of, Fair(s, a0, of), NEW stmt, IsStatement(stmt)
  PROVE  Fair(CheckBits(s, stmt, of), a0, of)
<1>1. \A a : "bit" \in Restrictions(a) => a[1].class = "bits"
  BY DEF Restrictions
<1>2. <<"bits", "bit">> \in ItemKinds
  BY DEF ItemKinds
<1> DEFINE r == validate_bits(s.spec, stmt.bits)
<1>3. stmt.bits # <<>> => /\ r.items # <<>>
                          /\ r.errs = {} /\ Last(s.spec).items # <<>> =>
                               \A i \in DOMAIN r.items : r.items[i][1] \in ItemNames(s.spec)
  BY AssignedIs DEF IsStatement, validate_bits
<1> HIDE DEF r
<1>4. Fair(CheckItems(s, stmt.bits, "bit", "bit", "bits", of, r), a0, of)
  BY <1>1, <1>2, <1>3, FairItems
<1>5. QED
  BY <1>4 DEF CheckBits, r

----------------------------------------------------------------------------
(* The members of a union, and a whole statement. *)

LEMMA FairUnion ==
  ASSUME NEW s, NEW a0, NEW of, Fair(s, a0, of), NEW stmt, NEW rs,
         \A i \in DOMAIN rs : rs[i].errs = {} => Shape(graph, rs[i].spec)
  PROVE  Fair(CheckUnion(s, stmt, of, rs), a0, of)
<1> DEFINE t == CheckUnion(s, stmt, of, rs)
           old == version1 /\ \E i \in DOMAIN rs : stmt.members[i].of \in {"empty", "leafref"}
           codes == (UNION {rs[i].errs : i \in DOMAIN rs}) \cup {e \in {"BAD_TYPE_IN_UNION"} : old}
           x == [Layer("union") EXCEPT !.members = [i \in DOMAIN rs |-> rs[i].spec]]
           n == Note(s, codes)
<1>1. PICK a, b : s = St(a, b, No) /\ OtherSpec(a)
  BY DEF Fair
<1>2. \A more : Note(s, more) = St(a, b \cup more, No)
  BY <1>1, NoteIs
<1>3. \/ t = s
      \/ \E more : t = Note(s, more)
      \/ t = [n EXCEPT !.spec = <<x>>] /\ of = "union"
  BY DEF CheckUnion
<1>4. x.class = "union" /\ x.members = [i \in DOMAIN rs |-> rs[i].spec]
  BY DEF Layer
<1>5. \A i \in DOMAIN rs : rs[i].errs \subseteq codes
  OBVIOUS
<1> HIDE DEF t, x, codes
<1>6. n = St(a, b \cup codes, No)
  BY <1>2
<1> HIDE DEF n
<1>7. [n EXCEPT !.spec = <<x>>] = St(<<x>>, b \cup codes, No)
  BY <1>6 DEF St
<1>8. OtherSpec(<<x>>)
  BY <1>4, OtherAlone DEF OtherClasses
<1>9. ASSUME codes = {}
      PROVE  Whole(graph, <<x>>)
  <2>1. DOMAIN x.members = DOMAIN rs /\ \A i \in DOMAIN rs : x.members[i] = rs[i].spec
    BY <1>4
  <2>2. \A i \in DOMAIN rs : rs[i].errs = {}
    BY <1>5, <1>9
  <2>3. \A i \in DOMAIN x.members : Shape(graph, x.members[i])
    BY <2>1, <2>2
  <2>4. QED
    BY <1>4, <2>3, WholeAlone DEF OtherClasses
<1>10. b \cup codes = {} => codes = {}
  OBVIOUS
<1>11. of = "union" => Fair(St(<<x>>, b \cup codes, No), a0, of)
  BY <1>8, <1>9, <1>10 DEF Fair
<1>12. ASSUME NEW more, t = Note(s, more)
       PROVE  Fair(t, a0, of)
  <2>1. t = St(a, b \cup more, No)
    BY <1>2, <1>12
  <2>2. QED
    BY <1>1, <2>1, FairNoted
<1>13. QED
  BY <1>3, <1>7, <1>11, <1>12 DEF t

\* The checks before those of a union.
Alone(s, stmt, of) ==
  CheckBits(CheckEnum(CheckBase(CheckPattern(CheckLength(CheckRange(s, stmt), stmt), stmt),
                                stmt, of), stmt, of), stmt, of)

LEMMA FairAlone ==
  ASSUME NEW s, NEW a0, NEW of, Fair(s, a0, of), NEW stmt, IsStatement(stmt)
  PROVE  Fair(Alone(s, stmt, of), a0, of)
<1> DEFINE s1 == CheckRange(s, stmt)
           s2 == CheckLength(s1, stmt)
           s3 == CheckPattern(s2, stmt)
           s4 == CheckBase(s3, stmt, of)
           s5 == CheckEnum(s4, stmt, of)
           s6 == CheckBits(s5, stmt, of)
<1>1. Alone(s, stmt, of) = s6
  BY DEF Alone
<1>2. Fair(s1, a0, of)
  BY FairParts DEF CheckRange
<1> HIDE DEF s1
<1>3. Fair(s2, a0, of)
  BY <1>2, FairParts DEF CheckLength
<1> HIDE DEF s2
<1>4. Fair(s3, a0, of)
  BY <1>3, FairPattern
<1> HIDE DEF s3
<1>5. Fair(s4, a0, of)
  BY <1>4, FairBase
<1> HIDE DEF s4
<1>6. Fair(s5, a0, of)
  BY <1>5, FairEnum
<1> HIDE DEF s5
<1>7. Fair(s6, a0, of)
  BY <1>6, FairBits
<1> HIDE DEF s6
<1>8. QED
  BY <1>1, <1>7

LEMMA AloneMember ==
  ASSUME NEW m
  PROVE  MemberType(m) = Alone(CheckFraction(St(yang_type_specs(m.of), {}, No), m.stmt, m.of), m.stmt, m.of)
  BY DEF MemberType, TypeAlone, Alone, St, No

LEMMA AloneNumbers ==
  ASSUME NEW s, NEW stmt, NEW of, of # "union"
  PROVE  AfterFraction(s, stmt, of, <<>>) = Alone(s, stmt, of)
  BY DEF AfterFraction, AfterPattern, Alone, CheckUnion

\* A chain of numbers has the shape of one when its first layer has.
LEMMA NumberShape ==
  ASSUME NEW spec, Chain(spec), Unbounded(spec[1]),
         spec[1].class = "decimal" => spec[1].digits \in Nat
  PROVE  Shape(graph, spec)
  BY DEF Chain, Shape, Grounded

LEMMA FirstShapes ==
  /\ Unbounded(IntSpec) /\ IntSpec.class = "int"
  /\ Unbounded(StringSpec) /\ StringSpec.class = "string"
  /\ \A fd : Unbounded(DecimalSpec(fd)) /\ DecimalSpec(fd).class = "decimal" /\ DecimalSpec(fd).digits = fd
  BY DEF Unbounded, IntSpec, StringSpec, DecimalSpec, Layer

LEMMA MemberNumbers ==
  ASSUME NEW x, Chain(<<x>>), <<x>>[1] = x, Unbounded(x), x.class = "decimal" => x.digits \in Nat,
         NEW b, Mild(b), NEW stmt, NEW of \in {"int", "string", "decimal64"}
  PROVE  Shape(graph, Alone(St(<<x>>, b, No), stmt, of).spec)
<1> DEFINE a == <<x>>
           u == Alone(St(a, b, No), stmt, of)
<1>1. a[1] = x /\ Chain(a)
  OBVIOUS
<1> HIDE DEF a
<1>2. of \notin ItemTypes /\ of # "union"
  BY DEF ItemTypes
<1>3. NumberCome(u, a, stmt)
  <2>1. NumberCome(AfterFraction(St(a, b, No), stmt, of, <<>>), a, stmt)
    BY <1>1, <1>2, NumberStatement
  <2>2. QED
    BY <1>2, <2>1, AloneNumbers
<1> HIDE DEF u
<1>4. Chain(u.spec) /\ u.spec[1] = x
  BY <1>1, <1>3 DEF NumberCome
<1>5. Shape(graph, u.spec)
  BY <1>4, NumberShape
<1>6. QED
  BY <1>5 DEF u, a

\* A state that is fair and has no error has the shape of its type.
LEMMA FairShape ==
  ASSUME NEW s, NEW a0, NEW of, Fair(s, a0, of), s.errs = {}
  PROVE  /\ OtherSpec(s.spec) /\ Whole(graph, s.spec) /\ Shape(graph, s.spec)
         /\ of \notin {"identityref", "union"} => s.spec[1] = a0[1]
<1>1. PICK a, b : /\ s = St(a, b, No) /\ OtherSpec(a)
                  /\ b = {} => Whole(graph, a) /\ (of \notin {"identityref", "union"} => a[1] = a0[1])
  BY DEF Fair
<1>2. s.spec = a /\ b = {}
  BY <1>1, StIs
<1>3. QED
  BY <1>1, <1>2 DEF Whole

\* The start of a type that is not of numbers.
LEMMA FairStart ==
  ASSUME NEW of \in OtherClasses, NEW b, of \in {"decimal64"} => b # {}
  PROVE  Fair(St(<<Layer(of)>>, b, No), <<Layer(of)>>, of)
<1> DEFINE x == Layer(of)
<1>1. x.class = of /\ x.bases = <<>> /\ x.members = <<>>
  BY DEF Layer
<1> HIDE DEF x
<1>2. x.bases \in Seq(DOMAIN graph) /\ DOMAIN x.members = {}
  BY <1>1
<1>3. OtherSpec(<<x>>) /\ Whole(graph, <<x>>)
  BY <1>1, <1>2, WholeAlone
<1>4. QED
  BY <1>3 DEF Fair, x

LEMMA MemberShape ==
  ASSUME NEW m, m.of \in TypeNames \cup {"leafref"}, IsStatement(m.stmt), MemberType(m).errs = {}
  PROVE  Shape(graph, MemberType(m).spec)
<1> DEFINE of == m.of
           stmt == m.stmt
           s0 == CheckFraction(St(yang_type_specs(of), {}, No), stmt, of)
<1>1. MemberType(m) = Alone(s0, stmt, of)
  BY AloneMember
<1>2. ASSUME of # "decimal64"
      PROVE  \E codes : Mild(codes) /\ s0 = St(yang_type_specs(of), codes, No)
  <2>1. Noted(s0, yang_type_specs(of), {}, No)
    BY <1>2, FractionNotes
  <2> HIDE DEF s0, of
  <2>2. PICK codes : Mild(codes) /\ s0 = St(yang_type_specs(of), {} \cup codes, No)
    BY <2>1 DEF Noted
  <2>3. {} \cup codes = codes
    OBVIOUS
  <2>4. QED
    BY <2>2, <2>3
<1>3. CASE of = "int"
  <2>1. PICK codes : Mild(codes) /\ s0 = St(<<IntSpec>>, codes, No)
    BY <1>2, <1>3 DEF yang_type_specs
  <2>2. Shape(graph, Alone(St(<<IntSpec>>, codes, No), stmt, of).spec)
    BY <1>3, <2>1, IntStart, FirstShapes, AloneIs, MemberNumbers
  <2> HIDE DEF s0
  <2>3. QED
    BY <1>1, <2>1, <2>2
<1>4. CASE of = "string"
  <2>1. PICK codes : Mild(codes) /\ s0 = St(<<StringSpec>>, codes, No)
    BY <1>2, <1>4 DEF yang_type_specs
  <2>2. Shape(graph, Alone(St(<<StringSpec>>, codes, No), stmt, of).spec)
    BY <1>4, <2>1, StringStart, FirstShapes, AloneIs, MemberNumbers
  <2> HIDE DEF s0
  <2>3. QED
    BY <1>1, <2>1, <2>2
<1>5. CASE of = "decimal64" /\ stmt.fd # 0
  <2> DEFINE x == DecimalSpec(stmt.fd)
  <2>1. s0 = St(<<x>>, {}, No)
    BY <1>5, OwnFraction
  <2>2. x.class = "decimal" /\ x.digits = stmt.fd /\ Unbounded(x) /\ Chain(<<x>>)
    BY FirstShapes, DecimalStart
  <2>3. stmt.fd \in Nat /\ Mild({})
    BY DEF IsStatement, Mild
  <2> HIDE DEF x, s0
  <2>4. <<x>>[1] = x
    OBVIOUS
  <2>5. Shape(graph, Alone(St(<<x>>, {}, No), stmt, of).spec)
    BY <1>5, <2>2, <2>3, <2>4, MemberNumbers
  <2>6. QED
    BY <1>1, <2>1, <2>5
<1>6. CASE of \in OtherClasses /\ ~(of = "decimal64" /\ stmt.fd # 0)
  <2> DEFINE a0 == <<Layer(of)>>
  <2>1. yang_type_specs(of) = a0
    BY <1>6 DEF yang_type_specs, OtherClasses
  <2>2. PICK codes : s0 = St(a0, codes, No) /\ (of = "decimal64" => codes # {})
    <3>1. CASE of # "decimal64"
      BY <1>2, <2>1, <3>1
    <3>2. CASE of = "decimal64"
      <4>1. s0 = St(a0, {} \cup {"MISSING_TYPE_SPEC"}, No)
        BY <1>6, <2>1, <3>2, NoFraction
      <4> HIDE DEF s0, a0
      <4>2. {} \cup {"MISSING_TYPE_SPEC"} # {}
        OBVIOUS
      <4>3. QED
        BY <4>1, <4>2
    <3>3. QED
      BY <3>1, <3>2
  <2>3. Fair(St(a0, codes, No), a0, of)
    BY <1>6, <2>2, FairStart
  <2> HIDE DEF s0, a0
  <2>4. Fair(MemberType(m), a0, of)
    BY <1>1, <2>2, <2>3, FairAlone
  <2>5. QED
    BY <2>4, FairShape
<1>7. of \in {"int", "string", "decimal64"} \cup OtherClasses
  BY DEF TypeNames, OtherClasses
<1>8. "decimal64" \in OtherClasses
  BY DEF OtherClasses
<1> HIDE DEF s0, of, stmt
<1>9. QED
  BY <1>3, <1>4, <1>5, <1>6, <1>7, <1>8

\* A whole statement on layers that are not of numbers.
LEMMA FairStatement ==
  ASSUME NEW s, NEW a0, NEW of, Fair(s, a0, of), NEW stmt, IsStatement(stmt),
         \A i \in DOMAIN stmt.members : stmt.members[i].of \in TypeNames \cup {"leafref"}
                                        /\ IsStatement(stmt.members[i].stmt)
  PROVE  Fair(AfterFraction(s, stmt, of, Members(stmt)), a0, of)
<1> DEFINE rs == Members(stmt)
           t == Alone(s, stmt, of)
<1>1. AfterFraction(s, stmt, of, rs) = CheckUnion(t, stmt, of, rs)
  BY DEF AfterFraction, AfterPattern, Alone
<1>2. Fair(t, a0, of)
  BY FairAlone
<1>3. \A i \in DOMAIN rs : rs[i].errs = {} => Shape(graph, rs[i].spec)
  <2>1. DOMAIN rs = DOMAIN stmt.members /\ \A i \in DOMAIN rs : rs[i] = MemberType(stmt.members[i])
    BY DEF Members
  <2> HIDE DEF rs
  <2>2. QED
    BY <2>1, MemberShape
<1> HIDE DEF rs, t
<1>4. Fair(CheckUnion(t, stmt, of, rs), a0, of)
  BY <1>2, <1>3, FairUnion
<1>5. QED
  BY <1>1, <1>4 DEF rs

----------------------------------------------------------------------------
(* What the three statements around a type make of a default. *)

\* A value that is taken from a text, or from before, without an error.
Taken(spec, text, val) ==
  /\ \/ text = <<>> /\ val = type.default
     \/ \E t : IsText(t) /\ text = <<t>> /\ val = StrToVal(graph, spec, t).val
  /\ val # <<>> => Valid(graph, spec, val[1])
\* The default after a step; a node has none that is under if-feature.
Took(spec) ==
  /\ \E text : /\ type'.text = IF text = <<>> THEN type.text ELSE text
               /\ Taken(spec, text, type'.default)
  /\ node' # "none" => CheckDefault(type'.conditional, type'.default) = {}

LEMMA ValidIfNone ==
  ASSUME NEW spec, NEW val, Invalid(spec, val) = {}
  PROVE  val # <<>> => Valid(graph, spec, val[1])
  BY DEF Invalid

LEMMA GivenIs ==
  ASSUME NEW spec, NEW t
  PROVE  /\ Given(spec, t).val = StrToVal(graph, spec, t).val
         /\ Given(spec, t).errs = {} => Invalid(spec, Given(spec, t).val) = {}
<1> DEFINE r == StrToVal(graph, spec, t)
           codes == {e \in {"TYPE_VALUE"} : r.err}
           wrong == Invalid(spec, r.val)
<1>1. Given(spec, t) = [val |-> r.val, errs |-> codes \cup wrong, raised |-> r.raised]
  BY DEF Given
<1> HIDE DEF r, codes, wrong
<1>2. Given(spec, t).val = r.val /\ Given(spec, t).errs = codes \cup wrong
  BY <1>1
<1>3. codes \cup wrong = {} => wrong = {}
  OBVIOUS
<1>4. QED
  BY <1>2, <1>3 DEF r, wrong

LEMMA InheritedIs ==
  ASSUME NEW spec, NEW val
  PROVE  Inherited(spec, val).val = val /\ Inherited(spec, val).errs = Invalid(spec, val)
  BY DEF Inherited

LEMMA DefaultTakes ==
  ASSUME NEW spec, NEW text, text = <<>> \/ \E t : text = <<t>> /\ IsText(t),
         Default(spec, text).errs = {}
  PROVE  Taken(spec, text, Default(spec, text).val)
<1>1. CASE text = <<>>
  <2>1. Default(spec, text) = Inherited(spec, type.default)
    BY <1>1 DEF Default
  <2>2. QED
    BY <1>1, <2>1, InheritedIs, ValidIfNone DEF Taken
<1>2. ASSUME NEW t, text = <<t>>, IsText(t)
      PROVE  Taken(spec, text, Default(spec, text).val)
  <2>1. Default(spec, text) = Given(spec, t)
    BY <1>2 DEF Default
  <2>2. Given(spec, t).val = StrToVal(graph, spec, t).val /\ Invalid(spec, Given(spec, t).val) = {}
    BY <2>1, GivenIs
  <2>3. QED
    BY <1>2, <2>1, <2>2, ValidIfNone DEF Taken
<1>3. QED
  BY <1>1, <1>2

LEMMA StepTakes ==
  ASSUME NEW stmt, NEW s, NEW text, NEW default, NEW abort, NEW errs,
         Step(stmt, s, text, default, abort, errs)
  PROVE  /\ type'.default = default
         /\ type'.text = IF text = <<>> THEN type.text ELSE text
         /\ graph' = graph
         /\ Sound' => errs = {}
<1>1. errors' = {} => errs = {}
  BY DEF Step
<1>2. Sound' => errs = {}
  BY <1>1 DEF Sound
<1>3. QED
  BY <1>2 DEF Step

LEMMA TypedefTakes ==
  ASSUME NEW stmt, NEW s, NEW text, text = <<>> \/ \E t : text = <<t>> /\ IsText(t),
         node = "none", Typedef(stmt, s, text)
  PROVE  graph' = graph /\ (Sound' => Took(s.spec))
<1> DEFINE d == Default(s.spec, text)
<1>1. Step(stmt, s, text, d.val, d.raised, d.errs) /\ node' = "none"
  BY DEF Typedef
<1> HIDE DEF d
<1>2. /\ type'.default = d.val /\ graph' = graph /\ (Sound' => d.errs = {})
      /\ type'.text = IF text = <<>> THEN type.text ELSE text
  BY <1>1, StepTakes
<1>3. d.errs = {} => Taken(s.spec, text, d.val)
  BY DefaultTakes DEF d
<1>4. QED
  BY <1>1, <1>2, <1>3 DEF Took

LEMMA LeafTakes ==
  ASSUME NEW stmt, NEW s, NEW text, text = <<>> \/ \E t : text = <<t>> /\ IsText(t),
         NEW mandatory, Leaf(stmt, s, text, mandatory)
  PROVE  graph' = graph /\ (Sound' => Took(s.spec))
<1> DEFINE d == Default(s.spec, text)
           under == CheckDefault(type'.conditional, d.val)
           both == {e \in {"DEFAULT_AND_MANDATORY"} : text # <<>> /\ mandatory}
           errs == d.errs \cup under \cup both
<1>1. Step(stmt, s, text, d.val, d.raised, errs)
  BY DEF Leaf
<1> HIDE DEF d, under, both
<1>2. errs = {} => d.errs = {} /\ under = {}
  OBVIOUS
<1> HIDE DEF errs
<1>3. /\ type'.default = d.val /\ graph' = graph /\ (Sound' => errs = {})
      /\ type'.text = IF text = <<>> THEN type.text ELSE text
  BY <1>1, StepTakes
<1>4. d.errs = {} => Taken(s.spec, text, d.val)
  BY DefaultTakes DEF d
<1>5. QED
  BY <1>2, <1>3, <1>4 DEF Took, under

LEMMA LeafListTakes ==
  ASSUME NEW stmt, NEW s, NEW T, \A t \in T : IsText(t), NEW texts \in Seq(T), NEW min, NEW max,
         LeafList(stmt, s, texts, min, max)
  PROVE  graph' = graph /\ (Sound' => Took(s.spec))
<1> DEFINE given == [i \in DOMAIN texts |-> Given(s.spec, texts[i])]
           read == {i \in DOMAIN texts : given[i].val # <<>>}
           wrong == min > (IF read = {} THEN max ELSE 0)
           own == IF read # {} THEN {given[i] : i \in read}
                  ELSE IF wrong THEN {} ELSE {Inherited(s.spec, type.default)}
           text == IF read = {} THEN <<>> ELSE <<texts[Min(read)]>>
           val == IF read # {} THEN given[Min(read)].val ELSE IF wrong THEN <<>> ELSE type.default
           abort == \E i \in DOMAIN texts : given[i].raised
           those == UNION {given[i].errs : i \in DOMAIN texts}
           these == UNION {d.errs : d \in own}
           some == {e \in {"DEFAULT_AND_MIN_ELEMENTS"} : read # {} /\ min > 0}
           none == {e \in {"MAX_ELEMENTS_AND_MIN_ELEMENTS"} : read = {} /\ min > max}
           under == IF wrong THEN {} ELSE UNION {CheckDefault(type'.conditional, d.val) : d \in own}
           errs == those \cup these \cup some \cup none \cup under
<1>1. Step(stmt, s, text, val, abort, errs)
  <2> DEFINE Of1(g) == {i \in DOMAIN texts : g[i].val # <<>>}
             TooFew(r) == min > (IF r = {} THEN max ELSE 0)
             Own1(g, r) == IF r # {} THEN {g[i] : i \in r}
                           ELSE IF TooFew(r) THEN {} ELSE {Inherited(s.spec, type.default)}
             Stepped(g, r) ==
               Step(stmt, s, IF r = {} THEN <<>> ELSE <<texts[Min(r)]>>,
                    IF r # {} THEN g[Min(r)].val ELSE IF TooFew(r) THEN <<>> ELSE type.default,
                    \E i \in DOMAIN texts : g[i].raised,
                    (UNION {g[i].errs : i \in DOMAIN texts}) \cup (UNION {d.errs : d \in Own1(g, r)})
                      \cup {e \in {"DEFAULT_AND_MIN_ELEMENTS"} : r # {} /\ min > 0}
                      \cup {e \in {"MAX_ELEMENTS_AND_MIN_ELEMENTS"} : r = {} /\ min > max}
                      \cup (IF TooFew(r) THEN {}
                            ELSE UNION {CheckDefault(type'.conditional, d.val) : d \in Own1(g, r)}))
  <2>1. \E g \in {[i \in DOMAIN texts |-> Given(s.spec, texts[i])]} : \E r \in {Of1(g)} : Stepped(g, r)
    BY Zenon DEF LeafList
  <2>2. Stepped(given, read)
    <3> HIDE DEF Stepped
    <3>1. QED
      BY <2>1
  <2>3. QED
    BY <2>2, Zenon
<1>2. /\ type'.default = val /\ graph' = graph /\ (Sound' => errs = {})
      /\ type'.text = IF text = <<>> THEN type.text ELSE text
  <2> HIDE DEF text, val, abort, errs
  <2>1. QED
    BY <1>1, StepTakes
<1>3. errs = {} => those = {} /\ these = {} /\ some = {} /\ none = {} /\ under = {}
  <2> HIDE DEF those, these, some, none, under
  <2>1. QED
    OBVIOUS
<1>4. some = {} /\ none = {} => ~wrong
  <2> HIDE DEF read
  <2>1. CASE read = {}
    BY <2>1
  <2>2. CASE read # {}
    BY <2>2
  <2>3. QED
    BY <2>1, <2>2
<1>5. ASSUME errs = {}, read = {}
      PROVE  Taken(s.spec, text, val) /\ CheckDefault(type'.conditional, val) = {}
  <2> DEFINE d == Inherited(s.spec, type.default)
  <2>1. ~wrong
    BY <1>3, <1>4, <1>5
  <2>2. text = <<>> /\ val = type.default /\ own = {d}
    BY <1>5, <2>1
  <2>3. d.errs = {} /\ CheckDefault(type'.conditional, d.val) = {}
    <3>1. these = {} /\ UNION {CheckDefault(type'.conditional, x.val) : x \in own} = {}
      BY <1>3, <1>5, <2>1
    <3> HIDE DEF own, d, those, some, none, wrong
    <3>2. QED
      BY <2>2, <3>1
  <2>4. QED
    BY <2>2, <2>3, InheritedIs, ValidIfNone DEF Taken
<1>6. ASSUME errs = {}, read # {}
      PROVE  Taken(s.spec, text, val) /\ CheckDefault(type'.conditional, val) = {}
  <2> DEFINE m == Min(read)
             d == Given(s.spec, texts[m])
  <2>1. m \in read
    <3>1. /\ Len(texts) \in Int /\ 1 \in Int /\ read \in SUBSET Int
          /\ \A i \in read : 1 <= i /\ i <= Len(texts)
      OBVIOUS
    <3> HIDE DEF read
    <3>2. QED
      BY <1>6, <3>1, EndsExist
  <2>2. ~wrong
    BY <1>3, <1>4, <1>6
  <2>3. m \in DOMAIN texts /\ IsText(texts[m]) /\ given[m] = d
    <3>1. m \in DOMAIN texts
      BY <2>1
    <3> HIDE DEF m
    <3>2. QED
      BY <3>1
  <2>4. text = <<texts[m]>> /\ val = d.val /\ own = {given[i] : i \in read}
    BY <1>6, <2>3
  <2>5. d.errs = {} /\ CheckDefault(type'.conditional, d.val) = {}
    <3>1. these = {} /\ UNION {CheckDefault(type'.conditional, x.val) : x \in own} = {}
      BY <1>3, <1>6, <2>2
    <3>2. d \in own
      <4> HIDE DEF given, read, own, d, m
      <4>1. QED
        BY <2>1, <2>3, <2>4
    <3> HIDE DEF own, d, those, some, none, wrong
    <3>3. QED
      BY <3>1, <3>2
  <2>6. d.val = StrToVal(graph, s.spec, texts[m]).val /\ Invalid(s.spec, d.val) = {}
    BY <2>5, GivenIs
  <2> HIDE DEF d, m, text, val
  <2>7. QED
    BY <2>3, <2>4, <2>5, <2>6, ValidIfNone DEF Taken
<1> HIDE DEF text, val, errs, read
<1>7. QED
  BY <1>2, <1>5, <1>6 DEF Took

LEMMA NextTakes ==
  ASSUME DepthBounded, Next
  PROVE  \E stmt \in Statements[builtin][depth + 1] :
           /\ Moved(stmt, v_type_type(type.spec, stmt, Of))
           /\ node = "none" /\ Sound /\ graph' = graph
           /\ Sound' => Took(v_type_type(type.spec, stmt, Of).spec)
<1>1. node = "none" /\ Sound
  BY DEF Next, Sound
<1>2. PICK stmt \in Statements[builtin][depth + 1] :
        \E s \in {v_type_type(type.spec, stmt, Of)} :
          \/ \E text \in {<<>>} \cup {<<t>> : t \in Texts[builtin]} :
               \/ Typedef(stmt, s, text)
               \/ \E mandatory \in {FALSE, text # <<>>} : Leaf(stmt, s, text, mandatory)
          \/ \E list \in Lists[builtin] : LeafList(stmt, s, list.texts, list.min, list.max)
  BY DEF Next
<1> DEFINE u == v_type_type(type.spec, stmt, Of)
           IsOne(text) == text = <<>> \/ \E t : text = <<t>> /\ IsText(t)
<1> HIDE DEF u
<1>3. /\ \A t \in Texts[builtin] : IsText(t)
      /\ \A list \in Lists[builtin] : list.texts \in Seq(Texts[builtin])
  BY TextsAssumption DEF DepthBounded
<1>4. \A text \in {<<>>} \cup {<<t>> : t \in Texts[builtin]} : IsOne(text)
  BY <1>3
<1>5. \/ \E text : IsOne(text) /\ Typedef(stmt, u, text)
      \/ \E text, mandatory : IsOne(text) /\ Leaf(stmt, u, text, mandatory)
      \/ \E list \in Lists[builtin] : LeafList(stmt, u, list.texts, list.min, list.max)
  <2> HIDE DEF IsOne
  <2>1. QED
    BY <1>2, <1>4 DEF u
<1>6. ASSUME NEW text, IsOne(text), Typedef(stmt, u, text)
      PROVE  Moved(stmt, u) /\ graph' = graph /\ (Sound' => Took(u.spec))
  BY <1>1, <1>6, StepMoves, TypedefTakes DEF Typedef
<1>7. ASSUME NEW text, NEW mandatory, IsOne(text), Leaf(stmt, u, text, mandatory)
      PROVE  Moved(stmt, u) /\ graph' = graph /\ (Sound' => Took(u.spec))
  <2>1. graph' = graph /\ (Sound' => Took(u.spec))
    BY <1>7, LeafTakes
  <2>2. Moved(stmt, u)
    BY <1>7, StepMoves DEF Leaf
  <2>3. QED
    BY <2>1, <2>2
<1>8. ASSUME NEW list \in Lists[builtin], LeafList(stmt, u, list.texts, list.min, list.max)
      PROVE  Moved(stmt, u) /\ graph' = graph /\ (Sound' => Took(u.spec))
  <2> DEFINE texts == list.texts
  <2>1. texts \in Seq(Texts[builtin])
    BY <1>3
  <2>2. graph' = graph /\ (Sound' => Took(u.spec))
    BY <1>3, <1>8, <2>1, LeafListTakes
  <2>3. Moved(stmt, u)
    BY <1>8, StepMoves DEF LeafList
  <2>4. QED
    BY <2>2, <2>3
<1>9. Moved(stmt, u) /\ graph' = graph /\ (Sound' => Took(u.spec))
  BY <1>5, <1>6, <1>7, <1>8
<1>10. QED
  BY <1>1, <1>9 DEF u

----------------------------------------------------------------------------
(* The invariant of defaults: the layers have their shape, and take no     *)
(* number that was not asked for; the default means what its text says and *)
(* is a value of the type.                                                 *)

NumbersHeld(g, spec, before, L) ==
  /\ Shape(g, spec)
  /\ ~WordAsLimit(before) => \A v \in Int : NumberValid(spec, v) => v \in L
  /\ ~WordAsLimit(spec) => Loose(spec, Top(spec), L)
OthersHeld(g, spec, b) ==
  Whole(g, spec) /\ (b = "enumeration" => spec[1].class = "enumeration")
DefaultHeld(g, spec, default, texts) ==
  \E v, text : /\ default = <<v>> /\ texts = <<text>>
               /\ IsText(text) /\ Means(g, spec, text, v) /\ Valid(g, spec, v)

LayersHeld ==
  /\ Decided => NumbersHeld(graph, type.spec, last.spec, lang)
  /\ Elsewhere => OthersHeld(graph, type.spec, builtin)
DefaultsHeld ==
  type.default # <<>> =>
    /\ depth # 0 /\ DefaultHeld(graph, type.spec, type.default, type.text)
    /\ node # "none" => CheckDefault(type.conditional, type.default) = {}
DInv == IsGraph(graph) /\ (Sound => LayersHeld /\ DefaultsHeld)

\* A member of a union that is whole and reads the text takes it as it is.
LEMMA MemberFits ==
  ASSUME NEW spec, IsGraph(graph), Shape(graph, spec), NEW text, IsText(text),
         StrToVal(graph, spec, text).val # <<>>,
         ValidAlone(spec, StrToVal(graph, spec, text).val[1])
  PROVE  FittingMember(spec, text)
<1> DEFINE r == StrToVal(graph, spec, text)
           L == {v \in Wide : NumberValid(spec, v)}
<1>1. PICK v : r.val = <<v>> /\ Means(graph, spec, text, v)
  BY ReadMeans DEF Shape
<1>2. r.val[1] = v /\ r.val # <<>>
  BY <1>1
<1>3. ASSUME spec[1].class \in {"int", "decimal", "string"}, NEW w \in Int, NumberValid(spec, w)
      PROVE  w \in L
  <2> DEFINE x == spec[1]
  <2>1. Chain(spec) /\ Unbounded(x) /\ 1 \in DOMAIN spec
    BY <1>3, AppendIs DEF Shape
  <2>2. w >= x.min /\ w <= x.max
    BY <1>3, <2>1 DEF NumberValid
  <2>3. \/ x.min = IntMin /\ x.max = IntMax
        \/ x.min = 0 /\ x.max = MaxLength
    BY <1>3, <2>1 DEF Unbounded
  <2> HIDE DEF x
  <2>4. IntMin \in Int /\ IntMax \in Int /\ MaxLength \in Int
    BY LimitsAssumption
  <2>5. w \in Wide
    BY <2>2, <2>3, <2>4, LimitsAre
  <2>6. QED
    BY <1>3, <2>5
<1> HIDE DEF r, L
<1>4. Fitting(spec, text, v, L)
  BY <1>1, <1>2, <1>3, FittingIs DEF r
<1>5. QED
  BY <1>2, <1>4 DEF FittingMember, r, L

LEMMA HeldFits ==
  ASSUME IInv, DInv
  PROVE  DefaultsFit
<1> DEFINE spec == type.spec
           text == type.text[1]
           v == type.default[1]
<1>1. SUFFICES ASSUME Sound, type.default # <<>>, ~WordAsLimit(last.spec)
               PROVE  /\ IF spec[1].class = "union"
                         THEN \E i \in DOMAIN spec[1].members : FittingMember(spec[1].members[i], text)
                         ELSE Fitting(spec, text, v, lang)
                      /\ node # "none" /\ builtin = "enumeration" => text.name \notin type.conditional
  BY DEF DefaultsFit
<1>2. /\ IsGraph(graph) /\ LayersHeld /\ depth # 0
      /\ DefaultHeld(graph, spec, type.default, type.text)
      /\ node # "none" => CheckDefault(type.conditional, type.default) = {}
  BY <1>1 DEF DInv, DefaultsHeld
<1>3. /\ type.default = <<v>> /\ IsText(text) /\ Means(graph, spec, text, v) /\ Valid(graph, spec, v)
  <2>1. PICK w, t : /\ type.default = <<w>> /\ type.text = <<t>>
                    /\ IsText(t) /\ Means(graph, spec, t, w) /\ Valid(graph, spec, w)
    BY <1>2 DEF DefaultHeld
  <2>2. v = w /\ text = t
    BY <2>1
  <2> HIDE DEF v, text
  <2>3. QED
    BY <2>1, <2>2
<1>4. Decided \/ Elsewhere
  BY <1>1, <1>2 DEF IInv, LayersKnown, Undecided
<1> HIDE DEF v, text
<1>5. CASE Decided
  <2>1. NumbersHeld(graph, spec, last.spec, lang) /\ Chain(spec) /\ builtin \in NumberTypes
    BY <1>2, <1>5 DEF LayersHeld, Decided
  <2>2. spec[1].class \in {"int", "decimal", "string"}
    BY <2>1 DEF Chain
  <2>3. ValidAlone(spec, v) /\ spec[1].class # "union"
    BY <1>3, <2>2 DEF Valid
  <2>4. Fitting(spec, text, v, lang)
    BY <1>1, <1>3, <2>1, <2>3, FittingIs DEF NumbersHeld
  <2>5. QED
    BY <2>1, <2>3, <2>4 DEF NumberTypes
<1>6. CASE Elsewhere
  <2>1. Whole(graph, spec) /\ (builtin = "enumeration" => spec[1].class = "enumeration")
    BY <1>2, <1>6 DEF LayersHeld, OthersHeld
  <2>2. OtherSpec(spec) /\ spec[1].class \notin {"int", "decimal", "string"}
    BY <1>6 DEF Elsewhere, OtherSpec, OtherClasses
  <2>3. CASE spec[1].class = "union"
    <3>1. v = text
      BY <1>3, <2>3 DEF Means, Stands
    <3>2. PICK i \in DOMAIN spec[1].members :
            LET r == StrToVal(graph, spec[1].members[i], text)
            IN r.val # <<>> /\ ValidAlone(spec[1].members[i], r.val[1])
      BY <1>3, <2>3, <3>1 DEF Valid
    <3>3. Shape(graph, spec[1].members[i])
      BY <2>1, <2>3, <3>2 DEF Whole
    <3>4. FittingMember(spec[1].members[i], text)
      BY <1>2, <1>3, <3>2, <3>3, MemberFits
    <3>5. QED
      BY <2>1, <2>3, <3>4
  <2>4. CASE spec[1].class # "union"
    <3>1. ValidAlone(spec, v)
      BY <1>3, <2>4 DEF Valid
    <3>2. Fitting(spec, text, v, lang)
      BY <1>3, <2>1, <2>2, <3>1, FittingIs DEF Whole
    <3>3. ASSUME node # "none", builtin = "enumeration"
          PROVE  text.name \notin type.conditional
      <4>1. v = text
        BY <1>3, <2>1, <3>3 DEF Means, Stands
      <4>2. CheckDefault(type.conditional, <<v>>) = {}
        BY <1>2, <1>3, <3>3
      <4>3. DOMAIN <<v>> = {1} /\ <<v>>[1] = v
        OBVIOUS
      <4>4. type.conditional \cap {v.name} = {}
        BY <3>3, <4>2, <4>3 DEF CheckDefault
      <4>5. QED
        BY <4>1, <4>4
    <3>4. QED
      BY <2>4, <3>2, <3>3
  <2>5. QED
    BY <2>3, <2>4
<1>7. QED
  BY <1>4, <1>5, <1>6

----------------------------------------------------------------------------
(* Steps. *)

\* The default after a step means what its text says, for layers that are
\* known and start as before.
LEMMA TookHolds ==
  ASSUME IsGraph(graph), Sound, DefaultsHeld, graph' = graph, builtin' = builtin, depth' # 0,
         NEW spec, type'.spec = spec, Grounded(graph, spec), depth # 0 => spec[1] = type.spec[1],
         Took(spec)
  PROVE  DefaultsHeld'
<1>1. SUFFICES ASSUME type'.default # <<>>
               PROVE  DefaultHeld(graph, spec, type'.default, type'.text)
  <2>1. node' # "none" => CheckDefault(type.conditional, type.default)' = {}
    BY DEF Took, CheckDefault
  <2>2. QED
    BY <2>1 DEF DefaultsHeld
<1>2. PICK texts : /\ type'.text = IF texts = <<>> THEN type.text ELSE texts
                   /\ Taken(spec, texts, type'.default)
  BY DEF Took
<1>3. Valid(graph, spec, type'.default[1])
  BY <1>1, <1>2 DEF Taken
<1>4. CASE texts = <<>> /\ type'.default = type.default
  <2>1. type'.text = type.text /\ depth # 0 /\ DefaultHeld(graph, type.spec, type.default, type.text)
    BY <1>1, <1>2, <1>4 DEF DefaultsHeld
  <2>2. PICK v, text : /\ type.default = <<v>> /\ type.text = <<text>>
                       /\ IsText(text) /\ Means(graph, type.spec, text, v)
    BY <2>1 DEF DefaultHeld
  <2>3. Means(graph, spec, text, v)
    BY <2>1, <2>2 DEF Means, Stands
  <2>4. type'.default[1] = v
    BY <1>4, <2>2
  <2>5. QED
    BY <1>3, <1>4, <2>1, <2>2, <2>3, <2>4 DEF DefaultHeld
<1>5. ASSUME NEW t, IsText(t), texts = <<t>>, type'.default = StrToVal(graph, spec, t).val
      PROVE  DefaultHeld(graph, spec, type'.default, type'.text)
  <2>1. type'.text = <<t>>
    BY <1>2, <1>5
  <2>2. PICK v : type'.default = <<v>> /\ Means(graph, spec, t, v)
    BY <1>1, <1>5, ReadMeans
  <2>3. type'.default[1] = v
    BY <2>2
  <2>4. QED
    BY <1>3, <1>5, <2>1, <2>2, <2>3 DEF DefaultHeld
<1>6. QED
  BY <1>2, <1>4, <1>5 DEF Taken

\* Numbers: one statement without an error; a is the layers after
\* fraction-digits.
LEMMA NumberHolds ==
  ASSUME NEW a, Chain(a), Unbounded(a[1]), a[1].class = "decimal" => a[1].digits \in Nat,
         ~WordAsLimit(a) => Loose(a, Top(a), lang), ~WordAsLimit(type.spec) => ~WordAsLimit(a),
         NEW stmt, stmt.range \in Seq(RangePart), stmt.length \in Seq(RangePart),
         NEW u, NumberCome(u, a, stmt), Moved(stmt, u), graph' = graph, Sound'
  PROVE  LayersHeld' /\ Shape(graph, u.spec) /\ u.spec[1] = a[1]
<1>1. /\ type'.spec = u.spec /\ u.errs = {} /\ ~u.raised
      /\ lang' = Left(stmt, lang) /\ last'.spec = type.spec
  BY DEF Moved
<1>2. Chain(u.spec) /\ u.spec[1] = a[1]
  BY DEF NumberCome
<1>3. /\ ~WordAsLimit(a) => \A v \in Int : NumberValid(u.spec, v) => v \in Left(stmt, lang)
      /\ ~WordAsLimit(u.spec) => Loose(u.spec, Top(u.spec), Left(stmt, lang))
  BY <1>1, LooseMove
<1>4. Shape(graph, u.spec)
  BY <1>2, NumberShape
<1>5. NumbersHeld(graph, u.spec, type.spec, Left(stmt, lang))
  BY <1>3, <1>4 DEF NumbersHeld
<1>6. ~OtherSpec(u.spec)
  BY <1>2 DEF Chain, OtherSpec, OtherClasses
<1>7. Decided' => NumbersHeld(graph, type.spec, last.spec, lang)'
  BY <1>1, <1>5
<1>8. ~Elsewhere'
  BY <1>1, <1>6 DEF Elsewhere
<1>9. QED
  BY <1>2, <1>4, <1>7, <1>8 DEF LayersHeld

\* Other layers: one statement without an error.
LEMMA OtherHolds ==
  ASSUME NEW stmt, NEW u, NEW a0, Fair(u, a0, Of), builtin = "enumeration" => a0[1].class = "enumeration",
         Moved(stmt, u), graph' = graph, Sound'
  PROVE  /\ LayersHeld' /\ Shape(graph, u.spec)
         /\ depth # 0 => u.spec[1] = a0[1]
<1>1. type'.spec = u.spec /\ u.errs = {} /\ builtin' = builtin
  BY DEF Moved
<1>2. /\ OtherSpec(u.spec) /\ Whole(graph, u.spec) /\ Shape(graph, u.spec)
      /\ Of \notin {"identityref", "union"} => u.spec[1] = a0[1]
  BY <1>1, FairShape
<1>3. depth # 0 \/ builtin = "enumeration" => Of \notin {"identityref", "union"}
  BY DEF Of
<1>4. OthersHeld(graph, u.spec, builtin)
  BY <1>2, <1>3 DEF OthersHeld
<1>5. ~Chain(u.spec)
  BY <1>2 DEF Chain, OtherSpec, OtherClasses
<1>6. ~Decided'
  BY <1>1, <1>5 DEF Decided
<1>7. Elsewhere' => OthersHeld(graph, type.spec, builtin)'
  BY <1>1, <1>4
<1>8. QED
  BY <1>2, <1>3, <1>6, <1>7 DEF LayersHeld

\* What a statement makes of layers that are known.
LEMMA DecidedHolds ==
  ASSUME Decided, LayersHeld,
         NEW stmt, stmt.range \in Seq(RangePart), stmt.length \in Seq(RangePart),
         NEW u, u = v_type_type(type.spec, stmt, Of), Moved(stmt, u), graph' = graph, Sound'
  PROVE  LayersHeld' /\ Shape(graph, u.spec) /\ u.spec[1] = type.spec[1]
<1>1. NumbersHeld(graph, type.spec, last.spec, lang) /\ Chain(type.spec)
  BY DEF LayersHeld, Decided
<1>2. /\ Unbounded(type.spec[1])
      /\ type.spec[1].class = "decimal" => type.spec[1].digits \in Nat
      /\ ~WordAsLimit(type.spec) => Loose(type.spec, Top(type.spec), lang)
  BY <1>1 DEF NumbersHeld, Shape, Grounded, Chain
<1>3. NumberCome(u, type.spec, stmt)
  BY DecidedComes
<1>4. QED
  BY <1>1, <1>2, <1>3, NumberHolds

LEMMA ElsewhereHolds ==
  ASSUME Elsewhere, LayersHeld,
         NEW stmt, IsStatement(stmt),
         \A i \in DOMAIN stmt.members : stmt.members[i].of \in TypeNames \cup {"leafref"}
                                        /\ IsStatement(stmt.members[i].stmt),
         NEW u, u = v_type_type(type.spec, stmt, Of), Moved(stmt, u), graph' = graph, Sound'
  PROVE  LayersHeld' /\ Shape(graph, u.spec) /\ (depth # 0 => u.spec[1] = type.spec[1])
<1> DEFINE a == type.spec
<1>1. /\ Of # "decimal64" /\ OtherSpec(a) /\ Whole(graph, a)
      /\ builtin = "enumeration" => a[1].class = "enumeration"
  BY DEF Elsewhere, LayersHeld, OthersHeld
<1>2. PICK codes : CheckFraction(St(a, {}, No), stmt, Of) = St(a, {} \cup codes, No)
  BY <1>1, FractionNotes DEF Noted
<1>3. u = AfterFraction(St(a, {} \cup codes, No), stmt, Of, Members(stmt))
  BY <1>2, StatementIs
<1> HIDE DEF a
<1>4. Fair(St(a, {} \cup codes, No), a, Of)
  BY <1>1 DEF Fair
<1>5. Fair(u, a, Of)
  BY <1>3, <1>4, FairStatement
<1>6. QED
  BY <1>1, <1>5, OtherHolds DEF a

LEMMA UndecidedHolds ==
  ASSUME Undecided,
         NEW stmt, stmt.range \in Seq(RangePart), stmt.length \in Seq(RangePart), IsStatement(stmt),
         \A i \in DOMAIN stmt.members : stmt.members[i].of \in TypeNames \cup {"leafref"}
                                        /\ IsStatement(stmt.members[i].stmt),
         NEW u, u = v_type_type(type.spec, stmt, Of), Moved(stmt, u), graph' = graph, Sound'
  PROVE  LayersHeld' /\ Shape(graph, u.spec)
<1> DEFINE a == <<DecimalSpec(stmt.fd)>>
           a0 == <<Layer("decimal64")>>
           e == {} \cup {"MISSING_TYPE_SPEC"}
<1>1. Of = "decimal64" /\ type.spec = a0 /\ lang = IntMin .. IntMax /\ builtin = "decimal64"
  BY DEF Undecided, Of
<1>2. u = AfterFraction(CheckFraction(St(type.spec, {}, No), stmt, "decimal64"), stmt, "decimal64", Members(stmt))
  BY <1>1, StatementIs
<1>3. CASE stmt.fd = 0
  <2>1. u = AfterFraction(St(a0, e, No), stmt, "decimal64", Members(stmt))
    <3>1. CheckFraction(St(a0, {}, No), stmt, "decimal64") = St(a0, e, No)
      BY <1>3, NoFraction
    <3> HIDE DEF e, a0
    <3>2. QED
      BY <1>1, <1>2, <3>1
  <2>2. e # {} /\ "decimal64" \in OtherClasses
    BY DEF OtherClasses
  <2>3. Fair(St(a0, e, No), a0, "decimal64")
    BY <2>2, FairStart
  <2> HIDE DEF e, a0
  <2>4. Fair(u, a0, Of)
    BY <1>1, <2>1, <2>3, FairStatement
  <2>5. QED
    BY <1>1, <2>4, OtherHolds
<1>4. CASE stmt.fd # 0
  <2>1. u = AfterFraction(St(a, {}, No), stmt, "decimal64", Members(stmt))
    <3>1. CheckFraction(St(type.spec, {}, No), stmt, "decimal64") = St(a, {}, No)
      BY <1>4, OwnFraction
    <3> HIDE DEF a, a0
    <3>2. QED
      BY <1>2, <3>1
  <2> DEFINE x == DecimalSpec(stmt.fd)
  <2>2. x.class = "decimal" /\ x.digits = stmt.fd /\ Unbounded(x) /\ stmt.fd \in Nat
    BY FirstShapes DEF IsStatement
  <2>3. x.min \in Limit /\ x.max \in Limit
    BY BuiltInSpecs, LimitsAre
  <2>4. Chain(a) /\ Tight(a, Top(a), lang)
    BY <1>1, DecimalStart
  <2> HIDE DEF x
  <2>5. a[1] = x /\ ~WordAsLimit(a)
    BY <2>2, <2>3, ExactAlone DEF Exact, x
  <2> HIDE DEF a, a0
  <2>6. NumberCome(u, a, stmt)
    <3>1. Mild({}) /\ "decimal64" \notin ItemTypes
      BY DEF Mild, ItemTypes
    <3>2. QED
      BY <2>1, <2>4, <3>1, NumberStatement
  <2>7. QED
    BY <2>2, <2>4, <2>5, <2>6, TightIsLoose, NumberHolds
<1>5. QED
  BY <1>3, <1>4

LEMMA NextHolds ==
  ASSUME IInv, DInv, Next
  PROVE  DInv'
<1>1. DepthBounded
  BY DEF IInv
<1>2. PICK stmt \in Statements[builtin][depth + 1] :
        /\ Moved(stmt, v_type_type(type.spec, stmt, Of))
        /\ node = "none" /\ Sound /\ graph' = graph
        /\ Sound' => Took(v_type_type(type.spec, stmt, Of).spec)
  BY <1>1, NextTakes
<1> DEFINE u == v_type_type(type.spec, stmt, Of)
<1>3. /\ stmt.range \in Seq(RangePart) /\ stmt.length \in Seq(RangePart) /\ IsStatement(stmt)
      /\ \A i \in DOMAIN stmt.members : stmt.members[i].of \in TypeNames \cup {"leafref"}
                                        /\ IsStatement(stmt.members[i].stmt)
  BY <1>1, <1>2, StatementKnown
<1>4. Undecided \/ Decided \/ Elsewhere
  BY <1>2 DEF IInv, LayersKnown
<1>5. IsGraph(graph) /\ LayersHeld /\ DefaultsHeld
  BY <1>2 DEF DInv
<1>6. SUFFICES ASSUME Sound' PROVE LayersHeld' /\ DefaultsHeld'
  BY <1>2, <1>5 DEF DInv
<1>7. LayersHeld' /\ Shape(graph, u.spec) /\ (depth # 0 => u.spec[1] = type.spec[1])
  <2> HIDE DEF u
  <2>1. u = v_type_type(type.spec, stmt, Of) /\ Moved(stmt, u)
    BY <1>2 DEF u
  <2>2. CASE Undecided
    BY <1>2, <1>3, <1>6, <2>1, <2>2, UndecidedHolds DEF Undecided
  <2>3. CASE Decided
    BY <1>2, <1>3, <1>5, <1>6, <2>1, <2>3, DecidedHolds
  <2>4. CASE Elsewhere
    BY <1>2, <1>3, <1>5, <1>6, <2>1, <2>4, ElsewhereHolds
  <2>5. QED
    BY <1>4, <2>2, <2>3, <2>4
<1>8. type'.spec = u.spec /\ depth' # 0 /\ builtin' = builtin
  BY <1>1, <1>2 DEF Moved, DepthBounded
<1> HIDE DEF u
<1>9. DefaultsHeld'
  BY <1>2, <1>5, <1>6, <1>7, <1>8, TookHolds DEF Shape, u
<1>10. QED
  BY <1>7, <1>9

LEMMA InitHeld ==
  ASSUME Init
  PROVE  DInv
<1>1. /\ builtin \in BuiltIns /\ depth = 0 /\ type.spec = yang_type_specs(builtin)
      /\ last.spec = type.spec /\ type.default = <<>> /\ Of = builtin
      /\ lang = IF builtin = "string" THEN 0 .. MaxLength ELSE IntMin .. IntMax
      /\ graph \in Graphs \/ graph = <<>>
  BY DEF Init, Of
<1>2. IsGraph(graph)
  <2>1. IsGraph(<<>>)
    <3>1. DOMAIN <<>> = {} /\ IsFiniteSet({})
      BY FS_EmptySet
    <3>2. QED
      BY <3>1 DEF IsGraph
  <2>2. QED
    BY <1>1, <2>1, GraphsAssumption
<1>3. DefaultsHeld
  BY <1>1 DEF DefaultsHeld
<1>4. ASSUME NEW x, type.spec = <<x>>, x \in {IntSpec, StringSpec},
             Chain(<<x>>), Tight(<<x>>, Top(<<x>>), lang)
      PROVE  NumbersHeld(graph, type.spec, last.spec, lang)
  <2>1. Unbounded(x) /\ x.class # "decimal"
    BY <1>4, FirstShapes
  <2> DEFINE a == <<x>>
  <2>2. a[1] = x
    OBVIOUS
  <2> HIDE DEF a
  <2>3. Shape(graph, a)
    BY <1>4, <2>1, <2>2, NumberShape DEF a
  <2>4. /\ \A v \in Int : NumberValid(a, v) => v \in lang
        /\ Loose(a, Top(a), lang)
    BY <1>4, TightIsLoose DEF Tight, a
  <2>5. QED
    BY <1>1, <1>4, <2>3, <2>4 DEF NumbersHeld, a
<1>5. CASE builtin = "int"
  <2>1. type.spec = <<IntSpec>> /\ lang = IntMin .. IntMax
    BY <1>1, <1>5 DEF yang_type_specs
  <2>2. NumbersHeld(graph, type.spec, last.spec, lang) /\ Chain(type.spec)
    BY <1>4, <2>1, IntStart
  <2>3. ~Elsewhere
    BY <2>2 DEF Elsewhere, Chain, OtherSpec, OtherClasses
  <2>4. QED
    BY <1>2, <1>3, <2>2, <2>3 DEF DInv, LayersHeld
<1>6. CASE builtin = "string"
  <2>1. type.spec = <<StringSpec>> /\ lang = 0 .. MaxLength
    BY <1>1, <1>6 DEF yang_type_specs
  <2>2. NumbersHeld(graph, type.spec, last.spec, lang) /\ Chain(type.spec)
    BY <1>4, <2>1, StringStart
  <2>3. ~Elsewhere
    BY <2>2 DEF Elsewhere, Chain, OtherSpec, OtherClasses
  <2>4. QED
    BY <1>2, <1>3, <2>2, <2>3 DEF DInv, LayersHeld
<1>7. CASE builtin = "decimal64"
  BY <1>1, <1>2, <1>3, <1>7 DEF DInv, LayersHeld, Decided, Elsewhere
<1>8. CASE builtin \notin NumberTypes
  <2> DEFINE x == Layer(builtin)
  <2>1. type.spec = <<x>>
    BY <1>1, <1>8 DEF yang_type_specs, NumberTypes
  <2>2. x.class = builtin /\ x.bases = <<>> /\ x.members = <<>>
    BY DEF Layer
  <2>3. builtin \in OtherClasses
    BY <1>1, <1>8, BuiltInsAssumption DEF TypeNames, NumberTypes, OtherClasses
  <2> HIDE DEF x
  <2>4. x.bases \in Seq(DOMAIN graph) /\ DOMAIN x.members = {}
    BY <2>2
  <2>5. Whole(graph, <<x>>) /\ <<x>>[1] = x
    BY <2>2, <2>3, <2>4, WholeAlone
  <2>6. OthersHeld(graph, type.spec, builtin) /\ ~Decided
    BY <1>8, <2>1, <2>2, <2>5 DEF OthersHeld, Decided
  <2>7. QED
    BY <1>2, <1>3, <2>6 DEF DInv, LayersHeld
<1>9. QED
  BY <1>5, <1>6, <1>7, <1>8 DEF NumberTypes

\* The invariant: without an error the layers have the shape of their type
\* and take no number that was not asked for, and the default means what its
\* text says and is a value of the type it has come to.
THEOREM DefaultsAreMeant == Spec => []DInv
<1>1. Init => DInv
  BY InitHeld
<1>2. IInv /\ DInv /\ [Next]_vars => DInv'
  <2>1. ASSUME DInv, UNCHANGED vars PROVE DInv'
    BY <2>1 DEF vars, DInv, Sound, LayersHeld, DefaultsHeld, Decided, Elsewhere, Of, CheckDefault
  <2>2. QED
    BY <2>1, NextHolds
<1>3. QED
  BY <1>1, <1>2, LayersTight, PTL DEF Spec

\* A default without an error, given or inherited through any restrictions,
\* is what its text says and a value of the type it ends up in, for every
\* chain, limits, statements, texts and identities.
THEOREM SoundDefaultsFit == Spec => []DefaultsFit
<1>1. IInv /\ DInv => DefaultsFit
  BY HeldFits
<1>2. QED
  BY <1>1, LayersTight, DefaultsAreMeant, PTL
============================================================================
