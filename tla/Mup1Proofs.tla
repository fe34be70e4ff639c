----------------------------- MODULE Mup1Proofs -----------------------------
(***************************************************************************)
(* Resync for every payload, every text around it, every way the reads cut *)
(* the stream and every number of damaged bytes: a frame the line left     *)
(* alone is handed up as it was sent.                                      *)
(*                                                                         *)
(* The proof follows the line.  The bytes in flight are the rest of what   *)
(* was sent (Line), so its first byte says how much of which frame the     *)
(* receiver was given (Ahead).  For a frame that may not be lost the       *)
(* receiver is in step with it (Synced).  For one the line left alone, but *)
(* whose start the receiver missed, less is enough (Tame): behind its      *)
(* last EOF it is in no escape, so it has the trailer to itself and ends   *)
(* where the next frame is found.                                          *)
(***************************************************************************)
EXTENDS Mup1, TLAPS, SequenceTheorems, WellFoundedInduction

----------------------------------------------------------------------------
(* The frame on the line, and how far it is read                           *)

Code(f) == Enc(f.type, f.data)
BodyEnd(f) == 2 + Len(Stuffed(f.data)[Len(f.data)])
LastEof(f) == BodyEnd(f) + Len(Ending(f.data))
Total(f) == LastEof(f) + ChkSize

\* After a bytes of f, k bytes of its payload are through, and with mid the escape
\* of the next.
InBody(f, a, k, mid) ==
  /\ k \in 0 .. Len(f.data)
  /\ a = 2 + Len(Stuffed(f.data)[k]) + (IF mid THEN 1 ELSE 0)
  /\ mid => k < Len(f.data) /\ f.data[k + 1] \in Special

\* A receiver in step with the frame: with its start, with its payload, with its
\* padding, with its trailer.
SyncedStart(s, f, a) == a = 1 /\ s.state = "sof" /\ s.data = <<>> /\ s.chk = <<>>

SyncedBody(s, f, a, k, mid) ==
  /\ InBody(f, a, k, mid)
  /\ s.type = f.type /\ s.chk = <<>>
  /\ s.data = SubSeq(f.data, 1, k)
  /\ s.state = IF mid THEN "esc" ELSE "data"

SyncedPadding(s, f, a) ==
  /\ a = BodyEnd(f) + 1 /\ Padded(f.data)
  /\ s.state = "eof2" /\ s.type = f.type /\ s.data = f.data /\ s.chk = <<>>

SyncedTrailer(s, f, a) ==
  /\ a \in LastEof(f) .. (Total(f) - 1)
  /\ s.state = "chk0" /\ s.type = f.type /\ s.data = f.data
  /\ s.chk = SubSeq(Checksum(f.type, f.data), 1, a - LastEof(f))

Synced(s, f, a) ==
  \/ SyncedStart(s, f, a)
  \/ \E k \in 0 .. Len(f.data), mid \in BOOLEAN : SyncedBody(s, f, a, k, mid)
  \/ SyncedPadding(s, f, a)
  \/ SyncedTrailer(s, f, a)

\* What a whole frame does to a receiver that is not.
TameBody(s, f, a, k, mid) ==
  /\ InBody(f, a, k, mid)
  /\ s.state = (IF mid THEN "data" ELSE "esc") => Len(s.data) <= a

TamePadding(s, f, a) ==
  a = BodyEnd(f) + 1 /\ Padded(f.data) /\ s.state # "esc"

TameTrailer(s, f, a) ==
  /\ a \in LastEof(f) .. Total(f)
  /\ s.state \notin {"esc", "sof"}
  /\ s.state = "eof2" => a = LastEof(f)
  /\ s.state = "chk0" => Len(s.chk) >= a - LastEof(f)
  /\ s.state = "data" => Len(s.data) <= a

Tame(s, f, a) ==
  \/ a = 1
  \/ \E k \in 0 .. Len(f.data), mid \in BOOLEAN : TameBody(s, f, a, k, mid)
  \/ TamePadding(s, f, a)
  \/ TameTrailer(s, f, a)

\* Behind frame i - 1 and before the first byte of frame i.
Between(s, i) ==
  ~Spoiled(i) => \/ s.state = "init"
                 \/ s.state = "data" /\ Len(s.data) <= setup.maxData /\ Spoiled(i - 1)

Within(s, i, a) ==
  /\ ~Spoiled(i) => Synced(s, sent[i], a)
  /\ i + 1 \notin hurt => Tame(s, sent[i], a)

\* c: the frame the line has come to and how much of it is read.
Standing(s, c) ==
  /\ \A j \in 1 .. (c[1] - 1) : Spoiled(j) \/ HandedUp(s, j)
  /\ IF c[2] = 0 THEN Between(s, c[1]) ELSE Within(s, c[1], c[2])

Spot(x) == IF x.of = 0 THEN <<x.at, 0>> ELSE <<x.of, x.at - 1>>
After(x) ==
  IF x.of = 0 THEN <<x.at, 0>>
  ELSE IF x.at < Total(sent[x.of]) THEN <<x.of, x.at>> ELSE <<x.of + 1, 0>>
Ahead(p) == IF p = Len(wire) THEN <<Len(sent) + 1, 0>> ELSE Spot(wire[p + 1])

OnLine(x) ==
  IF x.of = 0
  THEN x.at \in apart /\ x.at <= Len(sent) + 1 /\ (x.b = SOF => x.at \in hurt)
  ELSE /\ x.of \in DOMAIN sent
       /\ x.at \in 1 .. Total(sent[x.of])
       /\ x.b = Code(sent[x.of])[x.at] \/ {x.of, x.of + 1} \subseteq hurt

Line == \A p \in DOMAIN wire : OnLine(wire[p]) /\ After(wire[p]) = Ahead(p)

States == {"init", "sof", "data", "esc", "eof2", "chk0"}
Byte == 0 .. 255
Piece == [b : Byte, of : Nat, at : Nat \ {0}]

Rec(state, type, data, chk, raw, got) ==
  [state |-> state, type |-> type, data |-> data, chk |-> chk, raw |-> raw, got |-> got]
IsRec(s) == s = Rec(s.state, s.type, s.data, s.chk, s.raw, s.got)
Handed == [type : Byte, data : Seq(Byte), of : Nat]

Receiver(s) ==
  /\ IsRec(s)
  /\ s.state \in States
  /\ s.type \in Byte /\ s.data \in Seq(Byte) /\ s.chk \in Seq(Byte)
  /\ s.got \in Seq(Handed)
  /\ s.state \in {"sof", "data", "esc", "eof2"} => s.chk = <<>>
  /\ s.state = "sof" => s.data = <<>>
  /\ s.state = "chk0" => Len(s.chk) < ChkSize

TypeInv ==
  /\ setup \in Setups /\ on \in BOOLEAN
  /\ sent \in Seq(setup.frames)
  /\ hurt \subseteq Nat \ {0} /\ apart \subseteq Nat \ {0}
  /\ wire \in Seq(Piece)
  /\ Receiver(m)

IInv == TypeInv /\ Line /\ (on => Standing(m, Ahead(0)))
----------------------------------------------------------------------------
(* Recursive functions                                                     *)

\* A set of numbers has a least one: the induction used below.
LEMMA Least ==
  ASSUME NEW S \in SUBSET Nat, S # {}
  PROVE  \E low \in S : \A k \in S : low <= k
<1> DEFINE R == {ss \in Nat \X Nat : ss[1] < ss[2]}
<1>1. IsWellFoundedOn(R, Nat)
  BY NatLessThanWellFounded DEF OpToRel
<1>2. PICK low \in S : \A k \in S : <<k, low>> \notin R
  BY <1>1, WFMin
<1>3. ASSUME NEW k \in S
      PROVE  low <= k
  <2>1. k \in Nat /\ low \in Nat
    OBVIOUS
  <2>2. ~(k < low)
    BY <1>2, <2>1
  <2>3. QED
    BY <2>1, <2>2
<1>4. QED
  BY <1>3

\* The two facts that make an induction up to n of Least.
LEMMA Climb ==
  ASSUME NEW n \in Nat, NEW S, 0 \in S,
         \A k \in 1 .. n : k - 1 \in S => k \in S
  PROVE  \A k \in 0 .. n : k \in S
<1> DEFINE Bad == {k \in 0 .. n : k \notin S}
<1>1. SUFFICES ASSUME Bad # {} PROVE FALSE
  OBVIOUS
<1>2. Bad \in SUBSET Nat
  OBVIOUS
<1>3. PICK j \in Bad : \A i \in Bad : j <= i
  BY <1>1, <1>2, Least
<1>4. j \in 0 .. n /\ j \notin S
  OBVIOUS
<1>5. j \in 1 .. n
  BY <1>4
<1>6. j - 1 \in 0 .. n /\ ~(j <= j - 1)
  BY <1>5
<1>7. j - 1 \notin Bad
  BY <1>3, <1>6
<1>8. j - 1 \in S
  BY <1>6, <1>7
<1>9. QED
  BY <1>4, <1>5, <1>8

\* g is the recursive function of Stuffed, up to k.
StuffedTo(g, k, data) ==
  g = [i \in 0 .. k |-> IF i = 0 THEN <<>> ELSE g[i - 1] \o Escaped(data[i])]

LEMMA StuffedExists ==
  ASSUME NEW data, NEW n \in Nat
  PROVE  \E g : StuffedTo(g, n, data)
<1> DEFINE S == {k \in 0 .. n : \E g : StuffedTo(g, k, data)}
<1>1. 0 \in S
  <2>1. StuffedTo([i \in 0 .. 0 |-> <<>>], 0, data)
    BY DEF StuffedTo
  <2>2. QED
    BY <2>1
<1>2. ASSUME NEW j \in 1 .. n, j - 1 \in S
      PROVE  j \in S
  <2>1. PICK g : StuffedTo(g, j - 1, data)
    BY <1>2
  <2> DEFINE f == [i \in 0 .. j |-> IF i = j THEN g[j - 1] \o Escaped(data[j]) ELSE g[i]]
  <2>2. ASSUME NEW i \in 0 .. j
        PROVE  f[i] = IF i = 0 THEN <<>> ELSE f[i - 1] \o Escaped(data[i])
    <3>1. CASE i = j
      <4>1. j - 1 \in 0 .. j /\ j - 1 # j /\ i # 0
        BY <3>1
      <4>2. f[j - 1] = g[j - 1]
        BY <4>1
      <4>3. QED
        BY <3>1, <4>1, <4>2
    <3>2. CASE i # j
      <4>1. i \in 0 .. j - 1
        BY <3>2
      <4>2. f[i] = g[i]
        BY <3>2
      <4>3. g[i] = IF i = 0 THEN <<>> ELSE g[i - 1] \o Escaped(data[i])
        BY <2>1, <4>1 DEF StuffedTo
      <4>4. i # 0 => f[i - 1] = g[i - 1]
        BY <4>1
      <4>5. QED
        BY <4>2, <4>3, <4>4
    <3>3. QED
      BY <3>1, <3>2
  <2>3. StuffedTo(f, j, data)
    BY <2>2 DEF StuffedTo
  <2>4. QED
    BY <2>3
<1> HIDE DEF S
<1>3. n \in S
  BY <1>1, <1>2, Climb
<1>4. QED
  BY <1>3 DEF S

LEMMA StuffedIs ==
  ASSUME NEW data \in Seq(Byte)
  PROVE  /\ Stuffed(data)[0] = <<>>
         /\ \A k \in 1 .. Len(data) :
              Stuffed(data)[k] = Stuffed(data)[k - 1] \o Escaped(data[k])
<1> DEFINE G == CHOOSE g : StuffedTo(g, Len(data), data)
<1>1. Len(data) \in Nat
  OBVIOUS
<1>2. StuffedTo(G, Len(data), data)
  BY <1>1, StuffedExists
<1>3. Stuffed(data) = G
  BY DEF Stuffed, StuffedTo
<1> HIDE DEF G
<1>4. QED
  BY <1>1, <1>2, <1>3 DEF StuffedTo

\* g is the recursive function of WordSum, up to k.
SumTo(g, k, s) ==
  g = [i \in 0 .. k |->
        IF i = 0 THEN 0 ELSE g[i - 1] + (256 * s[2 * i - 1]) + s[2 * i]]

LEMMA SumExists ==
  ASSUME NEW s, NEW n \in Nat
  PROVE  \E g : SumTo(g, n, s)
<1> DEFINE S == {k \in 0 .. n : \E g : SumTo(g, k, s)}
           D(i) == s[2 * i - 1]
           E(i) == s[2 * i]
<1>1. 0 \in S
  <2>1. SumTo([i \in 0 .. 0 |-> 0], 0, s)
    BY DEF SumTo
  <2>2. QED
    BY <2>1
<1>2. ASSUME NEW j \in 1 .. n, j - 1 \in S
      PROVE  j \in S
  <2>1. PICK g : SumTo(g, j - 1, s)
    BY <1>2
  <2>0. \A i \in 0 .. j - 1 : g[i] = IF i = 0 THEN 0 ELSE g[i - 1] + (256 * D(i)) + E(i)
    BY <2>1 DEF SumTo
  <2> DEFINE f == [i \in 0 .. j |-> IF i = j THEN g[j - 1] + (256 * D(j)) + E(j) ELSE g[i]]
  <2> HIDE DEF D, E
  <2>2. ASSUME NEW i \in 0 .. j
        PROVE  f[i] = IF i = 0 THEN 0 ELSE f[i - 1] + (256 * D(i)) + E(i)
    <3>1. CASE i = j
      <4>1. j - 1 \in 0 .. j /\ j - 1 # j /\ i # 0
        BY <3>1
      <4>2. f[j - 1] = g[j - 1]
        BY <4>1
      <4>3. QED
        BY <3>1, <4>1, <4>2
    <3>2. CASE i # j
      <4>1. i \in 0 .. j - 1
        BY <3>2
      <4>2. f[i] = g[i]
        BY <3>2
      <4>3. g[i] = IF i = 0 THEN 0 ELSE g[i - 1] + (256 * D(i)) + E(i)
        BY <2>0, <4>1
      <4>4. i # 0 => f[i - 1] = g[i - 1]
        BY <4>1
      <4>5. QED
        BY <4>2, <4>3, <4>4
    <3>3. QED
      BY <3>1, <3>2
  <2>3. f = [i \in 0 .. j |-> IF i = 0 THEN 0 ELSE f[i - 1] + (256 * D(i)) + E(i)]
    BY <2>2
  <2>4. SumTo(f, j, s)
    BY <2>3 DEF SumTo, D, E
  <2>5. QED
    BY <2>4
<1> HIDE DEF S
<1>3. n \in S
  BY <1>1, <1>2, Climb
<1>4. QED
  BY <1>3 DEF S

LEMMA ByteIsInt ==
  ASSUME NEW b \in Byte
  PROVE  b \in Int
  BY DEF Byte

LEMMA ByteAt ==
  ASSUME NEW s \in Seq(Byte), NEW p \in 1 .. Len(s)
  PROVE  s[p] \in Byte
  OBVIOUS

LEMMA SumIsNumber ==
  ASSUME NEW s \in Seq(Byte)
  PROVE  WordSum(s) \in Int
<1> DEFINE N == Len(s) \div 2
           G == CHOOSE g : SumTo(g, N, s)
           S == {k \in 0 .. N : G[k] \in Int}
<1>1. N \in Nat /\ 2 * N <= Len(s)
  OBVIOUS
<1>2. SumTo(G, N, s)
  BY <1>1, SumExists
<1>3. WordSum(s) = G[N]
  BY DEF WordSum, SumTo
<1> HIDE DEF G, N
<1>4. G[0] = 0 /\ \A i \in 1 .. N : G[i] = G[i - 1] + (256 * s[2 * i - 1]) + s[2 * i]
  BY <1>1, <1>2 DEF SumTo
<1>5. 0 \in S
  BY <1>1, <1>4
<1>6. ASSUME NEW i \in 1 .. N, i - 1 \in S
      PROVE  i \in S
  <2>1. 2 * i - 1 \in 1 .. Len(s) /\ 2 * i \in 1 .. Len(s)
    BY <1>1
  <2>2. s[2 * i - 1] \in Int /\ s[2 * i] \in Int
    <3>1. ASSUME NEW p \in 1 .. Len(s)
          PROVE  s[p] \in Int
      <4>1. s[p] \in Byte
        BY ByteAt
      <4>2. QED
        BY <4>1, ByteIsInt
    <3> HIDE DEF N
    <3>2. QED
      BY <2>1, <3>1
  <2>3. G[i - 1] \in Int
    BY <1>6
  <2>4. G[i] \in Int
    BY <1>4, <2>2, <2>3
  <2>5. QED
    BY <1>1, <2>4
<1> HIDE DEF S
<1>7. N \in S
  BY <1>1, <1>5, <1>6, Climb
<1>8. QED
  BY <1>3, <1>7 DEF S

\* g is the recursive function of RxAll, up to k.
ReadTo(g, k, s, xs) ==
  g = [i \in 0 .. k |-> IF i = 0 THEN s ELSE RxSm(g[i - 1], xs[i])]

LEMMA ReadExists ==
  ASSUME NEW s, NEW xs, NEW n \in Nat
  PROVE  \E g : ReadTo(g, n, s, xs)
<1> DEFINE S == {k \in 0 .. n : \E g : ReadTo(g, k, s, xs)}
<1>1. 0 \in S
  <2>1. ReadTo([i \in 0 .. 0 |-> s], 0, s, xs)
    BY DEF ReadTo
  <2>2. QED
    BY <2>1
<1>2. ASSUME NEW j \in 1 .. n, j - 1 \in S
      PROVE  j \in S
  <2>1. PICK g : ReadTo(g, j - 1, s, xs)
    BY <1>2
  <2> DEFINE f == [i \in 0 .. j |-> IF i = j THEN RxSm(g[j - 1], xs[j]) ELSE g[i]]
  <2>2. ASSUME NEW i \in 0 .. j
        PROVE  f[i] = IF i = 0 THEN s ELSE RxSm(f[i - 1], xs[i])
    <3>1. CASE i = j
      <4>1. j - 1 \in 0 .. j /\ j - 1 # j /\ i # 0
        BY <3>1
      <4>2. f[j - 1] = g[j - 1]
        BY <4>1
      <4>3. QED
        BY <3>1, <4>1, <4>2
    <3>2. CASE i # j
      <4>1. i \in 0 .. j - 1
        BY <3>2
      <4>2. f[i] = g[i]
        BY <3>2
      <4>3. g[i] = IF i = 0 THEN s ELSE RxSm(g[i - 1], xs[i])
        BY <2>1, <4>1 DEF ReadTo
      <4>4. i # 0 => f[i - 1] = g[i - 1]
        BY <4>1
      <4>5. QED
        BY <4>2, <4>3, <4>4
    <3>3. QED
      BY <3>1, <3>2
  <2>3. ReadTo(f, j, s, xs)
    BY <2>2 DEF ReadTo
  <2>4. QED
    BY <2>3
<1> HIDE DEF S
<1>3. n \in S
  BY <1>1, <1>2, Climb
<1>4. QED
  BY <1>3 DEF S

\* g: the receiver after each byte of xs.
ReadsOf(g, s, xs) ==
  /\ g[0] = s
  /\ \A i \in 1 .. Len(xs) : g[i] = RxSm(g[i - 1], xs[i])
  /\ RxAll(s, xs) = g[Len(xs)]

LEMMA RxAllIs ==
  ASSUME NEW s, NEW xs, Len(xs) \in Nat
  PROVE  \E g : ReadsOf(g, s, xs)
<1> DEFINE G == CHOOSE g : ReadTo(g, Len(xs), s, xs)
<1>1. ReadTo(G, Len(xs), s, xs)
  BY ReadExists
<1>2. RxAll(s, xs) = G[Len(xs)]
  BY DEF RxAll, ReadTo
<1> HIDE DEF G
<1>3. QED
  BY <1>1, <1>2 DEF ReadTo, ReadsOf

----------------------------------------------------------------------------
(* Bytes and sequences of bytes                                            *)

LEMMA Cat ==
  ASSUME NEW s \in Seq(Byte), NEW t \in Seq(Byte)
  PROVE  /\ s \o t \in Seq(Byte)
         /\ Len(s \o t) = Len(s) + Len(t)
         /\ \A i \in 1 .. Len(s) : (s \o t)[i] = s[i]
         /\ \A i \in 1 .. Len(t) : (s \o t)[Len(s) + i] = t[i]
  OBVIOUS

LEMMA Snoc ==
  ASSUME NEW s \in Seq(Byte), NEW b \in Byte
  PROVE  /\ Append(s, b) \in Seq(Byte)
         /\ Len(Append(s, b)) = Len(s) + 1
         /\ \A i \in 1 .. Len(s) : Append(s, b)[i] = s[i]
         /\ Append(s, b)[Len(s) + 1] = b
  OBVIOUS

\* One byte more of a beginning of s.
LEMMA Longer ==
  ASSUME NEW s \in Seq(Byte), NEW k \in 0 .. (Len(s) - 1)
  PROVE  Append(SubSeq(s, 1, k), s[k + 1]) = SubSeq(s, 1, k + 1)
<1>1. SubSeq(s, 1, k) \in Seq(Byte) /\ Len(SubSeq(s, 1, k)) = k
  OBVIOUS
<1>2. SubSeq(s, 1, k + 1) \in Seq(Byte) /\ Len(SubSeq(s, 1, k + 1)) = k + 1
  OBVIOUS
<1>3. s[k + 1] \in Byte
  OBVIOUS
<1>4. \A i \in 1 .. k : SubSeq(s, 1, k)[i] = s[i]
  OBVIOUS
<1>5. \A i \in 1 .. k + 1 : SubSeq(s, 1, k + 1)[i] = s[i]
  OBVIOUS
<1> DEFINE a == SubSeq(s, 1, k)
           b == SubSeq(s, 1, k + 1)
           c == Append(a, s[k + 1])
<1> HIDE DEF a, b
<1>6. /\ c \in Seq(Byte) /\ Len(c) = k + 1
      /\ \A i \in 1 .. k : c[i] = a[i]
      /\ c[k + 1] = s[k + 1]
  BY <1>1, <1>3, Snoc DEF a
<1> HIDE DEF c
<1>7. \A i \in 1 .. k + 1 : c[i] = b[i]
  <2>1. ASSUME NEW i \in 1 .. k + 1
        PROVE  c[i] = b[i]
    <3>1. CASE i = k + 1
      BY <1>5, <1>6, <3>1 DEF b
    <3>2. CASE i # k + 1
      <4>1. i \in 1 .. k
        BY <3>2
      <4>2. QED
        BY <1>4, <1>5, <1>6, <4>1 DEF a, b
    <3>3. QED
      BY <3>1, <3>2
  <2>2. QED
    BY <2>1
<1>8. c = b
  BY <1>2, <1>6, <1>7, SeqEqual DEF b
<1>9. QED
  BY <1>8 DEF a, b, c

LEMMA Whole ==
  ASSUME NEW s \in Seq(Byte)
  PROVE  SubSeq(s, 1, Len(s)) = s /\ SubSeq(s, 1, 0) = <<>>
  OBVIOUS

LEMMA EscapedIs ==
  ASSUME NEW b \in Byte
  PROVE  /\ Escaped(b) \in Seq(Byte)
         /\ b \notin Special => Len(Escaped(b)) = 1 /\ Escaped(b)[1] = b
         /\ b \in Special => /\ Len(Escaped(b)) = 2 /\ Escaped(b)[1] = ESC
                             /\ Escaped(b)[2] = IF b = 0 THEN Esc00
                                                ELSE IF b = 255 THEN EscFF ELSE b
<1>1. CASE b \notin Special
  <2>1. Escaped(b) = <<b>>
    BY <1>1 DEF Escaped
  <2>2. QED
    BY <1>1, <2>1
<1>2. CASE b \in Special
  <2> DEFINE d == IF b = 0 THEN Esc00 ELSE IF b = 255 THEN EscFF ELSE b
  <2>1. Escaped(b) = <<ESC, d>>
    BY <1>2 DEF Escaped
  <2>2. ESC \in Byte /\ d \in Byte
    BY DEF Byte, ESC, Esc00, EscFF
  <2> HIDE DEF d
  <2>3. Escaped(b) \in Seq(Byte) /\ Len(Escaped(b)) = 2 /\ Escaped(b)[1] = ESC /\ Escaped(b)[2] = d
    BY <2>1, <2>2
  <2>4. QED
    BY <1>2, <2>3 DEF d
<1>3. QED
  BY <1>1, <1>2

\* The first k bytes of a payload take up at most 2k on the line.
LEMMA StuffedSize ==
  ASSUME NEW data \in Seq(Byte)
  PROVE  \A k \in 0 .. Len(data) :
           Stuffed(data)[k] \in Seq(Byte) /\ Len(Stuffed(data)[k]) <= 2 * k
<1> DEFINE N == Len(data)
           S == {k \in 0 .. N : Stuffed(data)[k] \in Seq(Byte) /\ Len(Stuffed(data)[k]) <= 2 * k}
<1>1. N \in Nat
  OBVIOUS
<1>2. 0 \in S
  <2>1. Stuffed(data)[0] = <<>>
    BY StuffedIs
  <2>2. <<>> \in Seq(Byte) /\ Len(<<>>) = 0 /\ 0 \in 0 .. N /\ 0 <= 2 * 0
    BY <1>1
  <2>3. QED
    BY <2>1, <2>2
<1>3. ASSUME NEW k \in 1 .. N, k - 1 \in S
      PROVE  k \in S
  <2>1. data[k] \in Byte
    OBVIOUS
  <2>2. Stuffed(data)[k] = Stuffed(data)[k - 1] \o Escaped(data[k])
    BY StuffedIs
  <2>3. Escaped(data[k]) \in Seq(Byte) /\ Len(Escaped(data[k])) <= 2
    <3>1. Escaped(data[k]) \in Seq(Byte)
      BY <2>1, EscapedIs
    <3>2. Len(Escaped(data[k])) = 1 \/ Len(Escaped(data[k])) = 2
      BY <2>1, EscapedIs
    <3>3. 1 <= 2 /\ 2 <= 2
      OBVIOUS
    <3>4. QED
      BY <3>1, <3>2, <3>3, Zenon
  <2>4. Stuffed(data)[k - 1] \in Seq(Byte) /\ Len(Stuffed(data)[k - 1]) <= 2 * (k - 1)
    BY <1>3
  <2>5. /\ Stuffed(data)[k] \in Seq(Byte)
        /\ Len(Stuffed(data)[k]) = Len(Stuffed(data)[k - 1]) + Len(Escaped(data[k]))
    BY <2>2, <2>3, <2>4, Cat
  <2>6. Len(Stuffed(data)[k]) <= 2 * k
    <3> DEFINE a == Len(Stuffed(data)[k - 1])
               b == Len(Escaped(data[k]))
               c == Len(Stuffed(data)[k])
    <3>1. a \in Nat /\ b \in Nat /\ c \in Nat
      BY <2>3, <2>4, <2>5, LenProperties
    <3>2. c = a + b /\ a <= 2 * (k - 1) /\ b <= 2
      BY <2>3, <2>4, <2>5
    <3> HIDE DEF a, b, c
    <3>3. c <= 2 * k
      BY <3>1, <3>2
    <3>4. QED
      BY <3>3 DEF c
  <2>7. k \in 0 .. N
    BY <1>1
  <2>8. QED
    BY <2>5, <2>6, <2>7
<1> HIDE DEF S
<1>4. \A k \in 0 .. N : k \in S
  BY <1>1, <1>2, <1>3, Climb
<1>5. QED
  BY <1>4 DEF S

\* The bytes of a longer beginning are those of a shorter one, and more.
Extends(t, s) == Len(s) <= Len(t) /\ \A i \in 1 .. Len(s) : t[i] = s[i]

LEMMA StuffedExtends ==
  ASSUME NEW data \in Seq(Byte), NEW k \in 0 .. Len(data)
  PROVE  \A n \in 0 .. Len(data) : k <= n => Extends(Stuffed(data)[n], Stuffed(data)[k])
<1> DEFINE N == Len(data)
           S == {n \in 0 .. N : k <= n => Extends(Stuffed(data)[n], Stuffed(data)[k])}
<1>0. N \in Nat
  OBVIOUS
<1>a. Extends(Stuffed(data)[k], Stuffed(data)[k])
  BY StuffedSize DEF Extends
<1>1. 0 \in S
  <2>1. k <= 0 => k = 0
    OBVIOUS
  <2>2. QED
    BY <1>0, <1>a, <2>1
<1>2. ASSUME NEW n \in 1 .. N, n - 1 \in S
      PROVE  n \in S
  <2>1. CASE k = n
    BY <1>a, <2>1
  <2>2. CASE k > n
    BY <2>2
  <2>3. CASE k < n
    <3>1. Extends(Stuffed(data)[n - 1], Stuffed(data)[k])
      BY <1>2, <2>3
    <3>2. Stuffed(data)[n] = Stuffed(data)[n - 1] \o Escaped(data[n])
      BY StuffedIs
    <3>3. Escaped(data[n]) \in Seq(Byte)
      <4>1. data[n] \in Byte
        OBVIOUS
      <4>2. QED
        BY <4>1, EscapedIs
    <3>4. Stuffed(data)[n - 1] \in Seq(Byte) /\ Stuffed(data)[k] \in Seq(Byte)
      <4>1. n - 1 \in 0 .. Len(data)
        BY <1>0
      <4>2. QED
        BY <4>1, StuffedSize
    <3> DEFINE u == Stuffed(data)[n - 1]
               t == Stuffed(data)[n]
               s == Stuffed(data)[k]
               e == Escaped(data[n])
    <3>a. u \in Seq(Byte) /\ e \in Seq(Byte) /\ s \in Seq(Byte) /\ t = u \o e
      BY <3>2, <3>3, <3>4
    <3> HIDE DEF u, t, s, e
    <3>5. /\ Len(t) = Len(u) + Len(e)
          /\ \A i \in 1 .. Len(u) : t[i] = u[i]
      BY <3>a, Cat
    <3>6. Len(u) \in Nat /\ Len(e) \in Nat /\ Len(s) \in Nat
      BY <3>a, LenProperties
    <3>7. Len(s) <= Len(u) /\ \A i \in 1 .. Len(s) : u[i] = s[i]
      BY <3>1 DEF Extends, u, s
    <3>8. Extends(t, s)
      BY <3>5, <3>6, <3>7 DEF Extends
    <3>9. QED
      BY <3>8 DEF t, s
  <2>4. QED
    BY <2>1, <2>2, <2>3
<1> HIDE DEF S
<1>3. \A n \in 0 .. N : n \in S
  BY <1>0, <1>1, <1>2, Climb
<1>4. QED
  BY <1>3 DEF S

----------------------------------------------------------------------------
(* The checksum                                                            *)

\* What the assumption says of a frame the device may send.
Framed(f) ==
  /\ f.type \in Byte /\ f.type \notin Special
  /\ f.data \in Seq(Byte)
  /\ Len(f.data) <= setup.txLimit
  /\ setup.checksum = "crc32" => Crc(Plain(f.type, f.data)) \in Nat

LEMMA FrameIs ==
  ASSUME setup \in Setups, NEW f \in setup.frames
  PROVE  Framed(f)
<1>1. /\ f.type \in (0 .. 255) \ {62, 60, 92, 0, 255}
      /\ f.data \in Seq(0 .. 255) /\ Len(f.data) <= setup.txLimit
      /\ Crc(<<62, f.type>> \o f.data \o <<60>>) \in Nat
  BY Mup1Assumption
<1>2. setup.checksum = "crc32" => Plain(f.type, f.data) = <<62, f.type>> \o f.data \o <<60>>
  BY DEF Plain, Ending, Padded, SOF, EOF
<1>3. QED
  BY <1>1, <1>2 DEF Framed, Special, SOF, EOF, ESC, Byte

LEMMA PlainIs ==
  ASSUME NEW f, Framed(f)
  PROVE  Plain(f.type, f.data) \in Seq(Byte)
<1>1. Ending(f.data) \in Seq(Byte)
  <2>1. EOF \in Byte
    BY DEF EOF, Byte
  <2>2. <<EOF>> \in Seq(Byte) /\ <<EOF, EOF>> \in Seq(Byte)
    BY <2>1
  <2>3. QED
    BY <2>2 DEF Ending
<1>2. <<SOF, f.type>> \in Seq(Byte)
  BY DEF Framed, SOF, Byte
<1>3. <<SOF, f.type>> \o f.data \in Seq(Byte)
  BY <1>2, Cat DEF Framed
<1>4. QED
  BY <1>1, <1>3, Cat DEF Plain

LEMMA Modulo128 ==
  ASSUME NEW v \in Int
  PROVE  v % 128 \in 0 .. 127
  BY SMT

\* The 16 bits of a sum.
MaxWord == 65535
Word == 0 .. MaxWord
LowWord(v) == v % 65536

LEMMA WordIs == MaxWord \in Nat
  BY DEF MaxWord

LEMMA DividedIs ==
  ASSUME NEW v \in Int, NEW n \in Nat \ {0}
  PROVE  \E q \in Int : q = v \div n /\ n * q <= v /\ v < n * q + n
  BY SMT

LEMMA ModuloIs ==
  ASSUME NEW v \in Int, NEW n \in Nat \ {0}
  PROVE  v % n \in 0 .. n - 1
  BY SMT

LEMMA LowWordIs ==
  ASSUME NEW v \in Int
  PROVE  LowWord(v) \in Word
<1>1. PICK n : n = 65536
  OBVIOUS
<1>2. n \in Nat \ {0} /\ 0 .. n - 1 = Word
  <2>1. n \in Nat \ {0} /\ n - 1 = MaxWord
    BY <1>1 DEF MaxWord
  <2>2. QED
    BY <2>1 DEF Word
<1>3. v % n \in 0 .. n - 1
  BY <1>2, ModuloIs
<1>4. LowWord(v) = v % n
  BY <1>1 DEF LowWord
<1>5. QED
  BY <1>2, <1>3, <1>4

HaveDigits(c) ==
  /\ c \div 4096 \in 0 .. 15 /\ (c \div 256) % 16 \in 0 .. 15
  /\ (c \div 16) % 16 \in 0 .. 15 /\ c % 16 \in 0 .. 15

LEMMA Digits ==
  ASSUME NEW c \in Word
  PROVE  HaveDigits(c)
<1>1. c \div 4096 \in 0 .. 15
  <2>1. PICK n : n = 4096
    OBVIOUS
  <2>a. n \in Nat \ {0}
    BY ONLY <2>1
  <2>b. c \in Int /\ 0 <= c /\ c <= MaxWord
    BY WordIs DEF Word
  <2>2. c \in Int /\ n \in Nat \ {0} /\ 0 <= c /\ c <= 65535
    BY <2>a, <2>b DEF MaxWord
  <2>3. PICK q \in Int : q = c \div n /\ n * q <= c /\ c < n * q + n
    BY <2>2, DividedIs
  <2>4. 4096 * q <= c /\ c < 4096 * q + 4096
    BY <2>1, <2>3
  <2>5. q \in 0 .. 15
    BY ONLY <2>2, <2>4, q \in Int
  <2>6. QED
    BY <2>1, <2>3, <2>5
<1>2. ASSUME NEW v \in Int
      PROVE  v % 16 \in 0 .. 15
  BY SMT
<1>3. c \div 256 \in Int /\ c \div 16 \in Int /\ c \in Int
  <2>1. c \in Int
    BY DEF Word
  <2>2. ASSUME NEW n \in Nat \ {0} PROVE c \div n \in Int
    BY <2>1, DividedIs
  <2>3. PICK a \in Nat \ {0}, b \in Nat \ {0} : a = 256 /\ b = 16
    OBVIOUS
  <2>4. c \div a \in Int /\ c \div b \in Int
    BY <2>2
  <2>5. QED
    BY <2>1, <2>3, <2>4
<1>4. QED
  BY <1>1, <1>2, <1>3 DEF HaveDigits

LEMMA HexIs ==
  ASSUME NEW d \in 0 .. 15
  PROVE  Hex(d) \in Byte /\ Hex(d) \notin Special
  BY DEF Hex, Byte, Special, SOF, EOF, ESC

LEMMA Base128Is ==
  ASSUME NEW d \in 0 .. 127
  PROVE  Base128(d) \in Byte /\ Base128(d) \notin Special
  BY DEF Base128, Byte, Special, SOF, EOF, ESC

\* The trailer has a fixed size and no byte in it needs an escape.
LEMMA ChecksumIs ==
  ASSUME setup \in Setups, NEW f, Framed(f)
  PROVE  /\ ChkSize \in {4, 5}
         /\ Checksum(f.type, f.data) \in Seq(Byte)
         /\ Len(Checksum(f.type, f.data)) = ChkSize
         /\ \A i \in 1 .. ChkSize : Checksum(f.type, f.data)[i] \notin Special
<1> DEFINE s == Plain(f.type, f.data)
<1>1. s \in Seq(Byte)
  BY PlainIs
<1>2. CASE setup.checksum = "crc32"
  <2>1. Crc(s) \in Nat
    BY <1>2 DEF Framed
  <2> DEFINE v == Crc(s)
             q1 == v \div 268435456
             q2 == v \div 2097152
             q3 == v \div 16384
             q4 == v \div 128
             d1 == q1 % 128
             d2 == q2 % 128
             d3 == q3 % 128
             d4 == q4 % 128
             d5 == v % 128
  <2>2. Checksum(f.type, f.data)
          = <<Base128(d1), Base128(d2), Base128(d3), Base128(d4), Base128(d5)>>
    BY <1>2 DEF Checksum, ToBase128
  <2>3. ChkSize = 5
    BY <1>2 DEF ChkSize
  <2> HIDE DEF s
  <2>a. v \in Nat
    BY <2>1
  <2> HIDE DEF v
  <2>b. q1 \in Int /\ q2 \in Int /\ q3 \in Int /\ q4 \in Int
    BY <2>a, SMT
  <2> HIDE DEF q1, q2, q3, q4
  <2>c. v \in Int
    BY <2>a
  <2>4. /\ d1 \in 0 .. 127 /\ d2 \in 0 .. 127 /\ d3 \in 0 .. 127 /\ d4 \in 0 .. 127
        /\ d5 \in 0 .. 127
    BY <2>b, <2>c, Modulo128, Zenon
  <2> HIDE DEF d1, d2, d3, d4, d5
  <2>5. /\ Base128(d1) \in Byte /\ Base128(d1) \notin Special
        /\ Base128(d2) \in Byte /\ Base128(d2) \notin Special
        /\ Base128(d3) \in Byte /\ Base128(d3) \notin Special
        /\ Base128(d4) \in Byte /\ Base128(d4) \notin Special
        /\ Base128(d5) \in Byte /\ Base128(d5) \notin Special
    BY <2>4, Base128Is
  <2>6. QED
    BY <2>2, <2>3, <2>5
<1>3. CASE setup.checksum # "crc32"
  <2>1. WordSum(s) \in Int
    BY <1>1, SumIsNumber
  <2> DEFINE z == 65535 - Carried(Carried(WordSum(s)))
             c == LowWord(z)
             d1 == c \div 4096
             d2 == (c \div 256) % 16
             d3 == (c \div 16) % 16
             d4 == c % 16
  <2>2. Checksum(f.type, f.data) = <<Hex(d1), Hex(d2), Hex(d3), Hex(d4)>>
    BY <1>3 DEF Checksum, Internet, LowWord
  <2>3. ChkSize = 4
    BY <1>3 DEF ChkSize
  <2> HIDE DEF s
  <2>a. Carried(WordSum(s)) \in Int
    BY <2>1, SMT DEF Carried
  <2>b. Carried(Carried(WordSum(s))) \in Int
    BY <2>a, SMT DEF Carried
  <2>c. 65535 - Carried(Carried(WordSum(s))) \in Int
    BY <2>b, SMT
  <2>d. z \in Int
    BY <2>c
  <2> HIDE DEF z
  <2>4. c \in Word
    BY <2>d, LowWordIs
  <2> HIDE DEF c
  <2>5. d1 \in 0 .. 15 /\ d2 \in 0 .. 15 /\ d3 \in 0 .. 15 /\ d4 \in 0 .. 15
    <3>1. HaveDigits(c)
      BY <2>4, Digits
    <3>2. QED
      BY <3>1, SMT DEF HaveDigits
  <2> HIDE DEF d1, d2, d3, d4
  <2>6. /\ Hex(d1) \in Byte /\ Hex(d1) \notin Special
        /\ Hex(d2) \in Byte /\ Hex(d2) \notin Special
        /\ Hex(d3) \in Byte /\ Hex(d3) \notin Special
        /\ Hex(d4) \in Byte /\ Hex(d4) \notin Special
    BY <2>5, HexIs
  <2>7. QED
    BY <2>2, <2>3, <2>6
<1>4. QED
  BY <1>2, <1>3

----------------------------------------------------------------------------
(* The frame as it goes over the line                                      *)

Sized(f) ==
  /\ BodyEnd(f) \in Nat /\ LastEof(f) \in Nat /\ Total(f) \in Nat
  /\ 2 <= BodyEnd(f)
  /\ LastEof(f) = BodyEnd(f) + (IF Padded(f.data) THEN 2 ELSE 1)
  /\ Total(f) = LastEof(f) + ChkSize
  /\ ChkSize \in {4, 5}
  /\ Total(f) <= setup.maxData
  /\ Len(f.data) <= setup.maxData

LEMMA SizedIs ==
  ASSUME setup \in Setups, NEW f, Framed(f)
  PROVE  Sized(f)
<1> DEFINE n == Len(f.data)
           g == Len(Stuffed(f.data)[n])
           e == Len(Ending(f.data))
<1>1. n \in Nat /\ g \in Nat /\ g <= 2 * n
  <2>1. f.data \in Seq(Byte) /\ n \in 0 .. n
    BY DEF Framed
  <2>2. Stuffed(f.data)[n] \in Seq(Byte) /\ g <= 2 * n
    BY <2>1, StuffedSize
  <2>3. g \in Nat
    BY <2>2, LenProperties
  <2>4. QED
    BY <2>1, <2>2, <2>3
<1>2. e = IF Padded(f.data) THEN 2 ELSE 1
  BY DEF Ending
<1>3. ChkSize \in {4, 5}
  BY ChecksumIs
<1>4. n <= setup.txLimit
  BY DEF Framed
<1>5. setup.txLimit \in Nat /\ setup.maxData \in Nat /\ 2 * setup.txLimit + 10 <= setup.maxData
  BY Mup1Assumption
<1>6. /\ BodyEnd(f) = 2 + g
      /\ LastEof(f) = BodyEnd(f) + e
      /\ Total(f) = LastEof(f) + ChkSize
  BY DEF BodyEnd, LastEof, Total
<1> HIDE DEF n, g, e
<1> DEFINE c == ChkSize
           t == setup.txLimit
           x == setup.maxData
<1> HIDE DEF c, t, x
<1>7. e \in {1, 2} /\ c \in {4, 5} /\ t \in Nat /\ x \in Nat /\ 2 * t + 10 <= x /\ n <= t
  BY <1>2, <1>3, <1>4, <1>5 DEF c, t, x
<1>8. 2 + g \in Nat /\ 2 <= 2 + g /\ 2 + g + e \in Nat /\ 2 + g + e + c \in Nat
  BY <1>1, <1>7
<1>9. 2 + g + e + c <= x /\ n <= x
  BY <1>1, <1>7
<1>10. BodyEnd(f) = 2 + g /\ LastEof(f) = 2 + g + e /\ Total(f) = 2 + g + e + c
  BY <1>6 DEF c
<1>11. QED
  BY <1>2, <1>3, <1>6, <1>8, <1>9, <1>10 DEF Sized, c, x, n

CodeOf(f) ==
  /\ Code(f) \in Seq(Byte) /\ Len(Code(f)) = Total(f)
  /\ Code(f)[1] = SOF /\ Code(f)[2] = f.type
  /\ \A i \in 1 .. Len(Stuffed(f.data)[Len(f.data)]) :
       Code(f)[2 + i] = Stuffed(f.data)[Len(f.data)][i]
  /\ \A i \in 1 .. Len(Ending(f.data)) : Code(f)[BodyEnd(f) + i] = EOF
  /\ \A i \in 1 .. ChkSize : Code(f)[LastEof(f) + i] = Checksum(f.type, f.data)[i]

LEMMA CodeIs ==
  ASSUME setup \in Setups, NEW f, Framed(f)
  PROVE  CodeOf(f)
<1> DEFINE h == <<SOF, f.type>>
           g == Stuffed(f.data)[Len(f.data)]
           e == Ending(f.data)
           c == Checksum(f.type, f.data)
<1>1. h \in Seq(Byte) /\ Len(h) = 2 /\ h[1] = SOF /\ h[2] = f.type
  BY DEF Framed, SOF, Byte
<1>2. g \in Seq(Byte)
  <2>1. f.data \in Seq(Byte)
    BY DEF Framed
  <2>2. Len(f.data) \in 0 .. Len(f.data)
    BY <2>1, LenProperties
  <2>3. QED
    BY <2>1, <2>2, StuffedSize
<1>3. e \in Seq(Byte) /\ \A i \in 1 .. Len(e) : e[i] = EOF
  <2>1. EOF \in Byte
    BY DEF EOF, Byte
  <2>2. CASE Padded(f.data)
    <3>1. e = <<EOF, EOF>>
      BY <2>2 DEF Ending
    <3>2. QED
      BY <2>1, <3>1
  <2>3. CASE ~Padded(f.data)
    <3>1. e = <<EOF>>
      BY <2>3 DEF Ending
    <3>2. QED
      BY <2>1, <3>1
  <2>4. QED
    BY <2>2, <2>3
<1>4. c \in Seq(Byte) /\ Len(c) = ChkSize
  BY ChecksumIs
<1>5. /\ Code(f) = h \o g \o e \o c
      /\ BodyEnd(f) = 2 + Len(g) /\ LastEof(f) = BodyEnd(f) + Len(e)
      /\ Total(f) = LastEof(f) + ChkSize
  BY DEF Code, Enc, BodyEnd, LastEof, Total
<1> HIDE DEF h, g, e, c
<1> DEFINE s1 == h \o g
           s2 == s1 \o e
           s3 == s2 \o c
<1>6. /\ s1 \in Seq(Byte) /\ Len(s1) = Len(h) + Len(g)
      /\ \A i \in 1 .. Len(h) : s1[i] = h[i]
      /\ \A i \in 1 .. Len(g) : s1[Len(h) + i] = g[i]
  BY <1>1, <1>2, Cat
<1>7. s3 = Code(f)
  BY <1>5
<1> HIDE DEF s1
<1>8. /\ s2 \in Seq(Byte) /\ Len(s2) = Len(s1) + Len(e)
      /\ \A i \in 1 .. Len(s1) : s2[i] = s1[i]
      /\ \A i \in 1 .. Len(e) : s2[Len(s1) + i] = e[i]
  BY <1>3, <1>6, Cat
<1> HIDE DEF s2
<1>9. /\ s3 \in Seq(Byte) /\ Len(s3) = Len(s2) + Len(c)
      /\ \A i \in 1 .. Len(s2) : s3[i] = s2[i]
      /\ \A i \in 1 .. Len(c) : s3[Len(s2) + i] = c[i]
  BY <1>4, <1>8, Cat
<1> HIDE DEF s3
<1>10. Len(g) \in Nat /\ Len(e) \in Nat /\ Len(c) \in Nat
  BY <1>2, <1>3, <1>4, LenProperties
<1>11. Len(s1) = 2 + Len(g) /\ Len(s2) = 2 + Len(g) + Len(e)
       /\ Len(s3) = 2 + Len(g) + Len(e) + Len(c)
  BY <1>1, <1>6, <1>8, <1>9
<1>12. s3[1] = SOF /\ s3[2] = f.type
  <2>1. /\ 1 \in 1 .. Len(h) /\ 1 \in 1 .. Len(s1) /\ 1 \in 1 .. Len(s2)
        /\ 2 \in 1 .. Len(h) /\ 2 \in 1 .. Len(s1) /\ 2 \in 1 .. Len(s2)
    BY <1>1, <1>10, <1>11
  <2>2. QED
    BY <1>1, <1>6, <1>8, <1>9, <2>1
<1>13. ASSUME NEW i \in 1 .. Len(g)
       PROVE  s3[2 + i] = g[i]
  <2>1. 2 + i \in 1 .. Len(s1) /\ 2 + i \in 1 .. Len(s2)
    BY <1>10, <1>11
  <2>2. s1[2 + i] = g[i]
    BY <1>1, <1>6
  <2>3. QED
    BY <1>8, <1>9, <2>1, <2>2
<1>14. ASSUME NEW i \in 1 .. Len(e)
       PROVE  s3[2 + Len(g) + i] = EOF
  <2>1. 2 + Len(g) + i \in 1 .. Len(s2)
    BY <1>10, <1>11
  <2>2. s2[2 + Len(g) + i] = e[i]
    BY <1>8, <1>11
  <2>3. QED
    BY <1>3, <1>9, <2>1, <2>2
<1>15. ASSUME NEW i \in 1 .. Len(c)
       PROVE  s3[2 + Len(g) + Len(e) + i] = c[i]
  BY <1>9, <1>11
<1>16. /\ Code(f) \in Seq(Byte) /\ Len(Code(f)) = Total(f)
       /\ Code(f)[1] = SOF /\ Code(f)[2] = f.type
  BY <1>4, <1>5, <1>7, <1>9, <1>11, <1>12
<1>17. \A i \in 1 .. Len(g) : Code(f)[2 + i] = g[i]
  BY <1>7, <1>13
<1>18. \A i \in 1 .. Len(e) : Code(f)[BodyEnd(f) + i] = EOF
  BY <1>5, <1>7, <1>14
<1>19. \A i \in 1 .. ChkSize : Code(f)[LastEof(f) + i] = c[i]
  BY <1>4, <1>5, <1>7, <1>15
<1>20. QED
  BY <1>16, <1>17, <1>18, <1>19 DEF CodeOf, g, e, c

\* The second byte of an escape.
Second(b) == IF b = 0 THEN Esc00 ELSE IF b = 255 THEN EscFF ELSE b

\* Where byte k + 1 of the payload is.
LEMMA BodyBytes ==
  ASSUME setup \in Setups, NEW f, Framed(f), NEW k \in 0 .. (Len(f.data) - 1)
  PROVE  /\ Len(Stuffed(f.data)[k]) \in Nat
         /\ Len(Stuffed(f.data)[k + 1])
              = Len(Stuffed(f.data)[k]) + (IF f.data[k + 1] \in Special THEN 2 ELSE 1)
         /\ 2 + Len(Stuffed(f.data)[k + 1]) <= BodyEnd(f)
         /\ f.data[k + 1] \notin Special =>
              Code(f)[3 + Len(Stuffed(f.data)[k])] = f.data[k + 1]
         /\ f.data[k + 1] \in Special =>
              /\ Code(f)[3 + Len(Stuffed(f.data)[k])] = ESC
              /\ Code(f)[4 + Len(Stuffed(f.data)[k])] = Second(f.data[k + 1])
<1> DEFINE n == Len(f.data)
           d == f.data[k + 1]
           e == Escaped(d)
           G == Stuffed(f.data)
           p == Len(G[k])
<1>1. f.data \in Seq(Byte) /\ n \in Nat /\ k + 1 \in 1 .. n /\ k \in 0 .. n /\ n \in 0 .. n
      /\ k + 1 \in 0 .. n /\ k + 1 <= n /\ k + 1 - 1 = k
  BY DEF Framed
<1>2. d \in Byte
  BY <1>1, ByteAt
<1>3. /\ e \in Seq(Byte)
      /\ d \notin Special => Len(e) = 1 /\ e[1] = d
      /\ d \in Special => Len(e) = 2 /\ e[1] = ESC /\ e[2] = Second(d)
  BY <1>2, EscapedIs DEF Second
<1>4. G[k] \in Seq(Byte) /\ G[k + 1] \in Seq(Byte) /\ G[n] \in Seq(Byte)
  BY <1>1, StuffedSize
<1>5. G[k + 1] = G[k] \o e
  <2>1. \A j \in 1 .. n : G[j] = G[j - 1] \o Escaped(f.data[j])
    BY <1>1, StuffedIs
  <2> HIDE DEF n, G
  <2>2. PICK j \in 1 .. n : j = k + 1
    BY <1>1
  <2>3. j - 1 = k
    BY <1>1, <2>2
  <2>4. G[j] = G[j - 1] \o Escaped(f.data[j])
    BY <2>1
  <2>5. QED
    BY <2>2, <2>3, <2>4
<1>6. Extends(G[n], G[k + 1])
  BY <1>1, StuffedExtends
<1>7. BodyEnd(f) = 2 + Len(G[n])
  BY DEF BodyEnd
<1>8. \A i \in 1 .. Len(G[n]) : Code(f)[2 + i] = G[n][i]
  BY CodeIs DEF CodeOf
<1> HIDE DEF n, d, e, G
<1>9. /\ Len(G[k + 1]) = p + Len(e)
      /\ \A i \in 1 .. Len(e) : G[k + 1][p + i] = e[i]
  <2> DEFINE u == G[k]
  <2> HIDE DEF u
  <2>1. u \in Seq(Byte) /\ G[k + 1] = u \o e /\ p = Len(u)
    BY <1>4, <1>5 DEF u
  <2> DEFINE z == u \o e
  <2>2. Len(z) = Len(u) + Len(e) /\ \A i \in 1 .. Len(e) : z[Len(u) + i] = e[i]
    BY <1>3, <2>1, Cat
  <2>3. z = G[k + 1]
    BY <2>1
  <2> HIDE DEF z
  <2>4. QED
    BY <2>1, <2>2, <2>3
<1>10. p \in Nat /\ Len(e) \in Nat /\ Len(G[n]) \in Nat
  <2>1. ASSUME NEW s \in Seq(Byte) PROVE Len(s) \in Nat
    OBVIOUS
  <2>2. Len(e) \in Nat
    BY <1>3, <2>1
  <2>3. Len(G[k]) \in Nat /\ Len(G[n]) \in Nat
    BY <1>4, <2>1, Zenon
  <2>4. QED
    BY <2>2, <2>3
<1> HIDE DEF p
<1>11. p + Len(e) <= Len(G[n]) /\ \A i \in 1 .. (p + Len(e)) : G[n][i] = G[k + 1][i]
  BY <1>6, <1>9 DEF Extends
<1>12. ASSUME NEW i \in 1 .. Len(e)
       PROVE  Code(f)[2 + (p + i)] = e[i]
  <2>1. p + i \in 1 .. (p + Len(e)) /\ p + i \in 1 .. Len(G[n])
    BY <1>10, <1>11
  <2>2. QED
    BY <1>8, <1>9, <1>11, <2>1
<1>13. CASE d \notin Special
  <2>a. Len(e) = 1 /\ e[1] = d
    BY <1>3, <1>13
  <2>b. 2 + (p + 1) = 3 + p /\ 1 \in 1 .. Len(e)
    BY <1>10, <2>a
  <2>1. Len(e) = 1 /\ 2 + (p + 1) = 3 + p /\ 1 \in 1 .. Len(e) /\ e[1] = d
    BY <2>a, <2>b
  <2>2. Code(f)[3 + p] = d
    BY <1>12, <2>1
  <2>3. Len(G[k + 1]) = p + 1 /\ 2 + Len(G[k + 1]) <= BodyEnd(f)
    BY <1>7, <1>9, <1>10, <1>11, <2>1
  <2>4. QED
    BY <1>10, <1>13, <2>2, <2>3 DEF G, d, p
<1>14. CASE d \in Special
  <2>a. Len(e) = 2 /\ e[1] = ESC /\ e[2] = Second(d)
    BY <1>3, <1>14
  <2>b. /\ 2 + (p + 1) = 3 + p /\ 1 \in 1 .. Len(e)
        /\ 2 + (p + 2) = 4 + p /\ 2 \in 1 .. Len(e)
    BY <1>10, <2>a
  <2>1. /\ Len(e) = 2 /\ 2 + (p + 1) = 3 + p /\ 1 \in 1 .. Len(e) /\ e[1] = ESC
        /\ 2 + (p + 2) = 4 + p /\ 2 \in 1 .. Len(e) /\ e[2] = Second(d)
    BY <2>a, <2>b
  <2>2. Code(f)[3 + p] = ESC /\ Code(f)[4 + p] = Second(d)
    BY <1>12, <2>1
  <2>3. Len(G[k + 1]) = p + 2 /\ 2 + Len(G[k + 1]) <= BodyEnd(f)
    BY <1>7, <1>9, <1>10, <1>11, <2>1
  <2>4. QED
    BY <1>10, <1>14, <2>2, <2>3 DEF G, d, p
<1>15. QED
  BY <1>13, <1>14

\* The byte behind the first a of a frame, and what of the payload it is.
AtEscape(f, a, k) ==
  Code(f)[a + 1] = Second(f.data[k + 1]) /\ InBody(f, a + 1, k + 1, FALSE)
AtSpecial(f, a, k) == Code(f)[a + 1] = ESC /\ InBody(f, a + 1, k, TRUE)
AtPlain(f, a, k) == Code(f)[a + 1] = f.data[k + 1] /\ InBody(f, a + 1, k + 1, FALSE)

NextInBody(f, a, k, mid) ==
  /\ a \in 2 .. BodyEnd(f)
  /\ \/ /\ k \in 0 .. (Len(f.data) - 1) /\ a < BodyEnd(f)
        /\ \/ mid /\ f.data[k + 1] \in Special /\ AtEscape(f, a, k)
           \/ ~mid /\ f.data[k + 1] \in Special /\ AtSpecial(f, a, k)
           \/ ~mid /\ f.data[k + 1] \notin Special /\ AtPlain(f, a, k)
     \/ k = Len(f.data) /\ ~mid /\ a = BodyEnd(f)

LEMMA BodyStep ==
  ASSUME setup \in Setups, NEW f, Framed(f), NEW a, NEW k, NEW mid \in BOOLEAN,
         InBody(f, a, k, mid)
  PROVE  NextInBody(f, a, k, mid)
<1> DEFINE n == Len(f.data)
           p == Len(Stuffed(f.data)[k])
           q == Len(Stuffed(f.data)[k + 1])
<1>1. n \in Nat /\ k \in 0 .. n /\ a = 2 + p + (IF mid THEN 1 ELSE 0)
      /\ (mid => k < n /\ f.data[k + 1] \in Special)
  BY DEF InBody, Framed
<1>2. CASE k = n
  <2>1. ~mid /\ a = 2 + p /\ BodyEnd(f) = 2 + p
    <3>1. ~(k < n)
      BY <1>1, <1>2
    <3>2. ~mid
      BY <1>1, <3>1
    <3>3. a = 2 + p + 0
      BY <1>1, <3>2
    <3>4. p \in Nat
      <4>1. Stuffed(f.data)[k] \in Seq(Byte)
        BY <1>1, StuffedSize DEF Framed
      <4>2. QED
        BY <4>1, LenProperties
    <3> HIDE DEF p
    <3>5. a = 2 + p
      BY <3>3, <3>4
    <3>6. QED
      BY <1>2, <3>2, <3>5 DEF BodyEnd, p
  <2>2. 2 <= BodyEnd(f) /\ BodyEnd(f) \in Nat
    BY SizedIs DEF Sized
  <2>3. a \in 2 .. BodyEnd(f)
    BY <2>1, <2>2
  <2>4. QED
    BY <1>2, <2>1, <2>3 DEF NextInBody
<1>3. CASE k < n
  <2>1. k \in 0 .. (n - 1)
    BY <1>1, <1>3
  <2>2. /\ p \in Nat
        /\ q = p + (IF f.data[k + 1] \in Special THEN 2 ELSE 1)
        /\ 2 + q <= BodyEnd(f)
        /\ f.data[k + 1] \notin Special => Code(f)[3 + p] = f.data[k + 1]
        /\ f.data[k + 1] \in Special =>
             Code(f)[3 + p] = ESC /\ Code(f)[4 + p] = Second(f.data[k + 1])
    BY <2>1, BodyBytes
  <2>3. BodyEnd(f) \in Nat
    BY SizedIs DEF Sized
  <2>4. k + 1 \in 0 .. n /\ k # n
    BY <1>1, <2>1
  <2>5. ASSUME NEW b, b = 2 + q
        PROVE  InBody(f, b, k + 1, FALSE)
    <3> HIDE DEF p
    <3>1. q \in Nat
      BY <2>2
    <3> HIDE DEF q
    <3>2. b = 2 + q + 0
      BY <2>5, <3>1
    <3>3. QED
      BY <2>4, <3>2 DEF InBody, q
  <2>6. CASE mid
    <3>1. a = 3 + p /\ f.data[k + 1] \in Special
      <4> HIDE DEF p
      <4>1. QED
        BY <1>1, <2>2, <2>6
    <3>2. q = p + 2
      BY <2>2, <3>1
    <3> HIDE DEF p, q
    <3>3. a + 1 = 4 + p /\ a + 1 = 2 + q /\ a \in 2 .. BodyEnd(f) /\ a < BodyEnd(f)
      BY <2>2, <2>3, <3>1, <3>2
    <3>4. Code(f)[a + 1] = Second(f.data[k + 1])
      BY <2>2, <3>1, <3>3
    <3>5. AtEscape(f, a, k)
      BY <2>5, <3>3, <3>4 DEF AtEscape
    <3>6. QED
      BY <2>1, <2>6, <3>1, <3>3, <3>5 DEF NextInBody
  <2>7. CASE ~mid
    <3>1. a = 2 + p
      <4> HIDE DEF p
      <4>1. QED
        BY <1>1, <2>2, <2>7
    <3>2. CASE f.data[k + 1] \in Special
      <4>1. q = p + 2
        BY <2>2, <3>2
      <4>2. InBody(f, a + 1, k, TRUE)
        BY <1>1, <1>3, <3>1, <3>2 DEF InBody
      <4> HIDE DEF p, q
      <4>3. a + 1 = 3 + p /\ a \in 2 .. BodyEnd(f) /\ a < BodyEnd(f)
        BY <2>2, <2>3, <3>1, <4>1
      <4>4. Code(f)[a + 1] = ESC
        BY <2>2, <3>2, <4>3
      <4>5. QED
        BY <2>1, <2>7, <3>2, <4>2, <4>3, <4>4 DEF NextInBody, AtSpecial
    <3>3. CASE f.data[k + 1] \notin Special
      <4>1. q = p + 1
        BY <2>2, <3>3
      <4> HIDE DEF p, q
      <4>3. a + 1 = 3 + p /\ a + 1 = 2 + q /\ a \in 2 .. BodyEnd(f) /\ a < BodyEnd(f)
        BY <2>2, <2>3, <3>1, <4>1
      <4>4. Code(f)[a + 1] = f.data[k + 1]
        BY <2>2, <3>3, <4>3
      <4>5. AtPlain(f, a, k)
        BY <2>5, <4>3, <4>4 DEF AtPlain
      <4>6. QED
        BY <2>1, <2>7, <3>3, <4>3, <4>5 DEF NextInBody
    <3>4. QED
      BY <3>2, <3>3
  <2>8. QED
    BY <2>6, <2>7
<1>4. k = n \/ k < n
  <2> HIDE DEF n
  <2>1. QED
    BY <1>1
<1>5. QED
  BY <1>2, <1>3, <1>4

----------------------------------------------------------------------------
(* One byte                                                                *)

InByte(x) == x.b \in Byte /\ x.of \in Nat

\* One field changed.
LEMMA NewState ==
  ASSUME NEW a, NEW b, NEW c, NEW d, NEW e, NEW g, NEW s, s = Rec(a, b, c, d, e, g), NEW v
  PROVE  [s EXCEPT !.state = v] = Rec(v, b, c, d, e, g)
  BY DEF Rec

LEMMA NewType ==
  ASSUME NEW a, NEW b, NEW c, NEW d, NEW e, NEW g, NEW s, s = Rec(a, b, c, d, e, g), NEW v
  PROVE  [s EXCEPT !.type = v] = Rec(a, v, c, d, e, g)
  BY DEF Rec

LEMMA NewData ==
  ASSUME NEW a, NEW b, NEW c, NEW d, NEW e, NEW g, NEW s, s = Rec(a, b, c, d, e, g), NEW v
  PROVE  [s EXCEPT !.data = v] = Rec(a, b, v, d, e, g)
  BY DEF Rec

LEMMA NewChk ==
  ASSUME NEW a, NEW b, NEW c, NEW d, NEW e, NEW g, NEW s, s = Rec(a, b, c, d, e, g), NEW v
  PROVE  [s EXCEPT !.chk = v] = Rec(a, b, c, v, e, g)
  BY DEF Rec

LEMMA NewRaw ==
  ASSUME NEW a, NEW b, NEW c, NEW d, NEW e, NEW g, NEW s, s = Rec(a, b, c, d, e, g), NEW v
  PROVE  [s EXCEPT !.raw = v] = Rec(a, b, c, d, v, g)
  BY DEF Rec

LEMMA NewGot ==
  ASSUME NEW a, NEW b, NEW c, NEW d, NEW e, NEW g, NEW s, s = Rec(a, b, c, d, e, g), NEW v
  PROVE  [s EXCEPT !.got = v] = Rec(a, b, c, d, e, v)
  BY DEF Rec

LEMMA Fields ==
  ASSUME NEW s, IsRec(s), NEW v
  PROVE  /\ ToInit(s) = Rec("init", s.type, s.data, s.chk, s.raw, s.got)
         /\ Sof(s) = Rec("sof", 0, <<>>, <<>>, s.raw, s.got)
         /\ [s EXCEPT !.state = v] = Rec(v, s.type, s.data, s.chk, s.raw, s.got)
         /\ [s EXCEPT !.state = "data", !.type = v]
              = Rec("data", v, s.data, s.chk, s.raw, s.got)
         /\ Collect(s, v) = Rec("data", s.type, Append(s.data, v), s.chk, s.raw, s.got)
         /\ [s EXCEPT !.chk = Append(@, v)]
              = Rec(s.state, s.type, s.data, Append(s.chk, v), s.raw, s.got)
         /\ Deliver(s, v)
              = Rec(s.state, s.type, s.data, s.chk, <<>>,
                    Append(s.got, [type |-> s.type, data |-> s.data, of |-> v]))
<1> DEFINE a == s.state
           b == s.type
           c == s.data
           d == s.chk
           e == s.raw
           g == s.got
           ca == Append(c, v)
           da == Append(d, v)
           ga == Append(g, [type |-> b, data |-> c, of |-> v])
<1>1. s = Rec(a, b, c, d, e, g)
  BY DEF IsRec
<1>2. ToInit(s) = [s EXCEPT !.state = "init"]
  BY DEF ToInit
<1>3. Sof(s) = [s EXCEPT !.state = "sof", !.type = 0, !.data = <<>>, !.chk = <<>>]
  BY DEF Sof
<1>4. Collect(s, v) = [s EXCEPT !.state = "data", !.data = ca]
  BY DEF Collect
<1>5. Deliver(s, v) = [s EXCEPT !.raw = <<>>, !.got = ga]
  BY DEF Deliver
<1>6. [s EXCEPT !.chk = Append(@, v)] = [s EXCEPT !.chk = da]
  OBVIOUS
<1> HIDE DEF a, b, c, d, e, g, ca, da, ga
<1>7. ToInit(s) = Rec("init", b, c, d, e, g)
  BY <1>1, <1>2, NewState
<1>a. [s EXCEPT !.state = v] = Rec(v, b, c, d, e, g)
  BY <1>1, NewState
<1>b. [s EXCEPT !.chk = Append(@, v)] = Rec(a, b, c, da, e, g)
  BY <1>1, <1>6, NewChk
<1>8. Sof(s) = Rec("sof", 0, <<>>, <<>>, e, g)
  <2> DEFINE z == 0
             n == <<>>
             t == [s EXCEPT !.state = "sof"]
             u == [t EXCEPT !.type = z]
             w == [u EXCEPT !.data = n]
  <2>1. Sof(s) = [w EXCEPT !.chk = n]
    BY <1>3
  <2> HIDE DEF z, n
  <2>2. t = Rec("sof", b, c, d, e, g)
    BY <1>1, NewState
  <2> HIDE DEF t
  <2>3. u = Rec("sof", z, c, d, e, g)
    BY <2>2, NewType
  <2> HIDE DEF u
  <2>4. w = Rec("sof", z, n, d, e, g)
    BY <2>3, NewData
  <2> HIDE DEF w
  <2>5. Sof(s) = Rec("sof", z, n, n, e, g)
    BY <2>1, <2>4, NewChk
  <2>6. QED
    BY <2>5 DEF z, n
<1> DEFINE in == [s EXCEPT !.state = "data"]
<1>c. in = Rec("data", b, c, d, e, g)
  BY <1>1, NewState
<1>9. [s EXCEPT !.state = "data", !.type = v] = Rec("data", v, c, d, e, g)
  <2>1. [s EXCEPT !.state = "data", !.type = v] = [in EXCEPT !.type = v]
    OBVIOUS
  <2> HIDE DEF in
  <2>2. [in EXCEPT !.type = v] = Rec("data", v, c, d, e, g)
    BY <1>c, NewType
  <2>3. QED
    BY <2>1, <2>2
<1>10. Collect(s, v) = Rec("data", b, ca, d, e, g)
  <2>1. Collect(s, v) = [in EXCEPT !.data = ca]
    BY <1>4
  <2> HIDE DEF in
  <2>2. [in EXCEPT !.data = ca] = Rec("data", b, ca, d, e, g)
    BY <1>c, NewData
  <2>3. QED
    BY <2>1, <2>2
<1>11. Deliver(s, v) = Rec(a, b, c, d, <<>>, ga)
  <2> DEFINE n == <<>>
             t == [s EXCEPT !.raw = n]
  <2>1. Deliver(s, v) = [t EXCEPT !.got = ga]
    BY <1>5
  <2> HIDE DEF n
  <2>2. t = Rec(a, b, c, d, n, g)
    BY <1>1, NewRaw
  <2> HIDE DEF t
  <2>3. [t EXCEPT !.got = ga] = Rec(a, b, c, d, n, ga)
    BY <2>2, NewGot
  <2>4. QED
    BY <2>1, <2>3 DEF n
<1>12. QED
  BY <1>7, <1>a, <1>b, <1>8, <1>9, <1>10, <1>11 DEF a, b, c, d, e, g, ca, da, ga

LEMMA RecFields ==
  ASSUME NEW a, NEW b, NEW c, NEW d, NEW e, NEW g
  PROVE  /\ Rec(a, b, c, d, e, g).state = a /\ Rec(a, b, c, d, e, g).type = b
         /\ Rec(a, b, c, d, e, g).data = c /\ Rec(a, b, c, d, e, g).chk = d
         /\ Rec(a, b, c, d, e, g).raw = e /\ Rec(a, b, c, d, e, g).got = g
         /\ IsRec(Rec(a, b, c, d, e, g))
  BY DEF Rec, IsRec

\* What a byte makes of each state but the trailer.
RxData(s, x, t) ==
  /\ Len(s.data) <= setup.maxData =>
       /\ x.b = ESC => t = Rec("esc", s.type, s.data, s.chk, s.raw, s.got)
       /\ x.b = EOF => t = Rec(IF Padded(s.data) THEN "eof2" ELSE "chk0",
                               s.type, s.data, s.chk, s.raw, s.got)
       /\ x.b = SOF => t = Rec("sof", 0, <<>>, <<>>, s.raw, s.got)
       /\ x.b \in {0, 255} => t = Rec("init", s.type, s.data, s.chk, s.raw, s.got)
       /\ x.b \notin Special =>
            t = Rec("data", s.type, Append(s.data, x.b), s.chk, s.raw, s.got)
  /\ ~(Len(s.data) <= setup.maxData) =>
       t = Rec("init", s.type, s.data, s.chk, s.raw, s.got)

RxEsc(s, x, t) ==
  \/ \E b \in Byte : /\ b \in Special /\ x.b = Second(b)
                     /\ t = Rec("data", s.type, Append(s.data, b), s.chk, s.raw, s.got)
  \/ /\ \A b \in Special : x.b # Second(b)
     /\ t = Rec("init", s.type, s.data, s.chk, s.raw, s.got)

RxFrom(s, x, t) ==
  /\ s.state = "init" => t = (IF x.b = SOF THEN Rec("sof", 0, <<>>, <<>>, s.raw, s.got) ELSE s)
  /\ s.state = "sof" => t = Rec("data", x.b, s.data, s.chk, s.raw, s.got)
  /\ s.state = "data" => RxData(s, x, t)
  /\ s.state = "esc" => RxEsc(s, x, t)
  /\ s.state = "eof2" =>
       t = Rec(IF x.b = EOF THEN "chk0" ELSE "init", s.type, s.data, s.chk, s.raw, s.got)

\* The byte that completes the trailer, and those before.
RxTrailer(s, x, t) ==
  LET chk == Append(s.chk, x.b)
  IN  t = IF Len(chk) < ChkSize THEN Rec("chk0", s.type, s.data, chk, s.raw, s.got)
          ELSE IF chk = Checksum(s.type, s.data)
               THEN Rec("init", s.type, s.data, chk, <<>>,
                        Append(s.got, [type |-> s.type, data |-> s.data, of |-> x.of]))
               ELSE Rec("init", s.type, s.data, chk, s.raw, s.got)

LEMMA RxDataIs ==
  ASSUME setup \in Setups, NEW s, NEW x, Receiver(s), InByte(x), s.state = "data"
  PROVE  RxData(s, x, RxSm(s, x))
<1>0. IsRec(s) /\ Len(s.data) \in Nat /\ setup.maxData \in Nat /\ x.b \in Byte
  BY Mup1Assumption, LenProperties DEF Receiver, InByte
<1>1. RxSm(s, x) = InData(s, x.b)
  BY DEF RxSm
<1>2. CASE Len(s.data) > setup.maxData
  <2>1. RxSm(s, x) = ToInit(s)
    BY <1>1, <1>2 DEF InData
  <2>2. ~(Len(s.data) <= setup.maxData)
    BY <1>0, <1>2
  <2>3. ToInit(s) = Rec("init", s.type, s.data, s.chk, s.raw, s.got)
    BY <1>0, Fields
  <2>4. QED
    BY <2>1, <2>2, <2>3 DEF RxData
<1>3. CASE ~(Len(s.data) > setup.maxData)
  <2>a. Len(s.data) <= setup.maxData
    BY <1>0, <1>3
  <2>1. CASE x.b = ESC
    <3>1. RxSm(s, x) = [s EXCEPT !.state = "esc"]
      BY <1>1, <1>3, <2>1 DEF InData, ESC, EOF, SOF
    <3>2. x.b # EOF /\ x.b # SOF /\ x.b \notin {0, 255} /\ x.b \in Special
      BY <2>1 DEF ESC, EOF, SOF, Special
    <3>3. [s EXCEPT !.state = "esc"] = Rec("esc", s.type, s.data, s.chk, s.raw, s.got)
      BY <1>0, Fields
    <3>4. QED
      BY <2>a, <2>1, <3>1, <3>2, <3>3 DEF RxData
  <2>2. CASE x.b = EOF
    <3>1. RxSm(s, x) = [s EXCEPT !.state = IF Padded(s.data) THEN "eof2" ELSE "chk0"]
      BY <1>1, <1>3, <2>2 DEF InData, ESC, EOF, SOF
    <3>2. x.b # ESC /\ x.b # SOF /\ x.b \notin {0, 255} /\ x.b \in Special
      BY <2>2 DEF ESC, EOF, SOF, Special
    <3>3. [s EXCEPT !.state = IF Padded(s.data) THEN "eof2" ELSE "chk0"]
            = Rec(IF Padded(s.data) THEN "eof2" ELSE "chk0", s.type, s.data, s.chk, s.raw, s.got)
      BY <1>0, Fields
    <3>4. QED
      BY <2>a, <2>2, <3>1, <3>2, <3>3 DEF RxData
  <2>3. CASE x.b = SOF
    <3>1. RxSm(s, x) = Sof(s)
      BY <1>1, <1>3, <2>3 DEF InData, ESC, EOF, SOF
    <3>2. x.b # ESC /\ x.b # EOF /\ x.b \notin {0, 255} /\ x.b \in Special
      BY <2>3 DEF ESC, EOF, SOF, Special
    <3>3. Sof(s) = Rec("sof", 0, <<>>, <<>>, s.raw, s.got)
      BY <1>0, Fields
    <3>4. QED
      BY <2>a, <2>3, <3>1, <3>2, <3>3 DEF RxData
  <2>4. CASE x.b \in {0, 255}
    <3>1. RxSm(s, x) = ToInit(s)
      BY <1>1, <1>3, <2>4 DEF InData, ESC, EOF, SOF
    <3>2. x.b # ESC /\ x.b # EOF /\ x.b # SOF /\ x.b \in Special
      BY <2>4 DEF ESC, EOF, SOF, Special
    <3>3. ToInit(s) = Rec("init", s.type, s.data, s.chk, s.raw, s.got)
      BY <1>0, Fields
    <3>4. QED
      BY <2>a, <2>4, <3>1, <3>2, <3>3 DEF RxData
  <2>5. CASE x.b \notin Special
    <3>1. x.b # ESC /\ x.b # EOF /\ x.b # SOF /\ x.b \notin {0, 255}
      BY <2>5 DEF Special
    <3>2. RxSm(s, x) = Collect(s, x.b)
      BY <1>1, <1>3, <3>1 DEF InData
    <3>3. Collect(s, x.b) = Rec("data", s.type, Append(s.data, x.b), s.chk, s.raw, s.got)
      BY <1>0, Fields
    <3>4. QED
      BY <2>a, <2>5, <3>1, <3>2, <3>3 DEF RxData
  <2>6. QED
    BY <2>1, <2>2, <2>3, <2>4, <2>5 DEF Special
<1>4. QED
  BY <1>2, <1>3

LEMMA RxSmFrom ==
  ASSUME setup \in Setups, NEW s, NEW x, Receiver(s), InByte(x)
  PROVE  RxFrom(s, x, RxSm(s, x))
<1>0. IsRec(s) /\ Len(s.data) \in Nat /\ setup.maxData \in Nat /\ x.b \in Byte
  BY Mup1Assumption, LenProperties DEF Receiver, InByte
<1>1. CASE s.state = "init"
  <2>1. RxSm(s, x) = IF x.b = SOF THEN Sof(s) ELSE s
    BY <1>1 DEF RxSm
  <2>2. QED
    BY <1>0, <1>1, <2>1, Fields DEF RxFrom
<1>2. CASE s.state = "sof"
  <2>1. RxSm(s, x) = [s EXCEPT !.state = "data", !.type = x.b]
    BY <1>2 DEF RxSm
  <2>2. QED
    BY <1>0, <1>2, <2>1, Fields DEF RxFrom
<1>3. CASE s.state = "data"
  BY <1>3, RxDataIs DEF RxFrom
<1>4. CASE s.state = "esc"
  <2>1. RxSm(s, x) = InEsc(s, x.b)
    BY <1>4 DEF RxSm
  <2>a. /\ SOF \in Byte \cap Special /\ ESC \in Byte \cap Special /\ EOF \in Byte \cap Special
        /\ 0 \in Byte \cap Special /\ 255 \in Byte \cap Special
        /\ Second(SOF) = SOF /\ Second(ESC) = ESC /\ Second(EOF) = EOF
        /\ Second(0) = Esc00 /\ Second(255) = EscFF
        /\ Special = {SOF, EOF, ESC, 0, 255}
    BY DEF Second, Special, SOF, EOF, ESC, Byte
  <2>b. /\ Esc00 \notin {SOF, ESC, EOF} /\ EscFF \notin {SOF, ESC, EOF} /\ Esc00 # EscFF
    BY DEF SOF, EOF, ESC, Esc00, EscFF
  <2> DEFINE Taken(b) == /\ b \in Byte /\ b \in Special /\ x.b = Second(b)
                         /\ RxSm(s, x) = Rec("data", s.type, Append(s.data, b), s.chk, s.raw, s.got)
  <2>2. CASE x.b \in {SOF, ESC, EOF}
    <3>1. RxSm(s, x) = Collect(s, x.b)
      BY <2>1, <2>2, <2>b DEF InEsc
    <3>2. x.b \in Byte /\ x.b \in Special /\ x.b = Second(x.b)
      BY <2>2, <2>a
    <3>b. Taken(x.b)
      BY <1>0, <3>1, <3>2, Fields
    <3>3. QED
      BY <1>4, <3>b DEF RxFrom, RxEsc
  <2>3. CASE x.b = Esc00
    <3>1. RxSm(s, x) = Collect(s, 0)
      BY <2>1, <2>3, <2>b DEF InEsc
    <3>2. 0 \in Byte /\ 0 \in Special /\ x.b = Second(0)
      BY <2>3, <2>a
    <3>b. Taken(0)
      BY <1>0, <3>1, <3>2, Fields
    <3>3. QED
      BY <1>4, <3>b DEF RxFrom, RxEsc
  <2>4. CASE x.b = EscFF
    <3>1. RxSm(s, x) = Collect(s, 255)
      BY <2>1, <2>4, <2>b DEF InEsc
    <3>2. 255 \in Byte /\ 255 \in Special /\ x.b = Second(255)
      BY <2>4, <2>a
    <3>b. Taken(255)
      BY <1>0, <3>1, <3>2, Fields
    <3>3. QED
      BY <1>4, <3>b DEF RxFrom, RxEsc
  <2>5. CASE x.b \notin {SOF, ESC, EOF, Esc00, EscFF}
    <3>1. RxSm(s, x) = ToInit(s)
      BY <2>1, <2>5 DEF InEsc
    <3>2. \A b \in Special : x.b # Second(b)
      BY <2>5, <2>a
    <3>3. RxSm(s, x) = Rec("init", s.type, s.data, s.chk, s.raw, s.got)
      BY <1>0, <3>1, Fields
    <3>4. QED
      BY <1>4, <3>2, <3>3 DEF RxFrom, RxEsc
  <2>6. QED
    BY <2>2, <2>3, <2>4, <2>5
<1>5. CASE s.state = "eof2"
  <2>1. RxSm(s, x) = [s EXCEPT !.state = IF x.b = EOF THEN "chk0" ELSE "init"]
    BY <1>5 DEF RxSm
  <2>2. QED
    BY <1>0, <1>5, <2>1, Fields DEF RxFrom
<1>6. CASE s.state = "chk0"
  BY <1>6 DEF RxFrom
<1>7. QED
  BY <1>1, <1>2, <1>3, <1>4, <1>5, <1>6 DEF Receiver, States

LEMMA RxSmTrailer ==
  ASSUME NEW s, NEW x, Receiver(s), s.state = "chk0"
  PROVE  RxTrailer(s, x, RxSm(s, x))
<1> DEFINE chk == Append(s.chk, x.b)
           t == [s EXCEPT !.chk = Append(@, x.b)]
           u == ToInit(t)
<1>1. RxSm(s, x) = InChk(s, x)
  BY DEF RxSm
<1>7. RxSm(s, x) = IF Len(t.chk) < ChkSize THEN t
                   ELSE IF t.chk = Checksum(t.type, t.data) THEN Deliver(u, x.of) ELSE u
  BY <1>1 DEF InChk
<1>2. t = Rec("chk0", s.type, s.data, chk, s.raw, s.got)
  <2>1. IsRec(s)
    BY DEF Receiver
  <2>2. t = Rec(s.state, s.type, s.data, chk, s.raw, s.got)
    BY <2>1, Fields
  <2>3. QED
    BY <2>2
<1>3. t.chk = chk /\ t.type = s.type /\ t.data = s.data /\ IsRec(t) /\ t.raw = s.raw /\ t.got = s.got
  BY <1>2, RecFields
<1> HIDE DEF t
<1>4. u = Rec("init", s.type, s.data, chk, s.raw, s.got)
  BY <1>3, Fields
<1> HIDE DEF u
<1>5. /\ u.state = "init" /\ u.type = s.type /\ u.data = s.data /\ u.chk = chk
      /\ u.raw = s.raw /\ u.got = s.got
  BY <1>4 DEF Rec
<1>a. IsRec(u)
  BY <1>4, RecFields
<1>6. Deliver(u, x.of) = Rec("init", s.type, s.data, chk, <<>>,
                             Append(s.got, [type |-> s.type, data |-> s.data, of |-> x.of]))
  <2>1. Deliver(u, x.of) = Rec(u.state, u.type, u.data, u.chk, <<>>,
                             Append(u.got, [type |-> u.type, data |-> u.data, of |-> x.of]))
    BY <1>a, Fields
  <2>2. QED
    BY <1>5, <2>1
<1>8. QED
  BY <1>2, <1>3, <1>4, <1>6, <1>7 DEF RxTrailer

\* How a byte may bring the receiver to a state, and what it leaves alone.
Moves(s, x, t) ==
  /\ t.state = "esc" => s.state = "data" /\ x.b = ESC /\ t.data = s.data
  /\ t.state = "data" =>
       \/ s.state = "sof" /\ t.data = s.data
       \/ s.state = "esc" /\ \E b \in Byte : t.data = Append(s.data, b)
       \/ s.state = "data" /\ x.b \notin Special /\ t.data = Append(s.data, x.b)
  /\ t.state = "sof" => x.b = SOF /\ t.data = <<>>
  /\ t.state = "eof2" => s.state = "data" /\ x.b = EOF /\ t.data = s.data
  /\ t.state = "chk0" =>
       \/ s.state \in {"data", "eof2"} /\ x.b = EOF /\ t.chk = s.chk
       \/ s.state = "chk0" /\ t.chk = Append(s.chk, x.b) /\ Len(t.chk) < ChkSize
  /\ t.state \in {"esc", "data", "eof2"} => t.chk = s.chk
  /\ t.state = "sof" => t.chk = <<>>
  /\ t.got = s.got \/ \E e \in Handed : t.got = Append(s.got, e)

LEMMA ToRec ==
  ASSUME NEW t, NEW a, NEW b, NEW c, NEW d, NEW e, NEW g, t = Rec(a, b, c, d, e, g)
  PROVE  t.state = a /\ t.type = b /\ t.data = c /\ t.chk = d /\ t.got = g /\ IsRec(t)
  BY RecFields

LEMMA Moved ==
  ASSUME setup \in Setups, NEW s, NEW x, Receiver(s), InByte(x)
  PROVE  Moves(s, x, RxSm(s, x)) /\ Receiver(RxSm(s, x))
<1> DEFINE t == RxSm(s, x)
           Good == Moves(s, x, t) /\ Receiver(t)
<1>0. SUFFICES Good
  OBVIOUS
<1>1. RxFrom(s, x, t)
  BY RxSmFrom
<1>2. s.state = "chk0" => RxTrailer(s, x, t)
  BY RxSmTrailer
<1>3. /\ IsRec(s) /\ s.state \in States /\ s.type \in Byte /\ s.data \in Seq(Byte)
      /\ s.chk \in Seq(Byte) /\ s.got \in Seq(Handed)
      /\ (s.state \in {"sof", "data", "esc", "eof2"} => s.chk = <<>>)
      /\ (s.state = "sof" => s.data = <<>>)
      /\ (s.state = "chk0" => Len(s.chk) < ChkSize)
  BY DEF Receiver
<1>4. /\ x.b \in Byte /\ x.of \in Nat
      /\ 0 \in Byte /\ <<>> \in Seq(Byte)
  BY DEF InByte, Byte
<1>5. ASSUME NEW b \in Byte
      PROVE  Append(s.data, b) \in Seq(Byte)
  BY <1>3
<1>6. ChkSize \in {4, 5} /\ Len(<<>>) = 0
  BY DEF ChkSize
<1> HIDE DEF t
\* A receiver that is back in init.
<1>i. ASSUME NEW c \in Seq(Byte), NEW e, t = Rec("init", s.type, s.data, c, e, s.got)
      PROVE  Good
  <2>1. /\ t.state = "init" /\ t.type = s.type /\ t.data = s.data /\ t.chk = c
        /\ t.got = s.got /\ IsRec(t)
    BY <1>i, ToRec
  <2>2. QED
    BY <1>3, <2>1 DEF Moves, Receiver, States
\* A receiver that is in a new frame.
<1>f. ASSUME t = Rec("sof", 0, <<>>, <<>>, s.raw, s.got), x.b = SOF
      PROVE  Good
  <2> DEFINE n == <<>>
             z == 0
  <2>a. t = Rec("sof", z, n, n, s.raw, s.got)
    BY <1>f
  <2> HIDE DEF n, z
  <2>1. t.state = "sof" /\ t.type = z /\ t.data = n /\ t.chk = n /\ t.got = s.got /\ IsRec(t)
    BY <2>a, ToRec
  <2>2. QED
    BY <1>3, <1>4, <1>f, <2>1 DEF Moves, Receiver, States, n, z
\* One that took a byte of payload.
<1>c. ASSUME NEW b \in Byte, t = Rec("data", s.type, Append(s.data, b), s.chk, s.raw, s.got),
             \/ s.state = "esc"
             \/ s.state = "data" /\ x.b = b /\ b \notin Special
      PROVE  Good
  <2> DEFINE d == Append(s.data, b)
  <2>a. t = Rec("data", s.type, d, s.chk, s.raw, s.got) /\ d \in Seq(Byte)
    BY <1>5, <1>c
  <2>b. s.state = "esc" => \E v \in Byte : d = Append(s.data, v)
    OBVIOUS
  <2>c. s.state = "data" => x.b \notin Special /\ d = Append(s.data, x.b)
    BY <1>c
  <2> HIDE DEF d
  <2>1. /\ t.state = "data" /\ t.type = s.type /\ t.data = d /\ t.chk = s.chk
        /\ t.got = s.got /\ IsRec(t)
    BY <2>a, ToRec
  <2>d. s.chk = <<>> /\ (s.state = "esc" \/ s.state = "data")
    BY <1>3, <1>c
  <2>2. Moves(s, x, t)
    BY <2>1, <2>b, <2>c, <2>d DEF Moves
  <2>3. Receiver(t)
    BY <1>3, <2>1, <2>a, <2>d DEF Receiver, States
  <2>4. QED
    BY <2>2, <2>3
\* One that changed its state only.
<1>s. ASSUME NEW v \in States \ {"init"}, t = Rec(v, s.type, s.data, s.chk, s.raw, s.got),
             s.chk = <<>>,
             \/ v = "esc" /\ s.state = "data" /\ x.b = ESC
             \/ v = "eof2" /\ s.state = "data" /\ x.b = EOF
             \/ v = "chk0" /\ s.state \in {"data", "eof2"} /\ x.b = EOF
      PROVE  Good
  <2>1. /\ t.state = v /\ t.type = s.type /\ t.data = s.data /\ t.chk = s.chk
        /\ t.got = s.got /\ IsRec(t)
    BY <1>s, ToRec
  <2>2. Moves(s, x, t)
    BY <1>s, <2>1 DEF Moves
  <2>3. v = "chk0" => Len(s.chk) < ChkSize
    BY <1>6, <1>s
  <2>4. Receiver(t)
    BY <1>3, <1>s, <2>1, <2>3 DEF Receiver
  <2>5. QED
    BY <2>2, <2>4
<1>7. CASE s.state = "init"
  <2>1. t = IF x.b = SOF THEN Rec("sof", 0, <<>>, <<>>, s.raw, s.got) ELSE s
    BY <1>1, <1>7 DEF RxFrom
  <2>2. CASE x.b # SOF
    <3>1. t = s
      BY <2>1, <2>2
    <3>2. QED
      BY <1>3, <1>7, <3>1 DEF Moves, Receiver
  <2>3. QED
    BY <1>f, <2>1, <2>2
<1>8. CASE s.state = "sof"
  <2>1. t = Rec("data", x.b, s.data, s.chk, s.raw, s.got)
    BY <1>1, <1>8 DEF RxFrom
  <2>2. /\ t.state = "data" /\ t.type = x.b /\ t.data = s.data /\ t.chk = s.chk
        /\ t.got = s.got /\ IsRec(t)
    BY <2>1, ToRec
  <2>3. Moves(s, x, t)
    BY <1>8, <2>2 DEF Moves
  <2>4. Receiver(t)
    BY <1>3, <1>4, <1>8, <2>2 DEF Receiver, States
  <2>5. QED
    BY <2>3, <2>4
<1>9. CASE s.state = "data"
  <2>1. RxData(s, x, t) /\ s.chk = <<>>
    BY <1>1, <1>3, <1>9 DEF RxFrom
  <2>2. CASE ~(Len(s.data) <= setup.maxData)
    BY <1>3, <1>i, <2>1, <2>2 DEF RxData
  <2>3. CASE Len(s.data) <= setup.maxData
    <3>1. CASE x.b = ESC
      <4>1. t = Rec("esc", s.type, s.data, s.chk, s.raw, s.got)
        BY <2>1, <2>3, <3>1 DEF RxData
      <4>2. QED
        BY <1>9, <1>s, <2>1, <3>1, <4>1 DEF States
    <3>2. CASE x.b = EOF
      <4> DEFINE v == IF Padded(s.data) THEN "eof2" ELSE "chk0"
      <4>1. t = Rec(v, s.type, s.data, s.chk, s.raw, s.got)
        BY <2>1, <2>3, <3>2 DEF RxData
      <4>2. v = "eof2" \/ v = "chk0"
        OBVIOUS
      <4> HIDE DEF v
      <4>3. v \in States \ {"init"}
        BY <4>2 DEF States
      <4>4. QED
        BY <1>9, <1>s, <2>1, <3>2, <4>1, <4>2, <4>3
    <3>3. CASE x.b = SOF
      <4>1. t = Rec("sof", 0, <<>>, <<>>, s.raw, s.got)
        BY <2>1, <2>3, <3>3 DEF RxData
      <4>2. QED
        BY <1>f, <3>3, <4>1
    <3>4. CASE x.b \in {0, 255}
      <4>1. t = Rec("init", s.type, s.data, s.chk, s.raw, s.got)
        BY <2>1, <2>3, <3>4 DEF RxData
      <4>2. QED
        BY <1>3, <1>i, <4>1
    <3>5. CASE x.b \notin Special
      <4>1. t = Rec("data", s.type, Append(s.data, x.b), s.chk, s.raw, s.got)
        BY <2>1, <2>3, <3>5 DEF RxData
      <4>2. QED
        BY <1>4, <1>9, <1>c, <3>5, <4>1
    <3>6. QED
      BY <3>1, <3>2, <3>3, <3>4, <3>5 DEF Special
  <2>4. QED
    BY <2>2, <2>3
<1>10. CASE s.state = "esc"
  <2>1. RxEsc(s, x, t)
    BY <1>1, <1>10 DEF RxFrom
  <2>2. CASE t = Rec("init", s.type, s.data, s.chk, s.raw, s.got)
    BY <1>3, <1>i, <2>2
  <2>3. ASSUME NEW b \in Byte, t = Rec("data", s.type, Append(s.data, b), s.chk, s.raw, s.got)
        PROVE  Good
    BY <1>10, <1>c, <2>3
  <2>4. QED
    BY <2>1, <2>2, <2>3 DEF RxEsc
<1>11. CASE s.state = "eof2"
  <2>1. t = Rec(IF x.b = EOF THEN "chk0" ELSE "init", s.type, s.data, s.chk, s.raw, s.got)
    BY <1>1, <1>11 DEF RxFrom
  <2>2. CASE x.b = EOF
    <3>1. t = Rec("chk0", s.type, s.data, s.chk, s.raw, s.got)
      BY <2>1, <2>2
    <3>2. QED
      BY <1>3, <1>11, <1>s, <2>2, <3>1 DEF States
  <2>3. CASE x.b # EOF
    <3>1. t = Rec("init", s.type, s.data, s.chk, s.raw, s.got)
      BY <2>1, <2>3
    <3>2. QED
      BY <1>3, <1>i, <3>1
  <2>4. QED
    BY <2>2, <2>3
<1>12. CASE s.state = "chk0"
  <2> DEFINE c == Append(s.chk, x.b)
             h == [type |-> s.type, data |-> s.data, of |-> x.of]
             g == Append(s.got, h)
             n == <<>>
  <2>1. c \in Seq(Byte)
    BY <1>3, <1>4
  <2>2. h \in Handed
    BY <1>3, <1>4 DEF Handed
  <2>3. g \in Seq(Handed) /\ \E e \in Handed : g = Append(s.got, e)
    BY <1>3, <2>2
  <2>4. t = IF Len(c) < ChkSize THEN Rec("chk0", s.type, s.data, c, s.raw, s.got)
            ELSE IF c = Checksum(s.type, s.data)
                 THEN Rec("init", s.type, s.data, c, n, g)
                 ELSE Rec("init", s.type, s.data, c, s.raw, s.got)
    BY <1>2, <1>12 DEF RxTrailer
  <2> DEFINE more == Len(c) < ChkSize
             match == c = Checksum(s.type, s.data)
  <2>5. c = Append(s.chk, x.b) /\ (more => Len(c) < ChkSize)
    OBVIOUS
  <2> HIDE DEF c, h, g, n, more, match
  <2>6. CASE more
    <3>1. t = Rec("chk0", s.type, s.data, c, s.raw, s.got)
      BY <2>4, <2>6 DEF more
    <3>2. /\ t.state = "chk0" /\ t.type = s.type /\ t.data = s.data /\ t.chk = c
          /\ t.got = s.got /\ IsRec(t)
      BY <3>1, ToRec
    <3>3. Moves(s, x, t)
      BY <1>12, <2>5, <2>6, <3>2 DEF Moves
    <3>4. Receiver(t)
      BY <1>3, <2>1, <2>5, <2>6, <3>2 DEF Receiver, States
    <3>5. QED
      BY <3>3, <3>4
  <2>7. CASE ~more /\ match
    <3>1. t = Rec("init", s.type, s.data, c, n, g)
      BY <2>4, <2>7 DEF more, match
    <3>2. /\ t.state = "init" /\ t.type = s.type /\ t.data = s.data /\ t.chk = c
          /\ t.got = g /\ IsRec(t)
      BY <3>1, ToRec
    <3>3. Moves(s, x, t)
      BY <2>3, <3>2 DEF Moves
    <3>4. Receiver(t)
      BY <1>3, <2>1, <2>3, <3>2 DEF Receiver, States
    <3>5. QED
      BY <3>3, <3>4
  <2>8. CASE ~more /\ ~match
    <3>1. t = Rec("init", s.type, s.data, c, s.raw, s.got)
      BY <2>4, <2>8 DEF more, match
    <3>2. QED
      BY <1>i, <2>1, <3>1
  <2>9. QED
    BY <2>6, <2>7, <2>8
<1>13. QED
  BY <1>3, <1>7, <1>8, <1>9, <1>10, <1>11, <1>12 DEF States

\* What was handed up stays handed up.
LEMMA StaysHandedUp ==
  ASSUME setup \in Setups, NEW s, NEW x, Receiver(s), InByte(x), NEW i, HandedUp(s, i)
  PROVE  HandedUp(RxSm(s, x), i)
<1> DEFINE t == RxSm(s, x)
<1>1. t.got = s.got \/ \E e \in Handed : t.got = Append(s.got, e)
  BY Moved DEF Moves
<1>2. s.got \in Seq(Handed)
  BY DEF Receiver
<1> HIDE DEF t
<1>3. PICK k \in DOMAIN s.got :
        s.got[k] = [type |-> sent[i].type, data |-> sent[i].data, of |-> i]
  BY DEF HandedUp
<1>4. k \in DOMAIN t.got /\ t.got[k] = s.got[k]
  <2>1. CASE t.got = s.got
    BY <2>1
  <2>2. ASSUME NEW e \in Handed, t.got = Append(s.got, e)
        PROVE  k \in DOMAIN t.got /\ t.got[k] = s.got[k]
    BY <1>2, <2>2
  <2>3. QED
    BY <1>1, <2>1, <2>2
<1>5. HandedUp(t, i)
  BY <1>3, <1>4 DEF HandedUp
<1>6. QED
  BY <1>5 DEF t

----------------------------------------------------------------------------
(* One byte of a frame                                                     *)

LEMMA SecondOnce ==
  ASSUME NEW b \in Special, NEW c \in Special, Second(b) = Second(c)
  PROVE  b = c
  BY DEF Second, Special, SOF, EOF, ESC, Esc00, EscFF

\* Before a frame that may not be lost.
ReadyFor(s) == s.state = "init" \/ (s.state = "data" /\ Len(s.data) <= setup.maxData)

LEMMA SyncStart ==
  ASSUME setup \in Setups, NEW s, NEW x, Receiver(s), InByte(x), NEW f, Framed(f),
         x.b = Code(f)[1], ReadyFor(s)
  PROVE  SyncedStart(RxSm(s, x), f, 1)
<1> DEFINE t == RxSm(s, x)
           n == <<>>
           z == 0
<1>1. x.b = SOF
  BY CodeIs DEF CodeOf
<1>2. t = Rec("sof", z, n, n, s.raw, s.got)
  <2>1. RxFrom(s, x, t)
    BY RxSmFrom
  <2>2. CASE s.state = "init"
    BY <1>1, <2>1, <2>2 DEF RxFrom
  <2>3. CASE s.state = "data" /\ Len(s.data) <= setup.maxData
    BY <1>1, <2>1, <2>3 DEF RxFrom, RxData
  <2>4. QED
    BY <2>2, <2>3 DEF ReadyFor
<1> HIDE DEF t, n, z
<1>3. t.state = "sof" /\ t.data = n /\ t.chk = n
  BY <1>2, ToRec
<1>4. QED
  BY <1>3 DEF SyncedStart, t, n

LEMMA SyncBody ==
  ASSUME setup \in Setups, NEW s, NEW x, Receiver(s), InByte(x), NEW f, Framed(f),
         NEW c \in Nat, x.b = Code(f)[c + 1],
         NEW k \in 0 .. Len(f.data), NEW mid \in BOOLEAN, SyncedBody(s, f, c, k, mid)
  PROVE  Synced(RxSm(s, x), f, c + 1)
<1> DEFINE t == RxSm(s, x)
           d == f.data[k + 1]
           n == Len(f.data)
<1>0. SUFFICES Synced(t, f, c + 1)
  OBVIOUS
<1>1. /\ s.type = f.type /\ s.chk = <<>> /\ s.data = SubSeq(f.data, 1, k)
      /\ s.state = (IF mid THEN "esc" ELSE "data")
      /\ NextInBody(f, c, k, mid)
  BY BodyStep DEF SyncedBody
<1>2. f.data \in Seq(Byte) /\ n \in Nat /\ k \in 0 .. n
  BY DEF Framed
<1>3. RxFrom(s, x, t)
  BY RxSmFrom
<1>4. Len(s.data) <= setup.maxData
  <2>1. Len(f.data) <= setup.maxData /\ setup.maxData \in Nat
    BY SizedIs, Mup1Assumption DEF Sized
  <2>2. Len(SubSeq(f.data, 1, k)) = k
    BY <1>2
  <2>3. QED
    BY <1>1, <1>2, <2>1, <2>2
<1> HIDE DEF t
\* The byte is one of payload.
<1>a. ASSUME k \in 0 .. (n - 1), InBody(f, c + 1, k + 1, FALSE),
             t = Rec("data", s.type, Append(s.data, d), s.chk, s.raw, s.got)
      PROVE  Synced(t, f, c + 1)
  <2>1. Append(SubSeq(f.data, 1, k), d) = SubSeq(f.data, 1, k + 1)
    BY <1>2, <1>a, Longer
  <2>2. t.state = "data" /\ t.type = s.type /\ t.data = Append(s.data, d) /\ t.chk = s.chk
    <3> DEFINE e == Append(s.data, d)
    <3>1. t = Rec("data", s.type, e, s.chk, s.raw, s.got)
      BY <1>a
    <3> HIDE DEF e
    <3>2. t.state = "data" /\ t.type = s.type /\ t.data = e /\ t.chk = s.chk
      BY <3>1, ToRec
    <3>3. QED
      BY <3>2 DEF e
  <2>3. SyncedBody(t, f, c + 1, k + 1, FALSE)
    BY <1>1, <1>a, <2>1, <2>2 DEF SyncedBody
  <2>4. k + 1 \in 0 .. Len(f.data)
    BY <1>2, <1>a
  <2>5. QED
    BY <2>3, <2>4 DEF Synced
<1>5. CASE k \in 0 .. (n - 1) /\ mid /\ d \in Special /\ AtEscape(f, c, k)
  <2>1. x.b = Second(d) /\ InBody(f, c + 1, k + 1, FALSE)
    BY <1>5 DEF AtEscape
  <2>2. RxEsc(s, x, t)
    BY <1>1, <1>3, <1>5 DEF RxFrom
  <2>3. ~ \A b \in Special : x.b # Second(b)
    BY <1>5, <2>1
  <2>4. PICK b \in Byte : /\ b \in Special /\ x.b = Second(b)
                          /\ t = Rec("data", s.type, Append(s.data, b), s.chk, s.raw, s.got)
    BY <2>2, <2>3 DEF RxEsc
  <2>5. b = d
    BY <1>5, <2>1, <2>4, SecondOnce
  <2>6. QED
    BY <1>5, <1>a, <2>1, <2>4, <2>5
<1>6. CASE k \in 0 .. (n - 1) /\ ~mid /\ d \in Special /\ AtSpecial(f, c, k)
  <2>1. x.b = ESC /\ InBody(f, c + 1, k, TRUE)
    BY <1>6 DEF AtSpecial
  <2>2. RxData(s, x, t)
    BY <1>1, <1>3, <1>6 DEF RxFrom
  <2>3. t = Rec("esc", s.type, s.data, s.chk, s.raw, s.got)
    BY <1>4, <2>1, <2>2 DEF RxData
  <2>4. t.state = "esc" /\ t.type = s.type /\ t.data = s.data /\ t.chk = s.chk
    BY <2>3, ToRec
  <2>5. SyncedBody(t, f, c + 1, k, TRUE)
    BY <1>1, <2>1, <2>4 DEF SyncedBody
  <2>6. QED
    BY <2>5 DEF Synced
<1>7. CASE k \in 0 .. (n - 1) /\ ~mid /\ d \notin Special /\ AtPlain(f, c, k)
  <2>1. x.b = d /\ InBody(f, c + 1, k + 1, FALSE)
    BY <1>7 DEF AtPlain
  <2>2. RxData(s, x, t)
    BY <1>1, <1>3, <1>7 DEF RxFrom
  <2>3. t = Rec("data", s.type, Append(s.data, d), s.chk, s.raw, s.got)
    BY <1>4, <1>7, <2>1, <2>2 DEF RxData
  <2>4. QED
    BY <1>7, <1>a, <2>1, <2>3
<1>8. CASE k = n /\ ~mid /\ c = BodyEnd(f)
  <2>1. s.data = f.data /\ s.state = "data"
    BY <1>1, <1>2, <1>8, Whole
  <2>2. x.b = EOF
    <3>1. 1 \in 1 .. Len(Ending(f.data))
      BY DEF Ending
    <3>2. QED
      BY <1>8, <3>1, CodeIs DEF CodeOf
  <2>3. RxData(s, x, t)
    BY <1>3, <2>1 DEF RxFrom
  <2>4. t = Rec(IF Padded(s.data) THEN "eof2" ELSE "chk0", s.type, s.data, s.chk, s.raw, s.got)
    BY <1>4, <2>2, <2>3 DEF RxData
  <2>5. CASE Padded(f.data)
    <3>1. t = Rec("eof2", s.type, s.data, s.chk, s.raw, s.got)
      BY <2>1, <2>4, <2>5
    <3>2. t.state = "eof2" /\ t.type = s.type /\ t.data = s.data /\ t.chk = s.chk
      BY <3>1, ToRec
    <3>3. SyncedPadding(t, f, c + 1)
      BY <1>1, <1>8, <2>1, <2>5, <3>2 DEF SyncedPadding
    <3>4. QED
      BY <3>3 DEF Synced
  <2>6. CASE ~Padded(f.data)
    <3>1. t = Rec("chk0", s.type, s.data, s.chk, s.raw, s.got)
      BY <2>1, <2>4, <2>6
    <3>2. t.state = "chk0" /\ t.type = s.type /\ t.data = s.data /\ t.chk = s.chk
      BY <3>1, ToRec
    <3>3. SyncedTrailer(t, f, c + 1)
      <4>1. c + 1 = LastEof(f) /\ c + 1 \in LastEof(f) .. (Total(f) - 1)
            /\ (c + 1) - LastEof(f) = 0
        BY <1>8, <2>6, SizedIs DEF Sized
      <4>2. SubSeq(Checksum(f.type, f.data), 1, 0) = <<>>
        BY ChecksumIs, Whole
      <4>3. QED
        BY <1>1, <2>1, <3>2, <4>1, <4>2 DEF SyncedTrailer
    <3>4. QED
      BY <3>3 DEF Synced
  <2>7. QED
    BY <2>5, <2>6
<1>9. QED
  BY <1>1, <1>5, <1>6, <1>7, <1>8 DEF NextInBody

LEMMA SyncPadding ==
  ASSUME setup \in Setups, NEW s, NEW x, Receiver(s), InByte(x), NEW f, Framed(f),
         NEW c \in Nat, x.b = Code(f)[c + 1], SyncedPadding(s, f, c)
  PROVE  SyncedTrailer(RxSm(s, x), f, c + 1)
<1> DEFINE t == RxSm(s, x)
<1>1. c = BodyEnd(f) + 1 /\ Padded(f.data) /\ s.state = "eof2" /\ s.type = f.type
      /\ s.data = f.data /\ s.chk = <<>>
  BY DEF SyncedPadding
<1>2. Sized(f)
  BY SizedIs
<1>3. x.b = EOF
  <2>1. 2 \in 1 .. Len(Ending(f.data)) /\ c + 1 = BodyEnd(f) + 2
    BY <1>1, <1>2 DEF Ending, Sized
  <2>2. QED
    BY <2>1, CodeIs DEF CodeOf
<1>4. t = Rec("chk0", s.type, s.data, s.chk, s.raw, s.got)
  <2>1. RxFrom(s, x, t)
    BY RxSmFrom
  <2>2. QED
    BY <1>1, <1>3, <2>1 DEF RxFrom
<1> HIDE DEF t
<1>5. t.state = "chk0" /\ t.type = s.type /\ t.data = s.data /\ t.chk = s.chk
  BY <1>4, ToRec
<1>6. c + 1 = LastEof(f) /\ c + 1 \in LastEof(f) .. (Total(f) - 1) /\ (c + 1) - LastEof(f) = 0
  <2>1. c + 1 = LastEof(f) /\ LastEof(f) \in Int /\ LastEof(f) < Total(f) /\ Total(f) \in Int
    BY <1>1, <1>2 DEF Sized
  <2>2. QED
    BY <2>1
<1>7. SubSeq(Checksum(f.type, f.data), 1, 0) = <<>>
  BY ChecksumIs, Whole
<1> DEFINE z == (c + 1) - LastEof(f)
           C == Checksum(f.type, f.data)
<1> HIDE DEF z, C
<1>a. t.chk = SubSeq(C, 1, z)
  <2>1. z = 0 /\ SubSeq(C, 1, 0) = <<>>
    BY <1>6, <1>7 DEF z, C
  <2>2. QED
    BY <1>1, <1>5, <2>1
<1>b. t.chk = SubSeq(Checksum(f.type, f.data), 1, (c + 1) - LastEof(f))
  BY <1>a DEF z, C
<1>8. SyncedTrailer(t, f, c + 1)
  <2> DEFINE a == c + 1
  <2>1. a \in LastEof(f) .. (Total(f) - 1)
    BY <1>6
  <2>2. t.chk = SubSeq(Checksum(f.type, f.data), 1, a - LastEof(f))
    BY <1>b
  <2>3. t.state = "chk0" /\ t.type = f.type /\ t.data = f.data
    BY <1>1, <1>5
  <2> HIDE DEF a
  <2>4. SyncedTrailer(t, f, a)
    BY <2>1, <2>2, <2>3 DEF SyncedTrailer
  <2>5. QED
    BY <2>4 DEF a
<1>9. QED
  BY <1>8 DEF t

\* The frame is handed up with the last byte of its trailer.
Delivered(s, x, f, t) ==
  /\ t.state = "init"
  /\ t.got = Append(s.got, [type |-> f.type, data |-> f.data, of |-> x.of])

LEMMA SyncTrailer ==
  ASSUME setup \in Setups, NEW s, NEW x, Receiver(s), InByte(x), NEW f, Framed(f),
         NEW c \in Nat, x.b = Code(f)[c + 1], SyncedTrailer(s, f, c)
  PROVE  IF c + 1 = Total(f) THEN Delivered(s, x, f, RxSm(s, x))
         ELSE SyncedTrailer(RxSm(s, x), f, c + 1)
<1> DEFINE t == RxSm(s, x)
           C == Checksum(f.type, f.data)
           j == c - LastEof(f)
           h == Append(s.chk, x.b)
<1>1. /\ c \in LastEof(f) .. (Total(f) - 1) /\ s.state = "chk0" /\ s.type = f.type
      /\ s.data = f.data /\ s.chk = SubSeq(C, 1, j)
  BY DEF SyncedTrailer
<1>2. C \in Seq(Byte) /\ Len(C) = ChkSize /\ ChkSize \in {4, 5}
  BY ChecksumIs
<1>3. LastEof(f) \in Nat /\ Total(f) = LastEof(f) + ChkSize
  BY SizedIs DEF Sized
<1>4. j \in 0 .. (Len(C) - 1) /\ j + 1 \in 1 .. ChkSize /\ c + 1 = LastEof(f) + (j + 1)
      /\ (c + 1) - LastEof(f) = j + 1
  <2> HIDE DEF C
  <2>1. QED
    BY <1>1, <1>2, <1>3
<1>5. x.b = C[j + 1]
  BY <1>4, CodeIs DEF CodeOf
<1>6. RxTrailer(s, x, t)
  BY <1>1, RxSmTrailer
<1> HIDE DEF t, C, j
<1>7. h = SubSeq(C, 1, j + 1)
  BY <1>1, <1>2, <1>4, <1>5, Longer
<1>8. Len(h) = j + 1
  BY <1>2, <1>4, <1>7
<1>9. c + 1 = Total(f) <=> j + 1 = ChkSize
  BY <1>2, <1>3, <1>4
<1>10. t = IF Len(h) < ChkSize THEN Rec("chk0", s.type, s.data, h, s.raw, s.got)
           ELSE IF h = Checksum(s.type, s.data)
                THEN Rec("init", s.type, s.data, h, <<>>,
                         Append(s.got, [type |-> s.type, data |-> s.data, of |-> x.of]))
                ELSE Rec("init", s.type, s.data, h, s.raw, s.got)
  BY <1>6 DEF RxTrailer
<1> HIDE DEF h
<1>11. CASE j + 1 = ChkSize
  <2> DEFINE g == Append(s.got, [type |-> s.type, data |-> s.data, of |-> x.of])
             n == <<>>
  <2>1. h = C
    BY <1>2, <1>7, <1>11, Whole
  <2>2. ~(Len(h) < ChkSize) /\ h = Checksum(s.type, s.data)
    BY <1>1, <1>2, <1>8, <1>11, <2>1 DEF C
  <2>3. t = Rec("init", s.type, s.data, h, n, g)
    BY <1>10, <2>2
  <2> HIDE DEF g, n
  <2>4. t.state = "init" /\ t.got = g
    BY <2>3, ToRec
  <2>5. Delivered(s, x, f, t)
    BY <1>1, <2>4 DEF Delivered, g
  <2>6. QED
    BY <1>9, <1>11, <2>5 DEF t
<1>12. CASE j + 1 # ChkSize
  <2>1. Len(h) < ChkSize
    BY <1>2, <1>4, <1>8, <1>12
  <2>2. t = Rec("chk0", s.type, s.data, h, s.raw, s.got)
    BY <1>10, <2>1
  <2>3. t.state = "chk0" /\ t.type = s.type /\ t.data = s.data /\ t.chk = h
    BY <2>2, ToRec
  <2>4. c + 1 \in LastEof(f) .. (Total(f) - 1)
    BY <1>1, <1>2, <1>3, <1>9, <1>12
  <2> DEFINE z == (c + 1) - LastEof(f)
  <2> HIDE DEF z
  <2>a. t.chk = SubSeq(C, 1, z)
    <3>1. z = j + 1
      BY <1>4 DEF z
    <3>2. QED
      BY <1>7, <2>3, <3>1
  <2>b. t.chk = SubSeq(Checksum(f.type, f.data), 1, (c + 1) - LastEof(f))
    BY <2>a DEF z, C
  <2>5. SyncedTrailer(t, f, c + 1)
    <3> DEFINE a == c + 1
    <3>1. a \in LastEof(f) .. (Total(f) - 1)
      BY <2>4
    <3>2. t.chk = SubSeq(Checksum(f.type, f.data), 1, a - LastEof(f))
      BY <2>b
    <3>3. t.state = "chk0" /\ t.type = f.type /\ t.data = f.data
      BY <1>1, <2>3
    <3> HIDE DEF a
    <3>4. SyncedTrailer(t, f, a)
      BY <3>1, <3>2, <3>3 DEF SyncedTrailer
    <3>5. QED
      BY <3>4 DEF a
  <2>6. QED
    BY <1>9, <1>12, <2>5 DEF t
<1>13. QED
  BY <1>11, <1>12

LEMMA SyncStep ==
  ASSUME setup \in Setups, NEW s, NEW x, Receiver(s), InByte(x), NEW f, Framed(f),
         NEW c \in Nat, x.b = Code(f)[c + 1], c > 0, c < Total(f), Synced(s, f, c)
  PROVE  IF c + 1 = Total(f) THEN Delivered(s, x, f, RxSm(s, x))
         ELSE Synced(RxSm(s, x), f, c + 1)
<1> DEFINE t == RxSm(s, x)
<1>1. Sized(f)
  BY SizedIs
<1>2. CASE SyncedStart(s, f, c)
  <2>1. c = 1 /\ s.state = "sof" /\ s.data = <<>> /\ s.chk = <<>>
    BY <1>2 DEF SyncedStart
  <2>2. x.b = f.type
    <3>1. c + 1 = 2
      BY <2>1
    <3>2. QED
      BY <3>1, CodeIs DEF CodeOf
  <2>3. t = Rec("data", x.b, s.data, s.chk, s.raw, s.got)
    <3>1. RxFrom(s, x, t)
      BY RxSmFrom
    <3>2. QED
      BY <2>1, <3>1 DEF RxFrom
  <2> HIDE DEF t
  <2>4. t.state = "data" /\ t.type = x.b /\ t.data = s.data /\ t.chk = s.chk
    BY <2>3, ToRec
  <2>5. f.data \in Seq(Byte) /\ 0 \in 0 .. Len(f.data)
    BY LenProperties DEF Framed
  <2>6. InBody(f, c + 1, 0, FALSE)
    <3>1. Stuffed(f.data)[0] = <<>>
      BY <2>5, StuffedIs
    <3>2. Len(Stuffed(f.data)[0]) = 0
      BY <3>1
    <3>3. c + 1 = 2 + Len(Stuffed(f.data)[0]) + 0
      BY <2>1, <3>2
    <3>4. QED
      BY <2>5, <3>3 DEF InBody
  <2>7. SubSeq(f.data, 1, 0) = <<>>
    BY <2>5, Whole
  <2>8. SyncedBody(t, f, c + 1, 0, FALSE)
    BY <2>1, <2>2, <2>4, <2>6, <2>7 DEF SyncedBody
  <2>9. Synced(t, f, c + 1)
    BY <2>5, <2>8 DEF Synced
  <2>10. c + 1 # Total(f)
    BY <1>1, <2>1 DEF Sized
  <2>11. QED
    BY <2>9, <2>10 DEF t
<1>3. ASSUME NEW k \in 0 .. Len(f.data), NEW mid \in BOOLEAN, SyncedBody(s, f, c, k, mid)
      PROVE  c + 1 # Total(f) /\ Synced(t, f, c + 1)
  <2>1. c \in 2 .. BodyEnd(f)
    BY <1>3, BodyStep DEF SyncedBody, NextInBody
  <2>2. c + 1 # Total(f)
    BY <1>1, <2>1 DEF Sized
  <2>3. QED
    BY <1>3, <2>2, SyncBody
<1>4. CASE SyncedPadding(s, f, c)
  <2>1. Synced(t, f, c + 1)
    BY <1>4, SyncPadding DEF Synced
  <2>2. c = BodyEnd(f) + 1
    BY <1>4 DEF SyncedPadding
  <2>3. c + 1 # Total(f)
    BY <1>1, <2>2 DEF Sized
  <2>4. QED
    BY <2>1, <2>3
<1>5. CASE SyncedTrailer(s, f, c)
  BY <1>5, SyncTrailer DEF Synced
<1>6. QED
  BY <1>2, <1>3, <1>4, <1>5 DEF Synced

\* Bytes of the frame that no receiver takes for the start of an escape.
LEMMA TameStep ==
  ASSUME setup \in Setups, NEW s, NEW x, Receiver(s), InByte(x), NEW f, Framed(f),
         NEW c \in Nat, x.b = Code(f)[c + 1], c < Total(f), c > 0 => Tame(s, f, c)
  PROVE  Tame(RxSm(s, x), f, c + 1)
<1> DEFINE t == RxSm(s, x)
           a == c + 1
<1>0. SUFFICES Tame(t, f, a)
  OBVIOUS
<1>1. Sized(f) /\ Moves(s, x, t) /\ Receiver(t)
  BY SizedIs, Moved
<1>2. /\ s.data \in Seq(Byte) /\ Len(s.data) \in Nat /\ x.b \in Byte
      /\ (s.state = "sof" => s.data = <<>>)
      /\ a \in Nat
      /\ t.data \in Seq(Byte) /\ t.chk \in Seq(Byte) /\ Len(t.chk) \in Nat
  BY <1>1, LenProperties DEF Receiver, InByte
<1>3. \A b \in Byte : Len(Append(s.data, b)) = Len(s.data) + 1
  BY <1>2
<1>n. ESC \in Special /\ EOF \in Special /\ SOF \in Special /\ ESC # EOF /\ SOF # EOF /\ SOF # ESC
  BY DEF Special, ESC, EOF, SOF
<1> HIDE DEF t
\* At a place of the payload.
<1>a. ASSUME NEW k \in 0 .. Len(f.data), NEW mid \in BOOLEAN, InBody(f, a, k, mid),
             t.state = (IF mid THEN "data" ELSE "esc") => Len(t.data) <= a
      PROVE  Tame(t, f, a)
  BY <1>a DEF Tame, TameBody
<1>4. CASE c = 0
  BY <1>4 DEF Tame
<1>5. CASE c = 1
  <2>1. x.b = f.type /\ x.b \notin Special
    <3>1. c + 1 = 2
      BY <1>5
    <3>2. QED
      BY <3>1, CodeIs DEF CodeOf, Framed
  <2>2. t.state # "esc"
    BY <1>1, <1>n, <2>1 DEF Moves
  <2>3. f.data \in Seq(Byte) /\ 0 \in 0 .. Len(f.data)
    BY LenProperties DEF Framed
  <2>4. InBody(f, a, 0, FALSE)
    <3>1. Stuffed(f.data)[0] = <<>>
      BY <2>3, StuffedIs
    <3>2. Len(Stuffed(f.data)[0]) = 0
      BY <3>1
    <3>3. a = 2 + Len(Stuffed(f.data)[0]) + 0
      BY <1>5, <3>2
    <3>4. QED
      BY <2>3, <3>3 DEF InBody
  <2>5. QED
    BY <1>a, <2>2, <2>3, <2>4
<1>6. ASSUME NEW k \in 0 .. Len(f.data), NEW mid \in BOOLEAN, TameBody(s, f, c, k, mid)
      PROVE  Tame(t, f, a)
  <2>1. NextInBody(f, c, k, mid)
    BY <1>6, BodyStep DEF TameBody
  <2>2. s.state = (IF mid THEN "data" ELSE "esc") => Len(s.data) <= c
    BY <1>6 DEF TameBody
  <2>d. Len(f.data) \in Nat
    BY LenProperties DEF Framed
  <2>3. CASE k \in 0 .. (Len(f.data) - 1) /\ mid /\ f.data[k + 1] \in Special /\ AtEscape(f, c, k)
    <3>a. InBody(f, a, k + 1, FALSE)
      BY <2>3 DEF AtEscape
    <3>b. k + 1 \in 0 .. Len(f.data)
      BY <2>3, <2>d
    <3>1. InBody(f, a, k + 1, FALSE) /\ k + 1 \in 0 .. Len(f.data)
      BY <3>a, <3>b
    <3>2. t.state = "esc" => Len(t.data) <= a
      <4>1. t.state = "esc" => s.state = "data" /\ t.data = s.data
        BY <1>1 DEF Moves
      <4>2. s.state = "data" => Len(s.data) <= c
        BY <2>2, <2>3
      <4>3. QED
        BY <1>2, <4>1, <4>2
    <3>3. QED
      BY <1>a, <3>1, <3>2
  <2>4. CASE k \in 0 .. (Len(f.data) - 1) /\ ~mid /\ f.data[k + 1] \in Special /\ AtSpecial(f, c, k)
    <3>1. InBody(f, a, k, TRUE) /\ x.b = ESC
      BY <2>4 DEF AtSpecial
    <3>2. t.state = "data" => Len(t.data) <= a
      <4>1. ASSUME t.state = "data"
            PROVE  \/ s.state = "sof" /\ t.data = s.data
                   \/ s.state = "esc" /\ \E b \in Byte : t.data = Append(s.data, b)
        BY <1>1, <1>n, <3>1, <4>1 DEF Moves
      <4>2. s.state = "esc" => Len(s.data) <= c
        BY <2>2, <2>4
      <4>3. Len(<<>>) = 0
        OBVIOUS
      <4>4. QED
        BY <1>2, <1>3, <4>1, <4>2, <4>3
    <3>3. QED
      BY <1>a, <3>1, <3>2
  <2>5. CASE k \in 0 .. (Len(f.data) - 1) /\ ~mid /\ f.data[k + 1] \notin Special /\ AtPlain(f, c, k)
    <3>a. InBody(f, a, k + 1, FALSE) /\ x.b \notin Special
      BY <2>5 DEF AtPlain
    <3>b. k + 1 \in 0 .. Len(f.data)
      BY <2>5, <2>d
    <3>1. InBody(f, a, k + 1, FALSE) /\ k + 1 \in 0 .. Len(f.data) /\ x.b \notin Special
      BY <3>a, <3>b
    <3>2. t.state # "esc"
      BY <1>1, <1>n, <3>1 DEF Moves
    <3>3. QED
      BY <1>a, <3>1, <3>2
  <2>6. CASE k = Len(f.data) /\ ~mid /\ c = BodyEnd(f)
    <3>1. x.b = EOF
      <4>1. 1 \in 1 .. Len(Ending(f.data))
        BY DEF Ending
      <4>2. QED
        BY <2>6, <4>1, CodeIs DEF CodeOf
    <3>2. t.state # "esc" /\ t.state # "sof"
      BY <1>1, <1>n, <3>1 DEF Moves
    <3>3. CASE Padded(f.data)
      <4>1. TamePadding(t, f, a)
        BY <2>6, <3>2, <3>3 DEF TamePadding
      <4>2. QED
        BY <4>1 DEF Tame
    <3>4. CASE ~Padded(f.data)
      <4>1. a = LastEof(f) /\ a \in LastEof(f) .. Total(f) /\ a - LastEof(f) = 0
        BY <1>1, <2>6, <3>4 DEF Sized
      <4>2. t.state = "data" => Len(t.data) <= a
        <5>1. ASSUME t.state = "data"
              PROVE  \/ s.state = "sof" /\ t.data = s.data
                     \/ s.state = "esc" /\ \E b \in Byte : t.data = Append(s.data, b)
          BY <1>1, <1>n, <3>1, <5>1 DEF Moves
        <5>2. s.state = "esc" => Len(s.data) <= c
          BY <2>2, <2>6
        <5>3. Len(<<>>) = 0
          OBVIOUS
        <5>4. QED
          BY <1>2, <1>3, <5>1, <5>2, <5>3
      <4>3. Len(t.chk) >= a - LastEof(f)
        BY <1>2, <4>1
      <4>4. TameTrailer(t, f, a)
        BY <3>2, <4>1, <4>2, <4>3 DEF TameTrailer
      <4>5. QED
        BY <4>4 DEF Tame
    <3>5. QED
      BY <3>3, <3>4
  <2>7. QED
    BY <2>1, <2>3, <2>4, <2>5, <2>6 DEF NextInBody
<1>7. CASE TamePadding(s, f, c)
  <2>1. c = BodyEnd(f) + 1 /\ Padded(f.data) /\ s.state # "esc"
    BY <1>7 DEF TamePadding
  <2>2. x.b = EOF
    <3>1. 2 \in 1 .. Len(Ending(f.data)) /\ c + 1 = BodyEnd(f) + 2
      BY <1>1, <2>1 DEF Ending, Sized
    <3>2. QED
      BY <3>1, CodeIs DEF CodeOf
  <2>3. t.state # "esc" /\ t.state # "sof"
    BY <1>1, <1>n, <2>2 DEF Moves
  <2>4. a = LastEof(f) /\ a \in LastEof(f) .. Total(f) /\ a - LastEof(f) = 0
    BY <1>1, <2>1 DEF Sized
  <2>5. t.state = "data" => Len(t.data) <= a
    <3>1. ASSUME t.state = "data"
          PROVE  s.state = "sof" /\ t.data = s.data
      BY <1>1, <1>n, <2>1, <2>2, <3>1 DEF Moves
    <3>2. Len(<<>>) = 0
      OBVIOUS
    <3>3. QED
      BY <1>2, <3>1, <3>2
  <2>6. Len(t.chk) >= a - LastEof(f)
    BY <1>2, <2>4
  <2>7. TameTrailer(t, f, a)
    BY <2>3, <2>4, <2>5, <2>6 DEF TameTrailer
  <2>8. QED
    BY <2>7 DEF Tame
<1>8. CASE TameTrailer(s, f, c)
  <2>1. /\ c \in LastEof(f) .. Total(f) /\ s.state \notin {"esc", "sof"}
        /\ s.state = "chk0" => Len(s.chk) >= c - LastEof(f)
        /\ s.state = "data" => Len(s.data) <= c
    BY <1>8 DEF TameTrailer
  <2>2. x.b \notin Special
    <3> DEFINE j == c + 1 - LastEof(f)
    <3>1. j \in 1 .. ChkSize /\ c + 1 = LastEof(f) + j
      BY <1>1, <2>1 DEF Sized
    <3> HIDE DEF j
    <3>2. x.b = Checksum(f.type, f.data)[j]
      BY <3>1, CodeIs DEF CodeOf
    <3>3. QED
      BY <3>1, <3>2, ChecksumIs
  <2>3. t.state \notin {"esc", "sof", "eof2"}
    BY <1>1, <1>n, <2>2 DEF Moves
  <2>a. LastEof(f) \in Nat /\ Total(f) \in Nat
    BY <1>1 DEF Sized
  <2>b. c \in Nat /\ a = c + 1 /\ a <= Total(f)
    BY <2>a
  <2>4. a \in LastEof(f) .. Total(f) /\ a - LastEof(f) = (c - LastEof(f)) + 1
    BY <2>1, <2>a, <2>b
  <2>5. t.state = "data" => Len(t.data) <= a
    <3>1. ASSUME t.state = "data"
          PROVE  s.state = "data" /\ t.data = Append(s.data, x.b)
      BY <1>1, <1>n, <2>1, <2>2, <3>1 DEF Moves
    <3>2. QED
      BY <1>2, <1>3, <2>1, <3>1
  <2>6. t.state = "chk0" => Len(t.chk) >= a - LastEof(f)
    <3>1. ASSUME t.state = "chk0"
          PROVE  s.state = "chk0" /\ t.chk = Append(s.chk, x.b)
      BY <1>1, <1>n, <2>1, <2>2, <3>1 DEF Moves
    <3>2. s.chk \in Seq(Byte)
      BY DEF Receiver
    <3>3. Len(Append(s.chk, x.b)) = Len(s.chk) + 1 /\ Len(s.chk) \in Nat
      BY <1>2, <3>2
    <3>4. c - LastEof(f) \in Int
      BY <1>1, <2>1 DEF Sized
    <3>5. QED
      BY <2>1, <2>4, <3>1, <3>3, <3>4
  <2>7. TameTrailer(t, f, a)
    BY <2>3, <2>4, <2>5, <2>6 DEF TameTrailer
  <2>8. QED
    BY <2>7 DEF Tame
<1>9. c = 0 \/ c = 1 \/ c > 1
  OBVIOUS
<1>10. CASE c > 1
  <2>1. c > 0 /\ c # 1
    BY <1>10
  <2>2. QED
    BY <1>6, <1>7, <1>8, <2>1 DEF Tame
<1>11. QED
  BY <1>4, <1>5, <1>9, <1>10

\* Behind such a frame the next one is found.
LEMMA TameEnd ==
  ASSUME setup \in Setups, NEW s, Receiver(s), NEW f, Framed(f), Tame(s, f, Total(f))
  PROVE  ReadyFor(s)
<1>1. Sized(f)
  BY SizedIs
<1>2. TameTrailer(s, f, Total(f))
  <2>1. Total(f) # 1 /\ Total(f) # BodyEnd(f) + 1 /\ Total(f) > BodyEnd(f)
        /\ BodyEnd(f) \in Nat /\ Total(f) \in Nat
    BY <1>1 DEF Sized
  <2>2. ASSUME NEW k \in 0 .. Len(f.data), NEW mid \in BOOLEAN,
               InBody(f, Total(f), k, mid)
        PROVE  FALSE
    <3>1. Total(f) \in 2 .. BodyEnd(f)
      BY <2>2, BodyStep DEF NextInBody
    <3>2. QED
      BY <2>1, <3>1
  <2>3. ~ TamePadding(s, f, Total(f))
    BY <2>1 DEF TamePadding
  <2>4. QED
    BY <2>1, <2>2, <2>3 DEF Tame, TameBody
<1>3. Total(f) # LastEof(f) /\ Total(f) - LastEof(f) = ChkSize /\ ChkSize \in {4, 5}
  BY <1>1 DEF Sized
<1>4. s.state # "chk0"
  <2>1. s.state = "chk0" => Len(s.chk) < ChkSize /\ Len(s.chk) \in Nat
    BY LenProperties DEF Receiver
  <2>2. s.state = "chk0" => Len(s.chk) >= ChkSize
    BY <1>2, <1>3 DEF TameTrailer
  <2>3. QED
    BY <1>3, <2>1, <2>2
<1>5. s.state = "init" \/ s.state = "data"
  BY <1>2, <1>3, <1>4 DEF TameTrailer, Receiver, States
<1>6. s.state = "data" => Len(s.data) <= setup.maxData
  <2>1. s.state = "data" => Len(s.data) <= Total(f)
    BY <1>2 DEF TameTrailer
  <2>2. Total(f) <= setup.maxData /\ Total(f) \in Nat /\ setup.maxData \in Nat
        /\ Len(s.data) \in Nat
    BY <1>1, Mup1Assumption, LenProperties DEF Sized, Receiver
  <2>3. QED
    BY <2>1, <2>2
<1>7. QED
  BY <1>5, <1>6 DEF ReadyFor


----------------------------------------------------------------------------
(* One byte off the line                                                   *)

LEMMA HurtSpoils ==
  ASSUME TypeInv, NEW h \in hurt
  PROVE  Spoiled(h)
<1>1. h \in Nat
  BY DEF TypeInv
<1>2. (h + 1) .. h = {}
  BY <1>1
<1>3. h <= h /\ (h + 1) .. h \subseteq apart
  BY <1>1, <1>2
<1>4. QED
  BY <1>3 DEF Spoiled

\* Text carries the damage on.
LEMMA SpoiledOn ==
  ASSUME TypeInv, NEW i \in Nat, i \in apart, Spoiled(i - 1)
  PROVE  Spoiled(i)
<1>1. PICK h \in hurt : h <= i - 1 /\ (h + 1) .. (i - 1) \subseteq apart
  BY DEF Spoiled
<1>2. h \in Nat
  BY DEF TypeInv
<1>3. h <= i
  BY <1>1, <1>2
<1>4. ASSUME NEW k \in (h + 1) .. i
      PROVE  k \in apart
  <2>1. CASE k = i
    BY <2>1
  <2>2. CASE k # i
    <3>1. k \in (h + 1) .. (i - 1)
      BY <1>2, <2>2
    <3>2. QED
      BY <1>1, <3>1
  <2>3. QED
    BY <2>1, <2>2
<1>5. QED
  BY <1>3, <1>4 DEF Spoiled

\* The frames before c are accounted for.
Passed(s, c) == \A j \in 1 .. (c - 1) : Spoiled(j) \/ HandedUp(s, j)

LEMMA TextStep ==
  ASSUME TypeInv, NEW s, NEW x \in Piece, Receiver(s), OnLine(x), x.of = 0,
         Between(s, x.at)
  PROVE  Between(RxSm(s, x), x.at)
<1>1. SUFFICES ASSUME ~Spoiled(x.at)
               PROVE  RxSm(s, x).state = "init"
  BY DEF Between
<1>2. x.at \in Nat /\ InByte(x) /\ setup \in Setups
  BY DEF Piece, InByte, TypeInv
<1>3. x.at \in apart /\ (x.b = SOF => x.at \in hurt)
  BY DEF OnLine
<1>4. x.b # SOF
  BY <1>1, <1>3, HurtSpoils
<1>5. ~Spoiled(x.at - 1)
  BY <1>1, <1>2, <1>3, SpoiledOn
<1>6. s.state = "init"
  BY <1>1, <1>5 DEF Between
<1>7. RxFrom(s, x, RxSm(s, x))
  BY <1>2, RxSmFrom
<1>8. RxSm(s, x) = s
  BY <1>4, <1>6, <1>7 DEF RxFrom
<1>9. QED
  BY <1>6, <1>8

\* A byte of frame i, the byte behind c others.
LEMMA FrameStep ==
  ASSUME TypeInv, NEW s, NEW x \in Piece, Receiver(s), OnLine(x),
         NEW i \in Nat \ {0}, x.of = i, NEW c \in Nat, x.at = c + 1,
         IF c = 0 THEN Between(s, i) ELSE Within(s, i, c)
  PROVE  IF c + 1 < Total(sent[i]) THEN Within(RxSm(s, x), i, c + 1)
         ELSE Between(RxSm(s, x), i + 1) /\ (Spoiled(i) \/ HandedUp(RxSm(s, x), i))
<1> DEFINE f == sent[i]
           t == RxSm(s, x)
<1>1. /\ setup \in Setups /\ InByte(x) /\ i \in DOMAIN sent
      /\ x.b = Code(f)[c + 1] \/ {i, i + 1} \subseteq hurt
      /\ c + 1 \in 1 .. Total(f)
  BY DEF Piece, InByte, TypeInv, OnLine
<1>2. Framed(f)
  <2>1. f \in setup.frames
    BY <1>1 DEF TypeInv
  <2>2. QED
    BY <1>1, <2>1, FrameIs
<1>3. Sized(f) /\ Total(f) \in Nat
  BY <1>1, <1>2, SizedIs DEF Sized
<1>4. Receiver(t)
  BY <1>1, Moved
<1>5. x.b = Code(f)[c + 1] \/ (Spoiled(i) /\ Spoiled(i + 1) /\ i + 1 \in hurt)
  BY <1>1, HurtSpoils
<1>6. c < Total(f) /\ (c > 0 \/ c = 0) /\ ~(c > 0 /\ c = 0)
  BY <1>1, <1>3
<1>7. c = 0 => c + 1 # Total(f)
  BY <1>3 DEF Sized
<1> HIDE DEF f
\* In step.
<1>8. ASSUME ~Spoiled(i)
      PROVE  IF c + 1 = Total(f) THEN Delivered(s, x, f, t) ELSE Synced(t, f, c + 1)
  <2>1. x.b = Code(f)[c + 1]
    BY <1>5, <1>8
  <2>2. CASE c = 0
    <3>1. ReadyFor(s)
      BY <1>8, <2>2 DEF Between, ReadyFor
    <3>2. x.b = Code(f)[1] /\ c + 1 = 1
      BY <2>1, <2>2
    <3>3. SyncedStart(t, f, 1)
      BY <1>1, <1>2, <3>1, <3>2, SyncStart
    <3>4. QED
      BY <1>7, <2>2, <3>2, <3>3 DEF Synced
  <2>3. CASE c > 0
    <3>1. Synced(s, f, c)
      BY <1>6, <1>8, <2>3 DEF Within, f
    <3>2. QED
      BY <1>1, <1>2, <1>6, <2>1, <2>3, <3>1, SyncStep
  <2>4. QED
    BY <1>6, <2>2, <2>3
\* Out of step, or not.
<1>9. ASSUME i + 1 \notin hurt
      PROVE  Tame(t, f, c + 1)
  <2>1. x.b = Code(f)[c + 1]
    BY <1>5, <1>9
  <2>2. c > 0 => Tame(s, f, c)
    BY <1>6, <1>9 DEF Within, f
  <2>3. QED
    BY <1>1, <1>2, <1>6, <2>1, <2>2, TameStep
<1>10. CASE c + 1 < Total(f)
  <2>1. c + 1 # Total(f)
    BY <1>3, <1>10
  <2>2. Within(t, i, c + 1)
    BY <1>8, <1>9, <2>1 DEF Within, f
  <2>3. QED
    BY <1>10, <2>2 DEF f
<1>11. CASE ~(c + 1 < Total(f))
  <2>1. c + 1 = Total(f)
    BY <1>1, <1>3, <1>11
  <2>2. ~Spoiled(i) => Delivered(s, x, f, t)
    BY <1>8, <2>1
  <2> HIDE DEF t
  <2>3. Spoiled(i) \/ HandedUp(t, i)
    <3>1. SUFFICES ASSUME ~Spoiled(i) PROVE HandedUp(t, i)
      OBVIOUS
    <3> DEFINE h == [type |-> f.type, data |-> f.data, of |-> i]
    <3>2. t.got = Append(s.got, h)
      BY <2>2, <3>1 DEF Delivered
    <3>3. s.got \in Seq(Handed)
      BY DEF Receiver
    <3> HIDE DEF h
    <3>4. Len(s.got) + 1 \in DOMAIN t.got /\ t.got[Len(s.got) + 1] = h
      BY <3>2, <3>3
    <3>5. QED
      BY <3>4 DEF HandedUp, h, f
  <2>4. Between(t, i + 1)
    <3>1. SUFFICES ASSUME ~Spoiled(i + 1)
                   PROVE  \/ t.state = "init"
                          \/ t.state = "data" /\ Len(t.data) <= setup.maxData /\ Spoiled(i)
      <4>1. (i + 1) - 1 = i
        OBVIOUS
      <4>2. QED
        BY <4>1 DEF Between
    <3>2. CASE ~Spoiled(i)
      BY <2>2, <3>2 DEF Delivered
    <3>3. CASE Spoiled(i)
      <4>1. i + 1 \notin hurt
        BY <3>1, HurtSpoils
      <4>2. Tame(t, f, Total(f))
        BY <1>9, <2>1, <4>1
      <4>3. ReadyFor(t)
        BY <1>1, <1>2, <1>4, <4>2, TameEnd
      <4>4. QED
        BY <3>3, <4>3 DEF ReadyFor
    <3>4. QED
      BY <3>2, <3>3
  <2>5. QED
    BY <1>11, <2>3, <2>4 DEF f, t
<1>12. QED
  BY <1>10, <1>11

LEMMA StandStep ==
  ASSUME TypeInv, NEW s, NEW x \in Piece, Receiver(s), OnLine(x), Standing(s, Spot(x))
  PROVE  Standing(RxSm(s, x), After(x))
<1> DEFINE t == RxSm(s, x)
<1>1. InByte(x) /\ setup \in Setups /\ x.at \in Nat \ {0} /\ x.of \in Nat
  BY DEF Piece, InByte, TypeInv
<1>2. ASSUME NEW c, Passed(s, c)
      PROVE  Passed(t, c)
  BY <1>1, <1>2, StaysHandedUp DEF Passed
<1>3. CASE x.of = 0
  <2>1. Spot(x) = <<x.at, 0>> /\ After(x) = <<x.at, 0>>
    BY <1>3 DEF Spot, After
  <2>2. Passed(s, x.at) /\ Between(s, x.at)
    BY <2>1 DEF Standing, Passed
  <2>3. Between(t, x.at)
    BY <1>3, <2>2, TextStep
  <2>4. Passed(t, x.at)
    BY <1>2, <2>2
  <2> HIDE DEF t
  <2>5. Standing(t, <<x.at, 0>>)
    BY <2>3, <2>4 DEF Standing, Passed
  <2>6. QED
    BY <2>1, <2>5 DEF t
<1>4. CASE x.of # 0
  <2> DEFINE i == x.of
             c == x.at - 1
  <2>1. i \in Nat \ {0} /\ c \in Nat /\ x.at = c + 1
    BY <1>1, <1>4
  <2>2. Spot(x) = <<i, c>>
    BY <1>4 DEF Spot
  <2> HIDE DEF c
  <2>3. Passed(s, i) /\ (IF c = 0 THEN Between(s, i) ELSE Within(s, i, c))
    BY <2>2 DEF Standing, Passed
  <2>4. IF c + 1 < Total(sent[i]) THEN Within(t, i, c + 1)
        ELSE Between(t, i + 1) /\ (Spoiled(i) \/ HandedUp(t, i))
    BY <2>1, <2>3, FrameStep
  <2>5. Passed(t, i)
    BY <1>2, <2>3
  <2>6. CASE c + 1 < Total(sent[i])
    <3>1. After(x) = <<i, c + 1>>
      BY <1>4, <2>1, <2>6 DEF After
    <3>2. c + 1 # 0
      BY <2>1
    <3> HIDE DEF t, i
    <3>3. Standing(t, <<i, c + 1>>)
      BY <2>4, <2>5, <2>6, <3>2 DEF Standing, Passed
    <3>4. QED
      BY <3>1, <3>3 DEF t
  <2>7. CASE ~(c + 1 < Total(sent[i]))
    <3>1. After(x) = <<i + 1, 0>>
      BY <1>4, <2>1, <2>7 DEF After
    <3>2. Passed(t, i + 1)
      <4> HIDE DEF t, i
      <4>1. ASSUME NEW j \in 1 .. i
            PROVE  Spoiled(j) \/ HandedUp(t, j)
        <5>1. CASE j = i
          BY <2>4, <2>7, <5>1
        <5>2. CASE j # i
          <6>1. j \in 1 .. (i - 1)
            BY <2>1, <5>2
          <6>2. QED
            BY <2>5, <6>1 DEF Passed
        <5>3. QED
          BY <5>1, <5>2
      <4>2. (i + 1) - 1 = i
        BY <2>1
      <4>3. QED
        BY <4>1, <4>2 DEF Passed
    <3> HIDE DEF t, i
    <3>3. Standing(t, <<i + 1, 0>>)
      BY <2>4, <2>7, <3>2 DEF Standing, Passed
    <3>4. QED
      BY <3>1, <3>3 DEF t
  <2>8. QED
    BY <2>6, <2>7
<1>5. QED
  BY <1>3, <1>4

----------------------------------------------------------------------------
(* What a step leaves as it is                                             *)

LEMMA SetupKept ==
  ASSUME setup' = setup, NEW s, NEW f, NEW a
  PROVE  /\ Synced(s, f, a)' <=> Synced(s, f, a)
         /\ Tame(s, f, a)' <=> Tame(s, f, a)
         /\ Total(f)' = Total(f) /\ Code(f)' = Code(f)
         /\ Receiver(s)' <=> Receiver(s)
<1>1. Padded(f.data)' <=> Padded(f.data)
  BY DEF Padded
<1>2. Ending(f.data)' = Ending(f.data)
  BY <1>1 DEF Ending
<1>3. BodyEnd(f)' = BodyEnd(f)
  BY DEF BodyEnd
<1>4. ChkSize' = ChkSize
  BY DEF ChkSize
<1>5. LastEof(f)' = LastEof(f)
  BY <1>2, <1>3 DEF LastEof
<1>6. Total(f)' = Total(f)
  BY <1>5, <1>4 DEF Total
<1>7. Checksum(f.type, f.data)' = Checksum(f.type, f.data)
  BY <1>2 DEF Checksum, Plain
<1>8. Code(f)' = Code(f)
  BY <1>2, <1>7 DEF Code, Enc
<1>9. SyncedTrailer(s, f, a)' <=> SyncedTrailer(s, f, a)
  BY <1>5, <1>6, <1>7 DEF SyncedTrailer
<1>10. SyncedPadding(s, f, a)' <=> SyncedPadding(s, f, a)
  BY <1>3, <1>1 DEF SyncedPadding
<1>11. Synced(s, f, a)' <=> Synced(s, f, a)
  BY <1>9, <1>10 DEF Synced, SyncedStart, SyncedBody, InBody
<1>12. TameTrailer(s, f, a)' <=> TameTrailer(s, f, a)
  BY <1>5, <1>6 DEF TameTrailer
<1>13. TamePadding(s, f, a)' <=> TamePadding(s, f, a)
  BY <1>3, <1>1 DEF TamePadding
<1>14. Tame(s, f, a)' <=> Tame(s, f, a)
  BY <1>12, <1>13 DEF Tame, TameBody, InBody
<1>15. Receiver(s)' <=> Receiver(s)
  BY <1>4 DEF Receiver
<1>16. QED
  BY <1>6, <1>8, <1>11, <1>14, <1>15

\* What every step does to the frames and to what is known of them.
Grows ==
  /\ setup' = setup
  /\ hurt \subseteq hurt' /\ apart \subseteq apart'
  /\ Len(sent) <= Len(sent') /\ Len(sent') \in Nat
  /\ \A j \in DOMAIN sent : j \in DOMAIN sent' /\ sent'[j] = sent[j]

LEMMA SpoiledKept ==
  ASSUME Grows, NEW i, Spoiled(i)
  PROVE  Spoiled(i)'
  BY DEF Grows, Spoiled

LEMMA PassedKept ==
  ASSUME TypeInv, Grows, NEW s, NEW t, t.got = s.got, NEW i \in 1 .. (Len(sent) + 1), Passed(s, i)
  PROVE  Passed(t, i)'
<1>1. ASSUME NEW j \in 1 .. (i - 1)
      PROVE  Spoiled(j)' \/ HandedUp(t, j)'
  <2>1. j \in DOMAIN sent
    BY LenProperties DEF TypeInv
  <2>2. sent'[j] = sent[j]
    BY <2>1 DEF Grows
  <2>3. CASE HandedUp(s, j)
    BY <2>2, <2>3 DEF HandedUp
  <2>4. QED
    BY <2>3, SpoiledKept DEF Passed
<1>2. QED
  BY <1>1 DEF Passed

LEMMA StandingKept ==
  ASSUME TypeInv, Grows, NEW s, NEW i \in 1 .. (Len(sent) + 1), NEW c,
         c # 0 => i \in DOMAIN sent, Standing(s, <<i, c>>)
  PROVE  Standing(s, <<i, c>>)'
<1>1. Passed(s, i) /\ (IF c = 0 THEN Between(s, i) ELSE Within(s, i, c))
  BY DEF Standing, Passed
<1>2. Passed(s, i)'
  BY <1>1, PassedKept
<1>3. CASE c = 0
  <2>1. Between(s, i)'
    BY <1>1, <1>3, SpoiledKept DEF Between, Grows
  <2>2. QED
    BY <1>2, <1>3, <2>1 DEF Standing, Passed
<1>4. CASE c # 0
  <2>1. sent'[i] = sent[i] /\ setup' = setup /\ hurt \subseteq hurt'
    BY <1>4 DEF Grows
  <2>2. PICK f : f = sent[i]
    OBVIOUS
  <2>3. (Synced(s, f, c)' <=> Synced(s, f, c)) /\ (Tame(s, f, c)' <=> Tame(s, f, c))
    BY <2>1, SetupKept
  <2>4. (~Spoiled(i) => Synced(s, f, c)) /\ (i + 1 \notin hurt => Tame(s, f, c))
    BY <1>1, <1>4, <2>2 DEF Within
  <2>5. (~Spoiled(i)' => Synced(s, f, c)') /\ (i + 1 \notin hurt' => Tame(s, f, c)')
    BY <2>1, <2>3, <2>4, SpoiledKept
  <2>6. Within(s, i, c)'
    BY <2>1, <2>2, <2>5 DEF Within
  <2>7. QED
    BY <1>2, <1>4, <2>6 DEF Standing, Passed
<1>5. QED
  BY <1>3, <1>4

LEMMA OnLineKept ==
  ASSUME TypeInv, Grows, NEW x \in Piece, OnLine(x)
  PROVE  OnLine(x)' /\ After(x)' = After(x)
<1>1. CASE x.of = 0
  <2>1. Len(sent) \in Nat
    BY LenProperties DEF TypeInv
  <2>a. x.at \in Nat /\ Len(sent) <= Len(sent') /\ Len(sent') \in Nat
    BY DEF Piece, Grows
  <2>2. (x.at <= Len(sent) + 1) => (x.at <= Len(sent') + 1)
    BY <2>1, <2>a
  <2>3. OnLine(x)'
    BY <1>1, <2>2 DEF OnLine, Grows
  <2>4. QED
    BY <1>1, <2>3 DEF After
<1>2. CASE x.of # 0
  <2>1. /\ x.of \in DOMAIN sent /\ x.of \in DOMAIN sent' /\ sent'[x.of] = sent[x.of]
        /\ setup' = setup /\ hurt \subseteq hurt'
    BY <1>2 DEF OnLine, Grows
  <2>2. PICK f : f = sent[x.of]
    OBVIOUS
  <2>3. Total(f)' = Total(f) /\ Code(f)' = Code(f)
    BY <2>1, SetupKept
  <2>4. Total(sent[x.of])' = Total(sent[x.of]) /\ Code(sent[x.of])' = Code(sent[x.of])
    BY <2>1, <2>2, <2>3
  <2>5. QED
    BY <1>2, <2>1, <2>4 DEF OnLine, After
<1>3. QED
  BY <1>1, <1>2

LEMMA AheadAt ==
  ASSUME TypeInv, Line, NEW n \in 0 .. Len(wire)
  PROVE  \E i \in 1 .. (Len(sent) + 1), c \in Nat :
           Ahead(n) = <<i, c>> /\ (c # 0 => i \in DOMAIN sent)
<1>1. Len(sent) \in Nat /\ DOMAIN sent = 1 .. Len(sent) /\ Len(wire) \in Nat
  BY LenProperties DEF TypeInv
<1>2. CASE n = Len(wire)
  BY <1>1, <1>2 DEF Ahead
<1>3. CASE n # Len(wire)
  <2>1. PICK x : x = wire[n + 1]
    OBVIOUS
  <2>2. x \in Piece /\ OnLine(x)
    <3>1. n + 1 \in DOMAIN wire
      BY <1>1, <1>3 DEF TypeInv
    <3>2. QED
      BY <2>1, <3>1 DEF TypeInv, Line
  <2>3. Ahead(n) = Spot(x)
    BY <1>3, <2>1 DEF Ahead
  <2>4. x.at \in Nat \ {0} /\ x.of \in Nat
    BY <2>2 DEF Piece
  <2>5. CASE x.of = 0
    <3>1. x.at \in 1 .. (Len(sent) + 1)
      BY <1>1, <2>2, <2>4, <2>5 DEF OnLine
    <3>2. QED
      BY <2>3, <2>5, <3>1 DEF Spot
  <2>6. CASE x.of # 0
    <3>1. x.of \in DOMAIN sent /\ x.of \in 1 .. (Len(sent) + 1) /\ x.at - 1 \in Nat
      BY <1>1, <2>2, <2>4, <2>6 DEF OnLine
    <3>2. QED
      BY <2>3, <2>6, <3>1 DEF Spot
  <2>7. QED
    BY <2>5, <2>6
<1>4. QED
  BY <1>2, <1>3

\* The line without its first n bytes.
LEMMA LineRest ==
  ASSUME TypeInv, Line, Grows, sent' = sent,
         NEW n \in 0 .. Len(wire), Len(wire') = Len(wire) - n, wire' \in Seq(Piece),
         \A p \in 1 .. (Len(wire) - n) :
           /\ wire'[p].of = wire[n + p].of /\ wire'[p].at = wire[n + p].at
           /\ OnLine(wire[p])'
  PROVE  Line' /\ Ahead(0)' = Ahead(n)
<1> DEFINE l == Len(wire)
<1>1. l \in Nat /\ n \in 0 .. l /\ DOMAIN wire = 1 .. l /\ DOMAIN wire' = 1 .. (l - n) /\ Len(wire') = l - n
  BY LenProperties DEF TypeInv
<1>a. ASSUME NEW p \in 1 .. (l - n)
      PROVE  wire'[p].of = wire[n + p].of /\ wire'[p].at = wire[n + p].at /\ OnLine(wire[p])'
  OBVIOUS
<1> HIDE DEF l
<1>2. ASSUME NEW p \in 0 .. (l - n)
      PROVE  Ahead(p)' = Ahead(n + p)
  <2>1. CASE p = l - n
    <3>1. n + p = l
      BY <1>1, <2>1
    <3>2. Ahead(p)' = <<Len(sent) + 1, 0>>
      BY <1>1, <2>1 DEF Ahead
    <3>3. Ahead(n + p) = <<Len(sent) + 1, 0>>
      BY <3>1 DEF Ahead, l
    <3>4. QED
      BY <3>2, <3>3
  <2>2. CASE p # l - n
    <3>1. p + 1 \in 1 .. (l - n) /\ n + p # l /\ n + (p + 1) = (n + p) + 1
      BY <1>1, <2>2
    <3>2. /\ wire'[p + 1].of = wire[(n + p) + 1].of
          /\ wire'[p + 1].at = wire[(n + p) + 1].at
      BY <1>a, <3>1
    <3>3. Ahead(p)' = Spot(wire'[p + 1])
      BY <1>1, <2>2 DEF Ahead, Spot
    <3>4. Ahead(n + p) = Spot(wire[(n + p) + 1])
      BY <3>1 DEF Ahead, l
    <3>5. QED
      BY <3>2, <3>3, <3>4 DEF Spot
  <2>3. QED
    BY <2>1, <2>2
<1>3. ASSUME NEW p \in 1 .. (l - n)
      PROVE  After(wire[p])' = Ahead(p)'
  <2>1. n + p \in DOMAIN wire /\ p \in 0 .. (l - n)
    BY <1>1
  <2>2. PICK x : x = wire[n + p]
    OBVIOUS
  <2>3. x \in Piece /\ OnLine(x) /\ After(x) = Ahead(n + p)
    BY <2>1, <2>2 DEF Line, TypeInv
  <2>4. After(x)' = Ahead(p)'
    BY <1>2, <2>1, <2>3, OnLineKept
  <2>5. PICK y : y = wire'[p]
    OBVIOUS
  <2>6. y.of = x.of /\ y.at = x.at
    BY <1>a, <2>2, <2>5
  <2>7. After(y)' = After(x)'
    BY <2>6 DEF After
  <2>8. QED
    BY <2>4, <2>5, <2>7
<1>4. Line'
  BY <1>1, <1>3, <1>a DEF Line
<1>5. Ahead(0)' = Ahead(n)
  <2>1. 0 \in 0 .. (l - n) /\ n + 0 = n
    BY <1>1
  <2>2. QED
    BY <1>2, <2>1
<1>6. QED
  BY <1>4, <1>5

----------------------------------------------------------------------------
(* The steps                                                               *)

\* A receiver that differs in its raw buffer only.
LEMMA RawOnly ==
  ASSUME NEW s, Receiver(s), NEW r, NEW t, t = [s EXCEPT !.raw = r]
  PROVE  /\ Receiver(t)
         /\ \A c : Standing(s, c) => Standing(t, c)
         /\ t.state = s.state /\ t.got = s.got
<1>1. s = Rec(s.state, s.type, s.data, s.chk, s.raw, s.got)
  BY DEF Receiver, IsRec
<1>2. t = Rec(s.state, s.type, s.data, s.chk, r, s.got)
  BY <1>1, NewRaw
<1>3. /\ t.state = s.state /\ t.type = s.type /\ t.data = s.data /\ t.chk = s.chk
      /\ t.got = s.got /\ IsRec(t)
  BY <1>2, ToRec
<1>4. Receiver(t)
  BY <1>3 DEF Receiver
<1>5. ASSUME NEW f, NEW a
      PROVE  (Synced(s, f, a) => Synced(t, f, a)) /\ (Tame(s, f, a) => Tame(t, f, a))
  <2>1. Synced(s, f, a) => Synced(t, f, a)
    BY <1>3 DEF Synced, SyncedStart, SyncedBody, SyncedPadding, SyncedTrailer
  <2>2. Tame(s, f, a) => Tame(t, f, a)
    BY <1>3 DEF Tame, TameBody, TamePadding, TameTrailer
  <2>3. QED
    BY <2>1, <2>2
<1>6. ASSUME NEW c, Standing(s, c)
      PROVE  Standing(t, c)
  <2>1. \A j : HandedUp(s, j) => HandedUp(t, j)
    BY <1>3 DEF HandedUp
  <2>2. \A i : Between(s, i) => Between(t, i)
    BY <1>3 DEF Between
  <2>3. \A i, a : Within(s, i, a) => Within(t, i, a)
    BY <1>5 DEF Within
  <2>4. QED
    BY <1>6, <2>1, <2>2, <2>3 DEF Standing
<1>7. QED
  BY <1>3, <1>4, <1>6

LEMMA ReadAll ==
  ASSUME TypeInv, Line, NEW n \in 0 .. Len(wire),
         NEW s, Receiver(s), Standing(s, Ahead(0)), NEW xs, xs = SubSeq(wire, 1, n)
  PROVE  Receiver(RxAll(s, xs)) /\ Standing(RxAll(s, xs), Ahead(n))
<1> DEFINE l == Len(wire)
<1>1. /\ l \in Nat /\ n \in 0 .. l /\ DOMAIN wire = 1 .. l
      /\ Len(xs) = n /\ n \in Nat
      /\ \A k \in 1 .. n : xs[k] = wire[k] /\ wire[k] \in Piece
  BY DEF TypeInv
<1>2. PICK g : ReadsOf(g, s, xs)
  BY <1>1, RxAllIs
<1> DEFINE S == {k \in 0 .. n : Receiver(g[k]) /\ Standing(g[k], Ahead(k))}
<1> HIDE DEF l
<1>3. 0 \in S
  <2>1. g[0] = s /\ 0 \in 0 .. n
    BY <1>1, <1>2 DEF ReadsOf
  <2>2. QED
    BY <2>1
<1>4. ASSUME NEW k \in 1 .. n, k - 1 \in S
      PROVE  k \in S
  <2>1. Receiver(g[k - 1]) /\ Standing(g[k - 1], Ahead(k - 1))
    BY <1>4
  <2>2. PICK x : x = wire[k]
    OBVIOUS
  <2>3. k - 1 # l /\ (k - 1) + 1 = k /\ k \in DOMAIN wire /\ k \in 0 .. n
    BY <1>1
  <2>4. x \in Piece /\ OnLine(x) /\ After(x) = Ahead(k)
    BY <1>1, <2>2, <2>3 DEF Line
  <2>5. Ahead(k - 1) = Spot(x)
    BY <2>2, <2>3 DEF Ahead, l
  <2>6. g[k] = RxSm(g[k - 1], x)
    BY <1>1, <1>2, <2>2 DEF ReadsOf
  <2> HIDE DEF S
  <2>7. Standing(g[k], Ahead(k))
    BY <2>1, <2>4, <2>5, <2>6, StandStep
  <2>8. Receiver(g[k])
    <3>1. setup \in Setups /\ InByte(x)
      BY <2>4 DEF TypeInv, InByte, Piece
    <3>2. QED
      BY <2>1, <2>6, <3>1, Moved
  <2>9. QED
    BY <2>3, <2>7, <2>8 DEF S
<1> HIDE DEF S
<1>5. n \in 0 .. n
  BY <1>1
<1>6. n \in S
  BY <1>1, <1>3, <1>4, <1>5, Climb
<1>7. RxAll(s, xs) = g[n]
  BY <1>1, <1>2 DEF ReadsOf
<1>8. QED
  BY <1>6, <1>7 DEF S

\* The receiver after a step, by the place on the line it has come to.
LEMMA StandsAt ==
  ASSUME TypeInv, Grows, NEW s, m' = s, NEW i \in 1 .. (Len(sent) + 1), NEW c,
         c # 0 => i \in DOMAIN sent, Standing(s, <<i, c>>), Ahead(0)' = <<i, c>>
  PROVE  Standing(m, Ahead(0))'
<1>1. Standing(s, <<i, c>>)'
  BY StandingKept
<1>2. QED
  BY <1>1

LEMMA RxKeeps ==
  ASSUME IInv, Rx
  PROVE  IInv'
<1> USE DEF IInv
<1>1. PICK n \in 1 .. setup.chunk :
        /\ n <= Len(wire)
        /\ LET xs == SubSeq(wire, 1, n)
               s  == Buffered(m, xs)
           IN  IF on THEN m' = RxAll(s, xs)
               ELSE m' = [s EXCEPT !.raw = <<>>]
        /\ wire' = SubSeq(wire, n + 1, Len(wire))
  BY DEF Rx, DispatchRaw
<1>2. UNCHANGED <<setup, on, sent, hurt, apart>>
  BY DEF Rx
<1>3. /\ TypeInv /\ Line /\ (on => Standing(m, Ahead(0)))
      /\ Receiver(m) /\ setup \in Setups
      /\ Len(wire) \in Nat /\ Len(sent) \in Nat
  BY LenProperties DEF TypeInv
<1>4. n \in Nat \ {0} /\ n \in 0 .. Len(wire)
  BY <1>1, <1>3, Mup1Assumption
<1>5. Grows
  BY <1>2, <1>3 DEF Grows
<1> DEFINE xs == SubSeq(wire, 1, n)
           s == Buffered(m, xs)
<1>6. Receiver(s) /\ \A c : Standing(m, c) => Standing(s, c)
  <2>1. \E r : s = m \/ s = [m EXCEPT !.raw = r]
    BY DEF Buffered
  <2> HIDE DEF s
  <2>2. QED
    BY <1>3, <2>1, RawOnly
<1>7. /\ wire' \in Seq(Piece) /\ Len(wire') = Len(wire) - n
      /\ \A p \in 1 .. (Len(wire) - n) : wire'[p] = wire[n + p] /\ n + p \in DOMAIN wire
  <2>1. wire \in Seq(Piece)
    BY DEF TypeInv
  <2>2. QED
    BY <1>1, <1>4, <2>1
<1>8. \A p \in 1 .. (Len(wire) - n) :
        /\ wire'[p].of = wire[n + p].of /\ wire'[p].at = wire[n + p].at
        /\ OnLine(wire[p])'
  <2>1. ASSUME NEW p \in 1 .. (Len(wire) - n)
        PROVE  OnLine(wire[p])'
    <3>1. PICK x : x = wire[n + p]
      OBVIOUS
    <3>a. n + p \in DOMAIN wire
      BY <1>7
    <3>2. x \in Piece /\ OnLine(x)
      BY <1>3, <3>a, <3>1 DEF TypeInv, Line
    <3>3. OnLine(x)'
      BY <1>3, <1>5, <3>2, OnLineKept
    <3>4. wire'[p] = x
      BY <1>7, <3>1
    <3>5. QED
      BY <3>3, <3>4
  <2>2. QED
    BY <1>7, <2>1
<1>9. Line' /\ Ahead(0)' = Ahead(n)
  BY <1>2, <1>3, <1>4, <1>5, <1>7, <1>8, LineRest
<1> HIDE DEF s, xs
<1>10. CASE on
  <2>1. m' = RxAll(s, xs)
    BY <1>1, <1>10 DEF s, xs
  <2>2. Receiver(RxAll(s, xs)) /\ Standing(RxAll(s, xs), Ahead(n))
    BY <1>3, <1>4, <1>6, <1>10, ReadAll DEF xs
  <2>3. PICK t : t = RxAll(s, xs)
    OBVIOUS
  <2>4. PICK i \in 1 .. (Len(sent) + 1), c \in Nat :
          Ahead(n) = <<i, c>> /\ (c # 0 => i \in DOMAIN sent)
    BY <1>3, <1>4, AheadAt
  <2>5. Standing(m, Ahead(0))'
    BY <1>3, <1>5, <1>9, <2>1, <2>2, <2>3, <2>4, StandsAt
  <2>6. Receiver(m)'
    <3>1. Receiver(t)'
      BY <1>2, <2>2, <2>3, SetupKept
    <3>2. QED
      BY <2>1, <2>3, <3>1
  <2>7. QED
    BY <1>2, <1>3, <1>7, <1>9, <2>5, <2>6 DEF TypeInv
<1>11. CASE ~on
  <2>1. m' = [s EXCEPT !.raw = <<>>]
    BY <1>1, <1>11 DEF s, xs
  <2>2. PICK t : t = [s EXCEPT !.raw = <<>>]
    OBVIOUS
  <2>3. Receiver(t)
    BY <1>6, <2>2, RawOnly
  <2>4. Receiver(t)'
    BY <1>2, <2>3, SetupKept
  <2>5. Receiver(m)'
    BY <2>1, <2>2, <2>4
  <2>6. QED
    BY <1>2, <1>3, <1>7, <1>9, <1>11, <2>5 DEF TypeInv
<1>12. QED
  BY <1>10, <1>11

\* The line did something to its first byte.
Damaged == UNCHANGED <<setup, on, sent, apart>> /\ hurt' = hurt \cup Reached(wire)

LEMMA DamagedIs ==
  ASSUME TypeInv, Damaged
  PROVE  Grows /\ hurt' \subseteq Nat \ {0}
<1>1. Len(sent) \in Nat /\ Len(wire) \in Nat
  BY LenProperties DEF TypeInv
<1>2. Grows
  BY <1>1 DEF Grows, Damaged
<1>3. Reached(wire) \subseteq Nat \ {0}
  <2>1. CASE wire = <<>>
    BY <2>1 DEF Reached
  <2>2. CASE wire # <<>>
    <3>1. wire[1] \in Piece
      BY <2>2 DEF TypeInv
    <3>2. wire[1].of \in Nat /\ wire[1].at \in Nat \ {0}
      BY <3>1 DEF Piece
    <3>3. QED
      BY <2>2, <3>2 DEF Reached
  <2>3. QED
    BY <2>1, <2>2
<1>4. QED
  BY <1>2, <1>3 DEF Damaged, TypeInv

\* Nothing is asked of the receiver in a damaged frame, and behind it.
LEMMA Excused ==
  ASSUME TypeInv, Damaged, wire # <<>>, NEW i \in Nat \ {0}, wire[1].of = i, NEW s, NEW c
  PROVE  /\ {i, i + 1} \subseteq hurt' /\ Spoiled(i)'
         /\ Within(s, i, c)' /\ Between(s, i + 1)'
<1>1. i \in hurt' /\ i + 1 \in hurt'
  BY DEF Damaged, Reached
<1>2. ASSUME NEW h \in Nat, h \in hurt'
      PROVE  Spoiled(h)'
  <2>1. (h + 1) .. h = {}
    OBVIOUS
  <2>2. h <= h /\ (h + 1) .. h \subseteq apart'
    BY <2>1
  <2>3. QED
    BY <1>2, <2>2 DEF Spoiled
<1>3. Spoiled(i)' /\ Spoiled(i + 1)'
  BY <1>1, <1>2
<1>4. QED
  BY <1>1, <1>3 DEF Within, Between

LEMMA LineStays ==
  ASSUME TypeInv, Line, Grows, UNCHANGED <<wire, sent>>
  PROVE  Line' /\ Ahead(0)' = Ahead(0)
<1>1. Len(wire) \in Nat /\ DOMAIN wire = 1 .. Len(wire) /\ wire \in Seq(Piece)
  BY LenProperties DEF TypeInv
<1>2. ASSUME NEW p \in DOMAIN wire
      PROVE  OnLine(wire[p])' /\ After(wire[p])' = After(wire[p])
  <2>1. PICK x : x = wire[p]
    OBVIOUS
  <2>2. x \in Piece /\ OnLine(x)
    BY <1>1, <2>1 DEF Line
  <2>3. OnLine(x)' /\ After(x)' = After(x)
    BY <2>2, OnLineKept
  <2>4. QED
    BY <2>1, <2>3
<1>3. ASSUME NEW p
      PROVE  Ahead(p)' = Ahead(p)
  BY DEF Ahead, Spot
<1>4. QED
  BY <1>2, <1>3 DEF Line

LEMMA TimeoutKeeps ==
  ASSUME IInv, Timeout
  PROVE  IInv'
<1>1. TypeInv /\ Line /\ (on => Standing(m, Ahead(0))) /\ Receiver(m)
  BY DEF IInv, TypeInv
<1>2. Damaged /\ wire' = wire /\ UNCHANGED on /\ UNCHANGED setup /\ UNCHANGED sent
      /\ UNCHANGED apart
  BY DEF Timeout, Damaged
<1>3. Grows /\ hurt' \subseteq Nat \ {0}
  BY <1>1, <1>2, DamagedIs
<1>4. Line' /\ Ahead(0)' = Ahead(0)
  BY <1>1, <1>2, <1>3, LineStays
<1>5. PICK t : t = m'
  OBVIOUS
<1>6. /\ Receiver(t) /\ t.got = m.got
      /\ on => t.state = "init"
      /\ ~on => t = m
  <2>1. CASE on
    <3>1. m' = [[m EXCEPT !.state = "init"] EXCEPT !.raw = <<>>]
      BY <2>1 DEF Timeout, Expire, DispatchRaw, ToInit
    <3> DEFINE n == <<>>
               v == "init"
    <3>2. t = [[m EXCEPT !.state = v] EXCEPT !.raw = n]
      BY <1>5, <3>1
    <3> HIDE DEF n, v
    <3>3. m = Rec(m.state, m.type, m.data, m.chk, m.raw, m.got)
      BY <1>1 DEF Receiver, IsRec
    <3>a. PICK u : u = [m EXCEPT !.state = v]
      OBVIOUS
    <3>b. u = Rec(v, m.type, m.data, m.chk, m.raw, m.got)
      BY <3>a, <3>3, NewState
    <3>c. t = [u EXCEPT !.raw = n]
      BY <3>2, <3>a
    <3>4. t = Rec(v, m.type, m.data, m.chk, n, m.got)
      BY <3>b, <3>c, NewRaw
    <3>5. /\ t.state = v /\ t.type = m.type /\ t.data = m.data /\ t.chk = m.chk
          /\ t.got = m.got /\ IsRec(t)
      BY <3>4, ToRec
    <3>6. Receiver(t)
      BY <1>1, <3>5 DEF Receiver, States, v
    <3>7. QED
      BY <2>1, <3>5, <3>6 DEF v
  <2>2. CASE ~on
    BY <1>1, <1>5, <2>2 DEF Timeout
  <2>3. QED
    BY <2>1, <2>2
<1>7. Receiver(m)'
  <2>1. Receiver(t)'
    BY <1>2, <1>6, SetupKept
  <2>2. QED
    BY <1>5, <2>1
<1>8. ASSUME on
      PROVE  Standing(m, Ahead(0))'
  <2>1. PICK i \in 1 .. (Len(sent) + 1), c \in Nat :
          Ahead(0) = <<i, c>> /\ (c # 0 => i \in DOMAIN sent)
    <3>1. 0 \in 0 .. Len(wire)
      BY <1>1, LenProperties DEF TypeInv
    <3>2. QED
      BY <1>1, <3>1, AheadAt
  <2>2. Standing(m, <<i, c>>)
    BY <1>1, <1>8, <2>1
  <2>3. Passed(m, i)
    BY <2>2 DEF Standing, Passed
  <2>4. Passed(t, i)'
    <3>1. PICK s : s = m
      OBVIOUS
    <3>2. Passed(s, i) /\ t.got = s.got
      BY <1>6, <2>3, <3>1
    <3>3. QED
      BY <1>1, <1>3, <3>2, PassedKept
  <2>5. Between(t, i)'
    BY <1>6, <1>8 DEF Between
  <2>6. c # 0 => Within(t, i, c)'
    <3>1. SUFFICES ASSUME c # 0 PROVE Within(t, i, c)'
      OBVIOUS
    <3>2. Len(wire) \in Nat /\ wire \in Seq(Piece)
      BY <1>1, LenProperties DEF TypeInv
    <3>3. wire # <<>> /\ Ahead(0) = Spot(wire[1])
      BY <2>1, <3>1, <3>2 DEF Ahead
    <3>4. wire[1].of = i /\ i # 0 /\ i \in Nat
      BY <2>1, <3>1, <3>3 DEF Spot
    <3>5. QED
      BY <1>1, <1>2, <3>3, <3>4, Excused
  <2>7. Standing(t, <<i, c>>)'
    BY <2>4, <2>5, <2>6 DEF Standing, Passed
  <2>8. QED
    BY <1>4, <1>5, <2>1, <2>7
<1>9. QED
  BY <1>1, <1>2, <1>3, <1>4, <1>7, <1>8 DEF IInv, TypeInv

LEMMA LoseKeeps ==
  ASSUME IInv, Lose
  PROVE  IInv'
<1>1. TypeInv /\ Line /\ (on => Standing(m, Ahead(0))) /\ Receiver(m)
  BY DEF IInv, TypeInv
<1>2. Damaged /\ wire # <<>> /\ wire' = Tail(wire) /\ UNCHANGED <<on, setup, sent, apart, m>>
  BY DEF Lose, Damaged
<1>3. Grows /\ hurt' \subseteq Nat \ {0}
  BY <1>1, <1>2, DamagedIs
<1>4. wire \in Seq(Piece) /\ Len(wire) \in Nat \ {0} /\ 1 \in DOMAIN wire
      /\ 0 \in 0 .. Len(wire) /\ 1 \in 0 .. Len(wire)
  BY <1>1, <1>2 DEF TypeInv
<1>5. /\ wire' \in Seq(Piece) /\ Len(wire') = Len(wire) - 1
      /\ \A p \in 1 .. (Len(wire) - 1) : wire'[p] = wire[1 + p] /\ 1 + p \in DOMAIN wire
  BY <1>2, <1>4
<1>6. \A p \in 1 .. (Len(wire) - 1) :
        /\ wire'[p].of = wire[1 + p].of /\ wire'[p].at = wire[1 + p].at
        /\ OnLine(wire[p])'
  <2>1. ASSUME NEW p \in 1 .. (Len(wire) - 1)
        PROVE  OnLine(wire[p])'
    <3>1. PICK x : x = wire[1 + p]
      OBVIOUS
    <3>2. x \in Piece /\ OnLine(x)
      BY <1>1, <1>5, <3>1 DEF TypeInv, Line
    <3>3. OnLine(x)'
      BY <1>1, <1>3, <3>2, OnLineKept
    <3>4. QED
      BY <1>5, <3>1, <3>3
  <2>2. QED
    BY <1>5, <2>1
<1>7. Line' /\ Ahead(0)' = Ahead(1)
  BY <1>1, <1>2, <1>3, <1>4, <1>5, <1>6, LineRest
<1>8. PICK s : s = m
  OBVIOUS
<1>9. Receiver(m)'
  <2>1. Receiver(s)'
    BY <1>1, <1>2, <1>8, SetupKept
  <2>2. QED
    BY <1>2, <1>8, <2>1
<1>10. ASSUME on
       PROVE  Standing(m, Ahead(0))'
  <2>1. PICK x : x = wire[1]
    OBVIOUS
  <2>2. x \in Piece /\ OnLine(x) /\ After(x) = Ahead(1)
    BY <1>1, <1>4, <2>1 DEF Line
  <2>3. Ahead(0) = Spot(x)
    BY <1>4, <2>1 DEF Ahead
  <2>4. Standing(s, Spot(x))
    BY <1>1, <1>8, <1>10, <2>3
  <2>5. x.at \in Nat \ {0} /\ x.of \in Nat /\ Len(sent) \in Nat /\ DOMAIN sent = 1 .. Len(sent)
    BY <1>1, <2>2, LenProperties DEF Piece, TypeInv
  <2>6. CASE x.of = 0
    <3>1. Spot(x) = <<x.at, 0>> /\ After(x) = <<x.at, 0>>
      BY <2>6 DEF Spot, After
    <3>2. x.at \in 1 .. (Len(sent) + 1)
      BY <2>2, <2>5, <2>6 DEF OnLine
    <3> DEFINE i == x.at
               c == 0
    <3>3. i \in 1 .. (Len(sent) + 1) /\ c = 0 /\ Standing(s, <<i, c>>) /\ Ahead(0)' = <<i, c>>
      BY <1>7, <2>2, <2>4, <3>1, <3>2
    <3> HIDE DEF i, c
    <3>4. m' = s
      BY <1>2, <1>8
    <3>5. QED
      BY <1>1, <1>3, <3>3, <3>4, StandsAt
  <2>7. CASE x.of # 0
    <3> DEFINE i == x.of
    <3>1. i \in 1 .. Len(sent) /\ i \in Nat \ {0} /\ i \in 1 .. (Len(sent) + 1)
      BY <2>2, <2>5, <2>7 DEF OnLine
    <3>2. Passed(s, i)
      BY <2>4, <2>7 DEF Standing, Passed, Spot
    <3>3. Passed(s, i)'
      BY <1>1, <1>3, <3>1, <3>2, PassedKept
    <3>4. \A c : Within(s, i, c)' /\ Between(s, i + 1)' /\ Spoiled(i)'
      BY <1>1, <1>2, <2>1, <3>1, Excused
    <3>5. After(x) = <<i, x.at>> \/ After(x) = <<i + 1, 0>>
      BY <2>7 DEF After
    <3> HIDE DEF i
    <3>6. CASE After(x) = <<i, x.at>>
      <4>1. Standing(s, <<i, x.at>>)'
        BY <2>5, <3>3, <3>4 DEF Standing, Passed
      <4>2. QED
        BY <1>2, <1>7, <1>8, <2>2, <3>6, <4>1
    <3>7. CASE After(x) = <<i + 1, 0>>
      <4>1. ASSUME NEW j \in 1 .. i
            PROVE  Spoiled(j)' \/ HandedUp(s, j)'
        <5>1. CASE j = i
          BY <3>4, <5>1
        <5>2. CASE j # i
          <6>1. j \in 1 .. (i - 1)
            BY <3>1, <5>2
          <6>2. QED
            BY <3>3, <6>1 DEF Passed
        <5>3. QED
          BY <5>1, <5>2
      <4>2. (i + 1) - 1 = i
        BY <3>1
      <4>3. Standing(s, <<i + 1, 0>>)'
        BY <3>4, <4>1, <4>2 DEF Standing
      <4>4. QED
        BY <1>2, <1>7, <1>8, <2>2, <3>7, <4>3
    <3>8. QED
      BY <3>5, <3>6, <3>7
  <2>8. QED
    BY <2>6, <2>7
<1>11. QED
  BY <1>1, <1>2, <1>3, <1>5, <1>7, <1>9, <1>10 DEF IInv, TypeInv

\* The line with n more bytes, l before them.
LEMMA LineMore ==
  ASSUME TypeInv, Line, Grows, NEW l \in Nat, l = Len(wire), NEW n \in Nat \ {0},
         wire' \in Seq(Piece), Len(wire') = l + n,
         \A p \in 1 .. l : wire'[p] = wire[p],
         wire'[l + 1].of = 0 => wire'[l + 1].at = Len(sent) + 1,
         wire'[l + 1].of # 0 => wire'[l + 1].of = Len(sent) + 1 /\ wire'[l + 1].at = 1,
         \A p \in (l + 1) .. (l + n) : OnLine(wire[p])' /\ After(wire[p])' = Ahead(p)'
  PROVE  Line' /\ Ahead(0)' = Ahead(0)
<1>1. /\ DOMAIN wire = 1 .. l /\ DOMAIN wire' = 1 .. (l + n) /\ wire \in Seq(Piece)
      /\ Len(sent) \in Nat
  BY LenProperties DEF TypeInv
<1>2. ASSUME NEW p \in 0 .. l
      PROVE  Ahead(p)' = Ahead(p)
  <2>1. p # l + n
    OBVIOUS
  <2>2. Ahead(p)' = Spot(wire'[p + 1])
    BY <2>1 DEF Ahead, Spot
  <2>3. CASE p = l
    <3>1. Ahead(p) = <<Len(sent) + 1, 0>>
      BY <2>3 DEF Ahead
    <3>2. Spot(wire'[p + 1]) = <<Len(sent) + 1, 0>>
      BY <2>3 DEF Spot
    <3>3. QED
      BY <2>2, <3>1, <3>2
  <2>4. CASE p # l
    <3>1. p + 1 \in 1 .. l
      BY <2>4
    <3>2. wire'[p + 1] = wire[p + 1]
      BY <3>1
    <3>3. Ahead(p) = Spot(wire[p + 1])
      BY <2>4 DEF Ahead
    <3>4. QED
      BY <2>2, <3>2, <3>3 DEF Spot
  <2>5. QED
    BY <2>3, <2>4
<1>3. ASSUME NEW p \in 1 .. l
      PROVE  OnLine(wire[p])' /\ After(wire[p])' = Ahead(p)'
  <2>1. PICK x : x = wire[p]
    OBVIOUS
  <2>2. x \in Piece /\ OnLine(x) /\ After(x) = Ahead(p)
    BY <1>1, <2>1 DEF Line
  <2>3. OnLine(x)' /\ After(x)' = After(x)
    BY <2>2, OnLineKept
  <2>4. p \in 0 .. l /\ wire'[p] = x
    BY <2>1
  <2>5. Ahead(p)' = Ahead(p)
    BY <1>2, <2>4
  <2>6. QED
    BY <2>2, <2>3, <2>4, <2>5
<1>4. ASSUME NEW p \in 1 .. (l + n)
      PROVE  OnLine(wire[p])' /\ After(wire[p])' = Ahead(p)'
  <2>1. p \in 1 .. l \/ p \in (l + 1) .. (l + n)
    OBVIOUS
  <2>2. QED
    BY <1>3, <2>1
<1>5. Ahead(0)' = Ahead(0)
  <2>1. 0 \in 0 .. l
    OBVIOUS
  <2>2. QED
    BY <1>2, <2>1
<1>6. QED
  BY <1>1, <1>4, <1>5 DEF Line

\* A step that leaves the receiver alone, and the head of the line where it is.
LEMMA StillStanding ==
  ASSUME TypeInv, Line, Grows, on => Standing(m, Ahead(0)), UNCHANGED <<m, on>>,
         Ahead(0)' = Ahead(0)
  PROVE  Receiver(m)' /\ (on => Standing(m, Ahead(0)))'
<1>1. PICK s : s = m
  OBVIOUS
<1>2. Receiver(m)'
  <2>1. Receiver(s)'
    BY <1>1, SetupKept DEF TypeInv, Grows
  <2>2. QED
    BY <1>1, <2>1
<1>3. ASSUME on
      PROVE  Standing(m, Ahead(0))'
  <2>1. PICK i \in 1 .. (Len(sent) + 1), c \in Nat :
          Ahead(0) = <<i, c>> /\ (c # 0 => i \in DOMAIN sent)
    <3>1. 0 \in 0 .. Len(wire)
      BY LenProperties DEF TypeInv
    <3>2. QED
      BY <3>1, AheadAt
  <2>2. Standing(s, <<i, c>>) /\ m' = s /\ Ahead(0)' = <<i, c>>
    BY <1>1, <1>3, <2>1
  <2>3. QED
    BY <2>1, <2>2, StandsAt
<1>4. QED
  BY <1>2, <1>3

LEMMA ChangeKeeps ==
  ASSUME IInv, Change
  PROVE  IInv'
<1>1. TypeInv /\ Line /\ (on => Standing(m, Ahead(0)))
  BY DEF IInv
<1>2. Damaged /\ wire # <<>> /\ UNCHANGED <<on, setup, sent, apart, m>>
  BY DEF Change, Damaged
<1>3. Grows /\ hurt' \subseteq Nat \ {0}
  BY <1>1, <1>2, DamagedIs
<1>4. wire \in Seq(Piece) /\ Len(wire) \in Nat \ {0} /\ 1 \in DOMAIN wire
  BY <1>1, <1>2 DEF TypeInv
<1>5. PICK b \in Special \cup {Esc00, EscFF} :
        wire' = <<[Head(wire) EXCEPT !.b = b]>> \o Tail(wire)
  BY DEF Change
<1>6. PICK x : x = wire[1]
  OBVIOUS
<1>7. PICK y : y = [x EXCEPT !.b = b]
  OBVIOUS
<1>8. x \in Piece /\ OnLine(x) /\ After(x) = Ahead(1)
  BY <1>1, <1>4, <1>6 DEF Line
<1>9. y \in Piece /\ y.of = x.of /\ y.at = x.at
  <2>1. b \in Byte
    BY DEF Special, SOF, EOF, ESC, Esc00, EscFF, Byte
  <2>2. QED
    BY <1>7, <1>8, <2>1 DEF Piece
<1>10. wire' = <<y>> \o Tail(wire)
  BY <1>4, <1>5, <1>6, <1>7
<1>11. /\ wire' \in Seq(Piece) /\ Len(wire') = Len(wire) /\ wire'[1] = y
       /\ \A p \in 2 .. Len(wire) : wire'[p] = wire[p]
  BY <1>4, <1>9, <1>10
<1>12. OnLine(y)'
  <2>1. OnLine(x)'
    BY <1>1, <1>3, <1>8, OnLineKept
  <2>2. hurt' = hurt \cup (IF x.of = 0 THEN {x.at} ELSE {x.of, x.of + 1})
    BY <1>2, <1>6 DEF Damaged, Reached
  <2>3. QED
    BY <1>9, <2>1, <2>2 DEF OnLine
<1>13. ASSUME NEW p \in 1 .. Len(wire)
       PROVE  wire'[p].of = wire[p].of /\ wire'[p].at = wire[p].at /\ OnLine(wire[p])'
  <2>1. CASE p = 1
    BY <1>6, <1>9, <1>11, <1>12, <2>1
  <2>2. CASE p # 1
    <3>1. p \in 2 .. Len(wire) /\ p \in DOMAIN wire
      BY <1>4, <2>2
    <3>2. PICK z : z = wire[p]
      OBVIOUS
    <3>3. z \in Piece /\ OnLine(z)
      BY <1>1, <1>4, <3>1, <3>2 DEF Line
    <3>4. OnLine(z)'
      BY <1>1, <1>3, <3>3, OnLineKept
    <3>5. QED
      BY <1>11, <3>1, <3>2, <3>4
  <2>3. QED
    BY <2>1, <2>2
<1>14. Line' /\ Ahead(0)' = Ahead(0)
  <2>1. PICK n : n = 0
    OBVIOUS
  <2>2. n \in 0 .. Len(wire) /\ Len(wire') = Len(wire) - n
    BY <1>4, <1>11, <2>1
  <2>3. \A p \in 1 .. (Len(wire) - n) :
          /\ wire'[p].of = wire[n + p].of /\ wire'[p].at = wire[n + p].at
          /\ OnLine(wire[p])'
    BY <1>4, <1>13, <2>1
  <2>4. Line' /\ Ahead(0)' = Ahead(n)
    BY <1>1, <1>2, <1>3, <1>11, <2>2, <2>3, LineRest
  <2>5. QED
    BY <2>1, <2>4
<1>15. Receiver(m)' /\ (on => Standing(m, Ahead(0)))'
  BY <1>1, <1>2, <1>3, <1>14, StillStanding
<1>16. QED
  BY <1>1, <1>2, <1>3, <1>11, <1>14, <1>15 DEF IInv, TypeInv

LEMMA TextKeeps ==
  ASSUME IInv, Text
  PROVE  IInv'
<1>1. TypeInv /\ Line /\ (on => Standing(m, Ahead(0)))
  BY DEF IInv
<1>2. UNCHANGED <<setup, m, on, sent>>
  BY DEF Text
<1>3. PICK i : i = Len(sent) + 1
  OBVIOUS
<1>4. wire \in Seq(Piece) /\ Len(wire) \in Nat /\ Len(sent) \in Nat /\ i \in Nat \ {0}
  BY <1>1, <1>3, LenProperties DEF TypeInv
<1>5. PICK b \in setup.texts :
        /\ wire' = Append(wire, TextByte(b))
        /\ hurt' = IF b = SOF THEN hurt \cup {i} ELSE hurt
  BY <1>3 DEF Text
<1>6. apart' = apart \cup {i}
  BY <1>3 DEF Text
<1>7. Grows
  BY <1>2, <1>4, <1>5, <1>6 DEF Grows
<1>8. PICK x : x = [b |-> b, of |-> 0, at |-> i]
  OBVIOUS
<1>9. x \in Piece /\ x.of = 0 /\ x.at = i /\ x.b = b
  <2>1. b \in Byte
    BY <1>1, Mup1Assumption DEF TypeInv, Byte
  <2>2. QED
    BY <1>4, <1>8, <2>1 DEF Piece
<1>10. PICK l \in Nat : l = Len(wire)
  BY <1>4
<1>11. /\ wire' \in Seq(Piece) /\ Len(wire') = l + 1 /\ wire'[l + 1] = x
       /\ \A p \in 1 .. l : wire'[p] = wire[p]
  <2>1. wire' = Append(wire, x)
    BY <1>3, <1>5, <1>8 DEF TextByte
  <2>2. QED
    BY <1>4, <1>9, <1>10, <2>1
<1>12. OnLine(x)' /\ After(x)' = Ahead(l + 1)'
  <2>1. i \in apart' /\ i <= Len(sent') + 1 /\ (b = SOF => i \in hurt')
    BY <1>2, <1>3, <1>4, <1>5, <1>6
  <2>2. OnLine(x)'
    BY <1>9, <2>1 DEF OnLine
  <2>3. After(x)' = <<i, 0>>
    BY <1>9 DEF After
  <2>4. Ahead(l + 1)' = <<i, 0>>
    BY <1>2, <1>3, <1>11 DEF Ahead
  <2>5. QED
    BY <2>2, <2>3, <2>4
<1>13. Line' /\ Ahead(0)' = Ahead(0)
  <2>1. PICK n : n = 1
    OBVIOUS
  <2>2. n \in Nat \ {0} /\ Len(wire') = l + n
    BY <1>11, <2>1
  <2>3. \A p \in (l + 1) .. (l + n) : OnLine(wire[p])' /\ After(wire[p])' = Ahead(p)'
    <3>1. ASSUME NEW p \in (l + 1) .. (l + n)
          PROVE  p = l + 1
      BY <2>1
    <3>2. QED
      BY <1>11, <1>12, <3>1
  <2>4. wire'[l + 1].of = 0 /\ wire'[l + 1].at = Len(sent) + 1
    BY <1>3, <1>9, <1>11
  <2>5. QED
    BY <1>1, <1>7, <1>10, <1>11, <2>2, <2>3, <2>4, LineMore
<1>14. Receiver(m)' /\ (on => Standing(m, Ahead(0)))'
  BY <1>1, <1>2, <1>7, <1>13, StillStanding
<1>15. hurt' \subseteq Nat \ {0} /\ apart' \subseteq Nat \ {0}
  BY <1>1, <1>4, <1>5, <1>6 DEF TypeInv
<1>16. QED
  BY <1>1, <1>2, <1>11, <1>13, <1>14, <1>15 DEF IInv, TypeInv

LEMMA CatPieces ==
  ASSUME NEW s \in Seq(Piece), NEW t \in Seq(Piece)
  PROVE  /\ s \o t \in Seq(Piece)
         /\ Len(s \o t) = Len(s) + Len(t)
         /\ \A i \in 1 .. Len(s) : (s \o t)[i] = s[i]
         /\ \A i \in 1 .. Len(t) : (s \o t)[Len(s) + i] = t[i]
  OBVIOUS

LEMMA SendKeeps ==
  ASSUME IInv, Send
  PROVE  IInv'
<1>1. TypeInv /\ Line /\ (on => Standing(m, Ahead(0)))
  BY DEF IInv
<1>2. UNCHANGED <<setup, m, on, hurt, apart>>
  BY DEF Send
<1>3. PICK i : i = Len(sent) + 1
  OBVIOUS
<1>4. /\ wire \in Seq(Piece) /\ Len(wire) \in Nat /\ Len(sent) \in Nat /\ i \in Nat \ {0}
      /\ setup \in Setups /\ sent \in Seq(setup.frames)
  BY <1>1, <1>3, LenProperties DEF TypeInv
<1>5. PICK f \in setup.frames :
        sent' = Append(sent, f) /\ wire' = wire \o Tagged(Code(f), i)
  BY <1>3 DEF Send, Code
<1>6. /\ sent' \in Seq(setup.frames) /\ Len(sent') = i /\ sent'[i] = f
      /\ i \in DOMAIN sent'
      /\ \A j \in DOMAIN sent : j \in DOMAIN sent' /\ sent'[j] = sent[j]
  BY <1>3, <1>4, <1>5
<1>7. Grows
  BY <1>2, <1>3, <1>4, <1>6 DEF Grows
<1>8. Framed(f)
  BY <1>4, FrameIs
<1>9. PICK n : n = Total(f)
  OBVIOUS
<1>10. PICK code : code = Code(f)
  OBVIOUS
<1>11. code \in Seq(Byte) /\ Len(code) = n /\ n \in Nat \ {0}
  <2>1. code \in Seq(Byte) /\ Len(code) = n
    BY <1>4, <1>8, <1>9, <1>10, CodeIs DEF CodeOf
  <2>2. n \in Nat \ {0}
    BY <1>4, <1>8, <1>9, SizedIs DEF Sized
  <2>3. QED
    BY <2>1, <2>2
<1>12. Total(sent[i])' = n /\ Code(sent[i])' = code
  <2>1. Total(f)' = Total(f) /\ Code(f)' = Code(f)
    BY <1>2, SetupKept
  <2>2. QED
    BY <1>6, <1>9, <1>10, <2>1
<1>13. PICK l \in Nat : l = Len(wire)
  BY <1>4
<1>14. PICK new : new = Tagged(code, i)
  OBVIOUS
<1>15. /\ new \in Seq(Piece) /\ Len(new) = n
       /\ \A k \in 1 .. n : new[k].b = code[k] /\ new[k].of = i /\ new[k].at = k
  <2>1. new = [k \in 1 .. n |-> [b |-> code[k], of |-> i, at |-> k]]
    BY <1>11, <1>14 DEF Tagged
  <2>2. ASSUME NEW k \in 1 .. n
        PROVE  [b |-> code[k], of |-> i, at |-> k] \in Piece
    <3>1. code[k] \in Byte /\ i \in Nat /\ k \in Nat \ {0}
      BY <1>4, <1>11
    <3>2. QED
      BY <3>1 DEF Piece
  <2>3. new \in Seq(Piece) /\ Len(new) = n
    BY <1>11, <2>1, <2>2
  <2>4. QED
    BY <2>1, <2>3
<1>16. /\ wire' \in Seq(Piece) /\ Len(wire') = l + n
       /\ \A p \in 1 .. l : wire'[p] = wire[p]
       /\ \A k \in 1 .. n : wire'[l + k] = new[k]
  <2>1. wire' = wire \o new
    BY <1>5, <1>10, <1>14
  <2>2. PICK w : w = wire
    OBVIOUS
  <2>3. w \in Seq(Piece) /\ new \in Seq(Piece) /\ Len(w) = l /\ Len(new) = n /\ wire' = w \o new
    BY <1>4, <1>13, <1>15, <2>1, <2>2
  <2> DEFINE z == w \o new
  <2>4. /\ z \in Seq(Piece) /\ Len(z) = l + n
        /\ \A p \in 1 .. l : z[p] = w[p]
        /\ \A k \in 1 .. n : z[l + k] = new[k]
    BY <2>3, CatPieces
  <2>5. wire' = z
    BY <2>3
  <2> HIDE DEF z
  <2>6. QED
    BY <2>2, <2>4, <2>5
<1>17. ASSUME NEW k \in 1 .. n
       PROVE  OnLine(wire[l + k])' /\ After(wire[l + k])' = Ahead(l + k)'
  <2>1. PICK x : x = new[k]
    OBVIOUS
  <2>2. x.b = code[k] /\ x.of = i /\ x.at = k /\ x.of # 0
    BY <1>4, <1>15, <2>1
  <2>3. OnLine(x)'
    BY <1>6, <1>12, <2>2 DEF OnLine
  <2>4. After(x)' = IF k < n THEN <<i, k>> ELSE <<i + 1, 0>>
    BY <1>12, <2>2 DEF After
  <2>5. CASE k = n
    <3>1. Ahead(l + k)' = <<i + 1, 0>>
      BY <1>6, <1>16, <2>5 DEF Ahead
    <3>2. ~(k < n)
      BY <1>11, <2>5
    <3>3. QED
      BY <1>16, <2>1, <2>3, <2>4, <3>1, <3>2
  <2>6. CASE k # n
    <3>1. k < n /\ k + 1 \in 1 .. n /\ l + k # l + n /\ (l + k) + 1 = l + (k + 1)
      BY <1>11, <2>6
    <3>2. PICK y : y = wire'[(l + k) + 1]
      OBVIOUS
    <3>3. y = new[k + 1]
      BY <1>16, <3>1, <3>2
    <3>4. y.of = i /\ y.at = k + 1 /\ y.of # 0 /\ (k + 1) - 1 = k
      BY <1>4, <1>15, <3>1, <3>3
    <3>5. Spot(y) = <<i, k>>
      BY <3>4 DEF Spot
    <3>6. Ahead(l + k)' = Spot(y)
      BY <1>16, <3>1, <3>2 DEF Ahead, Spot
    <3>7. QED
      BY <1>16, <2>1, <2>3, <2>4, <3>1, <3>5, <3>6
  <2>7. QED
    BY <2>5, <2>6
<1>18. Line' /\ Ahead(0)' = Ahead(0)
  <2>1. ASSUME NEW p \in (l + 1) .. (l + n)
        PROVE  OnLine(wire[p])' /\ After(wire[p])' = Ahead(p)'
    <3>1. PICK k \in 1 .. n : p = l + k
      <4>1. p - l \in 1 .. n /\ p = l + (p - l)
        BY <1>11
      <4>2. QED
        BY <4>1
    <3>2. QED
      BY <1>17, <3>1
  <2>2. wire'[l + 1].of = i /\ wire'[l + 1].at = 1
    <3>1. 1 \in 1 .. n
      BY <1>11
    <3>2. QED
      BY <1>15, <1>16, <3>1
  <2>3. i # 0 /\ i = Len(sent) + 1
    BY <1>3, <1>4
  <2>4. QED
    BY <1>1, <1>7, <1>11, <1>13, <1>16, <2>1, <2>2, <2>3, LineMore
<1>19. Receiver(m)' /\ (on => Standing(m, Ahead(0)))'
  BY <1>1, <1>2, <1>7, <1>18, StillStanding
<1>20. QED
  BY <1>1, <1>2, <1>6, <1>16, <1>18, <1>19 DEF IInv, TypeInv

LEMMA Initially ==
  ASSUME Init
  PROVE  IInv
<1>1. setup \in Setups /\ on \in BOOLEAN /\ m = Fresh
      /\ wire = <<>> /\ sent = <<>> /\ hurt = {} /\ apart = {}
  BY DEF Init
<1>2. Receiver(m)
  <2>1. m = Rec("init", 0, <<>>, <<>>, <<>>, <<>>)
    BY <1>1 DEF Fresh, Rec
  <2>2. PICK e : e = <<>>
    OBVIOUS
  <2>3. PICK z : z = 0
    OBVIOUS
  <2>4. m = Rec("init", z, e, e, e, e)
    BY <2>1, <2>2, <2>3
  <2>5. m.state = "init" /\ m.type = z /\ m.data = e /\ m.chk = e /\ m.got = e /\ IsRec(m)
    BY <2>4, ToRec
  <2>6. z \in Byte /\ e \in Seq(Byte) /\ e \in Seq(Handed)
    BY <2>2, <2>3 DEF Byte
  <2>7. QED
    BY <2>5, <2>6 DEF Receiver, States
<1>3. TypeInv
  BY <1>1, <1>2 DEF TypeInv
<1>4. Line
  BY <1>1 DEF Line
<1>5. Ahead(0) = <<1, 0>>
  BY <1>1 DEF Ahead
<1>6. m.state = "init"
  BY <1>1 DEF Fresh
<1>7. Standing(m, <<1, 0>>)
  BY <1>6 DEF Standing, Between
<1>8. QED
  BY <1>3, <1>4, <1>5, <1>7 DEF IInv

\* A frame the line left alone is handed up as it was sent, whatever its payload,
\* the text around it, the way reads cut the stream and the number of bytes lost
\* or changed elsewhere: Mup1#rx_sm finds the start of a frame again behind damage.
THEOREM Resynchronises == Spec => []Resync
<1>1. Init => IInv
  BY Initially
<1>2. IInv /\ [Next]_vars => IInv'
  <2>1. SUFFICES ASSUME IInv, [Next]_vars PROVE IInv'
    OBVIOUS
  <2>2. CASE Rx
    BY <2>1, <2>2, RxKeeps
  <2>3. CASE Timeout
    BY <2>1, <2>3, TimeoutKeeps
  <2>4. CASE Send
    BY <2>1, <2>4, SendKeeps
  <2>5. CASE Text
    BY <2>1, <2>5, TextKeeps
  <2>6. CASE Lose
    BY <2>1, <2>6, LoseKeeps
  <2>7. CASE Change
    BY <2>1, <2>7, ChangeKeeps
  <2>8. CASE UNCHANGED vars
    <3>1. UNCHANGED <<setup, wire, m, on, sent, hurt, apart>>
      BY <2>8 DEF vars
    <3>2. TypeInv /\ Line /\ (on => Standing(m, Ahead(0)))
      BY <2>1 DEF IInv
    <3>3. Grows
      BY <3>1, <3>2, LenProperties DEF Grows, TypeInv
    <3>4. Line' /\ Ahead(0)' = Ahead(0)
      BY <3>1, <3>2, <3>3, LineStays
    <3>5. Receiver(m)' /\ (on => Standing(m, Ahead(0)))'
      BY <3>1, <3>2, <3>3, <3>4, StillStanding
    <3>6. QED
      BY <3>1, <3>2, <3>4, <3>5 DEF IInv, TypeInv
  <2>9. QED
    BY <2>1, <2>2, <2>3, <2>4, <2>5, <2>6, <2>7, <2>8 DEF Next
<1>3. IInv => Resync
  <2>1. SUFFICES ASSUME IInv, on, wire = <<>>, NEW i \in DOMAIN sent
                 PROVE  Spoiled(i) \/ HandedUp(m, i)
    BY DEF Resync
  <2>2. Standing(m, Ahead(0)) /\ Len(sent) \in Nat /\ i \in 1 .. Len(sent)
    BY <2>1, LenProperties DEF IInv, TypeInv
  <2>3. Ahead(0) = <<Len(sent) + 1, 0>>
    BY <2>1 DEF Ahead
  <2>4. i \in 1 .. ((Len(sent) + 1) - 1)
    BY <2>2
  <2>5. QED
    BY <2>2, <2>3, <2>4 DEF Standing
<1>4. QED
  BY <1>1, <1>2, <1>3, PTL DEF Spec
=============================================================================
