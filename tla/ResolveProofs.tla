---------------------------- MODULE ResolveProofs ----------------------------
(***************************************************************************)
(* Proofs about Resolve, for any number of definitions that refer to one   *)
(* another in any way.                                                     *)
(***************************************************************************)
EXTENDS Resolve, SequenceTheorems, FiniteSetTheorems, TLAPS

Frames == [of : Defs, ref : Nat \X Nat, next : Nat \ {0}]
Marks == {"no", "in_progress", "yes"}

Typed ==
  /\ kind \in AllKinds
  /\ imported \in 0 .. N /\ Closed(body, imported)
  /\ kind = "module" => imported = 0
  /\ body \in [Owners -> Seq(Defs \cup {Missing})]
  /\ joined \in [Owners -> {"each", "or", "and"}]
  /\ todo \in [def : 1 .. Top, ref : Nat, top : Nat \ {0}]
  /\ calls \in Seq(Frames)
  /\ valid \in [Defs -> Marks]
  /\ circular \subseteq Defs
  /\ res \in [Refs -> {Unseen} \cup Nat]
  /\ done \in Seq(Defs)

\* The definitions that are active are those in progress, each once.
Active ==
  /\ CallsAreDistinct
  /\ \A i \in DOMAIN calls : valid[calls[i].of] = "in_progress"
  /\ \A d \in Defs : valid[d] = "in_progress" => \E i \in DOMAIN calls : calls[i].of = d

-----------------------------------------------------------------------------
(* The order in which definitions are done.  What a definition refers to   *)
(* was settled before it; of what an active function has passed only the   *)
(* reference that it is waiting for is not.                                *)

Settled(t) == t = Missing \/ (\E j \in DOMAIN done : done[j] = t) \/ Circular(t) \in errors

DoneOnce ==
  /\ \A d \in Defs : valid[d] = "yes" <=> \E j \in DOMAIN done : done[j] = d
  /\ \A i, j \in DOMAIN done : i # j => done[i] # done[j]

SettledBefore(i, t) ==
  t = Missing \/ (\E j \in 1 .. i - 1 : done[j] = t) \/ Circular(t) \in errors

DoneInOrder == \A i \in DOMAIN done : \A n \in DOMAIN body[done[i]] : SettledBefore(i, body[done[i]][n])

\* Each function but the first was called for the reference that the one
\* below it passed last.
Linked ==
  /\ \A i \in DOMAIN calls : calls[i].ref # NoRef =>
       calls[i].ref \in Refs /\ Target(calls[i].ref) = calls[i].of
  /\ \A i \in DOMAIN calls : i > 1 => calls[i].ref = <<calls[i - 1].of, calls[i - 1].next - 1>>

Passed ==
  \A i \in DOMAIN calls : \A n \in DOMAIN body[calls[i].of] :
    n < calls[i].next => Settled(body[calls[i].of][n]) \/ (i # Len(calls) /\ n = calls[i].next - 1)

Waiting(r) == \E i \in DOMAIN calls : calls[i].ref = r

Seen == \A r \in Refs : res[r] # Unseen => Settled(Target(r)) \/ Waiting(r)

Told == \A d \in circular : Circular(d) \in errors

\* Where the phase is: definitions behind it were called.
Behind ==
  /\ \A d \in Defs : d < todo.def => valid[d] # "no"
  /\ todo.ref # 0 /\ todo.def \in Defs => valid[todo.def] # "no"

\* A reference that the phase is at belongs to a definition that is done.
Outside ==
  calls # <<>> /\ calls[1].ref[1] \in Defs => valid[calls[1].ref[1]] = "yes"

ImportsDone == \A d \in Defs : d <= imported => valid[d] = "yes"
AfterImports == (\E i \in DOMAIN calls : calls[i].of > imported) => ImportsDone

Ordered ==
  /\ DoneOnce /\ DoneInOrder /\ Linked /\ Passed /\ Seen
  /\ Told /\ Behind /\ Outside /\ AfterImports

-----------------------------------------------------------------------------
(* What is reported, and what a reference is bound to.                     *)

\* Definitions without a cycle and without a name out of scope have a rank.
Sound(rank) ==
  \A r \in Refs : Target(r) \in Defs /\ (r[1] \in Defs => rank[Target(r)] < rank[r[1]])

Falling(rank) ==
  \A i, j \in DOMAIN calls : i < j => rank[calls[j].of] < rank[calls[i].of]

Silent == \A rank \in [Defs -> Defs] : Sound(rank) => errors = {} /\ Falling(rank)

\* The references that the phase has been at.
Past(r) ==
  IF r[1] = Top THEN r[2] < todo.top
  ELSE r[1] < todo.def \/ (r[1] = todo.def /\ r[2] < todo.ref)

Binding == kind \in {"grouping", "typedef", "identity"}

Bound(r) ==
  /\ res[r] \in {Unseen, NotFound, Target(r)}
  /\ res[r] = NotFound /\ Target(r) # Missing =>
       kind = "grouping" /\ (Waiting(r) \/ Circular(Target(r)) \in errors)
  /\ kind = "typedef" /\ res[r] # Unseen /\ Target(r) = Missing => NotInScope(r) \in errors
  /\ Past(r) => res[r] # Unseen /\ (Target(r) = Missing => NotInScope(r) \in errors)

AllBound == Binding => \A r \in Refs : Bound(r)

-----------------------------------------------------------------------------
(* What a step is                                                          *)

LEMMA Numbers ==
  /\ N \in Nat /\ Top \in Nat /\ Top \notin Defs /\ 0 \notin Owners /\ Missing \notin Defs
  /\ Defs \subseteq Owners /\ Owners \subseteq Nat
  BY ResolveAssumption DEF Top, Defs, Owners, Missing

LEMMA RefFacts ==
  ASSUME Typed
  PROVE  /\ \A r \in Refs : /\ r[1] \in Owners /\ r[2] \in 1 .. Len(body[r[1]])
                            /\ r = <<r[1], r[2]>> /\ r \in Nat \X Nat /\ r # NoRef
                            /\ Target(r) \in Defs \cup {Missing}
         /\ \A o \in Owners : /\ Len(body[o]) \in Nat /\ DOMAIN body[o] = 1 .. Len(body[o])
                              /\ \A i \in 1 .. Len(body[o]) : <<o, i>> \in Refs
<1>1. \A o \in Owners : /\ Len(body[o]) \in Nat /\ DOMAIN body[o] = 1 .. Len(body[o])
                        /\ \A i \in 1 .. Len(body[o]) : body[o][i] \in Defs \cup {Missing}
  BY DEF Typed
<1>2. \A r \in Refs : \E o \in Owners : \E i \in 1 .. Len(body[o]) : r = <<o, i>>
  BY DEF Refs
<1>3. \A o \in Owners : \A i \in 1 .. Len(body[o]) : <<o, i>> \in Refs
  BY DEF Refs
<1>4. QED
  BY <1>1, <1>2, <1>3, Numbers DEF Target, NoRef

\* A definition that is called is entered, or complained about, or done.
Entered(d, r, stack) == valid[d] = "no" /\ Enter(d, r, stack) /\ UNCHANGED <<errors, circular>>
Cyclic(d, stack) ==
  /\ valid[d] = "in_progress" /\ Stay(stack)
  /\ IF d \in circular THEN UNCHANGED <<errors, circular>> ELSE Complain(d)
Known(d, stack) == valid[d] = "yes" /\ Stay(stack) /\ UNCHANGED <<errors, circular>>

LEMMA CallCases ==
  ASSUME Typed, NEW d \in Defs, NEW r, NEW stack, Call(d, r, stack)
  PROVE  Entered(d, r, stack) \/ Cyclic(d, stack) \/ Known(d, stack)
  BY DEF Call, Entered, Cyclic, Known, Typed, Marks

\* Where a reference calls nothing.
Idle(r) ==
  \/ Target(r) = Missing
  \/ kind \in {"grouping", "typedef"} /\ res[r] # Unseen
  \/ kind = "grouping" /\ Far(r)

\* Where that is reported.
Unbound(r) == Target(r) = Missing \/ (kind = "grouping" /\ res[r] = NotFound)

LEMMA ReferenceCases ==
  ASSUME Typed, NEW r \in Refs, NEW quiet \in BOOLEAN, NEW stack, Reference(r, quiet, stack)
  PROVE  /\ \/ Target(r) \in Defs /\ ~Idle(r) /\ Call(Target(r), r, stack)
            \/ Idle(r) /\ Report(r, stack) /\ Unbound(r)
            \/ Idle(r) /\ Return(stack)
         /\ res' \in [Refs -> {Unseen} \cup Nat]
         /\ \A s \in Refs : s # r => res'[s] = res[s]
<1>1. Target(r) \in Defs \cup {Missing} /\ Target(r) \in Nat
  BY RefFacts, Numbers DEF Missing
<1>2. kind \in AllKinds /\ res \in [Refs -> {Unseen} \cup Nat]
  BY DEF Typed
<1>3. CASE Uses(r, quiet, stack)
  <2>1. res' = res \/ res' = [res EXCEPT ![r] = Target(r)] \/ res' = [res EXCEPT ![r] = NotFound]
    BY <1>3 DEF Uses
  <2>2. QED
    BY <1>1, <1>2, <1>3, <2>1 DEF Uses, Idle, Unbound, NotFound, Missing, Far
<1>4. CASE Type(r, quiet, stack)
  BY <1>1, <1>2, <1>4 DEF Type, Idle, Unbound
<1>5. CASE Base(r, quiet, stack)
  BY <1>1, <1>2, <1>5 DEF Base, Idle, Unbound
<1>6. CASE IfFeature(r, quiet, stack)
  BY <1>1, <1>2, <1>6 DEF IfFeature, Idle, Unbound
<1>7. CASE Import(r, quiet, stack)
  BY <1>1, <1>2, <1>7 DEF Import, Idle, Unbound
<1>8. QED
  BY <1>3, <1>4, <1>5, <1>6, <1>7 DEF Reference

-----------------------------------------------------------------------------
(* The stack                                                               *)

LEMMA StackFacts ==
  ASSUME Typed
  PROVE  /\ calls \in Seq(Frames) /\ Len(calls) \in Nat /\ DOMAIN calls = 1 .. Len(calls)
         /\ calls # <<>> => Len(calls) \in DOMAIN calls
         /\ \A i \in DOMAIN calls :
              /\ calls[i] \in Frames /\ calls[i].of \in Defs
              /\ calls[i].ref \in Nat \X Nat /\ calls[i].next \in Nat \ {0}
<1>1. calls \in Seq(Frames)
  BY DEF Typed
<1>2. /\ Len(calls) \in Nat /\ DOMAIN calls = 1 .. Len(calls)
      /\ calls # <<>> => Len(calls) \in DOMAIN calls
      /\ \A i \in DOMAIN calls : calls[i] \in Frames
  BY <1>1
<1>3. QED
  BY <1>1, <1>2 DEF Frames

\* The stack but for how far the function at its top is.
Same(stack) ==
  /\ stack \in Seq(Frames)
  /\ DOMAIN stack = DOMAIN calls /\ Len(stack) = Len(calls)
  /\ \A i \in DOMAIN calls : stack[i].of = calls[i].of /\ stack[i].ref = calls[i].ref
  /\ \A i \in DOMAIN calls : i # Len(calls) => stack[i].next = calls[i].next

LEMMA SameCalls == ASSUME Typed PROVE Same(calls)
  BY DEF Typed, Same

LEMMA AfterFacts ==
  ASSUME Typed, NEW r \in Refs, NEW quiet \in BOOLEAN
  PROVE  After(r, quiet) \in Nat \ {0} /\ (Plain => After(r, quiet) = r[2] + 1)
<1>1. r[1] \in Owners /\ r[2] \in Nat \ {0} /\ Len(body[r[1]]) \in Nat
  BY RefFacts
<1>2. Plain => ~Decided(r, quiet)
  BY <1>1 DEF Plain, Decided
<1>3. QED
  BY <1>1, <1>2 DEF After

LEMMA AdvancedFacts ==
  ASSUME Typed, calls # <<>>, NEW next \in Nat \ {0}
  PROVE  Same(Advanced(next)) /\ Advanced(next)[Len(calls)].next = next
<1> DEFINE n == Len(calls)
           f == calls[n]
<1>1. calls \in Seq(Frames) /\ n \in DOMAIN calls /\ n \in Nat /\ f \in Frames
  BY DEF Typed
<1>2. [f EXCEPT !.next = next] \in Frames
  BY <1>1 DEF Frames
<1>3. Advanced(next) = [calls EXCEPT ![n] = [f EXCEPT !.next = next]]
  BY DEF Advanced
<1>4. /\ [f EXCEPT !.next = next].of = f.of
      /\ [f EXCEPT !.next = next].ref = f.ref
      /\ [f EXCEPT !.next = next].next = next
  BY <1>1 DEF Frames
<1> DEFINE g == [f EXCEPT !.next = next]
<1> HIDE DEF g
<1>5. Advanced(next) \in Seq(Frames)
  BY <1>1, <1>2, <1>3 DEF g
<1> DEFINE s == Advanced(next)
<1>6. /\ DOMAIN s = DOMAIN calls /\ s[n] = g
      /\ \A i \in DOMAIN calls : i # n => s[i] = calls[i]
  BY <1>1, <1>3 DEF g
<1>7. Len(s) = Len(calls)
  BY <1>1, <1>5, <1>6
<1> HIDE DEF s
<1>8. QED
  BY <1>1, <1>4, <1>5, <1>6, <1>7 DEF Same, g, s

\* Going in.
LEMMA EnteredStack ==
  ASSUME Typed, NEW stack, Same(stack), NEW d \in Defs, NEW r \in Nat \X Nat
  PROVE  LET s == Append(stack, Frame(d, r)) IN
         /\ s \in Seq(Frames) /\ Len(s) = Len(calls) + 1 /\ DOMAIN s = 1 .. Len(calls) + 1
         /\ \A i \in DOMAIN calls : s[i] = stack[i]
         /\ s[Len(calls) + 1].of = d /\ s[Len(calls) + 1].ref = r /\ s[Len(calls) + 1].next = 1
<1>1. Frame(d, r) \in Frames /\ Frame(d, r).of = d /\ Frame(d, r).ref = r /\ Frame(d, r).next = 1
  BY DEF Frame, Frames
<1>2. stack \in Seq(Frames) /\ Len(stack) = Len(calls) /\ DOMAIN stack = DOMAIN calls
  BY DEF Same
<1>3. QED
  BY <1>1, <1>2

\* Coming back.
LEMMA Popped ==
  ASSUME NEW S, NEW q \in Seq(S), q # <<>>
  PROVE  LET p == SubSeq(q, 1, Len(q) - 1) IN
         /\ p \in Seq(S) /\ Len(p) = Len(q) - 1 /\ DOMAIN p = 1 .. Len(q) - 1
         /\ \A i \in DOMAIN p : p[i] = q[i]
<1>1. Len(q) \in Nat \ {0} /\ \A i \in 1 .. Len(q) - 1 : q[i] \in S
  OBVIOUS
<1> DEFINE n == Len(q) - 1
           p == SubSeq(q, 1, n)
<1>2. n \in Int /\ 1 \in Int /\ \A i \in 1 .. n : q[i] \in S
  BY <1>1
<1> HIDE DEF n
<1>3. /\ p \in Seq(S) /\ Len(p) = IF 1 <= n THEN n - 1 + 1 ELSE 0
      /\ \A i \in 1 .. n - 1 + 1 : p[i] = q[1 + i - 1]
  BY <1>2, SubSeqProperties
<1> HIDE DEF p
<1>4. p \in Seq(S) /\ Len(p) = n /\ DOMAIN p = 1 .. n /\ \A i \in 1 .. n : p[i] = q[i]
  <2>1. n \in Nat
    BY <1>1 DEF n
  <2>2. n - 1 + 1 = n /\ \A i \in 1 .. n : 1 + i - 1 = i
    BY <2>1
  <2>3. QED
    BY <1>3, <2>1, <2>2
<1>5. QED
  BY <1>4 DEF n, p

LEMMA LeftStack ==
  ASSUME Typed, calls # <<>>
  PROVE  LET s == SubSeq(calls, 1, Len(calls) - 1) IN
         /\ s \in Seq(Frames) /\ Len(s) = Len(calls) - 1 /\ DOMAIN s = 1 .. Len(calls) - 1
         /\ \A i \in DOMAIN s : s[i] = calls[i]
  BY StackFacts, Popped

\* The four ways in which a step can move.
Called(d, r, stack) == Same(stack) /\ Call(d, r, stack)

LEMMA NestedTop ==
  ASSUME Typed, NEW r \in Refs, Inner(r)
  PROVE  /\ calls # <<>> /\ Len(calls) \in DOMAIN calls /\ calls[Len(calls)] \in Frames
         /\ calls[Len(calls)].of = r[1] /\ calls[Len(calls)].next = r[2] /\ r[1] \in Defs
<1>1. calls # <<>> /\ r = <<calls[Len(calls)].of, calls[Len(calls)].next>>
  BY DEF Inner
<1>2. QED
  BY <1>1, StackFacts

\* What both ways to meet a reference have in common.
Meet(r, stack) ==
  /\ Same(stack)
  /\ \E quiet \in BOOLEAN : quiet = (calls # <<>>) /\ Reference(r, quiet, stack)
  /\ UNCHANGED <<Input, done>>
  /\ todo' \in [def : {todo.def}, ref : Nat, top : Nat \ {0}]
  /\ \/ calls = <<>> /\ stack = <<>> /\ SweepRef(r) /\ Swept(r, After(r, FALSE))
     \/ calls # <<>> /\ Inner(r) /\ UNCHANGED todo /\ stack = Advanced(After(r, TRUE))

LEMMA Met ==
  ASSUME Typed, NEW r \in Refs, Visit(r) \/ Nested(r)
  PROVE  \E stack : Meet(r, stack)
<1>1. CASE Visit(r)
  <2>1. calls = <<>> /\ Reference(r, FALSE, calls) /\ UNCHANGED <<Input, done>>
    BY <1>1 DEF Visit, SweepRef
  <2>2. todo' = [todo EXCEPT !.top = After(r, FALSE)] \/ todo' = [todo EXCEPT !.ref = After(r, FALSE)]
    BY <1>1 DEF Visit, Swept
  <2>3. todo' \in [def : {todo.def}, ref : Nat, top : Nat \ {0}]
    <3> DEFINE next == After(r, FALSE)
    <3>1. todo \in [def : 1 .. Top, ref : Nat, top : Nat \ {0}] /\ next \in Nat \ {0}
      BY AfterFacts DEF Typed
    <3> HIDE DEF next
    <3>2. /\ [todo EXCEPT !.top = next] \in [def : {todo.def}, ref : Nat, top : Nat \ {0}]
          /\ [todo EXCEPT !.ref = next] \in [def : {todo.def}, ref : Nat, top : Nat \ {0}]
      BY <3>1
    <3>3. QED
      BY <2>2, <3>2 DEF next
  <2>4. QED
    BY <1>1, <2>1, <2>3, SameCalls DEF Meet, Visit
<1>2. CASE Nested(r)
  <2>1. Inner(r) /\ Reference(r, TRUE, Advanced(After(r, TRUE))) /\ UNCHANGED <<Input, todo, done>>
    BY <1>2 DEF Nested
  <2>2. Same(Advanced(After(r, TRUE)))
    BY <2>1, NestedTop, AfterFacts, AdvancedFacts
  <2>3. todo' \in [def : {todo.def}, ref : Nat, top : Nat \ {0}]
    <3>1. todo \in [def : 1 .. Top, ref : Nat, top : Nat \ {0}] /\ todo' = todo
      BY <2>1 DEF Typed
    <3>2. QED
      BY <3>1
  <2>4. QED
    BY <2>1, <2>2, <2>3, NestedTop DEF Meet
<1>3. QED
  BY <1>1, <1>2

-----------------------------------------------------------------------------
(* Types, and functions that are active                                    *)

\* The stack and the marks are changed by three operators only.
LEMMA EnterActive ==
  ASSUME Typed, Active, NEW stack, Same(stack), NEW d \in Defs, NEW r \in Nat \X Nat,
         Entered(d, r, stack)
  PROVE  calls' \in Seq(Frames) /\ valid' \in [Defs -> Marks] /\ Active'
<1> DEFINE n == Len(calls)
<1>1. /\ calls' \in Seq(Frames) /\ Len(calls') = n + 1 /\ DOMAIN calls' = 1 .. n + 1
      /\ \A i \in DOMAIN calls : calls'[i].of = calls[i].of
      /\ calls'[n + 1].of = d
  BY EnteredStack DEF Entered, Enter, Same
<1>2. /\ valid' \in [Defs -> Marks] /\ valid[d] = "no" /\ valid'[d] = "in_progress"
      /\ \A e \in Defs : e # d => valid'[e] = valid[e]
  BY DEF Entered, Enter, Typed, Marks
<1>3. /\ n \in Nat /\ DOMAIN calls = 1 .. n
      /\ \A i \in DOMAIN calls : calls[i].of \in Defs
  BY StackFacts
<1>4. \A i \in DOMAIN calls : calls[i].of # d
  BY <1>2 DEF Active
<1> HIDE DEF n
<1>5. \A i \in DOMAIN calls' : i \in DOMAIN calls \/ i = n + 1
  BY <1>1, <1>3
<1>6. CallsAreDistinct'
  BY <1>1, <1>3, <1>4, <1>5 DEF CallsAreDistinct, Active
<1>7. \A i \in DOMAIN calls' : valid'[calls'[i].of] = "in_progress"
  BY <1>1, <1>2, <1>3, <1>5 DEF Active
<1>8. ASSUME NEW e \in Defs, valid'[e] = "in_progress"
      PROVE  \E i \in DOMAIN calls' : calls'[i].of = e
  <2>1. CASE e = d
    BY <1>1, <1>3, <2>1
  <2>2. CASE e # d
    <3>1. PICK i \in DOMAIN calls : calls[i].of = e
      BY <1>2, <1>8, <2>2 DEF Active
    <3>2. i \in DOMAIN calls' /\ calls'[i].of = e
      BY <1>1, <1>3, <3>1
    <3>3. QED
      BY <3>2
  <2>3. QED
    BY <2>1, <2>2
<1>9. QED
  BY <1>1, <1>2, <1>6, <1>7, <1>8 DEF Active

LEMMA StayActive ==
  ASSUME Typed, Active, NEW stack, Same(stack), Stay(stack)
  PROVE  calls' \in Seq(Frames) /\ valid' \in [Defs -> Marks] /\ Active'
<1>1. /\ calls' \in Seq(Frames) /\ DOMAIN calls' = DOMAIN calls
      /\ \A i \in DOMAIN calls : calls'[i].of = calls[i].of
      /\ valid' = valid
  BY DEF Same, Stay
<1>2. valid' \in [Defs -> Marks]
  BY <1>1 DEF Typed
<1>3. CallsAreDistinct'
  BY <1>1 DEF Active, CallsAreDistinct
<1>4. \A i \in DOMAIN calls' : valid'[calls'[i].of] = "in_progress"
  BY <1>1 DEF Active
<1>5. \A d \in Defs : valid'[d] = "in_progress" => \E i \in DOMAIN calls' : calls'[i].of = d
  BY <1>1 DEF Active
<1>6. QED
  BY <1>1, <1>2, <1>3, <1>4, <1>5 DEF Active

LEMMA LeaveActive ==
  ASSUME Typed, Active, Leave
  PROVE  calls' \in Seq(Frames) /\ valid' \in [Defs -> Marks] /\ Active'
<1> DEFINE n == Len(calls)
           d == calls[n].of
<1>1. /\ calls # <<>> /\ calls' = SubSeq(calls, 1, Len(calls) - 1)
      /\ valid' = [valid EXCEPT ![d] = "yes"]
  BY DEF Leave
<1>2. /\ calls' \in Seq(Frames) /\ DOMAIN calls' = 1 .. n - 1 /\ n \in Nat /\ DOMAIN calls = 1 .. n
      /\ \A i \in DOMAIN calls' : calls'[i] = calls[i]
      /\ n \in DOMAIN calls /\ \A i \in DOMAIN calls : calls[i].of \in Defs
  BY <1>1, LeftStack, StackFacts
<1>3. /\ valid' \in [Defs -> Marks] /\ valid'[d] = "yes"
      /\ \A e \in Defs : e # d => valid'[e] = valid[e]
  BY <1>1, <1>2 DEF Typed, Marks
<1>4. \A i \in DOMAIN calls' : i \in DOMAIN calls /\ calls[i].of # d
  BY <1>2 DEF Active, CallsAreDistinct
<1> HIDE DEF n
<1>5. CallsAreDistinct' /\ \A i \in DOMAIN calls' : valid'[calls'[i].of] = "in_progress"
  BY <1>2, <1>3, <1>4 DEF CallsAreDistinct, Active
<1>6. ASSUME NEW e \in Defs, valid'[e] = "in_progress"
      PROVE  \E i \in DOMAIN calls' : calls'[i].of = e
  <2>1. e # d /\ valid[e] = "in_progress"
    BY <1>3, <1>6
  <2>2. PICK i \in DOMAIN calls : calls[i].of = e
    BY <2>1 DEF Active
  <2>3. i # n
    BY <2>1, <2>2
  <2>4. i \in DOMAIN calls' /\ calls'[i].of = e
    BY <1>2, <2>2, <2>3
  <2>5. QED
    BY <2>4
<1>7. QED
  BY <1>2, <1>3, <1>5, <1>6 DEF Active

LEMMA CallActive ==
  ASSUME Typed, Active, NEW stack, Same(stack), NEW d \in Defs, NEW r \in Nat \X Nat,
         Call(d, r, stack)
  PROVE  /\ calls' \in Seq(Frames) /\ valid' \in [Defs -> Marks] /\ Active'
         /\ circular' \subseteq Defs
<1>1. circular \subseteq Defs
  BY DEF Typed
<1>2. CASE Entered(d, r, stack)
  BY <1>1, <1>2, EnterActive DEF Entered
<1>3. CASE Cyclic(d, stack)
  BY <1>1, <1>3, StayActive DEF Cyclic, Complain
<1>4. CASE Known(d, stack)
  BY <1>1, <1>4, StayActive DEF Known
<1>5. QED
  BY <1>2, <1>3, <1>4, CallCases

\* The document does not change.
LEMMA SameInput ==
  ASSUME Typed, UNCHANGED Input
  PROVE  /\ UNCHANGED <<kind, imported, body, joined, enabled>> /\ Refs' = Refs
         /\ imported' \in 0 .. N /\ Closed(body', imported')
         /\ kind' \in AllKinds /\ (kind' = "module" => imported' = 0)
         /\ body' \in [Owners -> Seq(Defs \cup {Missing})]
         /\ joined' \in [Owners -> {"each", "or", "and"}]
<1>1. UNCHANGED <<kind, imported, body, joined, enabled>>
  BY DEF Input
<1>2. Refs' = Refs
  BY <1>1 DEF Refs
<1>3. QED
  BY <1>1, <1>2 DEF Typed, Closed

LEMMA DefinitionActive ==
  ASSUME Typed, Active, NEW d \in Defs, Definition(d)
  PROVE  Typed' /\ Active'
<1>1. UNCHANGED Input /\ UNCHANGED <<res, done>> /\ Call(d, NoRef, calls) /\ SweepDef(d)
  BY DEF Definition
<1>2. NoRef \in Nat \X Nat
  BY DEF NoRef
<1>3. todo' \in [def : 1 .. Top, ref : Nat, top : Nat \ {0}]
  <2>1. /\ todo \in [def : 1 .. Top, ref : Nat, top : Nat \ {0}] /\ todo.def = d
        /\ d + 1 \in 1 .. Top /\ d \in 1 .. Top
    BY <1>1, Numbers DEF Typed, SweepDef, Defs, Top
  <2>2. todo' = [todo EXCEPT !.def = d + 1] \/ todo' = [todo EXCEPT !.ref = 1]
    BY <1>1 DEF SweepDef
  <2>3. QED
    BY <2>1, <2>2
<1>4. /\ calls' \in Seq(Frames) /\ valid' \in [Defs -> Marks] /\ Active' /\ circular' \subseteq Defs
  BY <1>1, <1>2, SameCalls, CallActive
<1>5. res' \in [Refs -> {Unseen} \cup Nat] /\ done' \in Seq(Defs)
  BY <1>1 DEF Typed
<1>6. QED
  BY <1>1, <1>3, <1>4, <1>5, SameInput DEF Typed

LEMMA SweepOnActive ==
  ASSUME Typed, Active, SweepOn
  PROVE  Typed' /\ Active'
<1>1. /\ UNCHANGED Input /\ UNCHANGED <<calls, valid, circular, res, errors, done>>
      /\ todo.def \in Defs /\ todo' = [todo EXCEPT !.def = @ + 1, !.ref = 0]
  BY DEF SweepOn
<1>2. todo' \in [def : 1 .. Top, ref : Nat, top : Nat \ {0}]
  <2>1. todo \in [def : 1 .. Top, ref : Nat, top : Nat \ {0}] /\ todo.def + 1 \in 1 .. Top
    BY <1>1, Numbers DEF Typed, Defs, Top
  <2>2. QED
    BY <1>1, <2>1
<1>3. Active'
  BY <1>1 DEF Active, CallsAreDistinct
<1>4. /\ calls' \in Seq(Frames) /\ valid' \in [Defs -> Marks] /\ circular' \subseteq Defs
      /\ res' \in [Refs -> {Unseen} \cup Nat] /\ done' \in Seq(Defs)
  BY <1>1 DEF Typed
<1>5. QED
  BY <1>1, <1>2, <1>3, <1>4, SameInput DEF Typed

LEMMA MeetActive ==
  ASSUME Typed, Active, NEW r \in Refs, NEW stack, Meet(r, stack)
  PROVE  Typed' /\ Active'
<1>1. PICK quiet \in BOOLEAN : Reference(r, quiet, stack)
  BY DEF Meet
<1>2. /\ Same(stack) /\ UNCHANGED Input /\ UNCHANGED done
      /\ todo' \in [def : {todo.def}, ref : Nat, top : Nat \ {0}]
  BY DEF Meet
<1>3. todo' \in [def : 1 .. Top, ref : Nat, top : Nat \ {0}]
  <2>1. todo \in [def : 1 .. Top, ref : Nat, top : Nat \ {0}]
    BY DEF Typed
  <2>2. QED
    BY <1>2, <2>1
<1>4. /\ calls' \in Seq(Frames) /\ valid' \in [Defs -> Marks] /\ Active' /\ circular' \subseteq Defs
  <2>1. CASE Target(r) \in Defs /\ Call(Target(r), r, stack)
    BY <1>2, <2>1, RefFacts, CallActive
  <2>2. CASE Report(r, stack) \/ Return(stack)
    BY <1>2, <2>2, StayActive DEF Report, Return, Typed
  <2>3. QED
    BY <1>1, <2>1, <2>2, ReferenceCases
<1>5. res' \in [Refs -> {Unseen} \cup Nat] /\ done' \in Seq(Defs)
  BY <1>1, <1>2, ReferenceCases DEF Typed
<1>6. QED
  BY <1>2, <1>3, <1>4, <1>5, SameInput DEF Typed

\* What the end of a function does.
LEMMA LeaveFacts ==
  ASSUME Typed, Leave
  PROVE  LET n == Len(calls)
             f == calls[n]
         IN /\ calls # <<>> /\ n \in DOMAIN calls /\ n \in Nat /\ f \in Frames /\ f.of \in Defs
            /\ f.next > Len(body[f.of])
            /\ calls' = SubSeq(calls, 1, n - 1) /\ DOMAIN calls' = 1 .. n - 1
            /\ \A i \in DOMAIN calls' : i \in DOMAIN calls /\ calls'[i] = calls[i]
            /\ valid' = [valid EXCEPT ![f.of] = "yes"]
            /\ done' = Append(done, f.of)
            /\ res' = IF kind = "grouping" /\ f.ref # NoRef THEN [res EXCEPT ![f.ref] = f.of] ELSE res
            /\ UNCHANGED Input /\ UNCHANGED <<todo, circular, errors>>
<1>1. calls # <<>>
  BY DEF Leave
<1>2. /\ Len(calls) \in DOMAIN calls /\ Len(calls) \in Nat /\ DOMAIN calls = 1 .. Len(calls)
      /\ calls[Len(calls)] \in Frames /\ calls[Len(calls)].of \in Defs
  BY <1>1, StackFacts
<1>3. LET p == SubSeq(calls, 1, Len(calls) - 1)
      IN DOMAIN p = 1 .. Len(calls) - 1 /\ \A i \in DOMAIN p : i \in DOMAIN calls /\ p[i] = calls[i]
  BY <1>1, <1>2, LeftStack
<1>4. QED
  BY <1>1, <1>2, <1>3 DEF Leave

LEMMA DoneType ==
  ASSUME Typed, Leave
  PROVE  /\ done' \in Seq(Defs) /\ DOMAIN done = 1 .. Len(done) /\ Len(done) \in Nat
         /\ DOMAIN done' = 1 .. Len(done) + 1 /\ done'[Len(done) + 1] = calls[Len(calls)].of
         /\ \A i \in DOMAIN done : done'[i] = done[i]
<1> DEFINE d == calls[Len(calls)].of
<1>1. done \in Seq(Defs)
  BY DEF Typed
<1>2. d \in Defs /\ done' = Append(done, d)
  BY LeaveFacts
<1> HIDE DEF d
<1>3. /\ done' \in Seq(Defs) /\ DOMAIN done = 1 .. Len(done) /\ Len(done) \in Nat
      /\ DOMAIN done' = 1 .. Len(done) + 1 /\ done'[Len(done) + 1] = d
      /\ \A i \in DOMAIN done : done'[i] = done[i]
  BY <1>1, <1>2
<1>4. QED
  BY <1>3 DEF d

LEMMA LeaveTyped ==
  ASSUME Typed, Active, Leave
  PROVE  Typed' /\ Active'
<1>1. res' \in [Refs -> {Unseen} \cup Nat]
  <2>1. res \in [Refs -> {Unseen} \cup Nat] /\ calls[Len(calls)].of \in Nat
    BY LeaveFacts, Numbers DEF Typed
  <2>2. QED
    BY <2>1, LeaveFacts
<1>2. UNCHANGED Input /\ UNCHANGED <<todo, circular, errors>>
  BY LeaveFacts
<1>3. todo' \in [def : 1 .. Top, ref : Nat, top : Nat \ {0}] /\ circular' \subseteq Defs
  BY <1>2 DEF Typed
<1>4. QED
  BY <1>1, <1>2, <1>3, DoneType, LeaveActive, SameInput DEF Typed

LEMMA InitTyped == Init => Typed /\ Active
<1> SUFFICES ASSUME Init PROVE Typed /\ Active
  OBVIOUS
<1>1. PICK defs \in [Defs -> Bodies], top \in TopBodies :
        Closed(defs, imported) /\ body = [o \in Owners |-> IF o = Top THEN top ELSE defs[o]]
  BY DEF Init
<1>2. kind \in AllKinds /\ imported \in 0 .. N /\ (kind = "module" => imported = 0)
  BY ResolveAssumption DEF Init
<1>3. body \in [Owners -> Seq(Defs \cup {Missing})]
  BY <1>1, ResolveAssumption, Numbers DEF Owners
<1>4. \A o \in 1 .. imported : o \in Owners /\ body[o] = defs[o]
  BY <1>1, <1>2, Numbers DEF Defs, Owners, Top
<1>5. Closed(body, imported)
  BY <1>1, <1>4 DEF Closed
<1>6. joined \in [Owners -> {"each", "or", "and"}]
  BY DEF Init
<1>7. todo \in [def : 1 .. Top, ref : Nat, top : Nat \ {0}]
  BY Numbers DEF Init, Top
<1>8. /\ calls = <<>> /\ circular = {} /\ done = <<>>
      /\ res = [r \in Refs |-> Unseen] /\ valid = [d \in Defs |-> "no"]
  BY DEF Init
<1>9. calls \in Seq(Frames) /\ done \in Seq(Defs) /\ DOMAIN calls = {}
  BY <1>8
<1>10. Typed
  BY <1>2, <1>3, <1>5, <1>6, <1>7, <1>8, <1>9 DEF Typed, Marks
<1>11. Active
  BY <1>8, <1>9 DEF Active, CallsAreDistinct
<1>12. QED
  BY <1>10, <1>11

LEMMA NextTyped == Typed /\ Active /\ [Next]_vars => Typed' /\ Active'
<1> SUFFICES ASSUME Typed, Active, [Next]_vars PROVE Typed' /\ Active'
  OBVIOUS
<1>1. ASSUME NEW d \in Defs, Definition(d) PROVE Typed' /\ Active'
  BY <1>1, DefinitionActive
<1>2. ASSUME NEW r \in Refs, Visit(r) \/ Nested(r) PROVE Typed' /\ Active'
  BY <1>2, Met, MeetActive
<1>3. CASE UNCHANGED vars
  <2>1. UNCHANGED Input /\ UNCHANGED <<todo, calls, valid, circular, res, errors, done>>
    BY <1>3 DEF vars, Input
  <2>2. Active'
    BY <2>1 DEF Active, CallsAreDistinct
  <2>3. QED
    BY <2>1, <2>2, SameInput DEF Typed
<1>4. QED
  BY <1>1, <1>2, <1>3, SweepOnActive, LeaveTyped DEF Next

LEMMA TypedAlways == Spec => [](Typed /\ Active)
<1>1. QED
  BY InitTyped, NextTyped, PTL DEF Spec

(* No function is active twice for one definition, however the definitions *)
(* refer to one another: the recursion is at most N deep.                  *)
THEOREM RecursionIsBounded == Spec => []CallsAreDistinct
<1>1. Typed /\ Active => CallsAreDistinct
  BY DEF Active
<1>2. QED
  BY <1>1, TypedAlways, PTL

-----------------------------------------------------------------------------
(* The order is kept                                                       *)

LEMMA SettledStays ==
  ASSUME Typed, errors \subseteq errors',
         \A i \in DOMAIN done : i \in DOMAIN done' /\ done'[i] = done[i], NEW t, Settled(t)
  PROVE  Settled(t)'
<1>1. CASE t = Missing \/ Circular(t) \in errors
  BY <1>1 DEF Settled
<1>2. CASE \E j \in DOMAIN done : done[j] = t
  BY <1>2 DEF Settled
<1>3. QED
  BY <1>1, <1>2 DEF Settled

\* Between two visits of the phase nothing is in progress.
LEMMA AtRest ==
  ASSUME Typed, Active, calls = <<>>
  PROVE  \A d \in Defs : valid[d] # "no" => valid[d] = "yes"
<1>1. DOMAIN calls = {}
  OBVIOUS
<1>2. QED
  BY <1>1 DEF Active, Typed, Marks

LEMMA SweptImports ==
  ASSUME Typed, Active, Ordered, calls = <<>>, todo.def > imported
  PROVE  ImportsDone
<1>1. todo.def \in Nat /\ imported \in Nat /\ Defs \subseteq Nat
  BY Numbers DEF Typed
<1>2. \A d \in Defs : d <= imported => d < todo.def
  BY <1>1
<1>3. QED
  BY <1>2, AtRest DEF Ordered, Behind, ImportsDone

\* Nobody waits for a reference that is met.
LEMMA NotWaiting ==
  ASSUME Typed, Active, Linked, Outside, NEW r \in Refs, NEW stack, Meet(r, stack)
  PROVE  ~Waiting(r)
<1> SUFFICES ASSUME NEW i \in DOMAIN calls, calls[i].ref = r PROVE FALSE
  BY DEF Waiting
<1>0. calls # <<>>
  <2>1. DOMAIN calls = 1 .. Len(calls) /\ i \in DOMAIN calls
    BY StackFacts
  <2>2. calls = <<>> => Len(calls) = 0
    OBVIOUS
  <2>3. QED
    BY <2>1, <2>2
<1>1. calls # <<>> /\ Inner(r)
  BY <1>0 DEF Meet
<1>2. /\ Len(calls) \in DOMAIN calls /\ calls[Len(calls)].of = r[1] /\ r[1] \in Defs
      /\ i \in 1 .. Len(calls) /\ Len(calls) \in Nat /\ DOMAIN calls = 1 .. Len(calls)
  BY <1>1, NestedTop, StackFacts
<1>3. CASE i = 1
  <2>1. valid[r[1]] = "yes" /\ valid[r[1]] = "in_progress"
    BY <1>1, <1>2, <1>3 DEF Outside, Active
  <2>2. QED
    BY <2>1
<1>4. CASE i > 1
  <2>1. i - 1 \in DOMAIN calls /\ i - 1 # Len(calls) /\ calls[i - 1].of = r[1]
    BY <1>2, <1>4 DEF Linked
  <2>2. QED
    BY <1>2, <2>1 DEF Active, CallsAreDistinct
<1>5. QED
  BY <1>2, <1>3, <1>4

\* Where the definitions of the imported module are referred to from outside
\* of it, they are done.
LEMMA FarDone ==
  ASSUME Typed, Active, Ordered, NEW r \in Refs, NEW stack, Meet(r, stack), r[1] > imported
  PROVE  ImportsDone
<1>1. CASE calls = <<>>
  <2>1. SweepRef(r)
    BY <1>1 DEF Meet
  <2>2. todo.def > imported
    BY <2>1 DEF SweepRef
  <2>3. QED
    BY <1>1, <2>2, SweptImports
<1>2. CASE calls # <<>>
  <2>1. Inner(r)
    BY <1>2 DEF Meet
  <2>2. Len(calls) \in DOMAIN calls /\ calls[Len(calls)].of = r[1]
    BY <2>1, NestedTop
  <2>3. QED
    BY <2>2 DEF Ordered, AfterImports
<1>3. QED
  BY <1>1, <1>2

\* A reference that is met is settled, or its definition is entered.
LEMMA MeetSettles ==
  ASSUME Typed, Active, Ordered, NEW r \in Refs, NEW stack, Meet(r, stack),
         NEW t, t = Target(r)
  PROVE  /\ errors \subseteq errors' /\ Told'
         /\ \/ t \in Defs /\ Entered(t, r, stack)
            \/ Stay(stack) /\ Settled(t)'
<1>0. UNCHANGED done /\ Told
  BY DEF Meet, Ordered
<1>1. PICK quiet \in BOOLEAN : Reference(r, quiet, stack)
  BY DEF Meet
<1>2. t \in Defs \cup {Missing}
  BY RefFacts
<1>3. CASE t \in Defs /\ Call(t, r, stack)
  <2>1. CASE Entered(t, r, stack)
    BY <1>0, <1>3, <2>1 DEF Entered, Told
  <2>2. CASE Cyclic(t, stack)
    <3>1. /\ Stay(stack) /\ errors \subseteq errors' /\ Circular(t) \in errors'
          /\ \A d \in circular' : Circular(d) \in errors'
      BY <1>0, <2>2 DEF Cyclic, Complain, Told
    <3>2. QED
      BY <3>1 DEF Told, Settled
  <2>3. CASE Known(t, stack)
    <3>1. \E j \in DOMAIN done : done[j] = t
      BY <1>3, <2>3 DEF Known, Ordered, DoneOnce
    <3>2. QED
      BY <1>0, <2>3, <3>1 DEF Known, Told, Settled
  <2>4. QED
    BY <1>3, <2>1, <2>2, <2>3, CallCases
<1>4. CASE Idle(r) /\ (Report(r, stack) \/ Return(stack))
  <2>1. Stay(stack) /\ errors \subseteq errors' /\ UNCHANGED circular
    BY <1>4 DEF Report, Return
  <2>2. Settled(t)
    <3>1. CASE t = Missing
      BY <3>1 DEF Settled
    <3>2. CASE res[r] # Unseen
      BY <3>2, NotWaiting DEF Ordered, Seen
    <3>3. CASE Far(r)
      <4>1. t \in Defs /\ t <= imported /\ r[1] > imported
        <5>1. t \in Defs /\ t <= imported /\ ~(r[1] <= imported) /\ r[1] \in Nat /\ imported \in Nat
          BY <1>2, <3>3, RefFacts, Numbers DEF Far, InImported, Typed
        <5>2. QED
          BY <5>1
      <4>2. valid[t] = "yes"
        BY <4>1, FarDone DEF ImportsDone
      <4>3. QED
        BY <4>1, <4>2 DEF Ordered, DoneOnce, Settled
    <3>4. QED
      BY <1>4, <3>1, <3>2, <3>3 DEF Idle
  <2>3. Settled(t)'
    BY <1>0, <2>1, <2>2, SettledStays
  <2>4. Told'
    BY <1>0, <2>1 DEF Told
  <2>5. QED
    BY <2>1, <2>3, <2>4
<1>5. QED
  BY <1>1, <1>3, <1>4, ReferenceCases

\* What every step that meets a reference keeps.
LEMMA MeetKeeps ==
  ASSUME Typed, Active, Ordered, Plain, NEW r \in Refs, NEW stack, Meet(r, stack)
  PROVE  /\ UNCHANGED <<kind, imported, body, done>> /\ Refs' = Refs
         /\ todo'.def = todo.def
         /\ todo'.ref # 0 /\ todo.def \in Defs => todo.ref # 0
         /\ \A s \in Refs : s # r => res'[s] = res[s]
         /\ calls # <<>> => /\ calls[Len(calls)].of = r[1] /\ calls[Len(calls)].next = r[2]
                            /\ stack[Len(calls)].next = r[2] + 1
         /\ calls = <<>> /\ r[1] \in Defs => valid[r[1]] = "yes"
<1>1. UNCHANGED <<kind, imported, body, done>> /\ Refs' = Refs
  BY SameInput DEF Meet
<1>2. todo'.def = todo.def
  BY DEF Meet
<1>3. \A s \in Refs : s # r => res'[s] = res[s]
  BY ReferenceCases DEF Meet
<1>4. CASE calls = <<>>
  <2>1. SweepRef(r) /\ Swept(r, After(r, FALSE))
    BY <1>4 DEF Meet
  <2>2. r[1] # Top => r[1] = todo.def /\ r[2] = todo.ref /\ r[2] # 0
    BY <2>1, RefFacts DEF SweepRef
  <2>3. r[1] = Top => todo'.ref = todo.ref
    <3>1. todo \in [def : 1 .. Top, ref : Nat, top : Nat \ {0}]
      BY DEF Typed
    <3>2. QED
      BY <2>1, <3>1 DEF Swept
  <2>4. r[1] \in Defs => valid[r[1]] = "yes"
    <3>1. r[1] \in Defs => r[1] # Top
      BY Numbers
    <3>2. QED
      BY <1>4, <2>2, <3>1, AtRest DEF Ordered, Behind
  <2>5. QED
    BY <1>1, <1>2, <1>3, <1>4, <2>2, <2>3, <2>4
<1>5. CASE calls # <<>>
  <2>1. Inner(r) /\ UNCHANGED todo /\ stack = Advanced(After(r, TRUE))
    BY <1>5 DEF Meet
  <2>2. After(r, TRUE) = r[2] + 1 /\ After(r, TRUE) \in Nat \ {0}
    BY AfterFacts
  <2>3. stack[Len(calls)].next = r[2] + 1
    BY <1>5, <2>1, <2>2, AdvancedFacts
  <2>4. QED
    BY <1>1, <1>2, <1>3, <1>5, <2>1, <2>3, NestedTop
<1>6. QED
  BY <1>4, <1>5

LEMMA StayOrdered ==
  ASSUME Typed, Active, Ordered, Plain, NEW r \in Refs, NEW stack, Meet(r, stack),
         NEW t, t = Target(r), errors \subseteq errors', Told', Stay(stack), Settled(t)'
  PROVE  Ordered'
<1> DEFINE n == Len(calls)
<1>1. /\ UNCHANGED <<imported, body, done, valid>> /\ Refs' = Refs
      /\ \A s \in Refs : s # r => res'[s] = res[s]
  BY MeetKeeps DEF Stay
<1>2. /\ DOMAIN calls' = DOMAIN calls /\ Len(calls') = n
      /\ \A i \in DOMAIN calls : calls'[i].of = calls[i].of /\ calls'[i].ref = calls[i].ref
      /\ \A i \in DOMAIN calls : i # n => calls'[i].next = calls[i].next
  BY DEF Stay, Meet, Same
<1>3. /\ n \in Nat /\ DOMAIN calls = 1 .. n
      /\ \A i \in DOMAIN calls : calls[i].of \in Defs /\ calls[i].next \in Nat
  BY StackFacts
<1>4. \A u : Settled(u) => Settled(u)'
  BY <1>1, SettledStays
<1>5. calls # <<>> => calls[n].of = r[1] /\ calls[n].next = r[2] /\ calls'[n].next = r[2] + 1
  BY MeetKeeps DEF Stay
<1> HIDE DEF n
<1>6. DoneOnce'
  BY <1>1 DEF Ordered, DoneOnce
<1>7. DoneInOrder'
  BY <1>1 DEF Ordered, DoneInOrder, SettledBefore
<1>8. Linked'
  <2>1. \A i \in DOMAIN calls : i > 1 => i - 1 \in DOMAIN calls /\ i - 1 # n
    BY <1>3
  <2>2. \A s \in Refs : UNCHANGED Target(s)
    BY <1>1 DEF Target
  <2>3. QED
    BY <1>1, <1>2, <2>1, <2>2 DEF Ordered, Linked
<1>9. Passed'
  <2> SUFFICES ASSUME NEW i \in DOMAIN calls', NEW m \in DOMAIN body[calls[i].of],
                      m < calls'[i].next, NEW u, u = body[calls[i].of][m]
               PROVE  Settled(u)' \/ (i # n /\ m = calls'[i].next - 1)
    BY <1>1, <1>2 DEF Passed, Settled
  <2>1. i \in DOMAIN calls
    BY <1>2
  <2>2. CASE i # n
    BY <1>1, <1>2, <1>4, <2>1, <2>2 DEF Ordered, Passed
  <2>3. CASE i = n
    <3>1. calls # <<>> /\ calls[n].of = r[1] /\ calls[n].next = r[2] /\ m < r[2] + 1
      BY <1>5, <2>1, <2>3
    <3>2. m \in Nat /\ r[2] \in Nat
      BY <3>1, <2>1, <2>3, RefFacts
    <3>3. CASE m = r[2]
      BY <1>1, <2>3, <3>1, <3>3 DEF Target
    <3>4. CASE m < r[2]
      BY <1>1, <1>4, <2>1, <2>3, <3>1, <3>4 DEF Ordered, Passed, n
    <3>5. QED
      BY <3>1, <3>2, <3>3, <3>4
  <2>4. QED
    BY <2>2, <2>3
<1>10. Seen'
  <2> SUFFICES ASSUME NEW s \in Refs, res'[s] # Unseen PROVE Settled(Target(s))' \/ Waiting(s)'
    BY <1>1 DEF Seen
  <2>0. UNCHANGED Target(s)
    BY <1>1 DEF Target
  <2>1. CASE s = r
    BY <2>0, <2>1
  <2>2. CASE s # r
    <3>1. Settled(Target(s)) \/ Waiting(s)
      BY <1>1, <2>2 DEF Ordered, Seen
    <3>2. Waiting(s) => Waiting(s)'
      BY <1>2 DEF Waiting
    <3>3. QED
      BY <1>4, <2>0, <3>1, <3>2
  <2>3. QED
    BY <2>1, <2>2
<1>11. Behind'
  BY <1>1, MeetKeeps DEF Ordered, Behind
<1>12. Outside'
  <2>1. calls' # <<>> => calls # <<>> /\ 1 \in DOMAIN calls
    BY <1>2, <1>3, StackFacts, SameCalls DEF Stay, Meet, Same, n
  <2>2. QED
    BY <1>1, <1>2, <2>1 DEF Ordered, Outside
<1>13. AfterImports'
  BY <1>1, <1>2 DEF Ordered, AfterImports, ImportsDone
<1>14. QED
  BY <1>6, <1>7, <1>8, <1>9, <1>10, <1>11, <1>12, <1>13 DEF Ordered

LEMMA EnteredOrdered ==
  ASSUME Typed, Active, Ordered, Plain, NEW r \in Refs, NEW stack, Meet(r, stack),
         NEW t \in Defs, t = Target(r), Entered(t, r, stack), Told'
  PROVE  Ordered'
<1> DEFINE n == Len(calls)
<1>1. /\ UNCHANGED <<imported, body, done, errors>> /\ Refs' = Refs
      /\ \A s \in Refs : s # r => res'[s] = res[s]
  BY MeetKeeps DEF Entered
<1>2. /\ DOMAIN calls' = 1 .. n + 1 /\ Len(calls') = n + 1
      /\ \A i \in DOMAIN calls : calls'[i].of = calls[i].of /\ calls'[i].ref = calls[i].ref
      /\ \A i \in DOMAIN calls : i # n => calls'[i].next = calls[i].next
      /\ calls'[n + 1].of = t /\ calls'[n + 1].ref = r /\ calls'[n + 1].next = 1
      /\ \A i \in DOMAIN calls : calls'[i] = stack[i]
  <2>1. r \in Nat \X Nat /\ Same(stack) /\ calls' = Append(stack, Frame(t, r))
    BY RefFacts DEF Meet, Entered, Enter
  <2>2. QED
    BY <2>1, EnteredStack DEF Same
<1>3. /\ n \in Nat /\ DOMAIN calls = 1 .. n
      /\ \A i \in DOMAIN calls : calls[i].of \in Defs /\ calls[i].next \in Nat
      /\ calls # <<>> => n \in DOMAIN calls
      /\ calls = <<>> => n = 0
  BY StackFacts
<1>4. \A u : Settled(u) => Settled(u)'
  BY <1>1, SettledStays
<1>5. calls # <<>> => calls[n].of = r[1] /\ calls[n].next = r[2] /\ calls'[n].next = r[2] + 1
  BY <1>2, <1>3, MeetKeeps
<1>6. /\ valid[t] = "no" /\ valid'[t] = "in_progress"
      /\ \A d \in Defs : d # t => valid'[d] = valid[d]
  BY DEF Entered, Enter, Typed, Marks
<1> HIDE DEF n
<1>7. DoneOnce'
  BY <1>1, <1>6 DEF Ordered, DoneOnce
<1>8. DoneInOrder'
  BY <1>1 DEF Ordered, DoneInOrder, SettledBefore
<1>9. Linked'
  <2>2. ASSUME NEW i \in DOMAIN calls', calls'[i].ref # NoRef
        PROVE  /\ calls'[i].ref \in Refs'
               /\ \E s \in Refs : s = calls'[i].ref /\ body[s[1]][s[2]] = calls'[i].of
    <3>1. CASE i = n + 1
      BY <1>1, <1>2, <3>1 DEF Target
    <3>2. CASE i \in DOMAIN calls
      BY <1>1, <1>2, <2>2, <3>2 DEF Ordered, Linked, Target
    <3>3. QED
      BY <1>2, <1>3, <3>1, <3>2
  <2>3. ASSUME NEW i \in DOMAIN calls', i > 1
        PROVE  calls'[i].ref = <<calls'[i - 1].of, calls'[i - 1].next - 1>>
    <3>1. CASE i = n + 1
      <4>1. calls # <<>> /\ i - 1 = n /\ n \in DOMAIN calls
        BY <1>3, <2>3, <3>1
      <4>2. r = <<r[1], r[2]>> /\ r[2] \in Nat /\ r[2] + 1 - 1 = r[2]
        BY RefFacts
      <4>3. QED
        BY <1>2, <1>5, <3>1, <4>1, <4>2
    <3>2. CASE i \in DOMAIN calls
      <4>1. i - 1 \in DOMAIN calls /\ i - 1 # n
        BY <1>3, <2>3, <3>2
      <4>2. QED
        BY <1>2, <2>3, <3>2, <4>1 DEF Ordered, Linked
    <3>3. QED
      BY <1>2, <1>3, <3>1, <3>2
  <2>4. (\A i \in DOMAIN calls : calls[i].ref # NoRef =>
           calls[i].ref \in Refs /\ Target(calls[i].ref) = calls[i].of)'
    BY <1>1, <2>2 DEF Target
  <2>5. QED
    BY <2>3, <2>4 DEF Linked
<1>10. Passed'
  <2> SUFFICES ASSUME NEW i \in DOMAIN calls', NEW m \in DOMAIN body[calls'[i].of],
                      m < calls'[i].next, NEW u, u = body[calls'[i].of][m]
               PROVE  Settled(u)' \/ (i # n + 1 /\ m = calls'[i].next - 1)
    BY <1>1, <1>2 DEF Passed, Settled
  <2>1. CASE i = n + 1
    <3>1. m \in Nat \ {0}
      BY <1>2, <2>1, RefFacts, Numbers
    <3>2. QED
      BY <1>2, <2>1, <3>1
  <2>2. CASE i \in DOMAIN calls /\ i # n
    BY <1>1, <1>2, <1>3, <1>4, <2>2 DEF Ordered, Passed
  <2>3. CASE i \in DOMAIN calls /\ i = n
    <3>1. calls # <<>> /\ calls[n].of = r[1] /\ calls[n].next = r[2] /\ m < r[2] + 1
      BY <1>3, <1>5, <2>3
    <3>2. m \in Nat /\ r[2] \in Nat /\ calls'[i].of = calls[n].of
      BY <1>2, <3>1, <2>3, RefFacts
    <3>3. CASE m = r[2]
      <4>1. calls'[i].next = r[2] + 1 /\ i # n + 1
        BY <1>3, <1>5, <2>3, <3>1
      <4>2. QED
        BY <3>2, <3>3, <4>1
    <3>4. CASE m < r[2]
      BY <1>1, <1>4, <2>3, <3>1, <3>2, <3>4 DEF Ordered, Passed, n
    <3>5. QED
      BY <3>1, <3>2, <3>3, <3>4
  <2>4. QED
    BY <1>2, <1>3, <2>1, <2>2, <2>3
<1>11. Seen'
  <2> SUFFICES ASSUME NEW s \in Refs, res'[s] # Unseen PROVE Settled(Target(s))' \/ Waiting(s)'
    BY <1>1 DEF Seen
  <2>0. UNCHANGED Target(s)
    BY <1>1 DEF Target
  <2>1. CASE s = r
    BY <1>2, <1>3, <2>1 DEF Waiting
  <2>2. CASE s # r
    <3>1. Settled(Target(s)) \/ Waiting(s)
      BY <1>1, <2>2 DEF Ordered, Seen
    <3>2. Waiting(s) => Waiting(s)'
      BY <1>2, <1>3 DEF Waiting
    <3>3. QED
      BY <1>4, <2>0, <3>1, <3>2
  <2>3. QED
    BY <2>1, <2>2
<1>12. Behind'
  <2>1. \A d \in Defs : valid[d] # "no" => valid'[d] # "no"
    BY <1>6
  <2>2. QED
    BY <2>1, MeetKeeps DEF Ordered, Behind
<1>13. Outside'
  <2>1. CASE calls = <<>>
    <3>1. calls'[1].ref = r /\ (r[1] \in Defs => valid[r[1]] = "yes")
      BY <1>2, <1>3, <2>1, MeetKeeps
    <3>2. QED
      BY <1>6, <3>1 DEF Outside
  <2>2. CASE calls # <<>>
    <3>1. 1 \in DOMAIN calls
      BY <1>3, <2>2
    <3>2. QED
      BY <1>2, <1>6, <2>2, <3>1 DEF Ordered, Outside
  <2>3. QED
    BY <2>1, <2>2
<1>14. AfterImports'
  <2>1. ImportsDone => ImportsDone'
    BY <1>1, <1>6 DEF ImportsDone
  <2>2. t > imported => r[1] > imported
    <3>1. /\ imported \in Nat /\ r[1] \in Nat \ {0} /\ t \in Nat
          /\ r[2] \in DOMAIN body[r[1]] /\ Closed(body, imported)
      BY RefFacts, Numbers DEF Typed
    <3>2. r[1] <= imported => r[1] \in 1 .. imported
      BY <3>1
    <3>3. r[1] <= imported => t <= imported
      BY <3>1, <3>2 DEF Closed, Target
    <3>4. QED
      BY <3>1, <3>3
  <2>3. t > imported => ImportsDone
    BY <2>2, FarDone
  <2>4. (\E i \in DOMAIN calls : calls[i].of > imported) => ImportsDone
    BY DEF Ordered, AfterImports
  <2>5. QED
    BY <1>1, <1>2, <1>3, <2>1, <2>3, <2>4 DEF AfterImports
<1>15. QED
  BY <1>7, <1>8, <1>9, <1>10, <1>11, <1>12, <1>13, <1>14 DEF Ordered

LEMMA MeetOrdered ==
  ASSUME Typed, Active, Ordered, Plain, NEW r \in Refs, NEW stack, Meet(r, stack)
  PROVE  Ordered'
<1> DEFINE t == Target(r)
<1> HIDE DEF t
<1>1. PICK u : u = t
  OBVIOUS
<1>2. /\ errors \subseteq errors' /\ Told'
      /\ (u \in Defs /\ Entered(u, r, stack)) \/ (Stay(stack) /\ Settled(u)')
  BY <1>1, MeetSettles DEF t
<1>3. QED
  BY <1>1, <1>2, StayOrdered, EnteredOrdered DEF t

LEMMA DefinitionOrdered ==
  ASSUME Typed, Active, Ordered, NEW d \in Defs, Definition(d)
  PROVE  Ordered'
<1>1. /\ SweepDef(d) /\ Call(d, NoRef, calls) /\ UNCHANGED <<res, done>>
      /\ UNCHANGED <<kind, imported, body>> /\ Refs' = Refs /\ calls = <<>>
  BY SameInput DEF Definition, SweepDef
<1>2. DOMAIN calls = {} /\ Len(calls) = 0
  BY <1>1
<1>3. valid[d] # "in_progress"
  BY <1>2 DEF Active
<1>4. todo.def = d /\ todo.ref = 0 /\ todo'.def \in {d, d + 1} /\ (todo'.def = d + 1 => todo'.ref = 0)
  <2>1. todo \in [def : 1 .. Top, ref : Nat, top : Nat \ {0}] /\ d + 1 # d
    BY Numbers DEF Typed
  <2>2. QED
    BY <1>1, <2>1 DEF SweepDef
<1>5. ASSUME valid'[d] # "no", \A e \in Defs : valid[e] # "no" => valid'[e] # "no"
      PROVE  Behind'
  <2>1. d \in Nat /\ Defs \subseteq Nat
    BY Numbers
  <2>2. \A e \in Defs : e < d + 1 => e < d \/ e = d
    BY <2>1
  <2>3. QED
    BY <1>4, <1>5, <2>2 DEF Ordered, Behind
<1>6. CASE Known(d, calls)
  <2>1. UNCHANGED <<calls, valid, errors, circular>> /\ valid[d] = "yes"
    BY <1>6 DEF Known, Stay
  <2>2. Behind'
    BY <1>5, <2>1
  <2>3. DoneOnce' /\ DoneInOrder' /\ Told'
    BY <1>1, <2>1 DEF Ordered, DoneOnce, DoneInOrder, SettledBefore, Told
  <2>4. Linked' /\ Passed' /\ Outside' /\ AfterImports'
    BY <1>1, <1>2, <2>1 DEF Linked, Passed, Outside, AfterImports
  <2>5. Seen'
    BY <1>1, <2>1 DEF Ordered, Seen, Settled, Waiting, Target
  <2>6. QED
    BY <2>2, <2>3, <2>4, <2>5 DEF Ordered
<1>7. CASE Entered(d, NoRef, calls)
  <2>1. /\ UNCHANGED <<errors, circular>> /\ valid[d] = "no" /\ valid'[d] = "in_progress"
        /\ \A e \in Defs : e # d => valid'[e] = valid[e]
    BY <1>7 DEF Entered, Enter, Typed, Marks
  <2>2. calls' = <<Frame(d, NoRef)>>
    BY <1>1, <1>7 DEF Entered, Enter
  <2>3. /\ DOMAIN calls' = {1} /\ calls'[1].of = d /\ calls'[1].ref = NoRef /\ calls'[1].next = 1
        /\ Len(calls') = 1
    BY <2>2 DEF Frame
  <2>4. Behind'
    BY <1>5, <2>1
  <2>5. DoneOnce' /\ DoneInOrder' /\ Told'
    BY <1>1, <2>1 DEF Ordered, DoneOnce, DoneInOrder, SettledBefore, Told
  <2>6. Linked' /\ Outside'
    BY <2>3, Numbers DEF Linked, Outside, NoRef, Missing
  <2>7. Passed'
    <3>1. \A m \in DOMAIN body[d] : m \in Nat \ {0}
      BY RefFacts, Numbers
    <3>2. \A m \in DOMAIN body[d] : ~(m < 1)
      BY <3>1
    <3>3. QED
      BY <1>1, <2>3, <3>2 DEF Passed
  <2>8. Seen'
    BY <1>1, <1>2, <2>1 DEF Ordered, Seen, Settled, Waiting, Target
  <2>9. AfterImports'
    <3>1. d > imported => ImportsDone
      BY <1>1, <1>4, SweptImports
    <3>2. QED
      BY <1>1, <2>1, <2>3, <3>1 DEF AfterImports, ImportsDone
  <2>10. QED
    BY <2>4, <2>5, <2>6, <2>7, <2>8, <2>9 DEF Ordered
<1>8. QED
  BY <1>1, <1>3, <1>6, <1>7, CallCases DEF Cyclic

LEMMA SweepOnOrdered ==
  ASSUME Typed, Active, Ordered, SweepOn
  PROVE  Ordered'
<1>1. /\ UNCHANGED <<kind, imported, body, calls, valid, circular, res, errors, done>> /\ Refs' = Refs
      /\ todo.def \in Defs /\ todo.ref > Len(body[todo.def])
      /\ todo' = [todo EXCEPT !.def = @ + 1, !.ref = 0]
  BY SameInput DEF SweepOn
<1>2. todo.def \in Nat /\ todo.ref # 0 /\ todo'.def = todo.def + 1 /\ todo'.ref = 0 /\ Defs \subseteq Nat
  <2>1. todo \in [def : 1 .. Top, ref : Nat, top : Nat \ {0}] /\ Len(body[todo.def]) \in Nat
    BY <1>1, RefFacts, Numbers DEF Typed
  <2>2. QED
    BY <1>1, <2>1, Numbers
<1>3. \A e \in Defs : e < todo.def + 1 => e < todo.def \/ e = todo.def
  BY <1>2
<1>4. Behind'
  BY <1>1, <1>2, <1>3 DEF Ordered, Behind
<1>5. DoneOnce' /\ DoneInOrder' /\ Told' /\ Outside'
  BY <1>1 DEF Ordered, DoneOnce, DoneInOrder, SettledBefore, Told, Outside
<1>6. Linked' /\ Passed' /\ Seen'
  BY <1>1 DEF Ordered, Linked, Passed, Seen, Settled, Waiting, Target
<1>7. AfterImports'
  BY <1>1 DEF Ordered, AfterImports, ImportsDone
<1>8. QED
  BY <1>4, <1>5, <1>6, <1>7 DEF Ordered

LEMMA LeaveOrdered ==
  ASSUME Typed, Active, Ordered, Leave
  PROVE  Ordered'
<1>0. PICK n \in Nat, f \in Frames, d \in Defs, k \in Nat :
        n = Len(calls) /\ f = calls[n] /\ d = f.of /\ k = Len(done) + 1
  BY LeaveFacts, DoneType
<1>1. /\ n \in DOMAIN calls /\ calls[n] = f /\ f.next > Len(body[d]) /\ f.next \in Nat
      /\ DOMAIN calls = 1 .. n /\ DOMAIN calls' = 1 .. n - 1 /\ Len(calls') = n - 1
      /\ \A i \in DOMAIN calls' : i \in DOMAIN calls /\ i # n /\ calls'[i] = calls[i]
      /\ \A i \in DOMAIN calls : i # n => i \in DOMAIN calls'
      /\ \A i \in DOMAIN calls : calls[i].of \in Defs
  <2>1. /\ n \in DOMAIN calls /\ calls[n] = f /\ f.next > Len(body[d]) /\ DOMAIN calls = 1 .. n
        /\ DOMAIN calls' = 1 .. n - 1 /\ \A i \in DOMAIN calls' : calls'[i] = calls[i]
    BY <1>0, LeaveFacts, StackFacts
  <2>2. Len(calls') = n - 1
    BY <1>0, LeaveFacts, LeftStack
  <2>3. f.next \in Nat
    BY DEF Frames
  <2>4. QED
    BY <2>1, <2>2, <2>3, StackFacts
<1>2. /\ valid[d] = "in_progress" /\ valid'[d] = "yes"
      /\ \A e \in Defs : e # d => valid'[e] = valid[e]
  BY <1>0, <1>1, LeaveFacts DEF Active, Typed
<1>3. /\ DOMAIN done' = 1 .. k /\ done'[k] = d /\ k \in DOMAIN done' /\ DOMAIN done = 1 .. k - 1
      /\ \A i \in DOMAIN done : i \in DOMAIN done' /\ done'[i] = done[i]
  BY <1>0, DoneType
<1>4. UNCHANGED <<kind, imported, body, todo, circular, errors>> /\ Refs' = Refs
  BY LeaveFacts, SameInput
<1>5. \A s \in Refs : res'[s] # Unseen => s = f.ref \/ res[s] # Unseen
  <2>1. res' = IF kind = "grouping" /\ f.ref # NoRef THEN [res EXCEPT ![f.ref] = d] ELSE res
    BY <1>0, LeaveFacts
  <2>2. QED
    BY <2>1 DEF Typed
<1>6. \A u : Settled(u) => Settled(u)'
  BY <1>3, <1>4, SettledStays
<1>7. Settled(d)'
  BY <1>3 DEF Settled
<1>8. DoneOnce'
  <2>1. \A e \in Defs : valid'[e] = "yes" <=> \E j \in DOMAIN done' : done'[j] = e
    <3>1. SUFFICES ASSUME NEW e \in Defs
                   PROVE  valid'[e] = "yes" <=> \E j \in DOMAIN done' : done'[j] = e
      OBVIOUS
    <3>2. CASE e = d
      BY <1>2, <1>3, <3>2
    <3>3. CASE e # d
      <4>1. \A j \in DOMAIN done' : j \in DOMAIN done \/ j = k
        BY <1>3
      <4>2. (\E j \in DOMAIN done' : done'[j] = e) <=> \E j \in DOMAIN done : done[j] = e
        BY <1>3, <3>3, <4>1
      <4>3. QED
        BY <1>2, <3>3, <4>2 DEF Ordered, DoneOnce
    <3>4. QED
      BY <3>2, <3>3
  <2>2. \A i \in DOMAIN done : done[i] # d
    BY <1>2 DEF Ordered, DoneOnce
  <2>3. \A i, j \in DOMAIN done' : i # j => done'[i] # done'[j]
    BY <1>3, <2>2 DEF Ordered, DoneOnce
  <2>4. QED
    BY <2>1, <2>3 DEF DoneOnce
<1>9. DoneInOrder'
  <2> SUFFICES ASSUME NEW i \in DOMAIN done', NEW m \in DOMAIN body[done'[i]],
                      NEW u, u = body[done'[i]][m]
               PROVE  u = Missing \/ (\E j \in 1 .. i - 1 : done'[j] = u) \/ Circular(u) \in errors
    BY <1>4 DEF DoneInOrder, SettledBefore
  <2>1. CASE i = k
    <3>1. m \in Nat /\ m <= Len(body[d])
      BY <1>3, <2>1, RefFacts, Numbers
    <3>2. m < f.next
      BY <1>1, <3>1, RefFacts, Numbers
    <3>3. Settled(u)
      BY <1>0, <1>1, <1>3, <2>1, <3>2 DEF Ordered, Passed
    <3>4. QED
      BY <1>3, <2>1, <3>3 DEF Settled
  <2>2. CASE i \in DOMAIN done
    <3>1. SettledBefore(i, u)
      BY <1>3, <2>2 DEF Ordered, DoneInOrder
    <3>2. \A j \in 1 .. i - 1 : done'[j] = done[j]
      BY <1>3, <2>2
    <3>3. QED
      BY <3>1, <3>2 DEF SettledBefore
  <2>3. QED
    BY <1>3, <2>1, <2>2
<1>10. Linked'
  <2>1. \A i \in DOMAIN calls' : i > 1 => i - 1 \in DOMAIN calls'
    BY <1>1
  <2>2. \A s \in Refs : UNCHANGED Target(s)
    BY <1>4 DEF Target
  <2>3. QED
    BY <1>1, <1>4, <2>1, <2>2 DEF Ordered, Linked
<1>11. Passed'
  <2> SUFFICES ASSUME NEW i \in DOMAIN calls', NEW m \in DOMAIN body[calls[i].of],
                      m < calls[i].next, NEW u, u = body[calls[i].of][m]
               PROVE  Settled(u)' \/ (i # n - 1 /\ m = calls[i].next - 1)
    BY <1>1, <1>4 DEF Passed, Settled
  <2>1. Settled(u) \/ m = calls[i].next - 1
    BY <1>0, <1>1 DEF Ordered, Passed
  <2>2. CASE i = n - 1 /\ m = calls[i].next - 1
    <3>1. n > 1 /\ calls[n].ref = <<calls[i].of, m>>
      BY <1>1, <2>2 DEF Ordered, Linked
    <3>2. calls[n].ref # NoRef
      BY <1>1, <3>1, Numbers DEF NoRef, Missing
    <3>3. Target(calls[n].ref) = d
      BY <1>0, <1>1, <3>2 DEF Ordered, Linked
    <3>4. u = d
      BY <3>1, <3>3 DEF Target
    <3>5. QED
      BY <1>7, <3>4
  <2>3. QED
    BY <1>6, <2>1, <2>2
<1>12. Seen'
  <2> SUFFICES ASSUME NEW s \in Refs, res'[s] # Unseen, NEW u, u = Target(s)
               PROVE  Settled(u)' \/ Waiting(s)'
    BY <1>4 DEF Seen, Target, Settled
  <2>1. s # NoRef /\ (s = f.ref => u = d)
    BY <1>0, <1>1, RefFacts DEF Ordered, Linked
  <2>2. CASE s = f.ref
    BY <1>7, <2>1, <2>2
  <2>3. CASE s # f.ref
    <3>1. Settled(u) \/ Waiting(s)
      BY <1>5, <2>3 DEF Ordered, Seen
    <3>2. Waiting(s) => Waiting(s)'
      BY <1>1, <2>3 DEF Waiting
    <3>3. QED
      BY <1>6, <3>1, <3>2
  <2>4. QED
    BY <2>2, <2>3
<1>13. Told' /\ Behind'
  BY <1>2, <1>4 DEF Ordered, Told, Behind
<1>14. Outside'
  <2>1. calls' # <<>> => calls # <<>> /\ 1 \in DOMAIN calls'
    <3>1. calls' \in Seq(Frames)
      BY LeaveActive
    <3>2. QED
      BY <1>1, <3>1
  <2>2. QED
    BY <1>1, <1>2, <2>1 DEF Ordered, Outside
<1>15. AfterImports'
  BY <1>1, <1>2, <1>4 DEF Ordered, AfterImports, ImportsDone
<1>16. QED
  BY <1>8, <1>9, <1>10, <1>11, <1>12, <1>13, <1>14, <1>15 DEF Ordered

LEMMA InitOrdered == Init => Ordered
<1> SUFFICES ASSUME Init PROVE Ordered
  OBVIOUS
<1>1. /\ calls = <<>> /\ done = <<>> /\ circular = {} /\ errors = {}
      /\ valid = [d \in Defs |-> "no"] /\ res = [r \in Refs |-> Unseen]
      /\ todo = [def |-> 1, ref |-> 0, top |-> 1]
  BY DEF Init
<1>2. DOMAIN calls = {} /\ DOMAIN done = {}
  BY <1>1
<1>3. \A d \in Defs : ~(d < todo.def)
  BY <1>1, ResolveAssumption DEF Defs
<1>4. DoneOnce /\ DoneInOrder /\ Linked /\ Passed /\ Outside /\ AfterImports
  BY <1>1, <1>2 DEF DoneOnce, DoneInOrder, Linked, Passed, Outside, AfterImports
<1>5. Seen /\ Told /\ Behind
  BY <1>1, <1>3 DEF Seen, Told, Behind
<1>6. QED
  BY <1>4, <1>5 DEF Ordered

LEMMA NextOrdered == Typed /\ Active /\ (Plain => Ordered) /\ [Next]_vars => (Plain => Ordered)'
<1> SUFFICES ASSUME Typed, Active, Plain => Ordered, [Next]_vars, Plain' PROVE Ordered'
  OBVIOUS
<1>1. CASE UNCHANGED vars
  <2>1. UNCHANGED <<kind, imported, body, joined, todo, calls, valid, circular, res, errors, done>>
    BY <1>1 DEF vars
  <2>2. Ordered /\ Refs' = Refs
    BY <2>1 DEF Plain, Refs
  <2>3. DoneOnce' /\ DoneInOrder' /\ Told' /\ Outside' /\ Behind' /\ AfterImports'
    BY <2>1, <2>2 DEF Ordered, DoneOnce, DoneInOrder, SettledBefore, Told, Outside, Behind, AfterImports, ImportsDone
  <2>4. Linked' /\ Passed' /\ Seen'
    BY <2>1, <2>2 DEF Ordered, Linked, Passed, Seen, Settled, Waiting, Target
  <2>5. QED
    BY <2>3, <2>4 DEF Ordered
<1>2. CASE Next
  <2>1. UNCHANGED Input
    BY <1>2, Met, LeaveFacts DEF Next, Definition, SweepOn, Visit, Nested
  <2>2. Ordered /\ Plain
    BY <2>1, SameInput DEF Plain
  <2>3. ASSUME NEW d \in Defs, Definition(d) PROVE Ordered'
    BY <2>2, <2>3, DefinitionOrdered
  <2>4. ASSUME NEW r \in Refs, Visit(r) \/ Nested(r) PROVE Ordered'
    BY <2>2, <2>4, Met, MeetOrdered
  <2>5. QED
    BY <1>2, <2>2, <2>3, <2>4, SweepOnOrdered, LeaveOrdered DEF Next
<1>3. QED
  BY <1>1, <1>2

LEMMA OrderedAlways == Spec => [](Typed /\ (Plain => Ordered))
<1>1. Init => Typed /\ Active /\ (Plain => Ordered)
  BY InitTyped, InitOrdered
<1>2. Typed /\ Active /\ (Plain => Ordered) /\ [Next]_vars
      => (Typed /\ Active /\ (Plain => Ordered))'
  BY NextTyped, NextOrdered
<1>3. QED
  BY <1>1, <1>2, PTL DEF Spec

(* When a module is done with its imports, each of them was validated, or  *)
(* an import that closes a cycle was reported.                             *)
THEOREM ImportsAreFirst == Spec => []ImportsFirst
<1>1. Typed /\ (Plain => Ordered) => ImportsFirst
  <2> SUFFICES ASSUME Typed, Plain => Ordered, kind = "module",
                      NEW i \in DOMAIN done, NEW m \in DOMAIN body[done[i]]
               PROVE  LET t == body[done[i]][m]
                      IN t \in {Missing} \cup {done[j] : j \in 1 .. i - 1} \/ Circular(t) \in errors
    BY DEF ImportsFirst
  <2>1. DoneInOrder
    BY DEF Plain, Ordered
  <2>2. QED
    BY <2>1 DEF DoneInOrder, SettledBefore
<1>2. QED
  BY <1>1, OrderedAlways, PTL

LEMMA DoneFits ==
  ASSUME Typed, DoneOnce
  PROVE  DOMAIN done \subseteq Defs
<1>1. done \in Seq(Defs) /\ Len(done) \in Nat /\ DOMAIN done = 1 .. Len(done)
  BY DEF Typed
<1>2. N \in Nat /\ Defs = 1 .. N
  BY Numbers DEF Defs
<1> DEFINE D == 1 .. Len(done)
<1>3. /\ IsFiniteSet(D) /\ Cardinality(D) = Len(done)
      /\ IsFiniteSet(Defs) /\ Cardinality(Defs) = N
  <2>1. ASSUME NEW b \in Nat PROVE IsFiniteSet(1 .. b) /\ Cardinality(1 .. b) = b
    <3>1. 1 \in Int /\ b \in Int /\ b - 1 + 1 = b /\ (1 > b => b = 0)
      OBVIOUS
    <3>2. IsFiniteSet(1 .. b) /\ Cardinality(1 .. b) = IF 1 > b THEN 0 ELSE b - 1 + 1
      BY <3>1, FS_Interval
    <3>3. QED
      BY <3>1, <3>2
  <2>2. QED
    BY <1>1, <1>2, <2>1
<1>4. done \in Injection(D, Defs)
  BY <1>1 DEF DoneOnce, Injection, IsInjective
<1>5. Len(done) <= N
  BY <1>3, <1>4, FS_Injection
<1>6. QED
  BY <1>1, <1>2, <1>5

(* Every cycle has a member that was reported, whoever entered it where:   *)
(* the place of a definition among those done falls along every edge to    *)
(* one that was not reported.                                              *)
THEOREM CyclesAreReported == Spec => []CyclesReported
<1>1. Typed /\ Active /\ (Plain => Ordered) => CyclesReported
  <2> SUFFICES ASSUME Typed, Active, Ordered, Finished PROVE Acyclic(Edges(Reported))
    BY DEF CyclesReported
  <2>1. \A d \in Defs : \E j \in DOMAIN done : done[j] = d
    <3>1. \A d \in Defs : d < todo.def /\ calls = <<>>
      BY Numbers DEF Finished, Defs, Top
    <3>2. QED
      BY <3>1, AtRest DEF Ordered, Behind, DoneOnce
  <2> DEFINE rank == [d \in Defs |-> CHOOSE j \in DOMAIN done : done[j] = d]
  <2>2. \A d \in Defs : rank[d] \in DOMAIN done /\ done[rank[d]] = d
    BY <2>1
  <2>3. rank \in [Defs -> Defs]
    BY <2>2, DoneFits DEF Ordered
  <2> HIDE DEF rank
  <2>4. ASSUME NEW e \in Edges(Reported) PROVE rank[e[2]] < rank[e[1]]
    <3>1. PICK r \in Refs : e = <<r[1], Target(r)>>
      BY DEF Edges
    <3>2. e[1] \in Defs /\ e[2] \in Defs /\ e[2] \notin Reported /\ e[1] = r[1] /\ e[2] = Target(r)
      BY <3>1 DEF Edges
    <3>3. r[2] \in DOMAIN body[r[1]] /\ body[r[1]][r[2]] = e[2]
      BY <3>2, RefFacts DEF Target
    <3>4. SettledBefore(rank[e[1]], e[2])
      BY <2>2, <3>2, <3>3 DEF Ordered, DoneInOrder
    <3>5. e[2] # Missing /\ Circular(e[2]) \notin errors
      BY <3>2, Numbers DEF Reported
    <3>6. PICK j \in 1 .. rank[e[1]] - 1 : done[j] = e[2]
      BY <3>4, <3>5 DEF SettledBefore
    <3>7. rank[e[1]] \in DOMAIN done /\ done \in Seq(Defs)
      BY <2>2, <3>2 DEF Typed
    <3>8. j \in DOMAIN done /\ j < rank[e[1]]
      BY <3>6, <3>7
    <3>9. j = rank[e[2]]
      BY <2>2, <3>2, <3>6, <3>8 DEF Ordered, DoneOnce
    <3>10. QED
      BY <3>8, <3>9
  <2>5. QED
    BY <2>3, <2>4 DEF Acyclic
<1>2. QED
  BY <1>1, OrderedAlways, TypedAlways, PTL

-----------------------------------------------------------------------------
(* No false alarm                                                          *)

\* A call goes down in rank, and so does not come back to what is active.
LEMMA MeetSilent ==
  ASSUME Typed, Active, Plain => Ordered, Silent, AllBound,
         NEW r \in Refs, NEW stack, Meet(r, stack)
  PROVE  Silent'
<1>0. UNCHANGED <<kind, body>> /\ Refs' = Refs
  BY SameInput DEF Meet
<1> SUFFICES ASSUME NEW rank \in [Defs -> Defs], Sound(rank)'
             PROVE  errors' = {} /\ Falling(rank)'
  BY DEF Silent
<1>1. Sound(rank)
  BY <1>0 DEF Sound, Target
<1>2. errors = {} /\ Falling(rank)
  BY <1>1 DEF Silent
<1>3. PICK t \in Defs : t = Target(r)
  BY <1>1 DEF Sound
<1>4. t # Missing /\ Defs \subseteq Nat
  BY Numbers
<1>5. PICK quiet \in BOOLEAN : Reference(r, quiet, stack)
  BY DEF Meet
<1>6. PICK n \in Nat : n = Len(calls) /\ DOMAIN calls = 1 .. n
  BY StackFacts
<1>7. \A i \in DOMAIN calls : calls[i].of \in Defs /\ rank[t] < rank[calls[i].of]
  <2> SUFFICES ASSUME NEW i \in DOMAIN calls PROVE calls[i].of \in Defs /\ rank[t] < rank[calls[i].of]
    OBVIOUS
  <2>1. calls # <<>> /\ n \in DOMAIN calls /\ i \in 1 .. n
    BY <1>6
  <2>2. calls[n].of = r[1] /\ r[1] \in Defs
    BY <1>6, <2>1, NestedTop DEF Meet
  <2>3. rank[t] < rank[calls[n].of]
    BY <1>1, <1>3, <2>2 DEF Sound
  <2>4. calls[i].of \in Defs /\ (i = n \/ rank[calls[n].of] < rank[calls[i].of])
    BY <1>2, <2>1, StackFacts DEF Falling
  <2>5. rank[t] \in Nat /\ rank[calls[n].of] \in Nat /\ rank[calls[i].of] \in Nat
    BY <1>4, <2>2, <2>4
  <2>6. QED
    BY <2>3, <2>4, <2>5
<1>8. ASSUME Stay(stack) PROVE Falling(rank)'
  BY <1>2, <1>8 DEF Falling, Stay, Meet, Same
<1>9. CASE Call(t, r, stack)
  <2>1. CASE Entered(t, r, stack)
    <3>1. /\ DOMAIN calls' = 1 .. n + 1 /\ calls'[n + 1].of = t
          /\ \A i \in DOMAIN calls : calls'[i].of = calls[i].of
      <4>1. r \in Nat \X Nat /\ Same(stack) /\ calls' = Append(stack, Frame(t, r))
        BY <2>1, RefFacts DEF Meet, Entered, Enter
      <4>2. /\ DOMAIN calls' = 1 .. Len(calls) + 1 /\ calls'[Len(calls) + 1].of = t
            /\ \A i \in DOMAIN calls : calls'[i] = stack[i]
        BY <1>6, <4>1, EnteredStack
      <4>3. \A i \in DOMAIN calls : stack[i].of = calls[i].of
        BY <4>1 DEF Same
      <4>4. QED
        BY <1>6, <4>2, <4>3
    <3>2. ASSUME NEW i \in DOMAIN calls', NEW j \in DOMAIN calls', i < j
          PROVE  rank[calls'[j].of] < rank[calls'[i].of]
      <4>1. i \in DOMAIN calls /\ (j \in DOMAIN calls \/ j = n + 1)
        BY <1>6, <3>1, <3>2
      <4>2. CASE j \in DOMAIN calls
        BY <1>2, <3>1, <3>2, <4>1, <4>2 DEF Falling
      <4>3. CASE j = n + 1
        BY <1>7, <3>1, <4>1, <4>3
      <4>4. QED
        BY <4>1, <4>2, <4>3
    <3>3. QED
      BY <1>2, <2>1, <3>2 DEF Falling, Entered
  <2>2. CASE Cyclic(t, stack)
    <3>1. PICK i \in DOMAIN calls : calls[i].of = t
      BY <2>2 DEF Cyclic, Active
    <3>2. rank[t] < rank[t] /\ rank[t] \in Nat
      BY <1>4, <1>7, <3>1
    <3>3. QED
      BY <3>2
  <2>3. CASE Known(t, stack)
    BY <1>2, <1>8, <2>3 DEF Known
  <2>4. QED
    BY <1>9, <2>1, <2>2, <2>3, CallCases
<1>10. CASE Report(r, stack) /\ Unbound(r)
  <2>1. kind = "grouping" /\ res[r] = NotFound
    BY <1>3, <1>4, <1>10 DEF Unbound
  <2>2. Linked /\ Outside
    BY <2>1 DEF Plain, Ordered
  <2>3. ~Waiting(r)
    BY <2>2, NotWaiting
  <2>4. Waiting(r) \/ Circular(Target(r)) \in errors
    BY <1>3, <1>4, <2>1 DEF AllBound, Binding, Bound
  <2>5. QED
    BY <1>2, <2>3, <2>4
<1>11. CASE Return(stack)
  BY <1>2, <1>8, <1>11 DEF Return
<1>12. QED
  BY <1>3, <1>5, <1>9, <1>10, <1>11, ReferenceCases

LEMMA DefinitionSilent ==
  ASSUME Typed, Active, Silent, NEW d \in Defs, Definition(d)
  PROVE  Silent'
<1>1. /\ calls = <<>> /\ Call(d, NoRef, calls) /\ UNCHANGED body /\ Refs' = Refs
  BY SameInput DEF Definition, SweepDef
<1>2. valid[d] # "in_progress"
  BY <1>1 DEF Active
<1>3. UNCHANGED errors
  BY <1>1, <1>2 DEF Call
<1>4. calls' = <<>> \/ calls' = <<Frame(d, NoRef)>>
  BY <1>1 DEF Call, Enter, Stay
<1>5. \A i, j \in DOMAIN calls' : ~(i < j)
  BY <1>4
<1>6. \A rank : Sound(rank)' => Sound(rank)
  BY <1>1 DEF Sound, Target
<1>7. QED
  BY <1>3, <1>5, <1>6 DEF Silent, Falling

LEMMA OtherSilent ==
  ASSUME Typed, Silent, UNCHANGED body, Refs' = Refs, UNCHANGED errors,
         \A i \in DOMAIN calls' : i \in DOMAIN calls /\ calls'[i] = calls[i]
  PROVE  Silent'
<1>1. \A rank : Sound(rank)' => Sound(rank)
  BY DEF Sound, Target
<1>2. \A rank : Falling(rank) => Falling(rank)'
  BY DEF Falling
<1>3. QED
  BY <1>1, <1>2 DEF Silent

-----------------------------------------------------------------------------
(* References find their definitions                                       *)

\* What a reference that is met is bound to, and whether it is reported.
LEMMA MeetBinds ==
  ASSUME Typed, Active, Ordered, Plain, Binding, NEW r \in Refs, Bound(r),
         NEW stack, Meet(r, stack), NEW t, t = Target(r)
  PROVE  /\ res'[r] \in {NotFound, t}
         /\ res'[r] = NotFound /\ t # Missing =>
              kind = "grouping" /\ (Entered(t, r, stack) \/ Circular(t) \in errors')
         /\ t = Missing /\ (kind = "typedef" \/ calls = <<>>) => NotInScope(r) \in errors'
<1>1. PICK quiet \in BOOLEAN : quiet = (calls # <<>>) /\ Reference(r, quiet, stack)
  BY DEF Meet
<1>2. /\ t \in Defs \cup {Missing} /\ Missing \notin Defs /\ NotFound = Missing
      /\ res \in [Refs -> {Unseen} \cup Nat]
  BY RefFacts, Numbers DEF Typed, NotFound, Missing
<1>3. errors \subseteq errors'
  BY MeetSettles
<1>4. ~Waiting(r)
  BY NotWaiting DEF Ordered
<1>5. CASE kind = "grouping"
  <2>1. Uses(r, quiet, stack)
    BY <1>1, <1>5 DEF Reference, Uses, Type, Base, IfFeature, Import
  <2>2. CASE res[r] # Unseen
    <3>1. res' = res
      BY <2>1, <2>2 DEF Uses
    <3>2. res[r] \in {NotFound, t} /\ (res[r] = NotFound /\ t # Missing => Circular(t) \in errors')
      BY <1>3, <1>4, <2>2 DEF Bound
    <3>3. t = Missing /\ calls = <<>> => NotInScope(r) \in errors'
      BY <1>1, <1>2, <2>1, <2>2, <3>1, <3>2 DEF Uses, Report
    <3>4. QED
      BY <1>5, <3>1, <3>2, <3>3
  <2>3. CASE res[r] = Unseen /\ t = Missing
    <3>1. res' = [res EXCEPT ![r] = NotFound] /\ (quiet \/ Report(r, stack))
      BY <1>2, <2>1, <2>3 DEF Uses
    <3>2. res'[r] = NotFound /\ (calls = <<>> => NotInScope(r) \in errors')
      BY <1>1, <1>2, <3>1 DEF Report
    <3>3. QED
      BY <1>5, <2>3, <3>2
  <2>4. CASE res[r] = Unseen /\ t # Missing /\ (Far(r) \/ valid[t] = "yes")
    <3>1. res' = [res EXCEPT ![r] = t]
      BY <1>2, <2>1, <2>4 DEF Uses
    <3>2. QED
      BY <1>2, <2>4, <3>1
  <2>5. CASE res[r] = Unseen /\ t # Missing /\ ~(Far(r) \/ valid[t] = "yes")
    <3>1. res' = [res EXCEPT ![r] = NotFound] /\ Call(t, r, stack)
      BY <1>2, <2>1, <2>5 DEF Uses
    <3>2. res'[r] = NotFound
      BY <1>2, <3>1
    <3>3. Entered(t, r, stack) \/ Cyclic(t, stack)
      BY <1>2, <2>5, <3>1, CallCases DEF Known
    <3>4. Cyclic(t, stack) => Circular(t) \in errors'
      BY <1>3 DEF Cyclic, Complain, Ordered, Told
    <3>5. QED
      BY <1>5, <2>5, <3>2, <3>3, <3>4
  <2>6. QED
    BY <2>2, <2>3, <2>4, <2>5
<1>6. CASE kind = "typedef"
  <2>1. Type(r, quiet, stack)
    BY <1>1, <1>6 DEF Reference, Uses, Type, Base, IfFeature, Import
  <2>2. CASE res[r] # Unseen
    <3>1. res' = res
      BY <2>1, <2>2 DEF Type
    <3>2. QED
      BY <1>3, <1>6, <2>2, <3>1 DEF Bound
  <2>3. CASE res[r] = Unseen
    <3>1. res' = [res EXCEPT ![r] = t] /\ (t = Missing => Report(r, stack))
      BY <2>1, <2>3 DEF Type
    <3>2. QED
      BY <1>2, <3>1 DEF Report
  <2>4. QED
    BY <2>2, <2>3
<1>7. CASE kind = "identity"
  <2>1. Base(r, quiet, stack)
    BY <1>1, <1>7 DEF Reference, Uses, Type, Base, IfFeature, Import
  <2>2. res' = [res EXCEPT ![r] = t] /\ (t = Missing => quiet \/ Report(r, stack))
    BY <2>1 DEF Base
  <2>3. QED
    BY <1>1, <1>2, <1>7, <2>2 DEF Report
<1>8. QED
  BY <1>5, <1>6, <1>7 DEF Binding

LEMMA BoundStays ==
  ASSUME NEW s \in Refs, Bound(s), UNCHANGED <<kind, body>>, res'[s] = res[s],
         errors \subseteq errors', Waiting(s) => Waiting(s)', Past(s)' => Past(s)
  PROVE  Bound(s)'
  BY DEF Bound, Target

\* The phase goes on from the reference that it is at to the next one.
LEMMA MeetPast ==
  ASSUME Typed, Plain, NEW r \in Refs, NEW stack, Meet(r, stack), NEW s \in Refs, Past(s)'
  PROVE  Past(s) \/ (s = r /\ calls = <<>>)
<1>1. /\ todo \in [def : 1 .. Top, ref : Nat, top : Nat \ {0}]
      /\ r[1] \in Nat /\ r[2] \in Nat /\ r = <<r[1], r[2]>>
      /\ s[1] \in Nat /\ s[2] \in Nat /\ s = <<s[1], s[2]>>
  BY RefFacts, Numbers DEF Typed
<1>2. CASE calls # <<>>
  BY <1>2 DEF Meet, Past
<1>3. CASE calls = <<>>
  <2>1. Swept(r, r[2] + 1) /\ SweepRef(r)
    BY <1>3, AfterFacts DEF Meet
  <2>2. CASE r[1] = Top
    <3>1. todo' = [todo EXCEPT !.top = r[2] + 1] /\ r[2] = todo.top
      BY <2>1, <2>2 DEF Swept, SweepRef
    <3>2. todo'.def = todo.def /\ todo'.ref = todo.ref /\ todo'.top = r[2] + 1
      BY <1>1, <3>1
    <3>3. CASE s[1] = Top
      <4>1. s[2] < todo.top \/ s[2] = r[2]
        BY <1>1, <3>1, <3>2, <3>3 DEF Past
      <4>2. QED
        BY <1>1, <1>3, <2>2, <3>3, <4>1 DEF Past
    <3>4. CASE s[1] # Top
      BY <3>2, <3>4 DEF Past
    <3>5. QED
      BY <3>3, <3>4
  <2>3. CASE r[1] # Top
    <3>1. todo' = [todo EXCEPT !.ref = r[2] + 1] /\ r[1] = todo.def /\ r[2] = todo.ref
      BY <2>1, <2>3 DEF Swept, SweepRef
    <3>2. todo'.def = todo.def /\ todo'.ref = r[2] + 1 /\ todo'.top = todo.top
      BY <1>1, <3>1
    <3>3. CASE s[1] = Top
      BY <3>2, <3>3 DEF Past
    <3>4. CASE s[1] # Top
      <4>1. s[1] < todo.def \/ (s[1] = r[1] /\ (s[2] < todo.ref \/ s[2] = r[2]))
        BY <1>1, <3>1, <3>2, <3>4 DEF Past
      <4>2. QED
        BY <1>1, <1>3, <3>1, <3>4, <4>1 DEF Past
    <3>5. QED
      BY <3>3, <3>4
  <2>4. QED
    BY <2>2, <2>3
<1>4. QED
  BY <1>2, <1>3

LEMMA MeetBound ==
  ASSUME Typed, Active, Plain => Ordered, AllBound, NEW r \in Refs, NEW stack, Meet(r, stack)
  PROVE  AllBound'
<1>0. UNCHANGED <<kind, body>> /\ Refs' = Refs
  BY SameInput DEF Meet
<1> SUFFICES ASSUME Binding, NEW s \in Refs PROVE Bound(s)'
  BY <1>0 DEF AllBound, Binding
<1>1. Plain /\ Ordered /\ Bound(s) /\ Bound(r)
  BY DEF Binding, Plain, AllBound
<1>2. PICK t : t = Target(r)
  OBVIOUS
<1>3. /\ errors \subseteq errors'
      /\ (t \in Defs /\ Entered(t, r, stack)) \/ (Stay(stack) /\ Settled(t)')
  BY <1>1, <1>2, MeetSettles
<1>4. /\ \A u \in Refs : Waiting(u) => Waiting(u)'
      /\ t \in Defs /\ Entered(t, r, stack) => Waiting(r)'
  <2>1. CASE t \in Defs /\ Entered(t, r, stack)
    <3>1. r \in Nat \X Nat /\ Same(stack) /\ calls' = Append(stack, Frame(t, r))
      BY <2>1, RefFacts DEF Meet, Entered, Enter
    <3>2. /\ DOMAIN calls' = 1 .. Len(calls) + 1 /\ calls'[Len(calls) + 1].ref = r
          /\ \A i \in DOMAIN calls : calls'[i].ref = calls[i].ref
      BY <2>1, <3>1, EnteredStack DEF Same
    <3>3. DOMAIN calls = 1 .. Len(calls) /\ Len(calls) \in Nat
      BY StackFacts
    <3>4. QED
      BY <3>2, <3>3 DEF Waiting
  <2>2. CASE Stay(stack)
    <3>1. \A i \in DOMAIN calls : i \in DOMAIN calls' /\ calls'[i].ref = calls[i].ref
      BY <2>2 DEF Meet, Stay, Same
    <3>2. ~(t \in Defs /\ Entered(t, r, stack))
      BY <2>2 DEF Entered, Enter, Stay, Typed, Marks
    <3>3. QED
      BY <3>1, <3>2 DEF Waiting
  <2>3. QED
    BY <1>3, <2>1, <2>2
<1>5. CASE s # r
  <2>1. res'[s] = res[s]
    BY <1>1, <1>5, MeetKeeps
  <2>2. Past(s)' => Past(s)
    BY <1>1, <1>5, MeetPast
  <2>3. QED
    BY <1>0, <1>1, <1>3, <1>4, <2>1, <2>2, BoundStays
<1>6. CASE s = r
  <2>1. /\ res'[r] \in {NotFound, t}
        /\ res'[r] = NotFound /\ t # Missing =>
             kind = "grouping" /\ (Entered(t, r, stack) \/ Circular(t) \in errors')
        /\ t = Missing /\ (kind = "typedef" \/ calls = <<>>) => NotInScope(r) \in errors'
    BY <1>1, <1>2, MeetBinds
  <2>2. res'[r] # Unseen
    BY <1>2, <2>1, RefFacts, Numbers DEF Unseen, NotFound, Missing
  <2>3. Past(r)' /\ t = Missing => NotInScope(r) \in errors'
    BY <1>1, <1>2, <1>3, <2>1, MeetPast DEF Bound
  <2>4. Target(r)' = t /\ t \in Defs \cup {Missing}
    BY <1>0, <1>2, RefFacts DEF Target
  <2>5. QED
    BY <1>0, <1>4, <1>6, <2>1, <2>2, <2>3, <2>4 DEF Bound
<1>7. QED
  BY <1>5, <1>6

LEMMA DefinitionBound ==
  ASSUME Typed, Active, AllBound, NEW d \in Defs, Definition(d)
  PROVE  AllBound'
<1>1. /\ UNCHANGED <<kind, body, res>> /\ Refs' = Refs /\ calls = <<>>
      /\ Call(d, NoRef, calls) /\ SweepDef(d)
  BY SameInput DEF Definition, SweepDef
<1>2. valid[d] # "in_progress" /\ UNCHANGED errors
  BY <1>1 DEF Active, Call
<1> SUFFICES ASSUME Binding, NEW s \in Refs PROVE Bound(s)'
  BY <1>1 DEF AllBound, Binding
<1>3. ~Waiting(s)
  BY <1>1 DEF Waiting
<1>4. Past(s)' => Past(s)
  <2>1. /\ todo \in [def : 1 .. Top, ref : Nat, top : Nat \ {0}] /\ todo.ref = 0 /\ kind # "module"
        /\ s[2] \in Nat \ {0}
    BY <1>1, RefFacts DEF Typed, SweepDef, Binding
  <2>2. todo'.def = todo.def /\ todo'.ref = 1 /\ todo'.top = todo.top
    BY <1>1, <2>1 DEF SweepDef
  <2>3. QED
    BY <2>1, <2>2 DEF Past
<1>5. Bound(s)
  BY DEF AllBound
<1>6. QED
  BY <1>1, <1>2, <1>3, <1>4, <1>5, BoundStays

LEMMA SweepOnBound ==
  ASSUME Typed, AllBound, SweepOn
  PROVE  AllBound'
<1>1. /\ UNCHANGED <<kind, body, calls, res, errors>> /\ Refs' = Refs
      /\ todo.def \in Defs /\ todo.ref > Len(body[todo.def])
      /\ todo' = [todo EXCEPT !.def = @ + 1, !.ref = 0]
  BY SameInput DEF SweepOn
<1> SUFFICES ASSUME Binding, NEW s \in Refs PROVE Bound(s)'
  BY <1>1 DEF AllBound, Binding
<1>2. /\ todo \in [def : 1 .. Top, ref : Nat, top : Nat \ {0}]
      /\ s[1] \in Nat /\ s[2] \in Nat /\ s[2] <= Len(body[s[1]]) /\ Len(body[s[1]]) \in Nat
  BY RefFacts, Numbers DEF Typed
<1>3. todo'.def = todo.def + 1 /\ todo'.ref = 0 /\ todo'.top = todo.top
  BY <1>1, <1>2
<1>4. Past(s)' => Past(s)
  BY <1>1, <1>2, <1>3 DEF Past
<1>5. Bound(s) /\ (Waiting(s) => Waiting(s)')
  BY <1>1 DEF AllBound, Waiting
<1>6. QED
  BY <1>1, <1>4, <1>5, BoundStays

LEMMA LeaveBound ==
  ASSUME Typed, Active, Plain => Ordered, AllBound, Leave
  PROVE  AllBound'
<1>0. UNCHANGED <<kind, body, todo, errors>> /\ Refs' = Refs
  BY LeaveFacts, SameInput
<1> SUFFICES ASSUME Binding, NEW s \in Refs PROVE Bound(s)'
  BY <1>0 DEF AllBound, Binding
<1>1. PICK n \in Nat, f \in Frames : n = Len(calls) /\ f = calls[n]
  BY LeaveFacts
<1>2. /\ n \in DOMAIN calls /\ DOMAIN calls = 1 .. n /\ DOMAIN calls' = 1 .. n - 1
      /\ \A i \in DOMAIN calls' : calls'[i] = calls[i]
      /\ res' = IF kind = "grouping" /\ f.ref # NoRef THEN [res EXCEPT ![f.ref] = f.of] ELSE res
  BY <1>1, LeaveFacts, StackFacts
<1>3. Linked /\ Bound(s) /\ s # NoRef
  BY RefFacts DEF Binding, Plain, Ordered, AllBound
<1>4. Past(s)' = Past(s)
  BY <1>0 DEF Past
<1>5. CASE kind = "grouping" /\ s = f.ref
  <2>1. res'[s] = f.of /\ f.of \in Defs
    BY <1>2, <1>3, <1>5 DEF Typed, Frames
  <2>2. Target(s) = f.of /\ Target(s)' = Target(s)
    BY <1>0, <1>1, <1>2, <1>3, <1>5 DEF Linked, Target
  <2>3. f.of # NotFound /\ f.of # Unseen /\ f.of # Missing
    BY <2>1, Numbers DEF NotFound, Unseen, Missing
  <2>4. QED
    BY <1>0, <1>5, <2>1, <2>2, <2>3 DEF Bound
<1>6. CASE kind = "grouping" /\ s # f.ref
  <2>1. res'[s] = res[s]
    BY <1>2, <1>6 DEF Typed
  <2>2. Waiting(s) => Waiting(s)'
    BY <1>1, <1>2, <1>6 DEF Waiting
  <2>3. QED
    BY <1>0, <1>3, <1>4, <2>1, <2>2, BoundStays
<1>7. CASE kind # "grouping"
  <2>1. res' = res
    BY <1>2, <1>7
  <2>2. Target(s)' = Target(s)
    BY <1>0 DEF Target
  <2>3. QED
    BY <1>0, <1>3, <1>4, <1>7, <2>1, <2>2 DEF Bound
<1>8. QED
  BY <1>5, <1>6, <1>7

Alarms == Silent /\ AllBound

LEMMA InitAlarms == Init => Alarms
<1> SUFFICES ASSUME Init PROVE Silent /\ AllBound
  BY DEF Alarms
<1>1. Typed /\ calls = <<>> /\ errors = {} /\ res = [r \in Refs |-> Unseen]
      /\ todo = [def |-> 1, ref |-> 0, top |-> 1]
  BY InitTyped DEF Init
<1>2. Silent
  BY <1>1 DEF Silent, Falling
<1>3. ASSUME NEW r \in Refs PROVE Bound(r)
  <2>1. /\ r[1] \in Nat \ {0} /\ r[2] \in Nat \ {0} /\ res[r] = Unseen /\ Unseen # NotFound
    BY <1>1, RefFacts, Numbers DEF Unseen, NotFound
  <2>2. ~Past(r)
    BY <1>1, <2>1 DEF Past
  <2>3. QED
    BY <2>1, <2>2 DEF Bound
<1>4. QED
  BY <1>2, <1>3 DEF AllBound

LEMMA NextAlarms ==
  Typed /\ Active /\ (Plain => Ordered) /\ Alarms /\ [Next]_vars => Alarms'
<1> SUFFICES ASSUME Typed, Active, Plain => Ordered, Silent, AllBound, [Next]_vars
             PROVE  Silent' /\ AllBound'
  BY DEF Alarms
<1>1. ASSUME NEW d \in Defs, Definition(d) PROVE Silent' /\ AllBound'
  BY <1>1, DefinitionSilent, DefinitionBound
<1>2. ASSUME NEW r \in Refs, Visit(r) \/ Nested(r) PROVE Silent' /\ AllBound'
  BY <1>2, Met, MeetSilent, MeetBound
<1>3. CASE SweepOn
  <2>1. Refs' = Refs /\ UNCHANGED <<body, errors, calls>>
    BY <1>3, SameInput DEF SweepOn
  <2>2. QED
    BY <1>3, <2>1, OtherSilent, SweepOnBound
<1>4. CASE Leave
  <2>1. Refs' = Refs /\ UNCHANGED <<body, errors>>
    BY <1>4, SameInput, LeaveFacts
  <2>2. QED
    BY <1>4, <2>1, OtherSilent, LeaveFacts, LeaveBound
<1>5. CASE UNCHANGED vars
  <2>1. UNCHANGED <<kind, body, todo, calls, res, errors>> /\ Refs' = Refs
    BY <1>5 DEF vars, Refs
  <2>2. \A s \in Refs : Bound(s) => Bound(s)'
    BY <2>1 DEF Bound, Target, Waiting, Past
  <2>3. QED
    BY <2>1, <2>2, OtherSilent DEF AllBound, Binding
<1>6. QED
  BY <1>1, <1>2, <1>3, <1>4, <1>5 DEF Next

(* Definitions without a cycle and without a name out of scope give no     *)
(* error: their rank falls along the calls that are active, so no          *)
(* reference comes back to one of them.  And at the end each reference has *)
(* its definition.                                                         *)
THEOREM AlarmsAreTrue == Spec => []NoFalseAlarm
<1>1. Typed /\ Alarms => NoFalseAlarm
  <2> SUFFICES ASSUME Typed, Silent, AllBound PROVE NoFalseAlarm
    BY DEF Alarms
  <2>1. ASSUME Acyclic(Edges({})), \A r \in Refs : Target(r) # Missing PROVE errors = {}
    <3>1. PICK rank \in [Defs -> Defs] : \A e \in Edges({}) : rank[e[2]] < rank[e[1]]
      BY <2>1 DEF Acyclic
    <3>2. ASSUME NEW r \in Refs
          PROVE  Target(r) \in Defs /\ (r[1] \in Defs => rank[Target(r)] < rank[r[1]])
      <4>1. Target(r) \in Defs
        BY <2>1, RefFacts
      <4>2. r[1] \in Defs => <<r[1], Target(r)>> \in Edges({})
        BY <4>1 DEF Edges
      <4>3. QED
        BY <3>1, <4>1, <4>2
    <3>3. QED
      BY <3>1, <3>2 DEF Silent, Sound
  <2>2. ASSUME Finished, errors = {}, Binding, NEW r \in Refs PROVE res[r] = Target(r)
    <3>1. calls = <<>> /\ todo.def = Top /\ todo.top > Len(body[Top])
      BY <2>2 DEF Finished
    <3>2. ~Waiting(r)
      BY <3>1 DEF Waiting
    <3>3. Past(r)
      <4>1. /\ r[1] \in Owners /\ r[2] \in Nat /\ r[2] <= Len(body[r[1]])
            /\ Len(body[r[1]]) \in Nat /\ todo.top \in Nat
        BY RefFacts DEF Typed
      <4>2. r[1] # Top => r[1] < Top
        BY <4>1, Numbers DEF Owners, Defs, Top
      <4>3. QED
        BY <3>1, <4>1, <4>2 DEF Past
    <3>4. QED
      BY <2>2, <3>2, <3>3 DEF AllBound, Bound, NotFound, Missing
  <2>3. QED
    BY <2>1, <2>2 DEF NoFalseAlarm, Binding
<1>2. Init => Typed /\ Active /\ (Plain => Ordered) /\ Alarms
  BY InitTyped, InitOrdered, InitAlarms
<1>3. Typed /\ Active /\ (Plain => Ordered) /\ Alarms /\ [Next]_vars
      => (Typed /\ Active /\ (Plain => Ordered) /\ Alarms)'
  BY NextTyped, NextOrdered, NextAlarms
<1>4. QED
  BY <1>1, <1>2, <1>3, PTL DEF Spec
=============================================================================
