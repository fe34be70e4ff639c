---------------------------- MODULE SidFileProofs ----------------------------
(***************************************************************************)
(* Proofs about SidFile, for every set of items, ranges and files found,   *)
(* and any number of revisions, runs and crashes.                          *)
(*                                                                         *)
(* The properties speak of files.  What makes them inductive is what holds *)
(* of the object in memory while numbers are given (Assigning): the items  *)
(* it took over have the numbers of the file it read, and what is in use   *)
(* lies behind the generator, or was in use from the start.                *)
(*                                                                         *)
(* CountIsExact needs the converse too (CountInv): no number of the ranges *)
(* is behind the generator without being in use.  Numbers of the ranges    *)
(* and numbers of items are then compared as sets, by their cardinalities. *)
(***************************************************************************)
EXTENDS SidFile, FiniteSetTheorems, WellFoundedInduction, TLAPS

RangesOf(file) == {file.ranges[i] : i \in DOMAIN file.ranges}

IsRun(r) ==
  /\ r = [op |-> r.op, input |-> r.input, file |-> r.file, consistent |-> r.consistent,
          finalize |-> r.finalize, extra |-> r.extra, used |-> r.used, ranges |-> r.ranges,
          sid |-> r.sid, high |-> r.high]
  /\ r.input \in {0} \cup Revs
  /\ IsContent(r.file)
  /\ r.ranges \subseteq Nat \X Nat
  /\ r.sid \in Int /\ r.high \in Int

Typed ==
  /\ yang.rev \in Revs
  /\ pc \in {"idle", "assign", "write"}
  /\ disk = [f \in Revs |-> disk[f]]
  /\ promised = [f \in Revs |-> promised[f]]
  /\ \A f \in Revs : IsContent(disk[f])
  /\ IsRun(run)

\* The items that were in the file that was read have its numbers.
Taken ==
  run.input # 0 =>
    /\ Readable(run.input)
    /\ \A i \in DOMAIN disk[run.input].items :
         /\ i \in DOMAIN run.file.items
         /\ run.file.items[i].sid = disk[run.input].items[i].sid

\* Each number given is the item's own and in a range.
Given(file) ==
  /\ ~OverlappingRanges(file.ranges)
  /\ \A i \in DOMAIN file.items :
       file.items[i].sid # -1 => ~OutOfRanges(file.ranges, file.items[i].sid)
  /\ \A i, j \in DOMAIN file.items :
       i # j /\ file.items[i].sid = file.items[j].sid => file.items[i].sid = -1

\* The numbers that the generator has not passed.
Ahead(g, n) ==
  \/ g.sid <= n /\ n < g.high
  \/ \E r \in g.ranges : Holds(r, n)

Generating ==
  /\ run.ranges \subseteq RangesOf(run.file)
  /\ \A n \in Int : run.sid <= n /\ n < run.high =>
       /\ ~OutOfRanges(run.file.ranges, n)
       /\ \A r \in run.ranges : ~Holds(r, n)
  /\ \A i \in DOMAIN run.file.items :
       LET n == run.file.items[i].sid IN n # -1 /\ n \notin run.used => ~Ahead(run, n)

\* The object is of the module as it is now.
Present ==
  /\ run.file.state = "whole"
  /\ run.file.rev = yang.rev
  /\ yang.items \subseteq DOMAIN run.file.items
  /\ answer.what # "written"

Assigning ==
  /\ pc = "assign" => Taken /\ Given(run.file) /\ Generating
  /\ pc = "write" => Valid(run.file) /\ promised[yang.rev] \subseteq Pairs(run.file.items)
  /\ pc # "idle" => Present

IInv == Typed /\ Assigning /\ WrittenIsValid /\ Permanent /\ UpdateIsComplete

-----------------------------------------------------------------------------
(* Files and ranges                                                        *)

LEMMA ContentTyped == IsContent(Content) /\ IsContent(Absent) /\ IsContent(Torn)
  BY DEF IsContent, Content, Absent, Torn

LEMMA IdleTyped == IsRun(Idle)
  BY ContentTyped DEF IsRun, Idle

\* A file that is valid has no item without a number.
LEMMA ValidIsGiven ==
  ASSUME NEW file, IsContent(file), Valid(file)
  PROVE  Given(file) /\ \A i \in DOMAIN file.items : file.items[i].sid # -1
  BY DEF Valid, Given, IsContent, OutOfRanges, Holds, Duplicated

\* Two ranges that do not overlap have no number in common.
LEMMA Apart ==
  ASSUME NEW file, IsContent(file), ~OverlappingRanges(file.ranges),
         NEW r \in RangesOf(file), NEW s \in RangesOf(file), r # s, NEW n \in Int
  PROVE  ~(Holds(r, n) /\ Holds(s, n))
<1>1. PICK i \in DOMAIN file.ranges, j \in DOMAIN file.ranges :
        r = file.ranges[i] /\ s = file.ranges[j]
  BY DEF RangesOf
<1>2. i # j /\ i \in Nat /\ j \in Nat /\ r \in Nat \X Nat /\ s \in Nat \X Nat
  BY <1>1 DEF IsContent
<1>3. ~Overlap(r, s) /\ ~Overlap(s, r)
  BY <1>1, <1>2 DEF OverlappingRanges
<1>4. r[1] \in Nat /\ r[2] \in Nat /\ s[1] \in Nat /\ s[2] \in Nat
  BY <1>2
<1>5. QED
  BY <1>3, <1>4 DEF Overlap, Holds

LEMMA Updated ==
  ASSUME NEW f, NEW r, NEW i,
         f = [state |-> f.state, rev |-> f.rev, dep |-> f.dep, ranges |-> f.ranges, items |-> f.items]
  PROVE  [f EXCEPT !.rev = r, !.items = i]
           = [state |-> f.state, rev |-> r, dep |-> f.dep, ranges |-> f.ranges, items |-> i]
<1> DEFINE half == [f EXCEPT !.rev = r]
<1>1. half = [state |-> f.state, rev |-> r, dep |-> f.dep, ranges |-> f.ranges, items |-> f.items]
  OBVIOUS
<1>2. [f EXCEPT !.rev = r, !.items = i] = [half EXCEPT !.items = i]
  BY Zenon
<1> HIDE DEF half
<1>3. QED
  BY <1>1, <1>2

\* What the object takes over from a file, and what it adds.
LEMMA Collected ==
  ASSUME NEW file, IsContent(file)
  PROVE  /\ IsContent(Collect(file))
         /\ Collect(file).ranges = file.ranges
         /\ Collect(file).state = file.state
         /\ Collect(file).rev = yang.rev
         /\ DOMAIN Collect(file).items = DOMAIN file.items \cup yang.items
         /\ \A i \in DOMAIN Collect(file).items :
              Collect(file).items[i].sid = IF i \in DOMAIN file.items THEN file.items[i].sid ELSE -1
<1> DEFINE c == CollectModuleItems(file.items)
<1>1. /\ DOMAIN c = DOMAIN file.items \cup yang.items
      /\ \A i \in DOMAIN c : c[i] = merge_item(file.items, i)
  BY DEF CollectModuleItems
<1>2. \A i \in DOMAIN c : /\ c[i] = [sid |-> c[i].sid, status |-> c[i].status]
                          /\ c[i].sid = IF i \in DOMAIN file.items THEN file.items[i].sid ELSE -1
                          /\ c[i].sid \in Int
  BY <1>1 DEF merge_item, IsContent
<1>3. c = [i \in DOMAIN c |-> [sid |-> c[i].sid, status |-> c[i].status]]
  BY <1>2 DEF CollectModuleItems
<1> HIDE DEF c
<1> DEFINE b == BuildDependencies(file)
<1>4. /\ b = [state |-> b.state, rev |-> b.rev, dep |-> b.dep, ranges |-> b.ranges, items |-> b.items]
      /\ b.state = file.state /\ b.ranges = file.ranges
  <2>1. CASE yang.import = NoImport
    BY <2>1 DEF BuildDependencies, IsContent
  <2>2. CASE yang.import # NoImport
    <3> DEFINE d == DependencyRevision(yang.import)
    <3>1. b = [file EXCEPT !.dep = d]
      BY <2>2 DEF BuildDependencies
    <3> HIDE DEF d
    <3>2. QED
      BY <3>1 DEF IsContent
  <2>3. QED
    BY <2>1, <2>2
<1>5. Collect(file) = [b EXCEPT !.rev = yang.rev, !.items = c]
  BY DEF Collect, c
<1> HIDE DEF b
<1>6. Collect(file) = [state |-> b.state, rev |-> yang.rev, dep |-> b.dep,
                       ranges |-> b.ranges, items |-> c]
  BY <1>4, <1>5, Updated, Zenon
<1>7. QED
  BY <1>1, <1>2, <1>3, <1>4, <1>6 DEF IsContent

\* What an object that takes over a file's items may go on with.
Acceptable(f, file) ==
  /\ IsContent(file) /\ file.state = "whole"
  /\ ~OverlappingRanges(file.ranges)
  /\ \A i \in DOMAIN file.items : ~OutOfRanges(file.ranges, file.items[i].sid)
  /\ ~Duplicated(file.items)
  /\ \/ f = 0 /\ file.items = <<>>
     \/ f \in Revs /\ Readable(f) /\ file.items = disk[f].items

-----------------------------------------------------------------------------
(* Starting a run                                                          *)

LEMMA BeginStep ==
  ASSUME IInv, pc = "idle", NEW op, NEW f, NEW file, NEW extra, NEW fin,
         Acceptable(f, file), Begin(op, f, file, extra, fin)
  PROVE  IInv'
<1> DEFINE c == Collect(file)
<1>1. /\ IsContent(c) /\ c.ranges = file.ranges /\ c.state = "whole" /\ c.rev = yang.rev
      /\ DOMAIN c.items = DOMAIN file.items \cup yang.items
      /\ \A i \in DOMAIN c.items :
           c.items[i].sid = IF i \in DOMAIN file.items THEN file.items[i].sid ELSE -1
  BY Collected DEF Acceptable
<1>2. /\ run'.file = c /\ run'.input = f /\ run'.used = Used(file.items)
      /\ run'.ranges = RangesOf(file) /\ run'.sid = 0 /\ run'.high = 0
      /\ pc' = "assign" /\ answer'.what # "written"
      /\ UNCHANGED <<yang, disk, promised>>
  BY DEF Begin, RangesOf, NoAnswer, None
<1>3. f \in {0} \cup Revs
  BY DEF Acceptable
<1>4. RangesOf(file) \subseteq Nat \X Nat
  BY DEF Acceptable, IsContent, RangesOf
<1>5. IsRun(run')
  <2>1. run' = [op |-> run'.op, input |-> run'.input, file |-> run'.file,
                consistent |-> run'.consistent, finalize |-> run'.finalize, extra |-> run'.extra,
                used |-> run'.used, ranges |-> run'.ranges, sid |-> run'.sid, high |-> run'.high]
    BY DEF Begin
  <2>2. QED
    BY <1>1, <1>2, <1>3, <1>4, <2>1 DEF IsRun
<1>6. Typed'
  BY <1>2, <1>5 DEF IInv, Typed
<1> HIDE DEF c
<1>7. Taken'
  <2>1. f # 0 => Readable(f)'
    BY <1>2 DEF Acceptable, Readable
  <2>2. f # 0 => file.items = disk'[f].items
    BY <1>2, SidFileAssumption DEF Acceptable, Revs
  <2>3. QED
    BY <1>1, <1>2, <2>1, <2>2 DEF Taken
<1>8. Given(run'.file)
  <2>1. \A i \in DOMAIN c.items : c.items[i].sid # -1 =>
          i \in DOMAIN file.items /\ c.items[i].sid = file.items[i].sid
    BY <1>1
  <2>2. QED
    BY <1>1, <1>2, <2>1 DEF Given, Acceptable, Duplicated
<1>9. Generating'
  <2>1. run'.ranges \subseteq RangesOf(run'.file)
    BY <1>1, <1>2 DEF RangesOf
  <2>2. \A i \in DOMAIN c.items : c.items[i].sid # -1 => c.items[i].sid \in run'.used
    BY <1>1, <1>2 DEF Used
  <2>3. QED
    BY <1>2, <2>1, <2>2 DEF Generating
<1>10. Present'
  BY <1>1, <1>2 DEF Present
<1>11. Assigning'
  BY <1>2, <1>7, <1>8, <1>9, <1>10 DEF Assigning
<1>12. QED
  BY <1>2, <1>6, <1>11 DEF IInv, WrittenIsValid, Permanent, UpdateIsComplete, IsFile

\* A file that can be read is acceptable as it is.
LEMMA ReadableAccepted ==
  ASSUME Typed, NEW f \in Revs, Readable(f)
  PROVE  Acceptable(f, disk[f])
  BY DEF Typed, Readable, Acceptable, IsFile, WellFormed, Valid

-----------------------------------------------------------------------------
(* Runs that end, or never begin, without writing                          *)

LEMMA RefusedStep ==
  ASSUME IInv, UNCHANGED <<yang, disk, run, pc, promised>>, answer'.what # "written"
  PROVE  IInv'
<1>1. Typed' /\ WrittenIsValid' /\ Permanent' /\ UpdateIsComplete'
  BY DEF IInv, Typed, WrittenIsValid, Permanent, UpdateIsComplete, IsFile
<1>2. Assigning'
  BY DEF IInv, Assigning, Taken, Generating, Present, Ahead, Readable
<1>3. QED
  BY <1>1, <1>2 DEF IInv

LEMMA EndedStep ==
  ASSUME IInv, run' = Idle, pc' = "idle", UNCHANGED <<yang, disk, promised>>,
         answer'.what # "written"
  PROVE  IInv'
  BY IdleTyped DEF IInv, Typed, Assigning, WrittenIsValid, Permanent, UpdateIsComplete, IsFile

LEMMA Refused ==
  ASSUME IInv, pc = "idle",
         \/ \E f \in Revs : CannotRead(f) \/ Count(f)
         \/ \E op, f, what : Fail(op, f, what) /\ what # "written"
  PROVE  IInv'
  BY RefusedStep DEF CannotRead, Count, Fail, Answer

LEMMA EditStep ==
  ASSUME IInv, NEW rev \in Revs, NEW items, NEW imp, Edit(rev, items, imp)
  PROVE  IInv'
<1>1. /\ yang'.rev \in Revs /\ pc' = "idle" /\ answer'.what # "written"
      /\ UNCHANGED <<disk, run, promised>>
  BY DEF Edit, NoAnswer, None
<1>2. Typed' /\ Assigning'
  BY <1>1 DEF IInv, Typed, Assigning
<1>3. QED
  BY <1>1, <1>2 DEF IInv, WrittenIsValid, Permanent, UpdateIsComplete, IsFile

-----------------------------------------------------------------------------
(* The generator                                                           *)

\* What it leaves alone, and what of the invariant that settles.
LEMMA GeneratorStep ==
  ASSUME IInv, pc = "assign", IsRun(run'), Generating', Given(run'.file),
         run'.input = run.input,
         run'.file.state = run.file.state, run'.file.rev = run.file.rev,
         DOMAIN run.file.items = DOMAIN run'.file.items,
         \A i \in DOMAIN run.file.items :
           run.file.items[i].sid # -1 => run'.file.items[i].sid = run.file.items[i].sid,
         UNCHANGED <<yang, disk, pc, answer, promised>>
  PROVE  IInv'
<1>1. Typed' /\ WrittenIsValid' /\ Permanent' /\ UpdateIsComplete'
  <2>1. Typed'
    BY DEF IInv, Typed
  <2>2. WrittenIsValid' /\ Permanent'
    BY DEF IInv, WrittenIsValid, Permanent
  <2>3. UpdateIsComplete'
    BY DEF IInv, UpdateIsComplete, IsConsistent
  <2>4. QED
    BY <2>1, <2>2, <2>3
<1>2. Taken'
  <2> SUFFICES ASSUME run.input # 0, NEW i \in DOMAIN disk[run.input].items
               PROVE  run'.file.items[i].sid = disk[run.input].items[i].sid
    BY DEF IInv, Assigning, Taken, Readable
  <2>1. /\ run.file.items[i].sid = disk[run.input].items[i].sid
        /\ i \in DOMAIN run.file.items
        /\ IsContent(disk[run.input]) /\ Valid(disk[run.input])
    BY DEF IInv, Assigning, Taken, Readable, Typed, IsRun
  <2>2. disk[run.input].items[i].sid # -1
    BY <2>1, ValidIsGiven
  <2>3. QED
    BY <2>1, <2>2
<1>3. Present'
  BY DEF IInv, Assigning, Present
<1>4. QED
  BY <1>1, <1>2, <1>3 DEF IInv, Assigning

LEMMA NextRangeStep ==
  ASSUME IInv, NextRange
  PROVE  IInv'
<1>0. pc = "assign" /\ IsRun(run) /\ Generating /\ Given(run.file)
  BY DEF IInv, Typed, Assigning, NextRange
<1>1. PICK r \in run.ranges :
        /\ run' = [run EXCEPT !.ranges = @ \ {r}, !.sid = r[1], !.high = r[1] + r[2]]
        /\ UNCHANGED <<yang, disk, pc, answer, promised>>
  BY DEF NextRange
<1>2. r \in Nat \X Nat /\ r[1] \in Nat /\ r[2] \in Nat /\ r \in RangesOf(run.file)
  BY <1>0 DEF IsRun, Generating
<1>3. /\ run'.ranges = run.ranges \ {r} /\ run'.sid = r[1] /\ run'.high = r[1] + r[2]
      /\ run'.file = run.file /\ run'.input = run.input /\ run'.used = run.used
  BY <1>0, <1>1 DEF IsRun
<1>4. IsRun(run')
  <2>1. run' = [op |-> run'.op, input |-> run'.input, file |-> run'.file,
                consistent |-> run'.consistent, finalize |-> run'.finalize, extra |-> run'.extra,
                used |-> run'.used, ranges |-> run'.ranges, sid |-> run'.sid, high |-> run'.high]
    BY <1>0, <1>1 DEF IsRun
  <2>2. QED
    BY <1>0, <1>2, <1>3, <2>1 DEF IsRun
<1>5. Generating'
  <2>1. \A n \in Int : run'.sid <= n /\ n < run'.high => Holds(r, n)
    BY <1>2, <1>3 DEF Holds
  <2>2. \A n \in Int : Holds(r, n) => ~OutOfRanges(run.file.ranges, n)
    BY <1>2 DEF OutOfRanges, RangesOf
  <2>3. \A n \in Int : Holds(r, n) => \A s \in run.ranges \ {r} : ~Holds(s, n)
    BY <1>0, <1>2, Apart DEF IsRun, Given, Generating
  <2>4. ASSUME NEW n \in Int, Ahead(run', n)
        PROVE  Ahead(run, n)
    BY <1>3, <2>1, <2>4 DEF Ahead
  <2>5. \A i \in DOMAIN run.file.items : run.file.items[i].sid \in Int
    BY <1>0 DEF IsRun, IsContent
  <2>6. QED
    BY <1>0, <1>3, <2>1, <2>2, <2>3, <2>4, <2>5 DEF Generating
<1>6. QED
  BY <1>0, <1>1, <1>3, <1>4, <1>5, GeneratorStep

LEMMA SkipUsedStep ==
  ASSUME IInv, SkipUsed
  PROVE  IInv'
<1>0. pc = "assign" /\ IsRun(run) /\ Generating /\ Given(run.file)
  BY DEF IInv, Typed, Assigning, SkipUsed
<1>1. /\ run' = [run EXCEPT !.sid = @ + 1]
      /\ UNCHANGED <<yang, disk, pc, answer, promised>>
  BY DEF SkipUsed
<1>2. /\ run'.sid = run.sid + 1 /\ run'.high = run.high /\ run'.ranges = run.ranges
      /\ run'.file = run.file /\ run'.input = run.input /\ run'.used = run.used
  BY <1>0, <1>1 DEF IsRun
<1>3. IsRun(run')
  <2>1. run' = [op |-> run'.op, input |-> run'.input, file |-> run'.file,
                consistent |-> run'.consistent, finalize |-> run'.finalize, extra |-> run'.extra,
                used |-> run'.used, ranges |-> run'.ranges, sid |-> run'.sid, high |-> run'.high]
    BY <1>0, <1>1 DEF IsRun
  <2>2. QED
    BY <1>0, <1>2, <2>1 DEF IsRun
<1>4. Generating'
  BY <1>0, <1>2 DEF Generating, Ahead, IsRun, IsContent
<1>5. QED
  BY <1>0, <1>1, <1>2, <1>3, <1>4, GeneratorStep

LEMMA YieldStep ==
  ASSUME IInv, Yield
  PROVE  IInv'
<1>0. /\ pc = "assign" /\ IsRun(run) /\ Generating /\ Given(run.file)
      /\ run.sid < run.high /\ run.sid \notin run.used
  BY DEF IInv, Typed, Assigning, Yield
<1> DEFINE n == run.sid
           e == [sid |-> n, status |-> "unstable"]
<1>1. PICK i \in Unassigned(run.file.items) :
        /\ run' = [run EXCEPT !.file.items[i] = e, !.sid = @ + 1]
        /\ UNCHANGED <<yang, disk, pc, answer, promised>>
  BY DEF Yield
<1>2. /\ i \in DOMAIN run.file.items /\ run.file.items[i].sid = -1
      /\ n \in Int /\ run.high \in Int
  BY <1>0 DEF Unassigned, IsRun
<1>3. /\ run'.sid = n + 1 /\ run'.high = run.high /\ run'.ranges = run.ranges
      /\ run'.input = run.input /\ run'.used = run.used
      /\ run'.file = [run.file EXCEPT !.items[i] = e]
  BY <1>0, <1>1 DEF IsRun
<1>4. /\ run'.file.state = run.file.state /\ run'.file.rev = run.file.rev
      /\ run'.file.ranges = run.file.ranges
      /\ run'.file.items = [run.file.items EXCEPT ![i] = e]
      /\ run'.file = [state |-> run'.file.state, rev |-> run'.file.rev, dep |-> run'.file.dep,
                      ranges |-> run'.file.ranges, items |-> run'.file.items]
  BY <1>0, <1>3 DEF IsRun, IsContent
<1>5. /\ DOMAIN run'.file.items = DOMAIN run.file.items
      /\ \A j \in DOMAIN run.file.items : run'.file.items[j] = IF j = i THEN e ELSE run.file.items[j]
  BY <1>4
<1>6. IsContent(run'.file)
  <2>1. \A j \in DOMAIN run.file.items :
          /\ run'.file.items[j] = [sid |-> run'.file.items[j].sid, status |-> run'.file.items[j].status]
          /\ run'.file.items[j].sid \in Int
    <3> HIDE DEF n
    <3>1. e = [sid |-> e.sid, status |-> e.status] /\ e.sid \in Int
      BY <1>2
    <3>2. \A j \in DOMAIN run.file.items :
            /\ run.file.items[j] = [sid |-> run.file.items[j].sid, status |-> run.file.items[j].status]
            /\ run.file.items[j].sid \in Int
      BY <1>0 DEF IsRun, IsContent
    <3> HIDE DEF e
    <3>3. QED
      BY <1>5, <3>1, <3>2
  <2>2. run'.file.items = [j \in DOMAIN run'.file.items |->
                             [sid |-> run'.file.items[j].sid, status |-> run'.file.items[j].status]]
    BY <1>4, <1>5, <2>1
  <2>3. run'.file.ranges \in Seq(Nat \X Nat)
    BY <1>0, <1>4 DEF IsRun, IsContent
  <2>4. QED
    BY <1>4, <1>5, <2>1, <2>2, <2>3 DEF IsContent
<1>7. IsRun(run')
  <2>1. run' = [op |-> run'.op, input |-> run'.input, file |-> run'.file,
                consistent |-> run'.consistent, finalize |-> run'.finalize, extra |-> run'.extra,
                used |-> run'.used, ranges |-> run'.ranges, sid |-> run'.sid, high |-> run'.high]
    BY <1>0, <1>1 DEF IsRun
  <2>2. QED
    BY <1>0, <1>2, <1>3, <1>6, <2>1 DEF IsRun
<1>8. \A j \in DOMAIN run.file.items :
        run'.file.items[j].sid = IF j = i THEN n ELSE run.file.items[j].sid
  BY <1>5
<1>9. /\ ~OutOfRanges(run.file.ranges, n)
      /\ Ahead(run, n)
      /\ \A j \in DOMAIN run.file.items : run.file.items[j].sid # n \/ n = -1
  BY <1>0, <1>2 DEF Generating, Ahead
<1>10. Given(run'.file)
  BY <1>0, <1>2, <1>4, <1>5, <1>8, <1>9 DEF Given
<1>11. Generating'
  <2>1. ~Ahead(run', n) /\ \A m \in Int : Ahead(run', m) => Ahead(run, m)
    BY <1>0, <1>2, <1>3 DEF Generating, Ahead
  <2>2. \A j \in DOMAIN run.file.items : run.file.items[j].sid \in Int
    BY <1>0 DEF IsRun, IsContent
  <2>3. QED
    BY <1>0, <1>2, <1>3, <1>4, <1>5, <1>8, <2>1, <2>2 DEF Generating, RangesOf
<1>12. QED
  BY <1>0, <1>1, <1>2, <1>3, <1>4, <1>5, <1>7, <1>10, <1>11, GeneratorStep

-----------------------------------------------------------------------------
(* Writing                                                                 *)

\* Making the items stable changes no number.
LEMMA FinalizedSame ==
  ASSUME NEW items, NEW i \in DOMAIN items,
         items[i] = [sid |-> items[i].sid, status |-> items[i].status]
  PROVE  /\ Finalized(items)[i] = [sid |-> Finalized(items)[i].sid, status |-> Finalized(items)[i].status]
         /\ Finalized(items)[i].sid = items[i].sid
<1> DEFINE x == items[i]
           y == [x EXCEPT !.status = "stable"]
<1>1. y = [sid |-> y.sid, status |-> y.status] /\ y.sid = x.sid
  OBVIOUS
<1>2. Finalized(items)[i] = y \/ Finalized(items)[i] = x
  BY DEF Finalized
<1> HIDE DEF y
<1>3. QED
  BY <1>1, <1>2

LEMMA WritingStep ==
  ASSUME IInv, GenerateFile, pc' = "write"
  PROVE  IInv'
<1>0. /\ pc = "assign" /\ IsRun(run) /\ Given(run.file) /\ Taken /\ Present /\ Typed
      /\ Unassigned(run.file.items) = {}
  BY DEF IInv, Typed, Assigning, GenerateFile
<1> DEFINE items == IF run.finalize THEN Finalized(run.file.items) ELSE run.file.items
<1>1. /\ run' = [run EXCEPT !.file.items = items]
      /\ disk' = [disk EXCEPT ![yang.rev] = Torn]
      /\ promised' = [promised EXCEPT ![yang.rev] =
           IF run.input = 0 THEN {} ELSE promised[run.input] \cup Pairs(disk[run.input].items)]
      /\ UNCHANGED <<yang, answer>>
  BY DEF GenerateFile
<1>2. /\ DOMAIN items = DOMAIN run.file.items
      /\ items = [i \in DOMAIN items |-> [sid |-> items[i].sid, status |-> items[i].status]]
      /\ \A i \in DOMAIN items : /\ items[i].sid = run.file.items[i].sid
                                /\ items[i].sid \in Int
  <2>1. \A i \in DOMAIN run.file.items :
          /\ run.file.items[i] = [sid |-> run.file.items[i].sid, status |-> run.file.items[i].status]
          /\ run.file.items[i].sid \in Int
    BY <1>0 DEF IsRun, IsContent
  <2>2. CASE run.finalize
    <3> DEFINE fin == Finalized(run.file.items)
    <3>1. /\ DOMAIN fin = DOMAIN run.file.items
          /\ \A i \in DOMAIN fin : /\ fin[i] = [sid |-> fin[i].sid, status |-> fin[i].status]
                                  /\ fin[i].sid = run.file.items[i].sid
      <4>1. DOMAIN fin = DOMAIN run.file.items
        BY DEF Finalized
      <4>2. QED
        BY <2>1, <4>1, FinalizedSame
    <3>2. fin = [i \in DOMAIN fin |-> fin[i]]
      BY DEF Finalized
    <3> HIDE DEF fin
    <3>3. fin = [i \in DOMAIN fin |-> [sid |-> fin[i].sid, status |-> fin[i].status]]
      BY <3>1, <3>2
    <3>4. items = fin
      BY <2>2 DEF fin
    <3> HIDE DEF items
    <3>5. QED
      BY <2>1, <3>1, <3>3, <3>4
  <2>3. CASE ~run.finalize
    BY <1>0, <2>1, <2>3 DEF IsRun, IsContent
  <2>4. QED
    BY <2>2, <2>3
<1> HIDE DEF items
<1>3. /\ run'.file = [run.file EXCEPT !.items = items]
      /\ run'.input = run.input /\ run'.ranges = run.ranges /\ run'.sid = run.sid
      /\ run'.high = run.high
  BY <1>0, <1>1 DEF IsRun
<1>4. /\ run'.file.state = run.file.state /\ run'.file.rev = run.file.rev
      /\ run'.file.ranges = run.file.ranges /\ run'.file.items = items
      /\ run'.file = [state |-> run'.file.state, rev |-> run'.file.rev, dep |-> run'.file.dep,
                      ranges |-> run'.file.ranges, items |-> run'.file.items]
  BY <1>0, <1>3 DEF IsRun, IsContent
<1>5. IsContent(run'.file)
  BY <1>0, <1>2, <1>4 DEF IsRun, IsContent
<1>6. IsRun(run')
  <2>1. run' = [op |-> run'.op, input |-> run'.input, file |-> run'.file,
                consistent |-> run'.consistent, finalize |-> run'.finalize, extra |-> run'.extra,
                used |-> run'.used, ranges |-> run'.ranges, sid |-> run'.sid, high |-> run'.high]
    BY <1>0, <1>1 DEF IsRun
  <2>2. QED
    BY <1>0, <1>3, <1>5, <2>1 DEF IsRun
<1>7. /\ \A f \in Revs : disk'[f] = IF f = yang.rev THEN Torn ELSE disk[f]
      /\ \A f \in Revs : f # yang.rev => promised'[f] = promised[f]
      /\ disk' = [f \in Revs |-> disk'[f]] /\ promised' = [f \in Revs |-> promised'[f]]
  BY <1>0, <1>1 DEF Typed
<1>8. Typed'
  BY <1>0, <1>1, <1>6, <1>7, ContentTyped DEF Typed
<1>9. Valid(run'.file)
  BY <1>0, <1>2, <1>4 DEF Given, Valid, Duplicated, Unassigned
<1>10. promised'[yang.rev] \subseteq Pairs(run'.file.items)
  <2>1. CASE run.input = 0
    BY <1>0, <1>1, <2>1 DEF Typed
  <2>2. CASE run.input # 0
    <3> DEFINE d == disk[run.input]
    <3>1. promised'[yang.rev] = promised[run.input] \cup Pairs(d.items)
      BY <1>0, <1>1, <2>2 DEF Typed
    <3>2. run.input \in Revs /\ IsFile(d)
      BY <1>0, <2>2 DEF IsRun, Taken, Readable
    <3>3. promised[run.input] \subseteq Pairs(d.items)
      BY <3>2 DEF IInv, Permanent
    <3>4. \A i \in DOMAIN d.items : i \in DOMAIN items /\ items[i].sid = d.items[i].sid
      BY <1>0, <1>2, <2>2 DEF Taken
    <3>5. Pairs(d.items) \subseteq Pairs(items)
      BY <3>4 DEF Pairs
    <3>6. QED
      BY <1>4, <3>1, <3>3, <3>5
  <2>3. QED
    BY <2>1, <2>2
<1>11. Present'
  BY <1>0, <1>1, <1>2, <1>4 DEF Present
<1>12. Assigning'
  BY <1>1, <1>9, <1>10, <1>11 DEF Assigning
<1>13. WrittenIsValid' /\ Permanent' /\ UpdateIsComplete'
  <2>1. ~IsFile(Torn)
    BY DEF IsFile, Torn
  <2>2. WrittenIsValid' /\ Permanent'
    BY <1>7, <2>1 DEF IInv, WrittenIsValid, Permanent
  <2>3. UpdateIsComplete'
    BY <1>11 DEF UpdateIsComplete, Present
  <2>4. QED
    BY <2>2, <2>3
<1>14. QED
  BY <1>8, <1>12, <1>13 DEF IInv

LEMMA DumpStep ==
  ASSUME IInv, Dump
  PROVE  IInv'
<1>0. /\ pc = "write" /\ Typed /\ IsContent(run.file) /\ Valid(run.file) /\ Present
      /\ promised[yang.rev] \subseteq Pairs(run.file.items)
  BY DEF IInv, Typed, Assigning, Dump, IsRun
<1>1. /\ disk' = [disk EXCEPT ![yang.rev] = run.file]
      /\ pc' = "idle" /\ run' = Idle
      /\ UNCHANGED <<yang, promised>>
  BY DEF Dump
<1>2. /\ \A f \in Revs : disk'[f] = IF f = yang.rev THEN run.file ELSE disk[f]
      /\ disk' = [f \in Revs |-> disk'[f]]
  BY <1>0, <1>1 DEF Typed
<1>3. Typed' /\ Assigning'
  BY <1>0, <1>1, <1>2, IdleTyped DEF Typed, Assigning
<1>4. WrittenIsValid' /\ Permanent'
  BY <1>0, <1>1, <1>2 DEF IInv, WrittenIsValid, Permanent
<1>5. UpdateIsComplete'
  BY <1>0, <1>1, <1>2 DEF UpdateIsComplete, Present, IsConsistent, IsFile, Typed
<1>6. QED
  BY <1>3, <1>4, <1>5 DEF IInv

-----------------------------------------------------------------------------
(* The specification                                                       *)

LEMMA Replaced ==
  ASSUME NEW f, NEW g,
         f = [state |-> f.state, rev |-> f.rev, dep |-> f.dep, ranges |-> f.ranges, items |-> f.items]
  PROVE  [f EXCEPT !.ranges = g]
           = [state |-> f.state, rev |-> f.rev, dep |-> f.dep, ranges |-> g, items |-> f.items]
  OBVIOUS

LEMMA Appended ==
  ASSUME NEW S, NEW q \in Seq(S), NEW x \in S
  PROVE  /\ Append(q, x) \in Seq(S)
         /\ \A i \in DOMAIN q : i \in DOMAIN Append(q, x) /\ Append(q, x)[i] = q[i]
  OBVIOUS

LEMMA InitInv == Init => IInv
<1> SUFFICES ASSUME Init PROVE IInv
  OBVIOUS
<1>1. PICK x \in Found \cup {Absent} : disk = [r \in Revs |-> IF r = 1 THEN x ELSE Absent]
  BY DEF Init
<1>2. \A f \in Revs : /\ IsContent(disk[f])
                      /\ IsFile(disk[f]) => disk[f] \in Found
  <2> SUFFICES ASSUME NEW f \in Revs
               PROVE  IsContent(disk[f]) /\ (IsFile(disk[f]) => disk[f] \in Found)
    OBVIOUS
  <2>1. disk[f] \in Found \cup {Absent}
    BY <1>1
  <2>2. ~IsFile(Absent)
    BY DEF IsFile, Absent
  <2>3. QED
    BY <2>1, <2>2, ContentTyped, SidFileAssumption
<1>3. disk = [f \in Revs |-> disk[f]]
  BY <1>1
<1>4. /\ yang.rev = 1 /\ 1 \in Revs /\ run = Idle /\ pc = "idle" /\ answer = NoAnswer
      /\ promised = [r \in Revs |-> {}]
  BY SidFileAssumption DEF Init, Revs
<1>5. Typed
  BY <1>2, <1>3, <1>4, IdleTyped DEF Typed
<1>6. QED
  BY <1>2, <1>4, <1>5
     DEF IInv, Assigning, WrittenIsValid, Permanent, UpdateIsComplete, NoAnswer, None

LEMMA NextInv == IInv /\ [Next]_vars => IInv'
<1> SUFFICES ASSUME IInv, [Next]_vars PROVE IInv'
  OBVIOUS
<1> USE DEF Answer
<1>0. Typed
  BY DEF IInv
<1>1. ASSUME NEW rev \in Revs, NEW items \in SUBSET Items, NEW imp \in Imports, Edit(rev, items, imp)
      PROVE  IInv'
  BY <1>1, EditStep
<1>2. ASSUME NEW range \in RangeArgs, NEW fin \in BOOLEAN, Generate(range, fin)
      PROVE  IInv'
  <2> DEFINE file == [Content EXCEPT !.ranges = <<range>>]
  <2>1. /\ file.items = <<>> /\ file.state = "whole" /\ file.ranges = <<range>>
        /\ file = [state |-> file.state, rev |-> file.rev, dep |-> file.dep,
                   ranges |-> file.ranges, items |-> file.items]
    BY DEF Content
  <2>2. <<range>> \in Seq(Nat \X Nat) /\ DOMAIN <<range>> = {1} /\ DOMAIN file.items = {}
    BY <2>1, SidFileAssumption
  <2> HIDE DEF file
  <2>3. Acceptable(0, file)
    BY <2>1, <2>2 DEF Acceptable, IsContent, OverlappingRanges, Duplicated
  <2>4. pc = "idle" /\ \/ Fail("generate", 0, "dependency")
                        \/ Begin("generate", 0, file, 0, fin)
    BY <1>2 DEF Generate, file
  <2>5. QED
    BY <2>3, <2>4, BeginStep, Refused
<1>3. ASSUME NEW f \in Revs, CannotRead(f) \/ Count(f)
      PROVE  IInv'
  BY <1>3, Refused DEF CannotRead, Count
<1>4. ASSUME NEW f \in Revs, NEW fin \in BOOLEAN, Check(f, fin) \/ Update(f, fin)
      PROVE  IInv'
  <2>1. pc = "idle" /\ Readable(f) /\ \/ \E op : Fail(op, f, "dependency")
                                      \/ \E op : Begin(op, f, disk[f], 0, fin)
    BY <1>4 DEF Check, Update
  <2>2. QED
    BY <1>0, <2>1, ReadableAccepted, BeginStep, Refused
<1>5. ASSUME NEW f \in Revs, NEW extra \in RangeArgs, UpdateExtra(f, extra)
      PROVE  IInv'
  <2> DEFINE file == [disk[f] EXCEPT !.ranges = Append(@, extra)]
  <2>1. pc = "idle" /\ Readable(f)
    BY <1>5 DEF UpdateExtra
  <2>2. Acceptable(f, disk[f])
    BY <1>0, <2>1, ReadableAccepted
  <2>3. /\ file.items = disk[f].items /\ file.state = disk[f].state
        /\ file.ranges = Append(disk[f].ranges, extra)
        /\ file = [state |-> file.state, rev |-> file.rev, dep |-> file.dep,
                   ranges |-> file.ranges, items |-> file.items]
    BY <2>2, Replaced DEF Acceptable, IsContent
  <2>4. /\ file.ranges \in Seq(Nat \X Nat)
        /\ \A i \in DOMAIN disk[f].ranges : i \in DOMAIN file.ranges /\ file.ranges[i] = disk[f].ranges[i]
    <3>1. disk[f].ranges \in Seq(Nat \X Nat) /\ extra \in Nat \X Nat
      BY <2>2, SidFileAssumption DEF Acceptable, IsContent
    <3> HIDE DEF file
    <3>2. QED
      BY <2>3, <3>1, Appended
  <2> HIDE DEF file
  <2>5. ~OverlappingRanges(file.ranges) => Acceptable(f, file)
    BY <2>1, <2>2, <2>3, <2>4 DEF Acceptable, IsContent, OutOfRanges
  <2>6. \/ Fail("update", f, "overlap") \/ Fail("update", f, "dependency")
        \/ ~OverlappingRanges(file.ranges) /\ Begin("update", f, file, extra[2], FALSE)
    BY <1>5 DEF UpdateExtra, file
  <2>7. QED
    <3>1. CASE Begin("update", f, file, extra[2], FALSE) /\ ~OverlappingRanges(file.ranges)
      BY <2>1, <2>5, <3>1, BeginStep
    <3>2. CASE Fail("update", f, "overlap") \/ Fail("update", f, "dependency")
      BY <2>1, <3>2, Refused
    <3>3. QED
      BY <2>6, <3>1, <3>2
<1>6. CASE NextRange
  BY <1>6, NextRangeStep
<1>7. CASE SkipUsed
  BY <1>7, SkipUsedStep
<1>8. CASE Yield
  BY <1>8, YieldStep
<1>9. CASE Exhausted
  BY <1>9, EndedStep DEF Exhausted, Say
<1>10. CASE Report
  <2>1. /\ run' = Idle /\ pc' = "idle" /\ UNCHANGED <<yang, disk, promised>>
        /\ answer'.what \in {"ok", "outdated", "up to date"}
    <3>1. run' = Idle /\ pc' = "idle" /\ UNCHANGED <<yang, disk, promised>>
      BY <1>10 DEF Report
    <3>2. Say("ok") \/ Say("outdated") \/ Say("up to date")
      BY <1>10, Zenon DEF Report
    <3>3. \A what : Say(what) => answer'.what = what
      BY DEF Say
    <3>4. QED
      BY <3>1, <3>2, <3>3
  <2>2. QED
    BY <2>1, EndedStep
<1>11. CASE GenerateFile
  <2>1. CASE pc' = "write"
    BY <1>11, <2>1, WritingStep
  <2>2. CASE pc' # "write"
    <3>1. /\ run' = Idle /\ pc' = "idle" /\ UNCHANGED <<yang, disk, promised>>
          /\ answer'.what = "key error"
      <4>1. /\ Say("key error") /\ pc' = "idle" /\ run' = Idle
            /\ UNCHANGED <<disk, promised, counted>> /\ UNCHANGED <<yang, runs, crashes>>
        BY <1>11, <2>2, Zenon DEF GenerateFile
      <4>2. QED
        BY <4>1 DEF Say
    <3>2. QED
      BY <3>1, EndedStep
  <2>3. QED
    BY <2>1, <2>2
<1>12. CASE Dump
  BY <1>12, DumpStep
<1>13. CASE Crash
  BY <1>13, EndedStep DEF Crash, Say
<1>14. CASE UNCHANGED vars
  <2>1. IInv <=> IInv'
    BY <1>14 DEF vars, IInv, Typed, Assigning, Taken, Generating, Present, WrittenIsValid,
                 Permanent, UpdateIsComplete, Readable, IsConsistent
  <2>2. QED
    BY <2>1
<1>15. QED
  BY <1>1, <1>2, <1>3, <1>4, <1>5, <1>6, <1>7, <1>8, <1>9, <1>10, <1>11, <1>12, <1>13, <1>14 DEF Next

LEMMA Invariance == Spec => []IInv
<1>1. QED
  BY InitInv, NextInv, PTL DEF Spec

(* A .sid file that the program wrote has disjoint ranges, and each item a *)
(* number of its own in one of them, whatever ranges the user adds and     *)
(* whatever numbers are in use: the generator never yields one twice.      *)
THEOREM WrittenValid == Spec => []WrittenIsValid
<1>1. IInv => WrittenIsValid
  BY DEF IInv
<1>2. QED
  BY <1>1, Invariance, PTL

(* A number once given to an item stays the item's in every file made from *)
(* that one, through any number of revisions and crashes.                  *)
THEOREM NumbersPermanent == Spec => []Permanent
<1>1. IInv => Permanent
  BY DEF IInv
<1>2. QED
  BY <1>1, Invariance, PTL

(* The file an update wrote lists the module as it was read, and a check   *)
(* has nothing to say about it.                                            *)
THEOREM UpdateComplete == Spec => []UpdateIsComplete
<1>1. IInv => UpdateIsComplete
  BY DEF IInv
<1>2. QED
  BY <1>1, Invariance, PTL

-----------------------------------------------------------------------------
(* Counting                                                                *)

\* The numbers of all the ranges.
NumbersIn(file) == UNION {r[1] .. r[1] + r[2] - 1 : r \in RangesOf(file)}

\* How many SIDs count says the update of f takes more than there are.
Missing(f) ==
  LET available == Allocated(disk[f]) - Cardinality(DOMAIN disk[f].items)
      extra == Cardinality(Unassigned(Collect(disk[f]).items)) - available
  IN IF extra > 0 THEN extra ELSE 0

Finite ==
  /\ IsFiniteSet(yang.items)
  /\ \A f \in Revs : IsFiniteSet(DOMAIN disk[f].items)
  /\ IsFiniteSet(DOMAIN run.file.items)

\* What was counted is still so.
Counted ==
  counted.file # 0 =>
    /\ counted.file \in Revs /\ Readable(counted.file)
    /\ counted.extra = Missing(counted.file)

\* The update of the file that was counted: no number of its ranges is left
\* behind that is not in use.
Enough == run.extra >= counted.extra

Behind ==
  /\ run.used \subseteq Used(run.file.items)
  /\ \A n \in NumbersIn(run.file) : Ahead(run, n) \/ n \in Used(run.file.items)

Extended(f, file, extra) ==
  extra \in Nat /\ Cardinality(NumbersIn(file)) = Cardinality(NumbersIn(disk[f])) + extra

Updating ==
  /\ run.input = counted.file =>
       /\ Extended(run.input, run.file, run.extra)
       /\ DOMAIN run.file.items = DOMAIN disk[run.input].items \cup yang.items
       /\ pc = "assign" => Behind
       /\ pc = "write" => Enough
  /\ run.input \in Revs

CountInv ==
  /\ Finite
  /\ Counted
  /\ pc # "idle" /\ run.op = "update" => Updating
  /\ pc = "write" => counted.file # yang.rev
  /\ pc # "idle" => answer = NoAnswer
  /\ CountIsExact

\* A set of numbers has a least one: the induction used below.
LEMMA Least ==
  ASSUME NEW S \in SUBSET Nat, S # {}
  PROVE  \E m \in S : \A k \in S : m <= k
<1> DEFINE R == {ss \in Nat \X Nat : ss[1] < ss[2]}
<1>1. IsWellFoundedOn(R, Nat)
  BY NatLessThanWellFounded DEF OpToRel
<1>2. PICK m \in S : \A k \in S : <<k, m>> \notin R
  BY <1>1, WFMin
<1>3. ASSUME NEW k \in S
      PROVE  m <= k
  <2>1. k \in Nat /\ m \in Nat
    OBVIOUS
  <2>2. ~(k < m)
    BY <1>2, <2>1
  <2>3. QED
    BY <2>1, <2>2
<1>4. QED
  BY <1>3

\* g is the recursive function of Allocated, up to k.
Sums(g, k, ranges) ==
  g = [i \in 0 .. k |-> IF i = 0 THEN 0 ELSE g[i - 1] + ranges[i][2]]

LEMMA SumExists ==
  ASSUME NEW ranges, NEW k \in Nat
  PROVE  \E g : Sums(g, k, ranges)
<1> DEFINE Bad == {j \in Nat : ~ \E g : Sums(g, j, ranges)}
<1>1. SUFFICES ASSUME Bad # {} PROVE FALSE
  OBVIOUS
<1>2. PICK j \in Bad : \A i \in Bad : j <= i
  BY <1>1, Least
<1>3. j \in Nat /\ ~ \E g : Sums(g, j, ranges)
  OBVIOUS
<1>4. j # 0
  <2>1. Sums([i \in 0 .. 0 |-> 0], 0, ranges)
    BY DEF Sums
  <2>2. QED
    BY <1>3, <2>1
<1>5. j - 1 \in Nat /\ j - 1 \notin Bad
  <2>1. j - 1 \in Nat /\ ~(j <= j - 1)
    BY <1>3, <1>4
  <2>2. QED
    BY <1>2, <2>1
<1>6. PICK g : Sums(g, j - 1, ranges)
  BY <1>5
<1> DEFINE f == [i \in 0 .. j |-> IF i = j THEN g[j - 1] + ranges[j][2] ELSE g[i]]
<1>7. ASSUME NEW i \in 0 .. j
      PROVE  f[i] = IF i = 0 THEN 0 ELSE f[i - 1] + ranges[i][2]
  <2>1. CASE i = j
    <3>1. j - 1 \in 0 .. j /\ j - 1 # j
      BY <1>3, <1>5
    <3>2. f[j - 1] = g[j - 1]
      BY <3>1
    <3>3. QED
      BY <1>4, <2>1, <3>2
  <2>2. CASE i # j
    <3>1. i \in 0 .. j - 1
      BY <1>3, <2>2
    <3>2. f[i] = g[i]
      BY <2>2
    <3>3. g[i] = IF i = 0 THEN 0 ELSE g[i - 1] + ranges[i][2]
      BY <1>6, <3>1 DEF Sums
    <3>4. i # 0 => f[i - 1] = g[i - 1]
      BY <3>1, <1>3
    <3>5. QED
      BY <3>2, <3>3, <3>4
  <2>3. QED
    BY <2>1, <2>2
<1>8. Sums(f, j, ranges)
  BY <1>7 DEF Sums
<1>9. QED
  BY <1>3, <1>8

\* A range has as many numbers as its size.
LEMMA RangeSize ==
  ASSUME NEW e \in Nat, NEW n \in Nat
  PROVE  IsFiniteSet(e .. e + n - 1) /\ Cardinality(e .. e + n - 1) = n
<1> DEFINE h == e + n - 1
<1>1. h \in Int /\ e \in Int /\ n = (IF e > h THEN 0 ELSE h - e + 1)
  OBVIOUS
<1> HIDE DEF h
<1>2. IsFiniteSet(e .. h) /\ Cardinality(e .. h) = (IF e > h THEN 0 ELSE h - e + 1)
  BY <1>1, FS_Interval
<1>3. QED
  BY <1>1, <1>2 DEF h

\* The numbers of the first k ranges.
NumbersTo(ranges, k) == UNION {ranges[i][1] .. ranges[i][1] + ranges[i][2] - 1 : i \in 1 .. k}

\* The sizes of ranges that do not overlap add up to how many numbers they hold.
LEMMA AllocatedIs ==
  ASSUME NEW file, IsContent(file), ~OverlappingRanges(file.ranges)
  PROVE  /\ IsFiniteSet(NumbersIn(file))
         /\ Allocated(file) = Cardinality(NumbersIn(file))
<1> DEFINE ranges == file.ranges
           N == Len(ranges)
           G == CHOOSE g : Sums(g, N, ranges)
           R(i) == ranges[i][1] .. ranges[i][1] + ranges[i][2] - 1
<1>1. /\ ranges \in Seq(Nat \X Nat) /\ N \in Nat /\ DOMAIN ranges = 1 .. N
      /\ \A i \in 1 .. N : ranges[i] \in Nat \X Nat
  BY DEF IsContent
<1>2. Sums(G, N, ranges)
  BY <1>1, SumExists
<1>3. Allocated(file) = G[N]
  BY DEF Allocated, Sums
<1> HIDE DEF G
<1> DEFINE Good(k) == IsFiniteSet(NumbersTo(ranges, k)) /\ G[k] = Cardinality(NumbersTo(ranges, k))
           Bad == {k \in 0 .. N : ~Good(k)}
<1>4. Bad = {}
  <2> SUFFICES ASSUME Bad # {} PROVE FALSE
    OBVIOUS
  <2>0. Bad \in SUBSET Nat
    BY <1>1
  <2>1. PICK k \in Bad : \A i \in Bad : k <= i
    <3> HIDE DEF Bad
    <3>1. QED
      BY <2>0, Least
  <2>2. k \in 0 .. N /\ ~Good(k)
    OBVIOUS
  <2>3. CASE k = 0
    <3>1. NumbersTo(ranges, 0) = {}
      BY DEF NumbersTo
    <3>2. G[0] = 0
      BY <1>1, <1>2 DEF Sums
    <3>3. QED
      BY <2>2, <2>3, <3>1, <3>2, FS_EmptySet
  <2>4. CASE k # 0
    <3>1. k - 1 \in 0 .. N /\ k \in 1 .. N /\ ~(k <= k - 1)
      BY <1>1, <2>2, <2>4
    <3>2. Good(k - 1)
      BY <2>1, <3>1
    <3>3. G[k] = G[k - 1] + ranges[k][2]
      BY <1>2, <2>2, <2>4 DEF Sums
    <3>4. ranges[k][1] \in Nat /\ ranges[k][2] \in Nat
      BY <1>1, <3>1
    <3>5. IsFiniteSet(R(k)) /\ Cardinality(R(k)) = ranges[k][2]
      BY <3>4, RangeSize
    <3>6. NumbersTo(ranges, k) = NumbersTo(ranges, k - 1) \cup R(k)
      <4>1. 1 .. k = (1 .. k - 1) \cup {k}
        BY <3>1
      <4>2. QED
        BY <4>1 DEF NumbersTo
    <3>7. NumbersTo(ranges, k - 1) \cap R(k) = {}
      <4> SUFFICES ASSUME NEW i \in 1 .. k - 1, NEW n \in R(i), n \in R(k) PROVE FALSE
        BY DEF NumbersTo
      <4>1. i \in 1 .. N /\ i < k
        BY <1>1, <3>1
      <4>2. ranges[i] \in Nat \X Nat
        BY <1>1, <4>1
      <4>3. ranges[i][1] \in Nat /\ ranges[i][2] \in Nat
        BY <4>2
      <4>4. ~Overlap(ranges[k], ranges[i]) /\ ~Overlap(ranges[i], ranges[k])
        BY <1>1, <3>1, <4>1 DEF OverlappingRanges
      <4> DEFINE a == ranges[i][1]
                 b == ranges[i][2]
                 c == ranges[k][1]
                 d == ranges[k][2]
      <4>5. ~(a <= c /\ c < a + b) /\ ~(c <= a /\ a < c + d)
        BY <4>4 DEF Overlap
      <4>6. n \in a .. a + b - 1 /\ n \in c .. c + d - 1
        OBVIOUS
      <4>7. a \in Nat /\ b \in Nat /\ c \in Nat /\ d \in Nat
        BY <3>4, <4>3
      <4> HIDE DEF a, b, c, d, R
      <4>8. QED
        BY <4>5, <4>6, <4>7
    <3>8. /\ IsFiniteSet(NumbersTo(ranges, k))
          /\ Cardinality(NumbersTo(ranges, k))
               = Cardinality(NumbersTo(ranges, k - 1)) + Cardinality(R(k)) - 0
      <4>1. Cardinality({}) = 0
        BY FS_EmptySet
      <4> DEFINE S == NumbersTo(ranges, k - 1)
                 T == R(k)
      <4>2. IsFiniteSet(S) /\ IsFiniteSet(T) /\ S \cap T = {} /\ NumbersTo(ranges, k) = S \cup T
        BY <3>2, <3>5, <3>6, <3>7
      <4> HIDE DEF S, T
      <4>3. /\ IsFiniteSet(S \cup T)
            /\ Cardinality(S \cup T) = Cardinality(S) + Cardinality(T) - Cardinality(S \cap T)
        BY <4>2, FS_Union
      <4>4. QED
        BY <4>1, <4>2, <4>3 DEF S, T
    <3>9. Good(k)
      <4>1. Cardinality(NumbersTo(ranges, k - 1)) \in Nat
        BY <3>2, FS_CardinalityType
      <4>2. QED
        BY <3>2, <3>3, <3>4, <3>5, <3>8, <4>1
    <3>10. QED
      BY <2>2, <3>9
  <2>5. QED
    BY <2>3, <2>4
<1>5. Good(N)
  BY <1>1, <1>4
<1>6. NumbersTo(ranges, N) = NumbersIn(file)
  BY <1>1 DEF NumbersTo, NumbersIn, RangesOf
<1>7. QED
  BY <1>3, <1>5, <1>6

\* A number is in the ranges if it is not out of them.
LEMMA InRanges ==
  ASSUME NEW file, IsContent(file), NEW n
  PROVE  /\ n \in Int => (n \in NumbersIn(file) <=> ~OutOfRanges(file.ranges, n))
         /\ n \in NumbersIn(file) => n \in Nat
<1>1. \A r \in RangesOf(file) : r[1] \in Nat /\ r[2] \in Nat
  BY DEF IsContent, RangesOf
<1>2. n \in NumbersIn(file) <=> \E r \in RangesOf(file) : n \in r[1] .. r[1] + r[2] - 1
  BY DEF NumbersIn
<1>3. ASSUME n \in Int, NEW r \in RangesOf(file)
      PROVE  n \in r[1] .. r[1] + r[2] - 1 <=> Holds(r, n)
  BY <1>1, <1>3 DEF Holds
<1>4. OutOfRanges(file.ranges, n) <=> \A r \in RangesOf(file) : ~Holds(r, n)
  BY DEF OutOfRanges, RangesOf
<1>5. n \in NumbersIn(file) => n \in Nat
  BY <1>1, <1>2
<1>6. QED
  BY <1>2, <1>3, <1>4, <1>5

\* Items that all have a number are no more than there are numbers.
LEMMA EachHasOne ==
  ASSUME NEW file, IsContent(file), Given(file), IsFiniteSet(DOMAIN file.items),
         Unassigned(file.items) = {}
  PROVE  Cardinality(DOMAIN file.items) <= Cardinality(NumbersIn(file))
<1> DEFINE D == DOMAIN file.items
           f == [i \in D |-> file.items[i].sid]
<1>1. \A i \in D : file.items[i].sid \in Int /\ file.items[i].sid # -1
  BY DEF IsContent, Unassigned
<1>2. \A i \in D : file.items[i].sid \in NumbersIn(file)
  BY <1>1, InRanges DEF Given
<1>3. \A i, j \in D : file.items[i].sid = file.items[j].sid => i = j
  BY <1>1 DEF Given
<1>4. f \in Injection(D, NumbersIn(file))
  BY <1>2, <1>3 DEF Injection, IsInjective
<1>5. IsFiniteSet(NumbersIn(file))
  BY AllocatedIs DEF Given
<1>6. QED
  BY <1>4, <1>5, FS_Injection

\* When all numbers are in use and an item has none, the numbers are fewer.
LEMMA NoneLeft ==
  ASSUME NEW file, IsContent(file), Given(file), IsFiniteSet(DOMAIN file.items),
         Unassigned(file.items) # {}, NumbersIn(file) \subseteq Used(file.items)
  PROVE  Cardinality(NumbersIn(file)) < Cardinality(DOMAIN file.items)
<1>1. PICK u \in DOMAIN file.items : file.items[u].sid = -1
  BY DEF Unassigned
<1> DEFINE D == DOMAIN file.items \ {u}
           T == {file.items[i].sid : i \in D}
           f == [i \in D |-> file.items[i].sid]
<1>2. IsFiniteSet(D) /\ Cardinality(D) = Cardinality(DOMAIN file.items) - 1
  BY <1>1, FS_RemoveElement
<1>3. f \in Surjection(D, T)
  BY DEF Surjection
<1>4. IsFiniteSet(T) /\ Cardinality(T) <= Cardinality(D)
  BY <1>2, <1>3, FS_Surjection
<1>5. NumbersIn(file) \subseteq T
  BY <1>1 DEF Used
<1> HIDE DEF T
<1>6. Cardinality(NumbersIn(file)) <= Cardinality(T)
  BY <1>4, <1>5, FS_Subset
<1>7. IsFiniteSet(NumbersIn(file))
  BY AllocatedIs DEF Given
<1>8. Cardinality(NumbersIn(file)) \in Nat /\ Cardinality(T) \in Nat /\ Cardinality(D) \in Nat
  BY <1>2, <1>4, <1>7, FS_CardinalityType
<1>9. Cardinality(DOMAIN file.items) \in Nat
  BY FS_CardinalityType
<1>10. QED
  BY <1>2, <1>4, <1>6, <1>8, <1>9

\* What is missing, in numbers of the ranges and of items.
LEMMA MissingIs ==
  ASSUME Typed, Finite, NEW f \in Revs, Readable(f)
  PROVE  LET more == Cardinality(DOMAIN disk[f].items \cup yang.items) - Cardinality(NumbersIn(disk[f]))
         IN  /\ Missing(f) = IF more > 0 THEN more ELSE 0
             /\ Cardinality(DOMAIN disk[f].items \cup yang.items) \in Nat
             /\ Cardinality(NumbersIn(disk[f])) \in Nat
<1> DEFINE D == DOMAIN disk[f].items
           Y == yang.items
           C == Collect(disk[f]).items
<1>1. IsContent(disk[f]) /\ Valid(disk[f])
  BY DEF Typed, Readable
<1>2. \A i \in D : disk[f].items[i].sid # -1
  BY <1>1, ValidIsGiven
<1>3. /\ DOMAIN C = D \cup Y
      /\ \A i \in DOMAIN C : C[i].sid = IF i \in D THEN disk[f].items[i].sid ELSE -1
  BY <1>1, Collected
<1> HIDE DEF C
<1>4. Unassigned(C) = (D \cup Y) \ D
  BY <1>2, <1>3 DEF Unassigned
<1>5. IsFiniteSet(D) /\ IsFiniteSet(Y) /\ IsFiniteSet(D \cup Y)
  BY FS_Union DEF Finite
<1>6. Cardinality((D \cup Y) \ D) = Cardinality(D \cup Y) - Cardinality((D \cup Y) \cap D)
  BY <1>5, FS_Difference
<1>7. (D \cup Y) \cap D = D
  OBVIOUS
<1>8. Cardinality(D) \in Nat /\ Cardinality(D \cup Y) \in Nat
  BY <1>5, FS_CardinalityType
<1>9. /\ Allocated(disk[f]) = Cardinality(NumbersIn(disk[f]))
      /\ Cardinality(NumbersIn(disk[f])) \in Nat
  BY <1>1, AllocatedIs, FS_CardinalityType DEF Valid
<1> DEFINE u == Cardinality(Unassigned(C))
           a == Cardinality(NumbersIn(disk[f]))
           d == Cardinality(D)
           dy == Cardinality(D \cup Y)
<1>10. u = dy - d /\ dy \in Nat /\ d \in Nat /\ a \in Nat
  BY <1>4, <1>6, <1>7, <1>8, <1>9
<1>11. Missing(f) = IF u - (a - d) > 0 THEN u - (a - d) ELSE 0
  BY <1>9 DEF Missing, C
<1> HIDE DEF u, a, d, dy
<1>12. u - (a - d) = dy - a
  BY <1>10
<1>13. QED
  BY <1>8, <1>9, <1>11, <1>12 DEF a, dy

-----------------------------------------------------------------------------
(* A count stays exact                                                     *)

\* What does not change the answer to a count.
LEMMA StillCounted ==
  ASSUME Typed, Typed', Counted, UNCHANGED <<yang, counted>>,
         counted.file # 0 => disk'[counted.file] = disk[counted.file]
  PROVE  Counted'
<1> SUFFICES ASSUME counted.file # 0
             PROVE  Readable(counted.file)' /\ counted.extra = Missing(counted.file)'
  BY DEF Counted
<1>1. Readable(counted.file) /\ counted.extra = Missing(counted.file)
  BY DEF Counted
<1>2. Readable(counted.file)'
  BY <1>1 DEF Readable
<1>3. Missing(counted.file)' = Missing(counted.file)
  BY DEF Missing, Collect, BuildDependencies, CollectModuleItems
<1>4. QED
  BY <1>1, <1>2, <1>3

LEMMA IdleFinite == IsFiniteSet(DOMAIN Idle.file.items)
<1>1. Idle.file = Content
  BY DEF Idle
<1>2. Content.items = <<>>
  BY DEF Content
<1>3. DOMAIN <<>> = {}
  OBVIOUS
<1>4. QED
  BY <1>1, <1>2, <1>3, FS_EmptySet

\* An answer that ends or refuses a run and says nothing of numbers.
LEMMA SilentStep ==
  ASSUME Typed, Typed', CountInv, UNCHANGED <<yang, disk, counted>>,
         pc' = "idle", run' \in {run, Idle},
         \/ answer'.what \notin {"exhausted", "written", "up to date"}
         \/ answer'.op # "update"
  PROVE  CountInv'
<1>1. Finite'
  BY IdleFinite DEF CountInv, Finite
<1>2. Counted'
  BY StillCounted DEF CountInv
<1>3. CountIsExact'
  BY DEF CountIsExact
<1>4. QED
  BY <1>1, <1>2, <1>3 DEF CountInv

LEMMA EditCounts ==
  ASSUME CountInv, NEW rev, NEW items \in SUBSET Items, NEW imp, Edit(rev, items, imp)
  PROVE  CountInv'
<1>1. /\ yang'.items = items \cup {Item0}
      /\ answer' = NoAnswer /\ counted' = NoCount /\ pc' = "idle"
      /\ UNCHANGED <<disk, run>>
  BY DEF Edit
<1>2. IsFiniteSet(items \cup {Item0})
  BY SidFileAssumption, FS_Subset, FS_AddElement
<1>3. Finite'
  BY <1>1, <1>2 DEF CountInv, Finite
<1>4. Counted' /\ CountIsExact'
  BY <1>1 DEF Counted, CountIsExact, NoCount, NoAnswer, None
<1>5. QED
  BY <1>1, <1>3, <1>4 DEF CountInv

LEMMA CountCounts ==
  ASSUME Typed, CountInv, NEW f \in Revs, Count(f)
  PROVE  CountInv'
<1>1. /\ pc = "idle" /\ Readable(f) /\ answer'.op = "count"
      /\ UNCHANGED <<yang, disk, run, pc>>
      /\ counted' = [file |-> f, extra |-> Missing(f)]
  BY DEF Count, Answer, Missing
<1>2. Finite'
  BY <1>1 DEF CountInv, Finite
<1>3. Counted'
  <2>1. Readable(f)' /\ Missing(f)' = Missing(f)
    BY <1>1 DEF Readable, Missing, Collect, BuildDependencies, CollectModuleItems
  <2>2. counted'.file = f /\ counted'.extra = Missing(f)
    BY <1>1
  <2>3. QED
    BY <2>1, <2>2 DEF Counted
<1>4. CountIsExact'
  BY <1>1 DEF CountIsExact
<1>5. QED
  BY <1>1, <1>2, <1>3, <1>4 DEF CountInv

\* How many numbers the update has, and how many the count said it takes.
LEMMA Balance ==
  ASSUME Typed, Finite, Counted, NEW f \in Revs, f = counted.file, NEW file, NEW extra,
         Extended(f, file, extra), DOMAIN file.items = DOMAIN disk[f].items \cup yang.items
  PROVE  /\ Cardinality(NumbersIn(file)) < Cardinality(DOMAIN file.items) => extra < counted.extra
         /\ Cardinality(DOMAIN file.items) <= Cardinality(NumbersIn(file)) => extra >= counted.extra
<1> DEFINE n == Cardinality(NumbersIn(disk[f]))
           d == Cardinality(DOMAIN disk[f].items \cup yang.items)
           m == Cardinality(NumbersIn(file))
<1>1. Readable(f) /\ counted.extra = Missing(f)
  BY SidFileAssumption DEF Counted, Revs
<1>2. /\ n \in Nat /\ d \in Nat
      /\ Missing(f) = IF d - n > 0 THEN d - n ELSE 0
  BY <1>1, MissingIs
<1>3. extra \in Nat /\ m = n + extra
  BY DEF Extended
<1>4. Cardinality(DOMAIN file.items) = d
  OBVIOUS
<1> HIDE DEF n, d, m
<1>5. /\ m < d => extra < counted.extra
      /\ d <= m => extra >= counted.extra
  BY <1>1, <1>2, <1>3
<1>6. QED
  BY <1>4, <1>5 DEF m

LEMMA BeginCounts ==
  ASSUME IInv, IInv', pc = "idle", CountInv, NEW op, NEW f, NEW file, NEW extra, NEW fin,
         Acceptable(f, file), Begin(op, f, file, extra, fin),
         op = "update" => f \in Revs /\ Extended(f, file, extra)
  PROVE  CountInv'
<1> DEFINE c == Collect(file)
<1>1. /\ IsContent(c) /\ c.ranges = file.ranges
      /\ DOMAIN c.items = DOMAIN file.items \cup yang.items
      /\ \A i \in DOMAIN c.items :
           c.items[i].sid = IF i \in DOMAIN file.items THEN file.items[i].sid ELSE -1
  BY Collected DEF Acceptable
<1>2. /\ run'.file = c /\ run'.input = f /\ run'.used = Used(file.items)
      /\ run'.ranges = RangesOf(file) /\ run'.sid = 0 /\ run'.high = 0
      /\ run'.op = op /\ run'.extra = extra
      /\ pc' = "assign" /\ answer' = NoAnswer
      /\ UNCHANGED <<yang, disk, counted>>
  BY DEF Begin, RangesOf
<1> HIDE DEF c
<1>3. Typed /\ Typed'
  BY DEF IInv
<1>4. file.items = <<>> \/ (f \in Revs /\ file.items = disk[f].items)
  BY DEF Acceptable
<1>5. IsFiniteSet(DOMAIN file.items)
  <2>1. IsFiniteSet(DOMAIN <<>>)
    BY FS_EmptySet
  <2>2. QED
    BY <1>4, <2>1 DEF CountInv, Finite
<1>6. Finite'
  <2>1. IsFiniteSet(DOMAIN file.items \cup yang.items)
    BY <1>5, FS_Union DEF CountInv, Finite
  <2>2. DOMAIN run'.file.items = DOMAIN file.items \cup yang.items
    BY <1>1, <1>2
  <2>3. QED
    BY <1>2, <2>1, <2>2 DEF CountInv, Finite
<1>7. Counted'
  BY <1>2, <1>3, StillCounted DEF CountInv
<1>8. CountIsExact'
  BY <1>2 DEF CountIsExact, NoAnswer, None
<1>9. ASSUME op = "update"
      PROVE  Updating'
  <2>1. f \in Revs /\ Extended(f, file, extra) /\ f # 0
    BY <1>9, SidFileAssumption DEF Revs
  <2>2. NumbersIn(c) = NumbersIn(file)
    BY <1>1 DEF NumbersIn, RangesOf
  <2>3. Extended(run.input, run.file, run.extra)'
    <3>1. NumbersIn(run'.file) = NumbersIn(file)
      BY <1>2, <2>2
    <3>2. NumbersIn(disk'[run'.input]) = NumbersIn(disk[f])
      BY <1>2
    <3>3. run'.extra = extra
      BY <1>2
    <3>4. QED
      BY <2>1, <3>1, <3>2, <3>3 DEF Extended
  <2>4. (DOMAIN run.file.items = DOMAIN disk[run.input].items \cup yang.items)'
    <3>1. DOMAIN c.items = DOMAIN disk[f].items \cup yang.items
      BY <1>1, <2>1 DEF Acceptable
    <3>2. QED
      BY <1>2, <3>1
  <2>5. Behind'
    <3>1. Used(file.items) \subseteq Used(c.items)
      BY <1>1 DEF Used
    <3>2. ASSUME NEW n \in NumbersIn(file)
          PROVE  Ahead(run, n)'
      <4>1. IsContent(file) /\ n \in Nat
        BY InRanges DEF Acceptable
      <4>2. ~OutOfRanges(file.ranges, n)
        BY <4>1, InRanges
      <4>3. \E r \in RangesOf(file) : Holds(r, n)
        BY <4>2 DEF OutOfRanges, RangesOf
      <4>4. QED
        BY <1>2, <4>3 DEF Ahead
    <3>3. run'.used \subseteq Used(run'.file.items) /\ NumbersIn(run'.file) = NumbersIn(file)
      BY <1>2, <2>2, <3>1
    <3>4. QED
      BY <3>2, <3>3 DEF Behind
  <2>6. QED
    BY <1>2, <2>1, <2>3, <2>4, <2>5 DEF Updating
<1>10. QED
  BY <1>2, <1>6, <1>7, <1>8, <1>9 DEF CountInv

\* A run that ends with what the count has said.
LEMMA EndedCounts ==
  ASSUME Typed, Typed', CountInv, run' = Idle, pc' = "idle", UNCHANGED <<yang, disk, counted>>,
         answer'.op = run.op, answer'.input = run.input, answer'.extra = run.extra,
         run.op = "update" /\ run.input = counted.file =>
           \/ answer'.what = "exhausted" /\ run.extra < counted.extra
           \/ answer'.what # "exhausted" /\ run.extra >= counted.extra
  PROVE  CountInv'
<1>1. Finite'
  BY IdleFinite DEF CountInv, Finite
<1>2. Counted'
  BY StillCounted DEF CountInv
<1>3. CountIsExact'
  BY DEF CountIsExact
<1>4. QED
  BY <1>1, <1>2, <1>3 DEF CountInv

LEMMA GeneratorCounts ==
  ASSUME Typed, Typed', CountInv, pc = "assign", UNCHANGED <<yang, disk, pc, answer, counted>>,
         run'.input = run.input, run'.op = run.op, run'.extra = run.extra,
         run'.file.ranges = run.file.ranges, DOMAIN run'.file.items = DOMAIN run.file.items,
         Behind /\ Updating => Behind'
  PROVE  CountInv'
<1>1. Finite'
  BY DEF CountInv, Finite
<1>2. Counted'
  BY StillCounted DEF CountInv
<1>3. CountIsExact'
  BY DEF CountInv, CountIsExact
<1>4. ASSUME run.op = "update"
      PROVE  Updating'
  <2>1. Updating
    BY <1>4 DEF CountInv
  <2>2. NumbersIn(run'.file) = NumbersIn(run.file)
    BY DEF NumbersIn, RangesOf
  <2>3. CASE run.input = counted.file
    <3>1. Extended(run.input, run.file, run.extra)'
      BY <2>1, <2>2, <2>3 DEF Updating, Extended
    <3>2. Behind'
      BY <2>1, <2>3 DEF Updating
    <3>3. QED
      BY <2>1, <2>3, <3>1, <3>2 DEF Updating
  <2>4. CASE run.input # counted.file
    BY <2>1, <2>4 DEF Updating
  <2>5. QED
    BY <2>3, <2>4
<1>5. QED
  BY <1>1, <1>2, <1>3, <1>4 DEF CountInv

LEMMA NextRangeCounts ==
  ASSUME IInv, IInv', CountInv, NextRange
  PROVE  CountInv'
<1>0. Typed /\ Typed' /\ IsRun(run) /\ pc = "assign" /\ run.sid >= run.high
  BY DEF IInv, Typed, NextRange
<1>1. PICK r \in run.ranges :
        /\ run' = [run EXCEPT !.ranges = @ \ {r}, !.sid = r[1], !.high = r[1] + r[2]]
        /\ UNCHANGED <<yang, disk, pc, answer, counted>>
  BY DEF NextRange
<1>2. /\ run'.ranges = run.ranges \ {r} /\ run'.sid = r[1] /\ run'.high = r[1] + r[2]
      /\ run'.file = run.file /\ run'.input = run.input /\ run'.used = run.used
      /\ run'.op = run.op /\ run'.extra = run.extra
  BY <1>0, <1>1 DEF IsRun
<1>3. ASSUME NEW n \in Nat, Ahead(run, n)
      PROVE  Ahead(run', n)
  BY <1>0, <1>2, <1>3 DEF Ahead, Holds, IsRun
<1>4. ASSUME Behind, Updating
      PROVE  Behind'
  <2>1. IsContent(run.file)
    BY <1>0 DEF IsRun
  <2>2. \A n \in NumbersIn(run.file) : n \in Nat
    BY <2>1, InRanges
  <2>3. QED
    BY <1>2, <1>3, <1>4, <2>2 DEF Behind
<1>5. QED
  BY <1>0, <1>1, <1>2, <1>4, GeneratorCounts

LEMMA SkipUsedCounts ==
  ASSUME IInv, IInv', CountInv, SkipUsed
  PROVE  CountInv'
<1>0. Typed /\ Typed' /\ IsRun(run) /\ pc = "assign" /\ run.sid \in run.used
  BY DEF IInv, Typed, SkipUsed
<1>1. /\ run' = [run EXCEPT !.sid = @ + 1]
      /\ UNCHANGED <<yang, disk, pc, answer, counted>>
  BY DEF SkipUsed
<1>2. /\ run'.sid = run.sid + 1 /\ run'.high = run.high /\ run'.ranges = run.ranges
      /\ run'.file = run.file /\ run'.input = run.input /\ run'.used = run.used
      /\ run'.op = run.op /\ run'.extra = run.extra
  BY <1>0, <1>1 DEF IsRun
<1>3. ASSUME NEW n \in Nat, Ahead(run, n)
      PROVE  Ahead(run', n) \/ n = run.sid
  BY <1>0, <1>2, <1>3 DEF Ahead, IsRun
<1>4. ASSUME Behind, Updating
      PROVE  Behind'
  <2>1. IsContent(run.file)
    BY <1>0 DEF IsRun
  <2>2. \A n \in NumbersIn(run.file) : n \in Nat
    BY <2>1, InRanges
  <2>3. QED
    BY <1>0, <1>2, <1>3, <1>4, <2>2 DEF Behind
<1>5. QED
  BY <1>0, <1>1, <1>2, <1>4, GeneratorCounts

LEMMA YieldCounts ==
  ASSUME IInv, IInv', CountInv, Yield
  PROVE  CountInv'
<1>0. Typed /\ Typed' /\ IsRun(run) /\ pc = "assign"
  BY DEF IInv, Typed, Yield
<1> DEFINE e == [sid |-> run.sid, status |-> "unstable"]
<1>1. PICK i \in Unassigned(run.file.items) :
        /\ run' = [run EXCEPT !.file.items[i] = e, !.sid = @ + 1]
        /\ UNCHANGED <<yang, disk, pc, answer, counted>>
  BY DEF Yield
<1>2. i \in DOMAIN run.file.items /\ run.file.items[i].sid = -1
  BY DEF Unassigned
<1>3. /\ run'.sid = run.sid + 1 /\ run'.high = run.high /\ run'.ranges = run.ranges
      /\ run'.input = run.input /\ run'.used = run.used
      /\ run'.op = run.op /\ run'.extra = run.extra
      /\ run'.file = [run.file EXCEPT !.items[i] = e]
  BY <1>0, <1>1 DEF IsRun
<1>4. /\ run'.file.ranges = run.file.ranges
      /\ run'.file.items = [run.file.items EXCEPT ![i] = e]
  BY <1>0, <1>3 DEF IsRun, IsContent
<1>5. /\ DOMAIN run'.file.items = DOMAIN run.file.items
      /\ \A j \in DOMAIN run.file.items :
           run'.file.items[j].sid = IF j = i THEN run.sid ELSE run.file.items[j].sid
  BY <1>4
<1>6. /\ Used(run.file.items) \subseteq Used(run'.file.items)
      /\ run.sid \in Nat => run.sid \in Used(run'.file.items)
  BY <1>2, <1>5 DEF Used
<1>7. ASSUME NEW n \in Nat, Ahead(run, n)
      PROVE  Ahead(run', n) \/ n = run.sid
  BY <1>0, <1>3, <1>7 DEF Ahead, IsRun
<1>8. ASSUME Behind, Updating
      PROVE  Behind'
  <2>1. IsContent(run.file)
    BY <1>0 DEF IsRun
  <2>2. \A n \in NumbersIn(run.file) : n \in Nat
    BY <2>1, InRanges
  <2>3. NumbersIn(run'.file) = NumbersIn(run.file)
    BY <1>4 DEF NumbersIn, RangesOf
  <2>4. QED
    BY <1>3, <1>6, <1>7, <1>8, <2>2, <2>3 DEF Behind
<1>9. QED
  BY <1>0, <1>1, <1>3, <1>4, <1>5, <1>8, GeneratorCounts

LEMMA ExhaustedCounts ==
  ASSUME IInv, IInv', CountInv, Exhausted
  PROVE  CountInv'
<1>0. /\ Typed /\ Typed' /\ IsRun(run) /\ Given(run.file) /\ pc = "assign"
      /\ Unassigned(run.file.items) # {} /\ run.sid >= run.high /\ run.ranges = {}
  BY DEF IInv, Typed, Assigning, Exhausted
<1>1. /\ answer'.op = run.op /\ answer'.input = run.input /\ answer'.extra = run.extra
      /\ answer'.what = "exhausted"
      /\ run' = Idle /\ pc' = "idle" /\ UNCHANGED <<yang, disk, counted>>
  BY DEF Exhausted, Say, Answer
<1>2. ASSUME run.op = "update", run.input = counted.file
      PROVE  run.extra < counted.extra
  <2>1. Updating /\ Behind
    BY <1>0, <1>2 DEF CountInv, Updating
  <2>2. IsContent(run.file) /\ IsFiniteSet(DOMAIN run.file.items)
    BY <1>0 DEF IsRun, CountInv, Finite
  <2>3. NumbersIn(run.file) \subseteq Used(run.file.items)
    <3>1. \A n \in NumbersIn(run.file) : n \in Nat
      BY <2>2, InRanges
    <3>2. \A n \in Nat : ~Ahead(run, n)
      BY <1>0 DEF Ahead, IsRun
    <3>3. QED
      BY <2>1, <3>1, <3>2 DEF Behind
  <2>4. Cardinality(NumbersIn(run.file)) < Cardinality(DOMAIN run.file.items)
    BY <1>0, <2>2, <2>3, NoneLeft
  <2>5. QED
    BY <1>0, <1>2, <2>1, <2>4, Balance DEF CountInv, Updating
<1>3. QED
  BY <1>0, <1>1, <1>2, EndedCounts

\* A run with numbers for all items.
LEMMA HasEnough ==
  ASSUME IInv, CountInv, pc = "assign", Unassigned(run.file.items) = {},
         run.op = "update", run.input = counted.file
  PROVE  Enough
<1>0. Typed /\ IsRun(run) /\ Given(run.file)
  BY DEF IInv, Typed, Assigning
<1>1. Updating
  BY DEF CountInv
<1>2. IsContent(run.file) /\ IsFiniteSet(DOMAIN run.file.items)
  BY <1>0 DEF IsRun, CountInv, Finite
<1>3. Cardinality(DOMAIN run.file.items) <= Cardinality(NumbersIn(run.file))
  BY <1>0, <1>2, EachHasOne
<1>4. run.extra >= counted.extra
  BY <1>0, <1>1, <1>3, Balance DEF CountInv, Updating
<1>5. QED
  BY <1>4 DEF Enough

LEMMA ReportCounts ==
  ASSUME IInv, IInv', CountInv, Report
  PROVE  CountInv'
<1>0. /\ Typed /\ Typed' /\ pc = "assign" /\ Unassigned(run.file.items) = {}
      /\ run' = Idle /\ pc' = "idle" /\ UNCHANGED <<yang, disk, counted>>
  BY DEF IInv, Report
<1>1. PICK what \in {"ok", "outdated", "up to date"} : Say(what)
  <2>1. Say("ok") \/ Say("outdated") \/ Say("up to date")
    BY Zenon DEF Report
  <2>2. QED
    BY <2>1
<1>2. /\ answer'.op = run.op /\ answer'.input = run.input /\ answer'.extra = run.extra
      /\ answer'.what # "exhausted"
  <2>1. answer' = [op |-> run.op, input |-> run.input, extra |-> run.extra, what |-> what]
    BY <1>1 DEF Say, Answer
  <2>2. QED
    BY <1>1, <2>1
<1>3. run.op = "update" /\ run.input = counted.file => run.extra >= counted.extra
  BY <1>0, HasEnough DEF Enough
<1>4. QED
  BY <1>0, <1>2, <1>3, EndedCounts

LEMMA GenerateFileCounts ==
  ASSUME IInv, IInv', CountInv, GenerateFile, pc' = "write"
  PROVE  CountInv'
<1>0. /\ Typed /\ Typed' /\ IsRun(run) /\ pc = "assign" /\ Unassigned(run.file.items) = {}
      /\ yang.rev \in Revs /\ answer = NoAnswer
  BY DEF IInv, Typed, GenerateFile, CountInv
<1> DEFINE items == IF run.finalize THEN Finalized(run.file.items) ELSE run.file.items
<1>1. /\ run' = [run EXCEPT !.file.items = items]
      /\ disk' = [disk EXCEPT ![yang.rev] = Torn]
      /\ counted' = IF counted.file = yang.rev THEN NoCount ELSE counted
      /\ UNCHANGED <<yang, answer>>
  <2>1. ~(Say("key error") /\ pc' = "idle" /\ run' = Idle)
    OBVIOUS
  <2>2. QED
    BY <2>1, Zenon DEF GenerateFile, items
<1>2. DOMAIN items = DOMAIN run.file.items
  BY DEF Finalized
<1> HIDE DEF items
<1>3. /\ run'.file = [run.file EXCEPT !.items = items] /\ run'.input = run.input
      /\ run'.op = run.op /\ run'.extra = run.extra
  BY <1>0, <1>1 DEF IsRun
<1>4. run'.file.ranges = run.file.ranges /\ run'.file.items = items
  BY <1>0, <1>3 DEF IsRun, IsContent
<1>5. /\ disk'[yang.rev] = Torn
      /\ \A f \in Revs : f # yang.rev => disk'[f] = disk[f]
  BY <1>0, <1>1 DEF Typed
<1>6. Finite'
  <2>1. IsFiniteSet(DOMAIN Torn.items)
    <3>1. Torn.items = <<>>
      BY DEF Torn, Content
    <3>2. DOMAIN <<>> = {}
      OBVIOUS
    <3>3. QED
      BY <3>1, <3>2, FS_EmptySet
  <2>2. \A f \in Revs : IsFiniteSet(DOMAIN disk'[f].items)
    BY <1>5, <2>1 DEF CountInv, Finite
  <2>3. IsFiniteSet(DOMAIN run'.file.items)
    BY <1>2, <1>4 DEF CountInv, Finite
  <2>4. QED
    BY <1>1, <2>2, <2>3 DEF CountInv, Finite
<1>7. CASE counted.file = yang.rev
  <2>1. counted'.file = 0 /\ counted'.extra = 0
    BY <1>1, <1>7 DEF NoCount
  <2>2. yang'.rev # 0 /\ yang' = yang
    BY <1>0, <1>1, SidFileAssumption DEF Revs
  <2>3. Counted'
    BY <2>1 DEF Counted
  <2>4. CountIsExact'
    <3>1. answer'.op = None
      BY <1>0, <1>1 DEF CountInv, NoAnswer
    <3>2. QED
      BY <3>1 DEF CountIsExact, None
  <2>5. ASSUME run.op = "update"
        PROVE  Updating'
    <3>1. run.input \in Revs /\ run.input # 0
      BY <1>0, <2>5, SidFileAssumption DEF CountInv, Updating, Revs
    <3>2. QED
      BY <1>3, <2>1, <3>1 DEF Updating
  <2>6. QED
    BY <1>0, <1>1, <1>3, <1>6, <2>1, <2>2, <2>3, <2>4, <2>5 DEF CountInv
<1>8. CASE counted.file # yang.rev
  <2>1. counted' = counted /\ yang' = yang /\ answer' = answer
    BY <1>1, <1>8
  <2>2. counted.file # 0 => counted.file \in Revs /\ disk'[counted.file] = disk[counted.file]
    BY <1>5, <1>8 DEF CountInv, Counted
  <2>3. Counted'
    BY <1>0, <2>1, <2>2, StillCounted DEF CountInv
  <2>4. CountIsExact'
    BY <2>1 DEF CountInv, CountIsExact
  <2>5. ASSUME run.op = "update"
        PROVE  Updating'
    <3>1. Updating /\ run.input \in Revs
      BY <1>0, <2>5 DEF CountInv, Updating
    <3>2. CASE run.input = counted.file
      <4>1. disk'[run.input] = disk[run.input]
        BY <1>5, <1>8, <3>1, <3>2
      <4>2. NumbersIn(run'.file) = NumbersIn(run.file)
        BY <1>4 DEF NumbersIn, RangesOf
      <4>3. Extended(run.input, run.file, run.extra)'
        <5>1. NumbersIn(disk'[run'.input]) = NumbersIn(disk[run.input])
          BY <1>3, <4>1
        <5>2. run'.extra = run.extra
          BY <1>3
        <5>3. QED
          BY <3>1, <3>2, <4>2, <5>1, <5>2 DEF Updating, Extended
      <4>4. (DOMAIN run.file.items = DOMAIN disk[run.input].items \cup yang.items)'
        BY <1>2, <1>3, <1>4, <2>1, <3>1, <3>2, <4>1 DEF Updating
      <4>5. run.extra >= counted.extra
        BY <1>0, <2>5, <3>2, HasEnough DEF Enough
      <4>6. Enough'
        BY <1>3, <2>1, <4>5 DEF Enough
      <4>7. QED
        BY <1>3, <3>1, <4>3, <4>4, <4>6 DEF Updating
    <3>3. CASE run.input # counted.file
      BY <1>3, <2>1, <3>1, <3>3 DEF Updating
    <3>4. QED
      BY <3>2, <3>3
  <2>6. QED
    BY <1>0, <1>3, <1>6, <1>8, <2>1, <2>3, <2>4, <2>5 DEF CountInv
<1>9. QED
  BY <1>7, <1>8

LEMMA DumpCounts ==
  ASSUME IInv, IInv', CountInv, Dump
  PROVE  CountInv'
<1>0. Typed /\ Typed' /\ pc = "write" /\ yang.rev \in Revs
  BY DEF IInv, Typed, Dump
<1>1. /\ disk' = [disk EXCEPT ![yang.rev] = run.file]
      /\ answer'.op = run.op /\ answer'.input = run.input /\ answer'.extra = run.extra
      /\ answer'.what = "written"
      /\ run' = Idle /\ pc' = "idle" /\ UNCHANGED <<yang, counted>>
  BY DEF Dump, Say, Answer
<1>2. \A f \in Revs : disk'[f] = IF f = yang.rev THEN run.file ELSE disk[f]
  BY <1>0, <1>1 DEF Typed
<1>3. Finite'
  BY <1>1, <1>2, IdleFinite DEF CountInv, Finite
<1>4. Counted'
  <2>1. counted.file # 0 => disk'[counted.file] = disk[counted.file]
    BY <1>0, <1>2 DEF CountInv, Counted
  <2>2. QED
    BY <1>0, <1>1, <2>1, StillCounted DEF CountInv
<1>5. CountIsExact'
  BY <1>0, <1>1 DEF CountInv, CountIsExact, Updating, Enough
<1>6. QED
  BY <1>1, <1>3, <1>4, <1>5 DEF CountInv

-----------------------------------------------------------------------------
(* Starting an update                                                      *)

\* Ranges that do not overlap, and one more that overlaps none of them.
LEMMA OneMore ==
  ASSUME NEW f, NEW file, NEW extra \in Nat \X Nat, IsContent(f), IsContent(file),
         file.ranges = Append(f.ranges, extra), ~OverlappingRanges(f.ranges),
         ~OverlappingRanges(file.ranges)
  PROVE  Cardinality(NumbersIn(file)) = Cardinality(NumbersIn(f)) + extra[2]
<1> DEFINE R == extra[1] .. extra[1] + extra[2] - 1
           N == NumbersIn(f)
           q == f.ranges
<1>1. /\ q \in Seq(Nat \X Nat) /\ extra[1] \in Nat /\ extra[2] \in Nat
      /\ Len(q) \in Nat /\ DOMAIN q = 1 .. Len(q)
  BY DEF IsContent
<1>2. /\ DOMAIN file.ranges = 1 .. Len(q) + 1
      /\ \A i \in 1 .. Len(q) : file.ranges[i] = q[i]
      /\ file.ranges[Len(q) + 1] = extra
  BY <1>1
<1> HIDE DEF q
<1>3. NumbersIn(file) = N \cup R
  <2>1. RangesOf(file) = RangesOf(f) \cup {extra}
    <3>1. 1 .. Len(q) + 1 = (1 .. Len(q)) \cup {Len(q) + 1}
      BY <1>1
    <3>2. RangesOf(f) = {q[i] : i \in 1 .. Len(q)}
      BY <1>1 DEF RangesOf, q
    <3>3. RangesOf(file) = {file.ranges[i] : i \in 1 .. Len(q) + 1}
      BY <1>2 DEF RangesOf
    <3>4. QED
      BY <1>2, <3>1, <3>2, <3>3
  <2>2. QED
    BY <2>1 DEF NumbersIn
<1>4. IsFiniteSet(N) /\ IsFiniteSet(R) /\ Cardinality(R) = extra[2]
  BY <1>1, AllocatedIs, RangeSize
<1>5. N \cap R = {}
  <2> SUFFICES ASSUME NEW n \in N, n \in R PROVE FALSE
    OBVIOUS
  <2>1. PICK i \in 1 .. Len(q) : n \in q[i][1] .. q[i][1] + q[i][2] - 1
    BY <1>1 DEF NumbersIn, RangesOf, q
  <2>2. q[i] \in Nat \X Nat
    BY <1>1, <2>1
  <2>3. q[i][1] \in Nat /\ q[i][2] \in Nat
    BY <2>2
  <2>4. ~Overlap(extra, q[i]) /\ ~Overlap(q[i], extra)
    <3>a. Len(q) \in Nat /\ i \in 1 .. Len(q)
      BY <1>1
    <3>b. i \in 1 .. Len(q) + 1 /\ Len(q) + 1 \in 1 .. Len(q) + 1 /\ i < Len(q) + 1
      BY <3>a
    <3>1. /\ i \in DOMAIN file.ranges /\ Len(q) + 1 \in DOMAIN file.ranges /\ i < Len(q) + 1
          /\ file.ranges[i] = q[i] /\ file.ranges[Len(q) + 1] = extra
      BY <1>2, <3>a, <3>b
    <3>2. QED
      BY <3>1 DEF OverlappingRanges
  <2> DEFINE a == q[i][1]
             b == q[i][2]
             c == extra[1]
             d == extra[2]
  <2>5. ~(a <= c /\ c < a + b) /\ ~(c <= a /\ a < c + d)
    BY <2>4 DEF Overlap
  <2>6. n \in a .. a + b - 1 /\ n \in c .. c + d - 1
    BY <2>1
  <2>7. a \in Nat /\ b \in Nat /\ c \in Nat /\ d \in Nat
    BY <1>1, <2>3
  <2> HIDE DEF a, b, c, d, R
  <2>8. QED
    BY <2>5, <2>6, <2>7
<1>6. Cardinality({}) = 0 /\ Cardinality(N) \in Nat
  BY <1>4, FS_EmptySet, FS_CardinalityType
<1> HIDE DEF N, R
<1>7. Cardinality(N \cup R) = Cardinality(N) + Cardinality(R) - Cardinality(N \cap R)
  BY <1>4, FS_Union
<1>8. Cardinality(N \cup R) = Cardinality(N) + extra[2]
  <2> DEFINE n == Cardinality(N)
             x == extra[2]
  <2>1. Cardinality(N \cup R) = n + x - 0
    BY <1>4, <1>5, <1>6, <1>7
  <2>2. n \in Nat /\ x \in Nat
    BY <1>1, <1>6
  <2> HIDE DEF n, x
  <2>3. Cardinality(N \cup R) = n + x
    BY <2>1, <2>2
  <2>4. QED
    BY <2>3 DEF n, x
<1>9. QED
  BY <1>3, <1>8 DEF N

LEMMA UpdateExtraCounts ==
  ASSUME IInv, IInv', CountInv, NEW f \in Revs, NEW extra \in RangeArgs, UpdateExtra(f, extra)
  PROVE  CountInv'
<1> DEFINE file == [disk[f] EXCEPT !.ranges = Append(@, extra)]
<1>0. Typed /\ Typed' /\ pc = "idle" /\ Readable(f) /\ extra \in Nat \X Nat
  BY SidFileAssumption DEF IInv, UpdateExtra
<1>1. Acceptable(f, disk[f])
  BY <1>0, ReadableAccepted
<1>2. /\ file.items = disk[f].items /\ file.state = disk[f].state
      /\ file.ranges = Append(disk[f].ranges, extra)
      /\ file = [state |-> file.state, rev |-> file.rev, dep |-> file.dep,
                 ranges |-> file.ranges, items |-> file.items]
  BY <1>1, Replaced DEF Acceptable, IsContent
<1>3. /\ file.ranges \in Seq(Nat \X Nat)
      /\ \A i \in DOMAIN disk[f].ranges : i \in DOMAIN file.ranges /\ file.ranges[i] = disk[f].ranges[i]
  <2>1. disk[f].ranges \in Seq(Nat \X Nat)
    BY <1>1 DEF Acceptable, IsContent
  <2> HIDE DEF file
  <2>2. PICK q : q = disk[f].ranges
    OBVIOUS
  <2>3. q \in Seq(Nat \X Nat) /\ file.ranges = Append(q, extra)
    BY <1>2, <2>1, <2>2
  <2>4. /\ file.ranges \in Seq(Nat \X Nat)
        /\ \A i \in DOMAIN q : i \in DOMAIN file.ranges /\ file.ranges[i] = q[i]
    BY <1>0, <2>3, Appended
  <2>5. QED
    BY <2>2, <2>4
<1>4. \/ Fail("update", f, "overlap") \/ Fail("update", f, "dependency")
      \/ ~OverlappingRanges(file.ranges) /\ Begin("update", f, file, extra[2], FALSE)
  BY DEF UpdateExtra
<1> HIDE DEF file
<1>5. CASE Fail("update", f, "overlap") \/ Fail("update", f, "dependency")
  <2>1. /\ answer'.what \in {"overlap", "dependency"}
        /\ UNCHANGED <<yang, disk, run, pc, counted>>
    BY <1>5 DEF Fail, Answer
  <2>2. QED
    BY <1>0, <2>1, SilentStep
<1>6. CASE ~OverlappingRanges(file.ranges) /\ Begin("update", f, file, extra[2], FALSE)
  <2>1. Acceptable(f, file)
    BY <1>0, <1>1, <1>2, <1>3, <1>6 DEF Acceptable, IsContent, OutOfRanges
  <2>2. Extended(f, file, extra[2])
    <3>1. Cardinality(NumbersIn(file)) = Cardinality(NumbersIn(disk[f])) + extra[2]
      BY <1>0, <1>1, <1>2, <1>6, <2>1, OneMore DEF Acceptable
    <3>2. extra[2] \in Nat
      BY <1>0
    <3>3. QED
      BY <3>1, <3>2 DEF Extended
  <2>3. QED
    BY <1>0, <1>6, <2>1, <2>2, BeginCounts
<1>7. QED
  BY <1>4, <1>5, <1>6

LEMMA ReadCounts ==
  ASSUME IInv, IInv', CountInv, NEW f \in Revs, NEW fin \in BOOLEAN, Check(f, fin) \/ Update(f, fin)
  PROVE  CountInv'
<1>1. /\ pc = "idle" /\ Readable(f)
      /\ \/ \E op : Fail(op, f, "dependency")
         \/ \E op : Begin(op, f, disk[f], 0, fin)
  BY DEF Check, Update
<1>2. Typed /\ Typed'
  BY DEF IInv
<1>3. Acceptable(f, disk[f])
  BY <1>1, <1>2, ReadableAccepted
<1>4. Extended(f, disk[f], 0)
  <2>1. IsFiniteSet(NumbersIn(disk[f]))
    BY <1>3, AllocatedIs DEF Acceptable
  <2>2. Cardinality(NumbersIn(disk[f])) \in Nat
    BY <2>1, FS_CardinalityType
  <2>3. QED
    BY <2>2 DEF Extended
<1>5. ASSUME NEW op, Fail(op, f, "dependency")
      PROVE  CountInv'
  BY <1>1, <1>2, <1>5, SilentStep DEF Fail, Answer
<1>6. ASSUME NEW op, Begin(op, f, disk[f], 0, fin)
      PROVE  CountInv'
  BY <1>1, <1>3, <1>4, <1>6, BeginCounts
<1>7. QED
  BY <1>1, <1>5, <1>6

LEMMA GenerateCounts ==
  ASSUME IInv, IInv', CountInv, NEW range \in RangeArgs, NEW fin \in BOOLEAN, Generate(range, fin)
  PROVE  CountInv'
<1> DEFINE file == [Content EXCEPT !.ranges = <<range>>]
<1>1. /\ file.items = <<>> /\ file.state = "whole" /\ file.ranges = <<range>>
      /\ file = [state |-> file.state, rev |-> file.rev, dep |-> file.dep,
                 ranges |-> file.ranges, items |-> file.items]
  BY DEF Content
<1>2. <<range>> \in Seq(Nat \X Nat) /\ DOMAIN <<range>> = {1} /\ DOMAIN file.items = {}
  BY <1>1, SidFileAssumption
<1>3. pc = "idle" /\ \/ Fail("generate", 0, "dependency")
                     \/ Begin("generate", 0, file, 0, fin)
  BY DEF Generate
<1> HIDE DEF file
<1>4. Acceptable(0, file)
  BY <1>1, <1>2 DEF Acceptable, IsContent, OverlappingRanges, Duplicated
<1>5. Typed /\ Typed'
  BY DEF IInv
<1>6. CASE Fail("generate", 0, "dependency")
  BY <1>3, <1>5, <1>6, SilentStep DEF Fail, Answer
<1>7. CASE Begin("generate", 0, file, 0, fin)
  BY <1>3, <1>4, <1>7, BeginCounts
<1>8. QED
  BY <1>3, <1>6, <1>7

LEMMA InitCounts == Init => CountInv
<1> SUFFICES ASSUME Init PROVE CountInv
  OBVIOUS
<1>1. PICK x \in Found \cup {Absent} : disk = [r \in Revs |-> IF r = 1 THEN x ELSE Absent]
  BY DEF Init
<1>2. PICK items \in SUBSET Items : yang.items = items \cup {Item0}
  BY DEF Init
<1>3. run = Idle /\ pc = "idle" /\ answer = NoAnswer /\ counted = NoCount
  BY DEF Init
<1>4. IsFiniteSet(yang.items)
  BY <1>2, SidFileAssumption, FS_Subset, FS_AddElement
<1>5. IsFiniteSet(DOMAIN Absent.items)
  <2>1. Absent.items = <<>>
    BY DEF Absent, Content
  <2>2. DOMAIN <<>> = {}
    OBVIOUS
  <2>3. QED
    BY <2>1, <2>2, FS_EmptySet
<1>6. \A f \in Revs : IsFiniteSet(DOMAIN disk[f].items)
  <2> TAKE f \in Revs
  <2>1. disk[f] \in Found \cup {Absent}
    BY <1>1
  <2>2. QED
    BY <1>5, <2>1, SidFileAssumption
<1>7. Finite
  BY <1>3, <1>4, <1>6, IdleFinite DEF Finite
<1>8. Counted /\ CountIsExact
  BY <1>3 DEF Counted, CountIsExact, NoCount, NoAnswer, None
<1>9. QED
  BY <1>3, <1>7, <1>8 DEF CountInv

LEMMA NextCounts == IInv /\ IInv' /\ CountInv /\ [Next]_vars => CountInv'
<1> SUFFICES ASSUME IInv, IInv', CountInv, [Next]_vars PROVE CountInv'
  OBVIOUS
<1>0. Typed /\ Typed'
  BY DEF IInv
<1>1. ASSUME NEW rev \in Revs, NEW items \in SUBSET Items, NEW imp \in Imports, Edit(rev, items, imp)
      PROVE  CountInv'
  BY <1>1, EditCounts
<1>2. ASSUME NEW range \in RangeArgs, NEW fin \in BOOLEAN, Generate(range, fin)
      PROVE  CountInv'
  BY <1>2, GenerateCounts
<1>3. ASSUME NEW f \in Revs, CannotRead(f)
      PROVE  CountInv'
  BY <1>0, <1>3, SilentStep DEF CannotRead, Fail, Answer
<1>4. ASSUME NEW f \in Revs, NEW fin \in BOOLEAN, Check(f, fin) \/ Update(f, fin)
      PROVE  CountInv'
  BY <1>4, ReadCounts
<1>5. ASSUME NEW f \in Revs, NEW extra \in RangeArgs, UpdateExtra(f, extra)
      PROVE  CountInv'
  BY <1>5, UpdateExtraCounts
<1>6. ASSUME NEW f \in Revs, Count(f)
      PROVE  CountInv'
  BY <1>0, <1>6, CountCounts
<1>7. CASE NextRange
  BY <1>7, NextRangeCounts
<1>8. CASE SkipUsed
  BY <1>8, SkipUsedCounts
<1>9. CASE Yield
  BY <1>9, YieldCounts
<1>10. CASE Exhausted
  BY <1>10, ExhaustedCounts
<1>11. CASE Report
  BY <1>11, ReportCounts
<1>12. CASE GenerateFile
  <2>1. CASE pc' = "write"
    BY <1>12, <2>1, GenerateFileCounts
  <2>2. CASE pc' # "write"
    <3>1. /\ Say("key error") /\ pc' = "idle" /\ run' = Idle
          /\ UNCHANGED <<disk, promised, counted>> /\ UNCHANGED <<yang, runs, crashes>>
      BY <1>12, <2>2, Zenon DEF GenerateFile
    <3>2. answer'.what = "key error"
      BY <3>1 DEF Say, Answer
    <3>3. QED
      BY <1>0, <3>1, <3>2, SilentStep
  <2>3. QED
    BY <2>1, <2>2
<1>13. CASE Dump
  BY <1>13, DumpCounts
<1>14. CASE Crash
  <2>1. /\ answer'.what = "killed" /\ pc' = "idle" /\ run' = Idle
        /\ UNCHANGED <<yang, disk, counted>>
    BY <1>14 DEF Crash, Say, Answer
  <2>2. QED
    BY <1>0, <2>1, SilentStep
<1>15. CASE UNCHANGED vars
  <2>1. CountInv <=> CountInv'
    BY <1>15 DEF vars, CountInv, Finite, Counted, Updating, Behind, Enough, Extended, Readable, Missing,
                 CountIsExact, Ahead, Collect, BuildDependencies, CollectModuleItems
  <2>2. QED
    BY <2>1
<1>16. QED
  BY <1>1, <1>2, <1>3, <1>4, <1>5, <1>6, <1>7, <1>8, <1>9, <1>10, <1>11, <1>12, <1>13, <1>14, <1>15
     DEF Next

(* What "count" asks for is what the next update of that file needs: with  *)
(* fewer SIDs it is refused, with as many it is not, for every file, every *)
(* range that the update adds and all that happens in between.             *)
THEOREM CountExact == Spec => []CountIsExact
<1>1. CountInv => CountIsExact
  BY DEF CountInv
<1>2. QED
  BY <1>1, InitCounts, NextCounts, Invariance, PTL DEF Spec

=============================================================================
