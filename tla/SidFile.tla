------------------------------ MODULE SidFile ------------------------------
(***************************************************************************)
(* The .sid file of a YANG module over the module's revisions: the "sid"   *)
(* plugin of pyang, which gives each item of a module the number (SID) by  *)
(* which CoAP and CBOR name it.  A device and its clients agree on nothing *)
(* but these numbers, so a number given once must never mean another item. *)
(*                                                                         *)
(* One run of the program (generate, update or check) is the actions from  *)
(* its start to its last write; between runs the module is edited.  Items  *)
(* are numbers, in the order in which sort_items puts them (namespace,     *)
(* then identifier); revisions are numbers, 0 being an import without one.  *)
(***************************************************************************)
EXTENDS Integers, FiniteSets, Sequences

CONSTANTS
  Items,        \* the items a module may have; Item0 is the module itself
  Item0,
  MaxRev,       \* revisions of the module
  MaxDep,       \* revisions of the module it imports
  RangeArgs,    \* the ranges <<entry-point, size>> a user may give
  Imports,      \* NoImport, and records of the module's import statement
  Found,        \* .sid files of other origin that may be there at the start
  MaxRun,       \* runs that assign and write
  MaxCrash      \* times that the program is killed

Revs == 1 .. MaxRev

(* What a .sid file holds: numbers where the program looks for numbers.    *)
IsContent(file) ==
  /\ file = [state |-> file.state, rev |-> file.rev, dep |-> file.dep,
             ranges |-> file.ranges, items |-> file.items]
  /\ file.ranges \in Seq(Nat \X Nat)
  /\ file.items = [i \in DOMAIN file.items |->
                    [sid |-> file.items[i].sid, status |-> file.items[i].status]]
  /\ \A i \in DOMAIN file.items : file.items[i].sid \in Int

ASSUME SidFileAssumption ==
  /\ Item0 \in Items /\ Items \subseteq Nat /\ IsFiniteSet(Items)
  /\ MaxRev \in Nat \ {0} /\ MaxDep \in Nat /\ MaxRun \in Nat /\ MaxCrash \in Nat
  /\ RangeArgs \subseteq Nat \X Nat
  /\ \A file \in Found : IsContent(file) /\ IsFiniteSet(DOMAIN file.items)

VARIABLES
  yang,      \* the module as it is now: its revision, its items, its import
  disk,      \* the .sid file of each revision of the module
  run,       \* the SidFile object of the running program
  pc,        \* how far it is
  answer,    \* what the last run said
  runs, crashes,
  promised,  \* history: per file, all that the files it was made from said
  counted    \* history: the SIDs the last count asked for, until a change

vars == <<yang, disk, run, pc, answer, runs, crashes, promised, counted>>

None == "none"
NoImport == [date |-> 0, loaded |-> {}, found |-> {}]

(* A .sid file.  One that is torn was opened for writing, and the program  *)
(* was killed before it wrote.                                             *)
Content == [state |-> "whole", rev |-> 0, dep |-> 0, ranges |-> <<>>, items |-> <<>>]
Absent == [Content EXCEPT !.state = "absent"]
Torn == [Content EXCEPT !.state = "torn"]

IsFile(x) == x.state \in {"whole", "malformed"}

-----------------------------------------------------------------------------
(* Ranges and numbers. *)

Holds(r, sid) == r[1] <= sid /\ sid < r[1] + r[2]

OutOfRanges(ranges, sid) == \A i \in DOMAIN ranges : ~Holds(ranges[i], sid)

Overlap(r, s) == s[1] <= r[1] /\ r[1] < s[1] + s[2]

OverlappingRanges(ranges) ==
  \E i, j \in DOMAIN ranges :
    i < j /\ (Overlap(ranges[j], ranges[i]) \/ Overlap(ranges[i], ranges[j]))

(* A file's items are a function to their number and status; -1 is "not    *)
(* assigned yet".  The status "stable" is the absence of the key.          *)
Used(items) == {items[i].sid : i \in DOMAIN items} \ {-1}

Unassigned(items) == {i \in DOMAIN items : items[i].sid = -1}

Duplicated(items) ==
  \E i, j \in DOMAIN items : i # j /\ items[i].sid = items[j].sid

Valid(file) ==
  /\ ~OverlappingRanges(file.ranges)
  /\ \A i \in DOMAIN file.items : ~OutOfRanges(file.ranges, file.items[i].sid)
  /\ ~Duplicated(file.items)

(* The sizes of all ranges, added up.                                      *)
Allocated(file) ==
  LET sum[i \in 0 .. Len(file.ranges)] == IF i = 0 THEN 0 ELSE sum[i - 1] + file.ranges[i][2]
  IN sum[Len(file.ranges)]

Pairs(items) == {<<i, items[i].sid>> : i \in DOMAIN items}

-----------------------------------------------------------------------------
(* The module's side. *)

MaxOf(S) == CHOOSE x \in S : \A y \in S : y <= x

(* The revision to note for the import: the one it names, or the latest of *)
(* those loaded, or the latest of those found; 0 if none has a revision.   *)
DependencyRevision(imp) ==
  IF imp.date # 0 THEN imp.date
  ELSE IF imp.loaded # {0} THEN MaxOf(imp.loaded)
  ELSE MaxOf(imp.found \cup {0})

(* 0 stands for no dependency noted.  An import that is gone stays noted.  *)
BuildDependencies(file) ==
  IF yang.import = NoImport THEN file
  ELSE [file EXCEPT !.dep = DependencyRevision(yang.import)]

BadDependency(file) ==
  /\ yang.import # NoImport
  /\ LET rev == DependencyRevision(yang.import) IN rev = 0 \/ rev < file.dep

merge_item(items, i) ==
  IF i \in DOMAIN items THEN items[i] ELSE [sid |-> -1, status |-> "unstable"]

\* Mutant: an item that is no longer in the module is dropped.
CollectModuleItems_Drop(items) == [i \in yang.items |-> merge_item(items, i)]

(* What is there keeps its number, the rest is appended without one; items *)
(* not in the module stay.                                                 *)
CollectModuleItems(items) ==
  [i \in DOMAIN items \cup yang.items |-> merge_item(items, i)]

-----------------------------------------------------------------------------
Idle == [op |-> None, input |-> 0, file |-> Content, consistent |-> TRUE,
         finalize |-> FALSE, extra |-> 0, used |-> {}, ranges |-> {}, sid |-> 0, high |-> 0]

Answer(op, f, extra, what) ==
  answer' = [op |-> op, input |-> f, extra |-> extra, what |-> what]

Say(what) == Answer(run.op, run.input, run.extra, what)

NoCount == [file |-> 0, extra |-> 0]

NoAnswer == [op |-> None, input |-> 0, extra |-> 0, what |-> None]

Init ==
  /\ \E items \in SUBSET Items, imp \in Imports :
       yang = [rev |-> 1, items |-> items \cup {Item0}, import |-> imp]
  /\ disk \in {[r \in Revs |-> IF r = 1 THEN f ELSE Absent] : f \in Found \cup {Absent}}
  /\ run = Idle
  /\ pc = "idle"
  /\ answer = NoAnswer
  /\ runs = 0 /\ crashes = 0
  /\ promised = [r \in Revs |-> {}]
  /\ counted = NoCount

(* The author of the module: a new revision, with other items or another   *)
(* import, or an edit of the module without one; once between two runs.    *)
Edit(rev, items, imp) ==
  /\ pc = "idle" /\ answer.op # None /\ runs < MaxRun
  /\ rev \in {yang.rev, yang.rev + 1} \cap Revs
  /\ yang' = [rev |-> rev, items |-> items \cup {Item0}, import |-> imp]
  /\ yang' # yang
  /\ answer' = NoAnswer
  /\ counted' = NoCount
  /\ UNCHANGED <<disk, run, pc, runs, crashes, promised>>

\* Mutant: the revision of the module is not noted.
Collect_OldRevision(file) ==
  [BuildDependencies(file) EXCEPT !.items = CollectModuleItems(file.items)]

(* process_sid_file from set_module_information to sort_items, on content  *)
(* that was read or is new.                                                *)
Collect(file) ==
  [BuildDependencies(file) EXCEPT !.rev = yang.rev,
                                  !.items = CollectModuleItems(file.items)]

IsConsistent(op, fin, file) ==
  /\ op # "generate" /\ ~fin
  /\ yang.items \subseteq DOMAIN file.items
  /\ op = "check" => file.rev = yang.rev

Begin(op, f, file, extra, fin) ==
  /\ runs < MaxRun
  /\ runs' = runs + 1
  /\ pc' = "assign"
  /\ run' = [op |-> op, input |-> f, file |-> Collect(file), finalize |-> fin,
             extra |-> extra, used |-> Used(file.items), consistent |-> IsConsistent(op, fin, file),
             ranges |-> {file.ranges[i] : i \in DOMAIN file.ranges},
             sid |-> 0, high |-> 0]
  /\ answer' = NoAnswer
  /\ UNCHANGED <<yang, disk, crashes, promised, counted>>

Fail(op, f, what) ==
  /\ Answer(op, f, 0, what)
  /\ UNCHANGED <<yang, disk, run, pc, runs, crashes, promised, counted>>

(* --sid-generate-file entry:size *)
Generate(range, fin) ==
  /\ pc = "idle"
  /\ LET file == [Content EXCEPT !.ranges = <<range>>]
     IN IF BadDependency(file) THEN Fail("generate", 0, "dependency")
                               ELSE Begin("generate", 0, file, 0, fin)

(* The keys are known and those required are there, the values have their  *)
(* types, enumerations and formats.                                        *)
WellFormed(file) == file.state # "malformed"

Readable(f) == IsFile(disk[f]) /\ WellFormed(disk[f]) /\ Valid(disk[f])

(* Reading and validating the input file fails. *)
CannotRead(f) ==
  /\ pc = "idle"
  /\ ~Readable(f)
  /\ Fail("read", f, "unreadable")

(* --sid-check-file file, and --sid-update-file file *)
Check(f, fin) ==
  /\ pc = "idle"
  /\ Readable(f)
  /\ IF BadDependency(disk[f]) THEN Fail("check", f, "dependency")
     ELSE Begin(IF fin THEN "finalize" ELSE "check", f, disk[f], 0, fin)

Update(f, fin) ==
  /\ pc = "idle"
  /\ Readable(f)
  /\ IF BadDependency(disk[f]) THEN Fail("update", f, "dependency")
                               ELSE Begin("update", f, disk[f], 0, fin)

(* --sid-update-file file --sid-extra-range entry:size *)
UpdateExtra(f, extra) ==
  /\ pc = "idle"
  /\ Readable(f)
  /\ LET file == [disk[f] EXCEPT !.ranges = Append(@, extra)]
     IN IF OverlappingRanges(file.ranges) THEN Fail("update", f, "overlap")
        ELSE IF BadDependency(file) THEN Fail("update", f, "dependency")
        ELSE Begin("update", f, file, extra[2], FALSE)

\* Mutant: items that left the module are not counted as used.
Count_Current(f) ==
  /\ pc = "idle"
  /\ Readable(f)
  /\ ~BadDependency(disk[f])
  /\ LET items == Collect(disk[f]).items
         available == Allocated(disk[f]) - Cardinality(DOMAIN disk[f].items \cap yang.items)
         extra == Cardinality(Unassigned(items)) - available
     IN counted' = [file |-> f, extra |-> IF extra > 0 THEN extra ELSE 0]
  /\ Answer("count", f, 0, "counted")
  /\ UNCHANGED <<yang, disk, run, pc, runs, crashes, promised>>

(* --sid-update-file file --sid-extra-range count: how many more SIDs the  *)
(* update takes.                                                           *)
Count(f) ==
  /\ pc = "idle"
  /\ Readable(f)
  /\ ~BadDependency(disk[f])
  /\ LET items == Collect(disk[f]).items
         available == Allocated(disk[f]) - Cardinality(DOMAIN disk[f].items)
         extra == Cardinality(Unassigned(items)) - available
     IN counted' = [file |-> f, extra |-> IF extra > 0 THEN extra ELSE 0]
  /\ Answer("count", f, 0, "counted")
  /\ UNCHANGED <<yang, disk, run, pc, runs, crashes, promised>>

-----------------------------------------------------------------------------
(* assign_sid: the generator gen_sids goes through the ranges in order and *)
(* past the numbers that were in use when it began; the items take what it *)
(* yields in their order.  used_idx, which only moves forward, stands for  *)
(* the smallest number in use that is not below sid.                       *)
NextRange ==
  /\ pc = "assign"
  /\ Unassigned(run.file.items) # {}
  /\ run.sid >= run.high
  /\ \E r \in run.ranges :
       /\ \A s \in run.ranges : r[1] < s[1] \/ (r[1] = s[1] /\ r[2] <= s[2])
       /\ run' = [run EXCEPT !.ranges = @ \ {r}, !.sid = r[1], !.high = r[1] + r[2]]
  /\ UNCHANGED <<yang, disk, pc, answer, runs, crashes, promised, counted>>

SkipUsed ==
  /\ pc = "assign"
  /\ Unassigned(run.file.items) # {}
  /\ run.sid < run.high
  /\ run.sid \in run.used
  /\ run' = [run EXCEPT !.sid = @ + 1]
  /\ UNCHANGED <<yang, disk, pc, answer, runs, crashes, promised, counted>>

\* Mutant: a number in use is found only at the start of a range.
Yield_NoCheck ==
  /\ pc = "assign"
  /\ run.sid < run.high
  /\ \E i \in Unassigned(run.file.items) :
       /\ \A j \in Unassigned(run.file.items) : i <= j
       /\ run' = [run EXCEPT !.file.items[i] = [sid |-> run.sid, status |-> "unstable"],
                             !.sid = @ + 1]
  /\ UNCHANGED <<yang, disk, pc, answer, runs, crashes, promised, counted>>

Yield ==
  /\ pc = "assign"
  /\ run.sid < run.high
  /\ run.sid \notin run.used
  /\ \E i \in Unassigned(run.file.items) :
       /\ \A j \in Unassigned(run.file.items) : i <= j
       /\ run' = [run EXCEPT !.file.items[i] = [sid |-> run.sid, status |-> "unstable"],
                             !.sid = @ + 1]
  /\ UNCHANGED <<yang, disk, pc, answer, runs, crashes, promised, counted>>

Exhausted ==
  /\ pc = "assign"
  /\ Unassigned(run.file.items) # {}
  /\ run.sid >= run.high /\ run.ranges = {}
  /\ Say("exhausted")
  /\ pc' = "idle"
  /\ run' = Idle
  /\ UNCHANGED <<yang, disk, runs, crashes, promised, counted>>

(* The end of process_sid_file when nothing is written. *)
Report ==
  /\ pc = "assign"
  /\ Unassigned(run.file.items) = {}
  /\ \/ run.op = "check" /\ Say(IF run.consistent THEN "ok" ELSE "outdated")
     \/ run.op # "check" /\ run.consistent /\ Say("up to date")
  /\ pc' = "idle"
  /\ run' = Idle
  /\ UNCHANGED <<yang, disk, runs, crashes, promised, counted>>

(* generate_file builds the new content; with --sid-finalize it looks up   *)
(* the status of each item, which one that is stable does not have.        *)
Finalized(items) ==
  [i \in DOMAIN items |->
     IF items[i].status = "unstable" THEN [items[i] EXCEPT !.status = "stable"]
                                     ELSE items[i]]

NoStatus(items) == \E i \in DOMAIN items : items[i].status = "stable"

GenerateFile ==
  /\ pc = "assign"
  /\ Unassigned(run.file.items) = {}
  /\ run.op # "check" /\ ~run.consistent
  /\ IF run.finalize /\ NoStatus(run.file.items)
     THEN /\ Say("key error")
          /\ pc' = "idle"
          /\ run' = Idle
          /\ UNCHANGED <<disk, promised, counted>>
     ELSE /\ run' = [run EXCEPT !.file.items =
               IF run.finalize THEN Finalized(@) ELSE @]
          /\ disk' = [disk EXCEPT ![yang.rev] = Torn]
          /\ promised' = [promised EXCEPT ![yang.rev] =
               IF run.input = 0 THEN {} ELSE promised[run.input] \cup Pairs(disk[run.input].items)]
          /\ counted' = IF counted.file = yang.rev THEN NoCount ELSE counted
          /\ pc' = "write"
          /\ UNCHANGED answer
  /\ UNCHANGED <<yang, runs, crashes>>

Dump ==
  /\ pc = "write"
  /\ disk' = [disk EXCEPT ![yang.rev] = run.file]
  /\ Say("written")
  /\ pc' = "idle"
  /\ run' = Idle
  /\ UNCHANGED <<yang, runs, crashes, promised, counted>>

(* Killed before, it leaves nothing behind. *)
Crash ==
  /\ pc = "write"
  /\ crashes < MaxCrash
  /\ crashes' = crashes + 1
  /\ pc' = "idle"
  /\ run' = Idle
  /\ Say("killed")
  /\ UNCHANGED <<yang, disk, runs, promised, counted>>

-----------------------------------------------------------------------------
Next ==
  \/ \E rev \in Revs, items \in SUBSET Items, imp \in Imports : Edit(rev, items, imp)
  \/ \E range \in RangeArgs, fin \in BOOLEAN : Generate(range, fin)
  \/ \E f \in Revs : CannotRead(f)
  \/ \E f \in Revs, fin \in BOOLEAN : Check(f, fin) \/ Update(f, fin)
  \/ \E f \in Revs, extra \in RangeArgs : UpdateExtra(f, extra)
  \/ \E f \in Revs : Count(f)
  \/ NextRange \/ SkipUsed \/ Yield \/ Exhausted
  \/ Report \/ GenerateFile \/ Dump
  \/ Crash

Spec == Init /\ [][Next]_vars

-----------------------------------------------------------------------------
(* Properties. *)

(* A file that the program wrote is one that it will read: its ranges are  *)
(* disjoint, each item has a number of its own in one of them (gen_sids,   *)
(* validate_overlapping_ranges, validate_sid).                             *)
WrittenIsValid ==
  \A f \in Revs : IsFile(disk[f]) => disk[f] \in Found \/ Valid(disk[f])

(* A number once given to an item is the item's in every file made from    *)
(* the one that gave it, through any number of revisions, whether the item *)
(* is still in the module or not.                                          *)
Permanent ==
  \A f \in Revs : IsFile(disk[f]) => promised[f] \subseteq Pairs(disk[f].items)

(* What "count" asks for is what the update needs: with fewer SIDs the     *)
(* next update of that file is refused, with as many it is not.            *)
CountIsExact ==
  answer.op = "update" /\ answer.input = counted.file =>
    /\ answer.what = "exhausted" => answer.extra < counted.extra
    /\ answer.what \in {"written", "up to date"} => answer.extra >= counted.extra

(* After an update that wrote a file, that file lists the module as it is, *)
(* and a check of it has nothing to say.                                   *)
UpdateIsComplete ==
  answer.what = "written" =>
    /\ IsFile(disk[yang.rev])
    /\ IsConsistent("check", FALSE, disk[yang.rev])

=============================================================================
