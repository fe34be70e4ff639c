------------------------------ MODULE Resolve ------------------------------
(***************************************************************************)
(* How pyang's validator resolves names (statements.py): a grouping by     *)
(* "uses", a typedef by "type", a feature by "if-feature", an identity by  *)
(* "base", a module by "import".  Each definition is validated when it is  *)
(* met or when it is referred to, whichever comes first; what it refers to *)
(* is validated in the middle of it, and a mark "in_progress" is all that  *)
(* ends the recursion.  What the later phases walk along (expansion of     *)
(* uses, chains of typedefs, derivations) they walk without looking for    *)
(* cycles again.                                                           *)
(*                                                                         *)
(* Definitions are numbers in the order of the document.  Those up to      *)
(* imported are of a module that the other one imports; it was validated   *)
(* as a whole before.  Top stands for the statements of the second module  *)
(* outside of its definitions.  Missing is a name that is not in scope.    *)
(***************************************************************************)
EXTENDS Integers, Sequences

CONSTANTS
  N,          \* definitions
  Imported,   \* how many of them are the imported module's: the choices
  Kinds,      \* a subset of AllKinds
  Bodies,     \* what a definition may refer to: sequences of targets
  TopBodies   \* what the statements of Top may refer to

AllKinds == {"grouping", "typedef", "feature", "identity", "module"}
Missing == 0
Defs == 1 .. N
Top == N + 1

ASSUME ResolveAssumption ==
  /\ N \in Nat /\ Imported \subseteq 0 .. N
  /\ Kinds \subseteq AllKinds
  /\ Bodies \cup TopBodies \subseteq Seq(Defs \cup {Missing})

VARIABLES
  kind,      \* of the definitions
  imported,  \* how many of them are the imported module's
  body,      \* for each definition, and Top: what it refers to, in order
  joined,    \* features: how the references of one are joined
  enabled,   \* features: those the user compiles with
  todo,      \* what the phase has not visited: the document from here on
  calls,     \* the functions that are active
  valid,     \* i_is_validated
  circular,  \* typedefs: i_is_circular
  res,       \* i_grouping, i_typedef, i_identity of each reference
  errors,    \* ctx.errors
  done       \* history: the definitions validated, first to last

vars == <<kind, imported, body, joined, enabled, todo, calls, valid, circular, res, errors, done>>
Input == <<kind, imported, body, joined, enabled>>

Unseen == -1     \* the attribute is not there
NotFound == 0    \* it is None

Owners == Defs \cup {Top}
Refs == UNION {{<<o, i>> : i \in 1 .. Len(body[o])} : o \in Owners}
Target(r) == body[r[1]][r[2]]
NoRef == <<0, 0>>

InImported(o) == o <= imported
Far(r) == Target(r) # Missing /\ InImported(Target(r)) /\ ~InImported(r[1])

(* A name of the other module is not visible from the imported one.        *)
Closed(b, k) == \A o \in 1 .. k : \A i \in DOMAIN b[o] : b[o][i] <= k

-----------------------------------------------------------------------------
Circular(d) == <<"CIRCULAR_DEPENDENCY", d>>
NotInScope(r) == <<"NOT_FOUND", r[1], r[2]>>

(* The document: each definition is followed by the references in it, and  *)
(* those of Top stand where they like, once the imported module is done.   *)
(* Of the imports only the modules on the command line are visited.        *)
SweepDef(d) ==
  /\ calls = <<>>
  /\ todo.def = d /\ todo.ref = 0
  /\ d \in Defs
  /\ todo' = IF kind = "module" THEN [todo EXCEPT !.def = d + 1] ELSE [todo EXCEPT !.ref = 1]

SweepRef(r) ==
  /\ calls = <<>>
  /\ r \in Refs
  /\ kind # "module"
  /\ IF r[1] = Top THEN r[2] = todo.top /\ todo.def > imported
                   ELSE r[1] = todo.def /\ r[2] = todo.ref

Swept(r, next) ==
  todo' = IF r[1] = Top THEN [todo EXCEPT !.top = next] ELSE [todo EXCEPT !.ref = next]

SweepOn ==
  /\ calls = <<>>
  /\ todo.def \in Defs
  /\ todo.ref > Len(body[todo.def])
  /\ todo' = [todo EXCEPT !.def = @ + 1, !.ref = 0]
  /\ UNCHANGED <<Input, calls, valid, circular, res, errors, done>>

(* The reference that the function at the top of the calls is at.          *)
Inner(r) ==
  /\ calls # <<>>
  /\ LET f == calls[Len(calls)] IN f.next <= Len(body[f.of]) /\ r = <<f.of, f.next>>

(* That function goes on behind it, after a call if there is one.          *)
Advanced(next) == [calls EXCEPT ![Len(calls)].next = next]

Frame(d, r) == [of |-> d, ref |-> r, next |-> 1]

\* Mutant: the mark is set at the end.
Enter_Unmarked(d, r, stack) ==
  /\ calls' = Append(stack, Frame(d, r))
  /\ UNCHANGED valid

(* The first lines of v_type_grouping and the others: the call goes in ... *)
Enter(d, r, stack) ==
  /\ calls' = Append(stack, Frame(d, r))
  /\ valid' = [valid EXCEPT ![d] = "in_progress"]

(* ... or comes back at once.  d is 0 where nothing is called.             *)
Stay(stack) == calls' = stack /\ UNCHANGED valid

\* Mutant: what is in progress is left alone, as what is validated.
Complain_Never(d) == UNCHANGED <<errors, circular>>

Complain(d) ==
  /\ errors' = errors \cup {Circular(d)}
  /\ circular' = IF kind = "typedef" THEN circular \cup {d} ELSE circular

Call(d, r, stack) ==
  /\ IF valid[d] = "no" THEN Enter(d, r, stack) ELSE Stay(stack)
  /\ IF valid[d] = "in_progress" /\ d \notin circular
     THEN Complain(d) ELSE UNCHANGED <<errors, circular>>

Return(stack) == Stay(stack) /\ UNCHANGED <<errors, circular>>

Report(r, stack) ==
  /\ Stay(stack)
  /\ errors' = errors \cup {NotInScope(r)}
  /\ UNCHANGED circular

(* v_type_grouping and the others, called for a statement of the document. *)
Definition(d) ==
  /\ SweepDef(d)
  /\ Call(d, NoRef, calls)
  /\ UNCHANGED <<Input, res, done>>

\* Mutant: the mark of a grouping stays when a grouping around it is active.
Leave_Marked ==
  /\ calls # <<>>
  /\ LET f == calls[Len(calls)]
     IN /\ f.next > Len(body[f.of])
        /\ calls' = SubSeq(calls, 1, Len(calls) - 1)
        /\ valid' = [valid EXCEPT ![f.of] = IF Len(calls) > 1 THEN @ ELSE "yes"]
        /\ done' = Append(done, f.of)
        /\ res' = IF kind = "grouping" /\ f.ref # NoRef
                  THEN [res EXCEPT ![f.ref] = f.of] ELSE res
  /\ UNCHANGED <<Input, todo, circular, errors>>

(* The end of a function: d is validated, and a "uses" that waited for it  *)
(* has found its grouping.                                                 *)
Leave ==
  /\ calls # <<>>
  /\ LET f == calls[Len(calls)]
     IN /\ f.next > Len(body[f.of])
        /\ calls' = SubSeq(calls, 1, Len(calls) - 1)
        /\ valid' = [valid EXCEPT ![f.of] = "yes"]
        /\ done' = Append(done, f.of)
        /\ res' = IF kind = "grouping" /\ f.ref # NoRef
                  THEN [res EXCEPT ![f.ref] = f.of] ELSE res
  /\ UNCHANGED <<Input, todo, circular, errors>>

-----------------------------------------------------------------------------
(* The statements that refer to definitions.  quiet is no_error_report.    *)
(* v_type_uses: decided once, and None stands for the grouping while it is *)
(* validated.  A grouping of another module is taken as it is.             *)
Uses(r, quiet, stack) ==
  /\ kind = "grouping"
  /\ LET t == Target(r)
         found == t # Missing /\ (Far(r) \/ valid[t] = "yes")
     IN /\ res' = IF res[r] # Unseen THEN res
                  ELSE [res EXCEPT ![r] = IF found THEN t ELSE NotFound]
        /\ IF res[r] = Unseen /\ t # Missing /\ ~Far(r) THEN Call(t, r, stack)
           ELSE IF ~quiet /\ res'[r] = NotFound THEN Report(r, stack)
           ELSE Return(stack)

(* v_type_type: decided once, by the phase or by the typedef around it.    *)
Type(r, quiet, stack) ==
  /\ kind = "typedef"
  /\ LET t == Target(r)
     IN IF res[r] # Unseen THEN Return(stack) /\ UNCHANGED res
        ELSE /\ res' = [res EXCEPT ![r] = t]
             /\ IF t = Missing THEN Report(r, stack) ELSE Call(t, r, stack)

(* v_type_base: looked up again each time.                                 *)
Base(r, quiet, stack) ==
  /\ kind = "identity"
  /\ LET t == Target(r)
     IN /\ res' = [res EXCEPT ![r] = t]
        /\ IF t # Missing THEN Call(t, r, stack)
           ELSE IF ~quiet THEN Report(r, stack) ELSE Return(stack)

(* v_type_if_feature, one name of the expression.                          *)
IfFeature(r, quiet, stack) ==
  /\ kind = "feature"
  /\ LET t == Target(r)
     IN IF t # Missing THEN Call(t, r, stack)
        ELSE IF ~quiet THEN Report(r, stack) ELSE Return(stack)
  /\ UNCHANGED res

\* Mutant: a module is loaded and not validated before it is used.
Import_Later(r, quiet, stack) ==
  /\ kind = "module"
  /\ IF Target(r) # Missing THEN Return(stack) ELSE Report(r, stack)
  /\ UNCHANGED res

(* add_module of v_import_module.                                          *)
Import(r, quiet, stack) ==
  /\ kind = "module"
  /\ LET t == Target(r)
     IN IF t # Missing THEN Call(t, r, stack) ELSE Report(r, stack)
  /\ UNCHANGED res

Reference(r, quiet, stack) ==
  \/ Uses(r, quiet, stack)
  \/ Type(r, quiet, stack)
  \/ Base(r, quiet, stack)
  \/ IfFeature(r, quiet, stack)
  \/ Import(r, quiet, stack)

(* eval_if_feature goes from the last name of an expression to the first,  *)
(* which is the order of body here; the value of r may decide it.  A name  *)
(* that is not found ends the expression with Abort, or is false where     *)
(* that is not reported.                                                   *)
Decided(r, quiet) ==
  LET true == Target(r) # Missing /\ Target(r) \in enabled
  IN kind = "feature" /\ \/ Target(r) = Missing /\ ~quiet /\ joined[r[1]] # "each"
                         \/ joined[r[1]] = "or" /\ true
                         \/ joined[r[1]] = "and" /\ ~true

After(r, quiet) == IF Decided(r, quiet) THEN Len(body[r[1]]) + 1 ELSE r[2] + 1

(* By the phase, which reports.                                            *)
Visit(r) ==
  /\ SweepRef(r)
  /\ Swept(r, After(r, FALSE))
  /\ Reference(r, FALSE, calls)
  /\ UNCHANGED <<Input, done>>

(* By the function of the definition around it, which does not.            *)
Nested(r) ==
  /\ Inner(r)
  /\ Reference(r, TRUE, Advanced(After(r, TRUE)))
  /\ UNCHANGED <<Input, todo, done>>

-----------------------------------------------------------------------------
Init ==
  /\ kind \in Kinds
  /\ imported \in IF kind = "module" THEN {0} ELSE Imported
  /\ \E defs \in [Defs -> Bodies], top \in TopBodies :
       /\ Closed(defs, imported)
       /\ body = [o \in Owners |-> IF o = Top THEN top ELSE defs[o]]
  /\ joined \in IF kind = "feature"
                THEN {j \in [Owners -> {"each", "or", "and"}] :
                        \A o \in Owners : Len(body[o]) < 2 => j[o] = "each"}
                ELSE {[o \in Owners |-> "each"]}
  /\ enabled \in IF kind = "feature" THEN {Defs, Defs \ {1}} ELSE {Defs}
  /\ todo = [def |-> 1, ref |-> 0, top |-> 1]
  /\ calls = <<>>
  /\ valid = [d \in Defs |-> "no"]
  /\ circular = {}
  /\ res = [r \in Refs |-> Unseen]
  /\ errors = {}
  /\ done = <<>>

Next ==
  \/ \E d \in Defs : Definition(d)
  \/ SweepOn
  \/ \E r \in Refs : Visit(r) \/ Nested(r)
  \/ Leave

Spec == Init /\ [][Next]_vars

-----------------------------------------------------------------------------
(* Properties. *)

Finished == calls = <<>> /\ todo.def = Top /\ todo.top > Len(body[Top])

(* Edges that lead from definition to definition, without those to lost.   *)
Edges(lost) ==
  {<<r[1], Target(r)>> : r \in Refs} \cap (Defs \X (Defs \ lost))

Acyclic(edges) ==
  \E rank \in [Defs -> Defs] : \A e \in edges : rank[e[2]] < rank[e[1]]

Reported == {d \in Defs : Circular(d) \in errors}

Plain == kind # "feature" \/ \A o \in Owners : joined[o] = "each"

(* No function is active twice for one definition: the recursion ends,     *)
(* however the definitions refer to one another.                           *)
CallsAreDistinct ==
  \A i, j \in DOMAIN calls : i # j => calls[i].of # calls[j].of

(* Every cycle has a member that was reported, whoever entered it where.   *)
CyclesReported == Finished /\ Plain => Acyclic(Edges(Reported))

(* Definitions without a cycle and without a name out of scope give no     *)
(* error, and each reference has its definition.                           *)
NoFalseAlarm ==
  /\ Acyclic(Edges({})) /\ (\A r \in Refs : Target(r) # Missing) => errors = {}
  /\ Finished /\ errors = {} /\ kind \in {"grouping", "typedef", "identity"} =>
       \A r \in Refs : res[r] = Target(r)

(* When a module is done with its imports, each of them was validated, or  *)
(* an import that closes a cycle was reported.                             *)
ImportsFirst ==
  kind = "module" =>
    \A i \in DOMAIN done : \A n \in DOMAIN body[done[i]] :
      LET t == body[done[i]][n]
      IN t \in {Missing} \cup {done[j] : j \in 1 .. i - 1} \/ Circular(t) \in errors
=============================================================================
