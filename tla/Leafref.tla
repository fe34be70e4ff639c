------------------------------ MODULE Leafref ------------------------------
(***************************************************************************)
(* Where the path of a leafref leads in the tree, as pyang follows it      *)
(* (validate_leafref_path): up over choices, cases, inputs and outputs,    *)
(* down through them, with predicates on the keys of lists, and behind     *)
(* another leafref with deref().                                           *)
(***************************************************************************)
EXTENDS Statements

(* A path: so many up, -1 if it is absolute; the steps down; those to the  *)
(* leafref in deref(); require-instance.  A step is a name, which has ""   *)
(* for a module if there is no prefix, and its predicates: a key, and the  *)
(* path to the leaf that it equals.                                        *)
Step(m, name) == [name |-> <<m, name>>, preds |-> <<>>]
Path(up, dn) == [up |-> up, dn |-> dn, derefup |-> 0, derefdn |-> <<>>, req |-> TRUE]

Skip == {"choice", "case", "input", "output"}

find_identifier(t, stmt, name) ==
  IF name[1] = "" THEN <<t.node[stmt].mod, name[2]>> ELSE name

RECURSIVE search_data_node(_, _, _)
search_data_node(t, children, key) ==
  LET Hit(c) == IF Kw(t, c) \in Skip THEN search_data_node(t, t.node[c].ch, key)
                ELSE IF Key(t, c) = key THEN c ELSE Nothing
      found == SelectSeq(children, LAMBDA c : Hit(c) # Nothing)
  IN IF found = <<>> THEN Nothing ELSE Hit(found[1])

-----------------------------------------------------------------------------
(* follow_path: n is where it has come, stop why it ended before, list the *)
(* last list with predicates, keys those that they name.                   *)
Follow(n) == [n |-> n, stop |-> "", list |-> Nothing, keys |-> {}]
Stop(s, why) == [s EXCEPT !.stop = why]

(* Mutant: what is skipped is counted.                                     *)
Outside_Not(t, n) == n

RECURSIVE Outside(_, _)
Outside(t, n) == IF n # Nothing /\ Kw(t, n) \in Skip THEN Outside(t, t.node[n].par) ELSE n

(* In the definition of a grouping or an augment, it is not checked.       *)
Elsewhere(t, s) ==
  IF s.stop = "" /\ Kw(t, s.n) \in {"augment", "grouping"} THEN Stop(s, "Abort") ELSE s

GoUp(t, s0) ==
  LET s == Elsewhere(t, s0)
      p == Outside(t, t.node[s.n].par)
  IN IF s.stop # "" THEN s
     ELSE IF p = Nothing THEN Stop(s, "LEAFREF_TOO_MANY_UP") ELSE [s EXCEPT !.n = p]

Down(t, stmt, s, name) ==
  LET child == search_data_node(t, t.node[s.n].ch, find_identifier(t, stmt, name))
  IN IF s.stop # "" THEN s
     ELSE IF Kw(t, s.n) \notin WithChildren THEN Stop(s, "LEAFREF_IDENTIFIER_BAD_NODE")
     ELSE IF child = Nothing THEN Stop(s, "LEAFREF_IDENTIFIER_NOT_FOUND")
     ELSE [s EXCEPT !.n = child]

FromTop(t, stmt, name) ==
  LET key == find_identifier(t, stmt, name)
      child == search_child(t, t.node[Top(key[1])].ch, key)
  IN IF child = Nothing THEN Stop(Follow(Nothing), "LEAFREF_IDENTIFIER_NOT_FOUND") ELSE Follow(child)

RECURSIVE follow_path(_, _, _, _, _)

(* keys holds the names with their modules, so that a key without a prefix *)
(* is never among them.                                                    *)
Predicate(t, stmt, s, p) ==
  LET key == find_identifier(t, stmt, p.key)
      to == follow_path(t, stmt, stmt, p.up, p.dn)
  IN IF s.stop # "" THEN s
     ELSE IF search_child(t, t.node[s.n].i_key, key) = Nothing THEN Stop(s, "LEAFREF_NO_KEY")
     ELSE IF p.key \in s.keys THEN Stop(s, "LEAFREF_MULTIPLE_KEYS")
     ELSE IF to.stop # "" THEN Stop(s, to.stop)
     ELSE IF Kw(t, to.n) # "leaf" THEN Stop(s, "LEAFREF_BAD_PREDICATE_PTR")
     ELSE [s EXCEPT !.keys = @ \cup {key}]

Predicates(t, stmt, s, preds) ==
  IF s.stop # "" \/ preds = <<>> THEN s
  ELSE IF Kw(t, s.n) # "list" THEN Stop(s, "LEAFREF_BAD_PREDICATE")
  ELSE FoldLeft(LAMBDA r, p : Predicate(t, stmt, r, p), [s EXCEPT !.list = s.n, !.keys = {}], preds)

follow_path(t, stmt, from, up, dn) ==
  LET first == IF up = -1 THEN Predicates(t, stmt, FromTop(t, stmt, dn[1].name), dn[1].preds)
               ELSE FoldLeft(LAMBDA s, i : GoUp(t, s), Follow(from), [i \in 1 .. up |-> i])
  IN FoldLeft(LAMBDA s, step : Predicates(t, stmt, Down(t, stmt, s, step.name), step.preds),
              Elsewhere(t, first), IF up = -1 THEN Tail(dn) ELSE dn)

-----------------------------------------------------------------------------
IsKey(t, n) == n \in ToSet(t.node[t.node[n].par].i_key)

(* s is where the path of the leafref n leads.                             *)
Lead(t, n, s) ==
  LET again == s.list = t.node[s.n].par /\ Key(t, s.n) \in s.keys
      config == t.node[n].ref[1].req /\ t.node[n].ic = "true" /\ t.node[s.n].ic = "false"
  IN CASE s.stop = "Abort" -> t
       [] s.stop \notin {"", "Abort"} -> Err(t, s.stop, n)
       [] OTHER ->
            IF Kw(t, s.n) \notin Leaf THEN Err(t, "LEAFREF_NOT_LEAF", n)
            ELSE [t EXCEPT !.errors = @ \cup {e \in {<<"LEAFREF_MULTIPLE_KEYS", n>>} : again}
                                        \cup {e \in {<<"LEAFREF_BAD_CONFIG", n>>} : config}
                                        \cup {e \in {<<"CIRCULAR_DEPENDENCY", n>>} : s.n = n},
                           !.node[n].i_leafref_ptr = IF s.n = n THEN Nothing ELSE s.n]

(* seen: the leafrefs in the middle of whose validation this is; it is not *)
(* ended when it meets one of them again (a RecursionError).               *)
RECURSIVE v_reference_leaf_leafref(_, _, _)
v_reference_leaf_leafref(t, n, seen) ==
  LET ref == t.node[n].ref[1]
      d == follow_path(t, n, n, ref.derefup, ref.derefdn)
      t1 == v_reference_leaf_leafref(t, d.n, seen \cup {n})
      to == t1.node[d.n].i_leafref_ptr
  IN IF t.node[n].ref = <<>> \/ t.node[n].i_leafref_ptr # Nothing THEN t
     ELSE IF n \in seen THEN [t EXCEPT !.raised = TRUE]
     ELSE IF ref.derefup = 0 THEN Lead(t, n, follow_path(t, n, n, ref.up, ref.dn))
     ELSE IF d.stop = "Abort" THEN t
     ELSE IF d.stop # "" THEN Err(t, d.stop, n)
     ELSE IF Kw(t, d.n) # "leaf" \/ t.node[d.n].ref = <<>> THEN Err(t, "LEAFREF_DEREF_NOT_LEAFREF", n)
     ELSE IF t1.raised \/ to = Nothing THEN t1
     ELSE IF ~IsKey(t1, to) THEN Err(t1, "LEAFREF_DEREF_NOT_KEY", n)
     ELSE Lead(t1, n, follow_path(t1, n, to, ref.up, ref.dn))
=============================================================================
