---------------------------- MODULE Statements ----------------------------
(***************************************************************************)
(* The statements of a module, and the tree that pyang makes of them       *)
(* (statements.py).                                                        *)
(*                                                                         *)
(* Statements of the document are records; the statements that pyang makes *)
(* of them are numbered, as they are shared, moved and changed in place.   *)
(* A tree t is a record of the numbered statements (node) and of what has  *)
(* been found wrong with them (errors, raised), among others.  A name in a *)
(* path is a pair of the module and the name.                              *)
(***************************************************************************)
EXTENDS Integers, FiniteSets, SequencesExt

Stmt(kw, arg, sub) ==
  [kw |-> kw, arg |-> arg, sub |-> sub,
   cfg |-> "", mand |-> FALSE,  \* config; mandatory true, or min-elements of lists
   presence |-> FALSE, key |-> <<>>, dflt |-> "",
   unique |-> <<>>,  \* of lists: for each unique, its paths
   ref |-> <<>>,     \* the path of a leafref, if it is one
   path |-> <<>>, refines |-> <<>>, augs |-> <<>>]  \* of augment; of uses

Tmp == "__tmp_augment__"
Leaf == {"leaf", "leaf-list"}
Data == {"leaf", "leaf-list", "container", "list", "choice"}
WithChildren == {"module", "container", "list", "case", "choice", "grouping", "uses", "augment",
                 "input", "output", "action"}
Nothing == 0

Top(m) == IF m = "a" THEN 1 ELSE 2

Node(x, m) ==
  [kw |-> x.kw, arg |-> x.arg, mod |-> m, cfg |-> x.cfg, mand |-> x.mand,
   presence |-> x.presence, key |-> x.key, dflt |-> x.dflt, path |-> x.path,
   unique |-> x.unique, ref |-> x.ref,
   ic |-> "",      \* i_config: true, false, none, or not there
   ch |-> <<>>,    \* i_children
   par |-> Nothing, uses |-> Nothing,  \* parent, i_uses[0]
   i_key |-> <<>>, i_unique |-> <<>>, i_leafref_ptr |-> Nothing]

New(t) == Len(t.node) + 1
Put(t, rec) == [t EXCEPT !.node = Append(@, rec)]
Adopt(t, p, rec) ==
  [t EXCEPT !.node = Append([@ EXCEPT ![p].ch = Append(@, New(t))], [rec EXCEPT !.par = p])]

(* A statement that exists becomes a child of p.                           *)
Move(t, p, c) == [t EXCEPT !.node[p].ch = Append(@, c), !.node[c].par = p]

Err(t, code, n) == [t EXCEPT !.errors = @ \cup {<<code, n>>}]
Kw(t, n) == t.node[n].kw
Key(t, n) == <<t.node[n].mod, t.node[n].arg>>

search_child(t, children, key) ==
  LET found == SelectSeq(children, LAMBDA c : Key(t, c) = key)
  IN IF found = <<>> THEN Nothing ELSE found[1]

ForAll(t, Op(_, _), xs) == FoldLeft(LAMBDA s, x : IF s.raised THEN s ELSE Op(s, x), t, xs)
=============================================================================
