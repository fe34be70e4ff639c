----------------------------- MODULE SchemaTree -----------------------------
(***************************************************************************)
(* How pyang makes the schema tree of a module (statements.py, the phases  *)
(* expand_1 to unused): groupings are copied to where they are used and    *)
(* refined, shorthand cases get a case, config is inherited, augments are  *)
(* added in the order of the document with placeholders for nodes that a   *)
(* later one makes, names, keys, uniques, default cases and leafrefs are      *)
(* checked, and another module augments the tree and deviates from it.     *)
(*                                                                         *)
(* Module a is validated first, then module b, which imports it.           *)
(***************************************************************************)
EXTENDS Leafref

CONSTANT Documents  \* [groupings, body: of a, augments: of a and of b, deviations: by b]

VARIABLES
  doc,     \* the modules
  todo,    \* the steps that are left of the validation of both
  tree,    \* node: the statements; expanded: groupings; undefined: the placeholders;
           \* errors; raised: an exception ended the program
  target   \* i_target_node of the deviations

vars == <<doc, todo, tree, target>>

(* grammar.stmt_map: the substatements, of those modelled.                 *)
Substatements(kw) ==
  CASE kw \in {"container", "list", "grouping", "augment"} -> Data \cup {"action", "case"}
    [] kw \in {"case", "input", "output"} -> Data
    [] kw = "choice" -> {"case"}
    [] OTHER -> Data
Holds(kw, sub) ==
  /\ sub = "case" => kw \in {"choice", "augment", "grouping"}
  /\ sub \in Substatements(IF kw = "choice" /\ sub # "case" THEN "case" ELSE kw)

Grouping(g) == 2 + g

-----------------------------------------------------------------------------
(* v_inherit_properties *)
RECURSIVE Walk(_, _, _, _)
Walk(t, n, value, explicit) ==
  LET c == t.node[n].cfg
      ignored == c # "" /\ value = "none" /\ ~explicit
      invalid == c = "true" /\ value = "false"
      v == IF c = "" \/ ignored \/ invalid THEN value ELSE c
      t1 == [t EXCEPT !.node[n].ic = v,
                      !.errors = @ \cup {e \in {<<"CONFIG_IGNORED", n>>} : ignored}
                                   \cup {e \in {<<"INVALID_CONFIG", n>>} : invalid}]
      Child(s, k) == IF Kw(s, k) = "action" THEN Walk(s, k, "none", FALSE)
                     ELSE Walk(s, k, v, explicit \/ s.node[k].uses # Nothing)
  IN IF Kw(t, n) = Tmp THEN t1 ELSE ForAll(t1, Child, t.node[n].ch)

(* The children of a statement, as if its own config were true.            *)
InheritAll(t, n) ==
  ForAll(t, LAMBDA s, k : IF Kw(s, k) = "action" THEN Walk(s, k, "none", FALSE)
                          ELSE Walk(s, k, "true", TRUE), t.node[n].ch)

(* Mutant: what was added does not inherit.                                *)
Inherit_Not(t, n, child) == t

(* A child that was added; the attribute may be missing in the parent.     *)
Inherit(t, n, child) ==
  IF t.node[n].ic = "" THEN [t EXCEPT !.raised = TRUE] ELSE Walk(t, child, t.node[n].ic, TRUE)

-----------------------------------------------------------------------------
(* find_target_node.  Below a node that the path finds, those of our own   *)
(* module may come later: a placeholder is made.                           *)
FindStep(s, key, m, isAugment) ==
  LET child == search_child(s.t, s.t.node[s.n].ch, key)
      tmp == [Node(Stmt(Tmp, key[2], <<>>), m) EXCEPT !.ic = s.t.node[s.n].ic]
  IN IF s.n = Nothing \/ s.t.raised THEN s
     ELSE IF Kw(s.t, s.n) \notin Leaf /\ child # Nothing THEN [s EXCEPT !.n = child]
     ELSE IF Kw(s.t, s.n) \notin Leaf /\ isAugment /\ key[1] = m
       THEN IF tmp.ic = "" THEN [s EXCEPT !.t.raised = TRUE]
            ELSE [t |-> [Adopt(s.t, s.n, tmp) EXCEPT !.undefined[m] = @ \cup {New(s.t)}],
                  n |-> New(s.t)]
     ELSE [t |-> Err(s.t, "NODE_NOT_FOUND", key), n |-> Nothing]

find_target_node(t, from, path, m, isAugment) ==
  LET first == search_child(t, from, path[1])
      start == IF first # Nothing THEN [t |-> t, n |-> first]
               ELSE [t |-> Err(t, "NODE_NOT_FOUND", path[1]), n |-> Nothing]
  IN FoldLeft(LAMBDA s, key : IF s.n = Nothing THEN s ELSE FindStep(s, key, m, isAugment),
              start, Tail(path))

(* Where the path of an augment starts: at the top, or at what its uses    *)
(* brought.                                                                *)
Start(t, a) ==
  LET u == t.node[a].par
  IN IF Kw(t, u) = "module" THEN t.node[Top(t.node[a].path[1][1])].ch
     ELSE SelectSeq(t.node[t.node[u].par].ch, LAMBDA c : t.node[c].uses = u)

Target(t, a) == find_target_node(t, Start(t, a), t.node[a].path, t.node[a].mod, TRUE)

-----------------------------------------------------------------------------
(* v_expand_2_augment *)
RECURSIVE chk_mandatory(_, _)
chk_mandatory(t, n) ==
  CASE Kw(t, n) \in {"leaf", "list", "leaf-list"} -> {c \in {n} : t.node[n].mand}
    [] Kw(t, n) = "container" /\ ~t.node[n].presence ->
         UNION {chk_mandatory(t, k) : k \in ToSet(t.node[n].ch)}
    [] OTHER -> {}

create_new_case(t, choice, child) ==
  Move(Adopt(t, choice, Node(Stmt("case", t.node[child].arg, <<>>), t.node[child].mod)),
       New(t), child)

(* Mutant: what the replacement does not have is left at the placeholder.  *)
RECURSIVE add_tmp_children_Lost(_, _, _)
add_tmp_children_Lost(s, n, tmps) ==
  FoldLeft(LAMBDA r, tmp :
    LET ch == search_child(r.t, r.t.node[n].ch, Key(r.t, tmp))
    IN IF ch = Nothing THEN r
       ELSE add_tmp_children_Lost([r EXCEPT !.t.undefined[r.t.node[tmp].mod] = @ \ {tmp}],
                                  ch, r.t.node[tmp].ch),
    s, tmps)

(* What was added to a placeholder goes to the node that replaces it.      *)
(* stop: Abort.                                                            *)
RECURSIVE add_tmp_children(_, _, _)
add_tmp_children(s, n, tmps) ==
  FoldLeft(LAMBDA r, tmp :
    LET ch == search_child(r.t, r.t.node[n].ch, Key(r.t, tmp))
        m == r.t.node[tmp].mod
    IN IF r.stop \/ r.t.raised THEN r
       ELSE IF ch # Nothing /\ tmp \notin r.t.undefined[m] THEN [r EXCEPT !.t.raised = TRUE]
       ELSE IF ch # Nothing /\ Kw(r.t, ch) \in Leaf
         THEN [t |-> Err([r.t EXCEPT !.undefined[m] = @ \ {tmp}], "BAD_NODE_IN_AUGMENT", tmp),
               stop |-> TRUE]
       ELSE IF ch # Nothing
         THEN add_tmp_children([r EXCEPT !.t.undefined[m] = @ \ {tmp}], ch, r.t.node[tmp].ch)
       ELSE IF Kw(r.t, n) = "choice" /\ Kw(r.t, tmp) # "case"
         THEN [r EXCEPT !.t = create_new_case(r.t, n, tmp)]
       ELSE [r EXCEPT !.t = Move(r.t, n, tmp)],
    s, tmps)

Replace(ids, old, new) == [i \in DOMAIN ids |-> IF ids[i] = old THEN new ELSE ids[i]]

(* One child of the augment a.  An error may be the end of it.             *)
AugmentChild(s, a, tgt, c) ==
  LET t == s.t
      m == t.node[a].mod
      ch == search_child(t, t.node[tgt].ch, <<m, t.node[c].arg>>)
      known == [t EXCEPT !.undefined[m] = @ \ {ch}]
      replaced == [known EXCEPT !.node[tgt].ch = Replace(@, ch, c), !.node[c].par = tgt]
      fits == Kw(t, tgt) = Tmp \/ Holds(Kw(t, tgt), Kw(t, c))
  IN IF s.stop \/ t.raised THEN s
     ELSE IF ch # Nothing /\ Kw(t, ch) = Tmp /\ Kw(t, c) \in Leaf
       THEN [t |-> Err(known, "BAD_NODE_IN_AUGMENT", a), stop |-> TRUE]
     ELSE IF ch # Nothing /\ Kw(t, ch) = Tmp
       THEN add_tmp_children([t |-> replaced, stop |-> FALSE], c, t.node[ch].ch)
     ELSE IF ch # Nothing THEN [t |-> Err(t, "DUPLICATE_CHILD_NAME", Key(t, c)), stop |-> TRUE]
     ELSE IF Kw(t, tgt) = "action" THEN [s EXCEPT !.t = Err(t, "BAD_TARGET_NODE", a)]
     ELSE IF ~fits THEN [s EXCEPT !.t = Err(t, "UNEXPECTED_KEYWORD_AUGMENT", a)]
     ELSE IF Kw(t, tgt) = "choice" /\ Kw(t, c) # "case"
       THEN [s EXCEPT !.t = Inherit(create_new_case(t, tgt, c), tgt, New(t))]
     ELSE [s EXCEPT !.t = Inherit(Move(t, tgt, c), tgt, c)]

\* f is where the path of the augment a leads.
AugmentTarget(f, a) ==
  LET tgt == f.n
      strange == f.t.node[a].mod # f.t.node[tgt].mod /\ f.t.node[tgt].ic = "true"
      t1 == IF ~strange THEN f.t
            ELSE [f.t EXCEPT !.errors = @ \cup
                    {<<"AUGMENT_MANDATORY", n>> :
                       n \in UNION {chk_mandatory(f.t, c) : c \in ToSet(f.t.node[a].ch)}}]
  IN IF tgt = Nothing \/ f.t.raised THEN f.t
     ELSE IF Kw(f.t, tgt) \in Leaf THEN Err(f.t, "BAD_NODE_IN_AUGMENT", a)
     ELSE FoldLeft(LAMBDA s, c : AugmentChild(s, a, tgt, c), [t |-> t1, stop |-> FALSE],
                   f.t.node[a].ch).t

Expand2(t, a) == AugmentTarget(Target(t, a), a)

(* v_expand_3_augment looks for the targets again.                         *)
Expand3(t, a) == Target(t, a).t

-----------------------------------------------------------------------------
(* v_expand_1_children *)
RECURSIVE Copy(_, _, _, _, _), ExpandAll(_, _, _, _)

Copy(t, n, p, u, m) ==
  LET rec == [t.node[n] EXCEPT !.ch = <<>>, !.uses = u, !.mod = m]
  IN ForAll(Adopt(t, p, rec), LAMBDA s, k : Copy(s, k, New(t), u, m), t.node[n].ch)

ExpandGrouping(t, g) ==
  IF g \in t.expanded THEN t
  ELSE ExpandAll([t EXCEPT !.expanded = @ \cup {g}], Grouping(g), doc.groupings[g], "a")

(* refine looks for its node among all children of the statement that the  *)
(* uses is in.                                                             *)
FindRefined(t, p, path) ==
  FoldLeft(LAMBDA s, key :
    LET child == search_child(s.t, s.t.node[s.n].ch, key)
    IN IF s.n = Nothing THEN s
       ELSE IF Kw(s.t, s.n) \in Leaf THEN [t |-> Err(s.t, "BAD_NODE_IN_REFINE", key), n |-> Nothing]
       ELSE IF child = Nothing THEN [t |-> Err(s.t, "NODE_NOT_FOUND", key), n |-> Nothing]
       ELSE [s EXCEPT !.n = child],
    [t |-> t, n |-> p], path)

RefineAt(s, f, r) ==
  LET n == f.n
      t1 == IF r.cfg = "" THEN f.t
            ELSE IF Kw(f.t, n) \in Data THEN [f.t EXCEPT !.node[n].cfg = r.cfg]
            ELSE Err(f.t, "BAD_REFINEMENT", n)
      t2 == IF r.mand = "" THEN t1
            ELSE IF Kw(t1, n) \in Data \ {"container"} THEN [t1 EXCEPT !.node[n].mand = (r.mand = "true")]
            ELSE Err(t1, "BAD_REFINEMENT", n)
  IN IF n = Nothing THEN [s EXCEPT !.t = f.t]
     ELSE IF n \in s.refined THEN [s EXCEPT !.t = Err(f.t, "MULTIPLE_REFINE", n)]
     ELSE [t |-> t2, refined |-> s.refined \cup {n}]

Augment(t, p, x, m) == ExpandAll(Put(t, [Node(x, m) EXCEPT !.par = p]), New(t), x.sub, m)

Refine(s, p, r) == RefineAt(s, FindRefined(s.t, p, r.path), r)

(* v_expand_1_uses, and what comes after it.  u is the uses statement.     *)
CopyGrouping(t, p, u, x, m) ==
  ForAll(t, LAMBDA s, g : IF Holds(Kw(s, p), Kw(s, g)) THEN Copy(s, g, p, u, m)
                          ELSE Err(s, "UNEXPECTED_KEYWORD_USES", u),
         t.node[Grouping(x.arg)].ch)

RefineAll(t, p, refines) ==
  FoldLeft(LAMBDA s, r : Refine(s, p, r), [t |-> t, refined |-> {}], refines).t

AugmentUses(t, p, u) ==
  LET augs == SelectSeq([n \in 1 .. Len(t.node) |-> n],
                        LAMBDA n : Kw(t, n) = "augment" /\ t.node[n].par = u)
  IN ForAll(ForAll(InheritAll(t, p), Expand2, augs), Expand3, augs)

ExpandUses(t, p, x, m) ==
  LET u == New(t)
      t1 == ExpandGrouping(Put(t, [Node(x, m) EXCEPT !.par = p]), x.arg)
      t2 == RefineAll(CopyGrouping(t1, p, u, x, m), p, x.refines)
  IN AugmentUses(ForAll(InheritAll(t2, p), LAMBDA s, a : Augment(s, u, a, m), x.augs), p, u)

(* The input and output of an action that are not there come first.        *)
Substmts(x) ==
  LET Implicit(kw) == IF \E i \in DOMAIN x.sub : x.sub[i].kw = kw THEN <<>> ELSE <<Stmt(kw, kw, <<>>)>>
  IN IF x.kw = "action" THEN Implicit("input") \o Implicit("output") \o x.sub ELSE x.sub

Expand(t, p, x, m) ==
  LET p1 == IF Kw(t, p) = "choice" /\ x.kw # "case" THEN New(t) ELSE p
      t1 == IF p1 = p THEN t ELSE Adopt(t, p, Node(Stmt("case", x.arg, <<>>), m))
      empty == {i \in DOMAIN x.sub : x.kw = "action" /\ x.sub[i].sub = <<>>}
      t2 == [t1 EXCEPT !.errors = @ \cup {<<"EXPECTED_DATA_DEF", x.sub[i].kw>> : i \in empty}]
  IN IF x.kw = "uses" THEN ExpandUses(t, p, x, m)
     ELSE ExpandAll(Adopt(t2, p1, Node(x, m)), New(t2), Substmts(x), m)

ExpandAll(t, p, xs, m) == ForAll(t, LAMBDA s, x : Expand(s, p, x, m), xs)

Numbers(xs) == [i \in DOMAIN xs |-> i]
Augments(m) == SelectSeq(Numbers(tree.node), LAMBDA n :
                 Kw(tree, n) = "augment" /\ tree.node[n].par = Top(m))

-----------------------------------------------------------------------------
(* The phases that run over i_children: those of our own module are gone   *)
(* into, others are only looked at.                                        *)
RECURSIVE Below(_, _, _)
Below(t, n, m) ==
  {n} \cup (IF Kw(t, n) \in Leaf \/ t.node[n].mod # m THEN {}
            ELSE UNION {Below(t, k, m) : k \in ToSet(t.node[n].ch)})
Visited(m) == UNION {Below(tree, n, m) : n \in {Top(m)} \cup ToSet(Augments(m))}

(* v_unique_name_children: a choice and the nodes in its cases as well.    *)
(* Mutant: the names of cases are taken for names of nodes.                *)
RECURSIVE Named_Cases(_, _)
Named_Cases(t, n) ==
  <<Key(t, n)>> \o
  (IF Kw(t, n) \notin {"choice", "case"} THEN <<>>
   ELSE FlattenSeq([i \in DOMAIN t.node[n].ch |-> Named_Cases(t, t.node[n].ch[i])]))

RECURSIVE Named(_, _)
Named(t, n) ==
  <<Key(t, n)>> \o
  (IF Kw(t, n) # "choice" THEN <<>>
   ELSE FlattenSeq(FlattenSeq([i \in DOMAIN t.node[n].ch |->
          LET case == t.node[t.node[n].ch[i]]
          IN [j \in DOMAIN case.ch |-> Named(t, case.ch[j])]])))
Duplicates(t, n) ==
  LET names == FlattenSeq([i \in DOMAIN t.node[n].ch |-> Named(t, t.node[n].ch[i])])
  IN {names[i] : i \in {j \in DOMAIN names : \E k \in 1 .. j - 1 : names[k] = names[j]}}

(* v_key: keys is what it found, up to the first one that is bad.          *)
KeyStep(t, n, s, name) ==
  LET found == SelectSeq(t.node[n].ch, LAMBDA c : t.node[c].arg = name)
      k == found[1]
  IN IF s.bad THEN s
     ELSE IF found = <<>> \/ Kw(t, k) # "leaf" \/ k \in ToSet(s.keys)
       THEN [s EXCEPT !.bad = TRUE, !.errs = @ \cup {<<"BAD_KEY", n>>}]
     ELSE [s EXCEPT !.keys = Append(@, k),
                    !.errs = @ \cup {e \in {<<"KEY_BAD_CONFIG", n>>} : t.node[k].ic # t.node[n].ic}]

(* v_unique: the paths of one unique; found is what they lead to, up to    *)
(* the first that is bad.                                                  *)
UniquePart(t, s, name) ==
  LET found == SelectSeq(t.node[s.n].ch, LAMBDA c : t.node[c].arg = name)
  IN IF s.bad # "" THEN s
     ELSE IF Kw(t, s.n) \notin {"container", "list", "choice", "case"} \/ found = <<>>
       THEN [s EXCEPT !.bad = "BAD_UNIQUE_PART"]
     ELSE [s EXCEPT !.n = found[1],
                    !.errs = @ \cup {e \in {"BAD_UNIQUE_PART_LIST"} : Kw(t, found[1]) = "list"}]

UniquePath(t, n, s, path) ==
  LET r == FoldLeft(LAMBDA x, name : UniquePart(t, x, name), [s EXCEPT !.n = n], path)
      differs == \E f \in ToSet(s.found) : /\ t.node[f].ic \notin {"", "none"}
                                           /\ t.node[r.n].ic \notin {"", t.node[f].ic}
  IN IF r.bad # "" THEN r
     ELSE IF Kw(t, r.n) # "leaf" THEN [r EXCEPT !.bad = "BAD_UNIQUE"]
     ELSE [r EXCEPT !.errs = @ \cup {e \in {"DUPLICATE_UNIQUE"} : r.n \in ToSet(s.found)},
                    !.bad = IF differs THEN "BAD_UNIQUE_CONFIG" ELSE "",
                    !.found = IF differs THEN @ ELSE Append(@, r.n)]

Unique(t, n, paths) ==
  FoldLeft(LAMBDA s, path : UniquePath(t, n, s, path),
           [n |-> n, found |-> <<>>, errs |-> {}, bad |-> ""], paths)

(* After a bad one the others are not looked at.                           *)
v_unique(t, n) ==
  FoldLeft(LAMBDA s, paths :
    LET u == Unique(s.t, n, paths)
        keys == ToSet(t.node[n].i_key)
        isKey == u.bad = "" /\ keys # {} /\ keys \subseteq ToSet(u.found)
        errs == u.errs \cup {e \in {"UNIQUE_IS_KEY"} : isKey} \cup ({u.bad} \ {""})
        t1 == [s.t EXCEPT !.errors = @ \cup {<<e, n>> : e \in errs}]
    IN IF s.stop THEN s
       ELSE IF u.bad # "" THEN [t |-> t1, stop |-> TRUE]
       ELSE [s EXCEPT !.t = [t1 EXCEPT !.node[n].i_unique = Append(@, u.found)]],
    [t |-> [t EXCEPT !.node[n].i_unique = <<>>], stop |-> FALSE], t.node[n].unique).t

v_reference_list(t, n) ==
  LET r == FoldLeft(LAMBDA s, name : KeyStep(t, n, s, name),
                    [keys |-> <<>>, bad |-> FALSE, errs |-> {}], t.node[n].key)
      t1 == [t EXCEPT !.node[n].i_key = r.keys,
                      !.errors = @ \cup r.errs \cup
                        {e \in {<<"NEED_KEY", n>>} : t.node[n].ic = "true" /\ t.node[n].key = <<>>}]
  IN v_unique(t1, n)

RECURSIVE Mandatory(_, _)
Mandatory(t, n) ==
  \E k \in ToSet(t.node[n].ch) :
    \/ Kw(t, k) \in Data \ {"container"} /\ t.node[k].mand
    \/ Kw(t, k) = "container" /\ ~t.node[k].presence /\ Mandatory(t, k)

v_reference_choice(t, n) ==
  LET d == SelectSeq(t.node[n].ch, LAMBDA c : t.node[c].arg = t.node[n].dflt)
      wrong == {e \in {"DEFAULT_AND_MANDATORY"} : t.node[n].mand}
               \cup {e \in {"DEFAULT_CASE_NOT_FOUND"} : d = <<>>}
               \cup {e \in {"MANDATORY_NODE_IN_DEFAULT_CASE"} : d # <<>> /\ Mandatory(t, d[1])}
  IN IF t.node[n].dflt = "" THEN t
     ELSE [t EXCEPT !.errors = @ \cup {<<e, n>> : e \in wrong}]

(* v_reference_action *)
RECURSIVE BadAncestor(_, _)
BadAncestor(t, n) ==
  LET p == t.node[n].par
  IN p # Nothing /\ \/ Kw(t, p) = "action"
                    \/ Kw(t, p) = "list" /\ t.node[p].ic = "false" /\ t.node[p].key = <<>>
                    \/ BadAncestor(t, p)

Reference1(t, n) ==
  CASE Kw(t, n) = "list" -> v_reference_list(t, n)
    [] Kw(t, n) = "choice" -> v_reference_choice(t, n)
    [] Kw(t, n) = "action" /\ BadAncestor(t, n) -> Err(t, "BAD_ANCESTOR", n)
    [] OTHER -> t

Reference2(t, n) == v_reference_leaf_leafref(t, n, {})

-----------------------------------------------------------------------------
(* v_reference_deviate *)
RECURSIVE ConfigTrueBelow(_, _), SetConfigBelow(_, _, _)
ConfigTrueBelow(t, n) ==
  \E k \in ToSet(t.node[n].ch) : t.node[k].cfg = "true" \/ ConfigTrueBelow(t, k)

SetConfigBelow(t, n, value) ==
  ForAll(t, LAMBDA s, k :
    SetConfigBelow(IF s.node[k].cfg = "" THEN [s EXCEPT !.node[k].ic = value] ELSE s, k, value),
    t.node[n].ch)

(* Mutant: keys may go, too.                                               *)
NotSupported_Key(t, n) ==
  [t EXCEPT !.node[t.node[n].par].ch = SelectSeq(@, LAMBDA c : c # n)]

NotSupported(t, n) ==
  LET p == t.node[n].par
  IN IF Kw(t, p) = "list" /\ n \in ToSet(t.node[p].i_key) THEN Err(t, "BAD_DEVIATE_KEY", n)
     ELSE [t EXCEPT !.node[p].ch = SelectSeq(@, LAMBDA c : c # n)]

AddMandatory(t, n) ==
  IF t.node[n].mand THEN Err(t, "BAD_DEVIATE_ADD", n)
  ELSE IF Kw(t, n) \notin Data \ {"container"} THEN Err(t, "BAD_DEVIATE_TYPE", n)
  ELSE [t EXCEPT !.node[n].mand = TRUE]

ReplaceConfig(t, n, value) ==
  LET p == t.node[n].par
      had == t.node[n].cfg
      was == IF had # "" THEN had ELSE IF t.node[n].ic = "true" THEN "true" ELSE "false"
  IN IF value = "true"
     THEN IF was = "true" THEN t
          ELSE IF t.node[p].ic = "" THEN [t EXCEPT !.raised = TRUE]  \* a module has no i_config
          ELSE IF t.node[p].ic = "false" THEN Err(t, "INVALID_CONFIG", n)
          ELSE [t EXCEPT !.node[n].ic = "true", !.node[n].cfg = IF had = "" THEN "" ELSE "true"]
     ELSE IF ConfigTrueBelow(t, n) THEN Err(t, "INVALID_CONFIG", n)
     ELSE SetConfigBelow([t EXCEPT !.node[n].ic = "false", !.node[n].cfg = "false"], n, "false")

DeleteDefault(t, n) ==
  IF t.node[n].dflt = "" THEN Err(t, "BAD_DEVIATE_DEL", n) ELSE [t EXCEPT !.node[n].dflt = ""]

Deviate(t, n, deviate) ==
  CASE deviate = "not-supported" -> NotSupported(t, n)
    [] deviate = "add config" -> Err(t, "BAD_DEVIATE_ADD", n)
    [] deviate = "add mandatory" -> AddMandatory(t, n)
    [] deviate = "replace mandatory" ->
         IF t.node[n].mand THEN [t EXCEPT !.node[n].mand = FALSE] ELSE Err(t, "BAD_DEVIATE_REP", n)
    [] deviate = "replace config true" -> ReplaceConfig(t, n, "true")
    [] deviate = "replace config false" -> ReplaceConfig(t, n, "false")
    [] deviate = "delete default" -> DeleteDefault(t, n)
    [] deviate = "delete mandatory" -> Err(t, "BAD_DEVIATE_DEL2", n)

-----------------------------------------------------------------------------
(* One action for each phase of validate_module, and for each statement    *)
(* in those phases that change the tree statement by statement.            *)
Turn(phase) == todo # <<>> /\ todo[1].phase = phase /\ ~tree.raised
Done(t) == tree' = t /\ todo' = Tail(todo) /\ UNCHANGED doc
Of == todo[1].mod
At == todo[1].at

ExpandModule ==
  /\ Turn("expand_1")
  /\ LET t1 == ExpandAll(tree, Top(Of), IF Of = "a" THEN doc.body ELSE <<>>, Of)
         t2 == IF Of = "a" THEN ForAll(t1, ExpandGrouping, Numbers(doc.groupings)) ELSE t1
     IN Done(ForAll(t2, LAMBDA s, x : Augment(s, Top(Of), x, Of), doc.augments[Of]))
  /\ UNCHANGED target

InheritProperties ==
  /\ Turn("inherit_properties")
  /\ Done(InheritAll(ForAll(tree, LAMBDA s, a : Walk(s, a, "true", TRUE), Augments(Of)), Top(Of)))
  /\ UNCHANGED target

ExpandAugment == Turn("expand_2") /\ Done(Expand2(tree, Augments(Of)[At])) /\ UNCHANGED target
FindAgain == Turn("expand_3") /\ Done(Expand3(tree, Augments(Of)[At])) /\ UNCHANGED target

UniqueName ==
  /\ Turn("unique_name")
  /\ LET twice == UNION {Duplicates(tree, n) : n \in {k \in Visited(Of) : Kw(tree, k) \notin Leaf \cup {Tmp}}}
     IN Done([tree EXCEPT !.errors = @ \cup {<<"DUPLICATE_CHILD_NAME", name>> : name \in twice}])
  /\ UNCHANGED target

InVisited(m) ==
  LET visited == Visited(m) IN SelectSeq(Numbers(tree.node), LAMBDA n : n \in visited)

References ==
  Turn("reference_1") /\ Done(ForAll(tree, Reference1, InVisited(Of))) /\ UNCHANGED target
Leafrefs ==
  Turn("reference_2") /\ Done(ForAll(tree, Reference2, InVisited(Of))) /\ UNCHANGED target

Deviation ==
  /\ Turn("reference_3")
  /\ LET d == doc.deviations[At]
         f == find_target_node(tree, tree.node[Top(d.path[1][1])].ch, d.path, "b", FALSE)
     IN /\ Done(IF f.n = Nothing THEN f.t ELSE Deviate(f.t, f.n, d.deviate))
        /\ target' = Append(target, f.n)

(* v_reference_deviation_4, v_recheck_target *)
Recheck ==
  /\ Turn("reference_4")
  /\ LET n == target[At]
         gone == doc.deviations[At].deviate = "not-supported"
     IN Done(IF n = Nothing \/ gone THEN tree
             ELSE CASE Kw(tree, n) = "list" -> v_reference_list(tree, n)
                    [] Kw(tree, n) \in Leaf -> Reference2(tree, n)
                    [] OTHER -> tree)
  /\ UNCHANGED target

Unused ==
  /\ Turn("unused")
  /\ Done([tree EXCEPT !.errors = @ \cup {<<"NODE_NOT_FOUND", Key(tree, n)>> : n \in tree.undefined[Of]}])
  /\ UNCHANGED target

Steps(d, m) ==
  LET Once(phase) == <<[mod |-> m, phase |-> phase, at |-> 0]>>
      Each(phase, xs) == [i \in DOMAIN xs |-> [mod |-> m, phase |-> phase, at |-> i]]
      deviations == IF m = "b" THEN d.deviations ELSE <<>>
  IN Once("expand_1") \o Once("inherit_properties")
     \o Each("expand_2", d.augments[m]) \o Each("expand_3", d.augments[m])
     \o Once("unique_name") \o Once("reference_1") \o Once("reference_2")
     \o Each("reference_3", deviations) \o Each("reference_4", deviations)
     \o Once("unused")

Init ==
  /\ doc \in Documents
  /\ todo = Steps(doc, "a") \o Steps(doc, "b")
  /\ tree = [node |-> <<Node(Stmt("module", "a", <<>>), "a"), Node(Stmt("module", "b", <<>>), "b")>>
                      \o [g \in DOMAIN doc.groupings |-> Node(Stmt("grouping", g, <<>>), "a")],
             expanded |-> {}, undefined |-> [m \in {"a", "b"} |-> {}], errors |-> {}, raised |-> FALSE]
  /\ target = <<>>

Next ==
  \/ ExpandModule \/ InheritProperties \/ ExpandAugment \/ FindAgain
  \/ UniqueName \/ References \/ Leafrefs \/ Deviation \/ Recheck \/ Unused

Spec == Init /\ [][Next]_vars
-----------------------------------------------------------------------------
(* What the modules say, without an order: the nodes of the body, with the *)
(* groupings where they are used, and then those of each augment that has  *)
(* its target, for as long as there are any.  A node is its path and its   *)
(* keyword; an augment is found by its path, and adds its content there.   *)
ShortCase(kw, x, m) == IF kw = "choice" /\ x.kw # "case" THEN <<<<m, x.arg>>>> ELSE <<>>

RECURSIVE Nodes(_, _, _, _), Added(_, _, _)
Nodes(kw, at, xs, m) ==
  UNION {LET x == xs[i]
             case == at \o ShortCase(kw, x, m)
             here == Append(case, <<m, x.arg>>)
         IN IF x.kw = "uses" THEN Nodes(kw, at, doc.groupings[x.arg], m)
            ELSE {<<case, "case">> : p \in {case} \ {at}} \cup {<<here, x.kw>>}
                 \cup Nodes(x.kw, here, Substmts(x), m) : i \in DOMAIN xs}

(* The augments that the uses in xs bring: where each starts, and it.      *)
Added(at, xs, m) ==
  UNION {LET x == xs[i]
         IN IF x.kw = "uses"
            THEN Added(at, doc.groupings[x.arg], m)
                 \cup {[at |-> at, aug |-> x.augs[j], mod |-> m] : j \in DOMAIN x.augs}
            ELSE Added(Append(at, <<m, x.arg>>), x.sub, m) : i \in DOMAIN xs}

AllAdded ==
  Added(<<>>, doc.body, "a")
  \cup UNION {{[at |-> <<>>, aug |-> doc.augments[m][i], mod |-> m] :
                 i \in DOMAIN doc.augments[m]} : m \in {"a", "b"}}

Lands(a, S) == {s \in S : s[1] = a.at \o a.aug.path}

RECURSIVE Sum(_, _)
Sum(S, added) ==
  LET now == {a \in added : Lands(a, S) # {}}
  IN IF now = {} THEN S
     ELSE Sum(S \cup UNION {Nodes(s[2], s[1], a.aug.sub, a.mod) : <<a, s>> \in
                              {<<a, s>> \in now \X S : s \in Lands(a, S)}},
              added \ now)
Whole == Sum(Nodes("module", <<>>, doc.body, "a"), AllAdded)

Removed(s) == \E i \in DOMAIN doc.deviations :
  doc.deviations[i].deviate = "not-supported" /\ IsPrefix(doc.deviations[i].path, s[1])

RECURSIVE Reached(_, _)
Reached(n, at) ==
  UNION {{<<Append(at, Key(tree, k)), k>>} \cup Reached(k, Append(at, Key(tree, k))) :
           k \in ToSet(tree.node[n].ch)}
Schema == Reached(Top("a"), <<>>)
SchemaNodes == {s[2] : s \in Schema}

Finished == todo = <<>> \/ tree.raised
Accepted == todo = <<>> /\ ~tree.raised /\ tree.errors = {}

(* No augment comes before the one that makes a node of its path.          *)
InOrder(m) ==
  \A i \in DOMAIN doc.augments[m] :
    \E s \in Sum(Nodes("module", <<>>, doc.body, "a"),
                 {a \in AllAdded : \A j \in DOMAIN doc.augments[m] :
                                     a.aug = doc.augments[m][j] => j < i}) :
      s[1] = doc.augments[m][i].path

AddedNodes(a, S) == UNION {Nodes(s[2], s[1], a.aug.sub, a.mod) : s \in Lands(a, S)}
Paths(S) == {s[1] : s \in S}

(* The names of a path, without choices and cases: what is in their cases  *)
(* shares names with what is beside the choice.                            *)
DataPath(path, cases) ==
  LET upto == SelectSeq([i \in DOMAIN path |-> SubSeq(path, 1, i)], LAMBDA p : p \notin cases)
  IN [i \in DOMAIN upto |-> Last(upto[i])]

(* Every augment has a target that may hold what it adds, and nothing is   *)
(* added twice, or has the name of another.                                *)
Sound ==
  LET whole == Whole
      cases == {s \in whole : s[2] \in {"choice", "case"}}
      adds == [a \in AllAdded |-> Paths(AddedNodes(a, whole))]
      data == whole \ cases
  IN /\ doc.deviations = <<>>
     /\ \A a \in AllAdded :
          /\ \E s \in Lands(a, whole) :
               s[2] \notin Leaf /\ \A i \in DOMAIN a.aug.sub : Holds(s[2], a.aug.sub[i].kw)
          /\ adds[a] \cap Paths(Nodes("module", <<>>, doc.body, "a")) = {}
          /\ \A b \in AllAdded \ {a} : adds[a] \cap adds[b] = {}
     /\ Cardinality({DataPath(s[1], Paths(cases)) : s \in data}) = Cardinality(data)

(* Where the paths of uniques and leafrefs ought to lead, said with the    *)
(* paths of the nodes: in the schema tree for uniques, in the data tree,   *)
(* which has no choices and cases, for leafrefs.                           *)
UniqueLeafs(l, path) ==
  {s[2] : s \in {x \in Reached(l, <<>>) : [i \in DOMAIN x[1] |-> x[1][i][2]] = path}}

RECURSIVE DataPathOf(_)
DataPathOf(n) ==
  IF Kw(tree, n) = "module" THEN <<>>
  ELSE DataPathOf(tree.node[n].par) \o (IF Kw(tree, n) \in Skip THEN <<>> ELSE <<Key(tree, n)>>)

WithModule(n, name) == IF name[1] # "" THEN name ELSE [name EXCEPT ![1] = tree.node[n].mod]
Meant(n, at, up, dn) ==
  LET down == [i \in DOMAIN dn |-> WithModule(n, dn[i].name)]
  IN IF up = -1 THEN down
     ELSE IF up > Len(at) THEN <<"outside">> ELSE SubSeq(at, 1, Len(at) - up) \o down
NodesAt(path) == {n \in SchemaNodes : Kw(tree, n) \notin Skip /\ DataPathOf(n) = path}

(* A leafref whose deref() is of itself: pyang never stops following it.   *)
ThroughItself ==
  \E n \in SchemaNodes : \E path \in ToSet(tree.node[n].ref) :
    path.derefup > 0 /\ n \in NodesAt(Meant(n, DataPathOf(n), path.derefup, path.derefdn))

AboutNames(e) == e[1] \in {"NODE_NOT_FOUND", "DUPLICATE_CHILD_NAME"}
Alarm == tree.raised \/ \E e \in tree.errors : AboutNames(e)

-----------------------------------------------------------------------------
(* A document that is accepted has the tree that it describes: nothing of  *)
(* an augment is lost or added twice on the way through the placeholders,  *)
(* none of which is left, and every grouping came whole.                   *)
TreeIsTheSum ==
  Accepted => {<<s[1], Kw(tree, s[2])>> : s \in Schema} = {s \in Whole : ~Removed(s)}

(* A document without a mistake in its names gets no error about a name,   *)
(* and pyang does not end in an exception, as long as each augment comes   *)
(* after those that make its target and no leafref goes through itself.    *)
NoFalseAlarm ==
  Finished /\ Sound /\ InOrder("a") /\ InOrder("b") /\ ~ThroughItself => ~Alarm

(* In an accepted tree config is inherited: each node has the value of its *)
(* config statement or else of its parent, and none is true below a false  *)
(* one; whether the node came from a grouping, a refine, an augment, or    *)
(* was deviated to config false.                                           *)
ConfigIsInherited ==
  Accepted /\ InOrder("a") /\ InOrder("b") /\ (\A i \in DOMAIN doc.deviations :
                                  doc.deviations[i].deviate # "replace config true") =>
    \A n \in SchemaNodes :
      LET p == tree.node[n].par
          c == tree.node[n].cfg
      IN p # Top("a") /\ tree.node[p].ic \in {"true", "false"} /\ Kw(tree, n) # "action" =>
           /\ tree.node[n].ic = IF c = "" THEN tree.node[p].ic ELSE c
           /\ tree.node[p].ic = "false" => tree.node[n].ic = "false"

(* In an accepted tree a list of configuration has keys, and they are      *)
(* leafs that are still there, also when another module deviated.          *)
KeysAreThere ==
  Accepted => \A n \in SchemaNodes :
    Kw(tree, n) = "list" =>
      /\ tree.node[n].ic = "true" => tree.node[n].key # <<>>
      /\ [i \in DOMAIN tree.node[n].i_key |-> tree.node[tree.node[n].i_key[i]].arg] = tree.node[n].key
      /\ \A k \in ToSet(tree.node[n].i_key) :
           Kw(tree, k) = "leaf" /\ k \in ToSet(tree.node[n].ch)

(* The predicates of each step name keys of the list it leads to, each     *)
(* once, and not the key that the path ends at; and other leafs.           *)
PredicatesFit(n, at, up, dn) ==
  \A i \in DOMAIN dn :
    LET list == Meant(n, at, up, SubSeq(dn, 1, i))
        KeyOf(p) == Append(list, WithModule(n, p.key))
    IN \A j \in DOMAIN dn[i].preds :
         LET p == dn[i].preds[j]
         IN /\ \A o \in 1 .. j - 1 : KeyOf(dn[i].preds[o]) # KeyOf(p)
            /\ \E l \in NodesAt(list), k \in NodesAt(KeyOf(p)) : k \in ToSet(tree.node[l].i_key)
            /\ KeyOf(p) # Meant(n, at, up, dn)
            /\ \E k \in NodesAt(Meant(n, DataPathOf(n), p.up, p.dn)) : Kw(tree, k) = "leaf"

(* The leafs that the leafref n may mean.                                  *)
RECURSIVE Targets(_)
Targets(n) ==
  LET ref == tree.node[n].ref[1]
      self == DataPathOf(n)
      from == NodesAt(Meant(n, self, ref.derefup, ref.derefdn))
      behind == IF ref.derefup = 0 THEN {n}
                ELSE {k \in UNION {IF tree.node[d].ref = <<>> THEN {} ELSE Targets(d) : d \in from} :
                        \E l \in SchemaNodes : k \in ToSet(tree.node[l].i_key)}
  IN UNION {IF ~PredicatesFit(n, DataPathOf(b), ref.up, ref.dn) THEN {}
            ELSE {k \in NodesAt(Meant(n, DataPathOf(b), ref.up, ref.dn)) :
                    /\ Kw(tree, k) \in Leaf /\ k # n
                    /\ tree.node[n].ic = "true" /\ tree.node[k].ic = "false" => ~ref.req} : b \in behind}

LeafrefError(n) ==
  \E e \in tree.errors :
    /\ e[1] \in {"LEAFREF_TOO_MANY_UP", "LEAFREF_IDENTIFIER_NOT_FOUND", "LEAFREF_IDENTIFIER_BAD_NODE",
                 "LEAFREF_NO_KEY", "LEAFREF_MULTIPLE_KEYS", "LEAFREF_BAD_PREDICATE",
                 "LEAFREF_BAD_PREDICATE_PTR", "LEAFREF_DEREF_NOT_LEAFREF", "LEAFREF_DEREF_NOT_KEY",
                 "LEAFREF_NOT_LEAF", "LEAFREF_BAD_CONFIG", "CIRCULAR_DEPENDENCY"}
    /\ e[2] = n
RefersToBad(n) == \E d \in SchemaNodes : tree.node[n].ref[1].derefup > 0 /\ LeafrefError(d)

(* The names in a tree are right and nothing deviates: each leafref has    *)
(* the leaf that its path means in the data tree, and no error; or else an *)
(* error, at it or at the leafref that it goes through.                    *)
LeafrefsLead ==
  todo = <<>> /\ doc.deviations = <<>> /\ ~Alarm =>
    \A n \in {k \in SchemaNodes : tree.node[k].ref # <<>>} :
      IF Targets(n) # {} THEN Targets(n) = {tree.node[n].i_leafref_ptr} /\ ~LeafrefError(n)
      ELSE LeafrefError(n) \/ RefersToBad(n)

UniquesLead ==
  Accepted /\ doc.deviations = <<>> => \A n \in SchemaNodes :
    LET paths == tree.node[n].unique
        leafs == tree.node[n].i_unique
    IN /\ Len(leafs) = Len(paths)
       /\ \A i \in DOMAIN paths : Len(leafs[i]) = Len(paths[i])
       /\ \A i \in DOMAIN paths : \A j \in DOMAIN paths[i] :
            UniqueLeafs(n, paths[i][j]) = {leafs[i][j]} /\ Kw(tree, leafs[i][j]) = "leaf"
       /\ \A i \in DOMAIN paths : Cardinality({tree.node[k].ic : k \in ToSet(leafs[i])}) = 1

(* Keys, uniques and leafrefs lead to the leafs that they name.            *)
ReferencesLead == KeysAreThere /\ UniquesLead /\ LeafrefsLead
=============================================================================
