---------------------------- MODULE UpdateCheck ----------------------------
(***************************************************************************)
(* The update check of pyang (plugins/check_update.py): a module and its   *)
(* old version, both without an error, are compared statement by           *)
(* statement, and what the rules of an update do not allow is reported.    *)
(*                                                                         *)
(* A definition or a schema node is a record of its substatements: one     *)
(* that may stand once is a sequence of none or one, must and when are     *)
(* sequences in the order of the text.  A type is what v_type_type makes   *)
(* of a chain of type statements, so restrictions are compared with the    *)
(* very functions that validate them (YangTypes).  Either a chain of types *)
(* is made, as in YangTypes, or two modules are compared.                  *)
(***************************************************************************)
EXTENDS YangTypes

CONSTANT Updates(_, _)    \* Updates(b, ids): sets of modules, from and to

VARIABLES
  loaded,    \* the module that pyang was called with, or none
  update     \* the modules compared, and the codes reported

updateVars == <<vars, loaded, update>>

-----------------------------------------------------------------------------
(* Statements. *)
Node(kw, name) ==
  [kw |-> kw, name |-> name, status |-> <<>>, features |-> {}, config |-> "true",
   musts |-> <<>>, whens |-> <<>>, mandatory |-> <<>>, min |-> <<>>, max |-> <<>>,
   key |-> <<>>, uniques |-> <<>>, order |-> <<>>, presence |-> <<>>, default |-> <<>>,
   units |-> <<>>, type |-> <<>>, argument |-> <<>>, bases |-> <<>>, children |-> <<>>]

(* Links is the chain of type statements, the typedef's first; default is  *)
(* what the typedef has; target is the leaf of a leafref, upwards.         *)
Type(of, links) == [of |-> of, links |-> links, default |-> <<>>, target |-> <<>>]

Module ==
  [name |-> "m", namespace |-> "urn:m", revisions |-> {1}, definitions |-> <<>>,
   augments |-> <<>>, children |-> <<>>]

Unbounded == 1000

(* i_type_spec *)
Joined(s, r) == [spec |-> r.spec, errs |-> s.errs \cup r.errs, raised |-> s.raised \/ r.raised]
Made(t) ==
  FoldLeft(LAMBDA s, i : Joined(s, v_type_type(s.spec, t.links[i], IF i = 1 THEN t.of ELSE "a typedef")),
           [spec |-> yang_type_specs(t.of), errs |-> {}, raised |-> FALSE], [i \in DOMAIN t.links |-> i])
TypeSpec(t) == Made(t).spec

RECURSIVE is_mandatory_node(_)
is_mandatory_node(n) ==
  /\ n.config # "false"
  /\ \/ n.kw \in {"leaf", "choice", "anydata"} /\ n.mandatory = <<"true">>
     \/ n.kw \in {"list", "leaf-list"} /\ n.min # <<>> /\ n.min[1] > 0
     \/ n.kw = "container" /\ n.presence = <<>> /\ \E i \in DOMAIN n.children : is_mandatory_node(n.children[i])

-----------------------------------------------------------------------------
(* One substatement: the codes that old and new lead to. *)
If(cond, code) == {c \in {code} : cond}
Both(old, new) == old # <<>> /\ new # <<>>
DefAdded(old, new) == If(old = <<>> /\ new # <<>>, "CHK_DEF_ADDED")
DefRemoved(old, new) == If(old # <<>> /\ new = <<>>, "CHK_DEF_REMOVED")
DefChanged(old, new) == If(Both(old, new) /\ old # new, "CHK_DEF_CHANGED")

chk_status(old, new) ==
  LET was == old.status
      is == new.status
  IN If(/\ was \notin {<<>>, <<"current">>}
        /\ is \in {<<>>, <<"current">>} \/ (was = <<"obsolete">> /\ is # was), "CHK_INVALID_STATUS")

\* Mutant: a feature may be taken away from any node.
chk_if_feature_Added(old, new) == If(new.features \ old.features # {}, "CHK_DEF_ADDED2")

chk_if_feature(old, new) ==
  If(old.features \ new.features # {} /\ is_mandatory_node(new), "CHK_DEF_REMOVED")
    \cup If(new.features \ old.features # {}, "CHK_DEF_ADDED2")

chk_config(old, new) ==
  If(old.config # "true" /\ new.config = "true" /\ is_mandatory_node(new), "CHK_MANDATORY_CONFIG")
    \cup If(old.config = "true" /\ new.config # "true", "CHK_BAD_CONFIG")

(* The loops of must and when: a statement is taken off both lists for     *)
(* each old one whose text a new one has, always the first of the new.     *)
(* One that is no longer there raises.                                     *)
Twice(old, new) ==
  \E i, j \in DOMAIN old : i < j /\ old[i] = old[j] /\ old[i] \in ToSet(new)
Without(stmts, texts) ==
  FoldLeft(LAMBDA rest, t : IF t \in ToSet(rest)
                            THEN LET i == CHOOSE k \in DOMAIN rest :
                                            /\ rest[k] = t
                                            /\ \A j \in 1 .. k - 1 : rest[j] # t
                                 IN RemoveAt(rest, i)
                            ELSE rest,
           stmts, texts)
Left(old, new) == SelectSeq(old, LAMBDA t : t \notin ToSet(new))

Constraints(old, new, isNew, undecided) ==
  IF Twice(old, new) THEN {"raised"}
  ELSE If(Without(new, old) # <<>>, IF Left(old, new) = <<>> THEN isNew ELSE undecided)

chk_must(old, new) == Constraints(old.musts, new.musts, "CHK_NEW_MUST", "CHK_UNDECIDED_MUST")
(* The version is asked, but where it lets pass, the loops find nothing.   *)
chk_when(old, new) == Constraints(old.whens, new.whens, "CHK_NEW_WHEN", "CHK_UNDECIDED_WHEN")

chk_units(old, new) == DefRemoved(old.units, new.units) \cup DefChanged(old.units, new.units)

chk_default(old, new) ==
  DefRemoved(old.default, new.default) \cup DefChanged(old.default, new.default)
    \cup If(/\ old.default = <<>> /\ new.default # <<>>
            /\ old.type[1].default \notin {<<>>, new.default}, "CHK_IMPLICIT_DEFAULT")

chk_mandatory(old, new) ==
  IF new.mandatory # <<"true">> THEN {}
  ELSE DefAdded(old.mandatory, new.mandatory) \cup DefChanged(old.mandatory, new.mandatory)

chk_min_max(old, new) ==
  If(old.min = <<>> /\ new.min # <<>> /\ new.min[1] > 0, "CHK_DEF_ADDED")
    \cup If(Both(old.min, new.min) /\ new.min[1] > old.min[1], "CHK_DEF_CHANGED")
    \cup If(old.max = <<>> /\ new.max # <<>> /\ new.max[1] < Unbounded, "CHK_DEF_ADDED")
    \cup If(Both(old.max, new.max) /\ new.max[1] < old.max[1], "CHK_DEF_CHANGED")

\* Mutant: a presence statement may be taken away.
chk_presence_Added(old, new) ==
  DefAdded(old.presence, new.presence)
    \cup If(Both(old.presence, new.presence) /\ old.presence # new.presence, "CHK_UNDECIDED_PRESENCE")

chk_presence(old, new) ==
  DefAdded(old.presence, new.presence) \cup DefRemoved(old.presence, new.presence)
    \cup If(Both(old.presence, new.presence) /\ old.presence # new.presence, "CHK_UNDECIDED_PRESENCE")

chk_key(old, new) ==
  DefAdded(old.key, new.key) \cup DefRemoved(old.key, new.key) \cup DefChanged(old.key, new.key)

(* Each new one takes the first old one with the same leafs in that order. *)
chk_unique(old, new) == If(Without(new.uniques, old.uniques) # <<>>, "CHK_DEF_ADDED")

chk_ordered_by(old, new) ==
  If(old.order = <<>> /\ new.order = <<"user">>, "CHK_DEF_ADDED")
    \cup If(old.order = <<"user">> /\ new.order = <<>>, "CHK_DEF_REMOVED")
    \cup DefChanged(old.order, new.order)

-----------------------------------------------------------------------------
(* Types. *)

(* The parts of the old range are validated against the new one.           *)
chk_range(old, new) ==
  IF Last(new).class # "parts" THEN {}
  ELSE IF Last(old).class # "parts" THEN {"CHK_DEF_ADDED"}
  ELSE LET r == validate_ranges(new, Last(old).parts)
       IN If(r.raised, "raised") \cup If(r.err \/ ~r.ok, "CHK_RESTRICTION_CHANGED")

chk_decimal64(old, new) ==
  If(old[1].digits # new[1].digits, "CHK_DEF_CHANGED") \cup chk_range(old, new)

(* Enums and bits: of each old name the first new one has the value.       *)
chk_items(old, new, changed) ==
  LET Now(item) == ValueOf(new, item[1])
      items == ToSet(Last(old).items)
  IN If(\E i \in items : Now(i) = <<>>, "CHK_DEF_REMOVED")
       \cup If(\E i \in items : Now(i) \notin {<<>>, <<i[2]>>}, changed)
chk_enumeration(old, new) == chk_items(old, new, "CHK_ENUM_VALUE_CHANGED")
chk_bits(old, new) == chk_items(old, new, "CHK_BIT_POSITION_CHANGED")

(* Upwards as far as the old leaf goes.                                    *)
chk_leafref(old, new) ==
  If(\E i \in DOMAIN old : ~(i \in DOMAIN new /\ new[i] = old[i]), "CHK_LEAFREF_PATH_CHANGED")

(* For each old base, and each new one that is the same, one is taken off. *)
chk_identityref(old, new) ==
  IF Twice(old[1].bases, new[1].bases) THEN {"raised"}
  ELSE If(\E b \in ToSet(new[1].bases) : b \notin ToSet(old[1].bases), "CHK_DEF_ADDED")

chk_alone(old, new) ==
  CASE old[1].class = "int" -> chk_range(old, new)
    [] old[1].class = "decimal" -> chk_decimal64(old, new)
    [] old[1].class = "enumeration" -> chk_enumeration(old, new)
    [] old[1].class = "bits" -> chk_bits(old, new)
    [] old[1].class = "identities" -> chk_identityref(old, new)
    [] OTHER -> {}

Same(old, new) == old[1].class = new[1].class
chk_union(was, is) ==
  IF Len(was) # Len(is) THEN {"CHK_UNION_TYPES"}
  ELSE UNION {IF Same(was[i], is[i]) THEN chk_alone(was[i], is[i])
              ELSE {"CHK_BASE_TYPE_CHANGED"} : i \in DOMAIN was}

(* The target of a leafref is known at a leaf, not at a typedef.           *)
chk_specs(was, is, old, new) ==
  IF ~Same(was, is) THEN {"CHK_BASE_TYPE_CHANGED"}
  ELSE IF was[1].class = "union" THEN chk_union(was[1].members, is[1].members)
  ELSE IF old.of = "leafref" /\ old.target # <<>> /\ new.target # <<>>
    THEN chk_leafref(old.target, new.target)
  ELSE chk_alone(was, is)
chk_type(old, new) == chk_specs(TypeSpec(old), TypeSpec(new), old, new)

-----------------------------------------------------------------------------
(* Nodes. *)
chk_leaf(old, new) ==
  chk_type(old.type[1], new.type[1]) \cup chk_units(old, new)
    \cup chk_default(old, new) \cup chk_mandatory(old, new)

chk_leaf_list(old, new) ==
  chk_type(old.type[1], new.type[1]) \cup chk_units(old, new)
    \cup chk_min_max(old, new) \cup chk_ordered_by(old, new)

Places(name, nodes) ==
  {i \in DOMAIN nodes : nodes[i].name = name /\ \A j \in 1 .. i - 1 : nodes[j].name # name}

RECURSIVE chk_children(_, _), chk_i_children(_, _)

chk_i_children(was, is) ==
  UNION {chk_children(was[i], is) : i \in DOMAIN was}
    \cup If(\E i \in DOMAIN is : Places(is[i].name, was) = {} /\ is_mandatory_node(is[i]),
            "CHK_NEW_MANDATORY")

OfKeyword(old, new) ==
  CASE new.kw = "leaf" -> chk_leaf(old, new)
    [] new.kw = "leaf-list" -> chk_leaf_list(old, new)
    [] new.kw = "container" -> chk_presence(old, new) \cup chk_i_children(old.children, new.children)
    [] new.kw = "list" ->
         UNION {chk_min_max(old, new), chk_key(old, new), chk_unique(old, new),
                chk_i_children(old.children, new.children), chk_ordered_by(old, new)}
    [] new.kw = "choice" -> chk_mandatory(old, new) \cup chk_i_children(old.children, new.children)
    [] new.kw \in {"case", "input", "output"} -> chk_i_children(old.children, new.children)
    [] OTHER -> {}

chk_children(old, is) ==
  IF Places(old.name, is) = {} THEN {"CHK_DEF_REMOVED"}
  ELSE LET new == is[CHOOSE i \in Places(old.name, is) : TRUE]
       IN IF new.kw # old.kw THEN {"CHK_CHILD_KEYWORD_CHANGED"}
          ELSE UNION {chk_status(old, new), chk_if_feature(old, new), chk_config(old, new),
                      chk_must(old, new), chk_when(old, new), OfKeyword(old, new)}

-----------------------------------------------------------------------------
(* The module. *)
chk_revision(old, new) ==
  If(new.revisions = {}, "CHK_NO_REVISION")
    \cup If(/\ new.revisions # {} /\ old.revisions # {}
            /\ Max(old.revisions) >= Max(new.revisions), "CHK_BAD_REVISION")

(* Since 1.1 an identity may get another base, but not lose one.           *)
chk_identity(old, new) ==
  IF ~version1 THEN If(\E b \in ToSet(old.bases) : b \notin ToSet(new.bases), "CHK_DEF_REMOVED")
  ELSE DefAdded(old.bases, new.bases) \cup DefRemoved(old.bases, new.bases)
         \cup If(Both(old.bases, new.bases) /\ old.bases[1] # new.bases[1], "CHK_DEF_CHANGED")

(* yin-element: false is what it is without.                               *)
YinElement(arg) == IF arg[1].yin = <<>> THEN "false" ELSE arg[1].yin[1]
chk_extension(old, new) ==
  LET yin == Both(old.argument, new.argument)
  IN DefAdded(old.argument, new.argument) \cup DefRemoved(old.argument, new.argument)
       \cup If(yin /\ old.argument[1].yin = <<>> /\ YinElement(new.argument) # "false", "CHK_DEF_ADDED")
       \cup If(yin /\ new.argument[1].yin = <<>> /\ YinElement(old.argument) # "false", "CHK_DEF_REMOVED")
       \cup (IF yin THEN DefChanged(old.argument[1].yin, new.argument[1].yin) ELSE {})

OfDefinition(old, new) ==
  CASE old.kw = "identity" -> chk_identity(old, new)
    [] old.kw = "typedef" -> chk_type(old.type[1], new.type[1])
    [] old.kw \in {"grouping", "rpc", "notification", "structure"} -> chk_i_children(old.children, new.children)
    [] old.kw = "extension" -> chk_extension(old, new)
    [] OTHER -> {}

(* Definitions of one keyword have different names.                        *)
chk_definition(old, definitions) ==
  LET same == {new \in ToSet(definitions) : new.kw = old.kw /\ new.name = old.name}
  IN IF same = {} THEN {"CHK_DEF_REMOVED"}
     ELSE UNION {chk_status(old, new) \cup chk_if_feature(old, new) \cup OfDefinition(old, new) : new \in same}

(* The children of all augments of one target are taken together.          *)
Augmented(m, target) ==
  FlattenSeq([i \in DOMAIN m.augments |->
                IF m.augments[i].name = target THEN m.augments[i].children ELSE <<>>])
Targets(m) == {m.augments[i].name : i \in DOMAIN m.augments}
chk_augment(old, new) ==
  UNION {LET is == Augmented(new, t)
             was == Augmented(old, t)
         IN IF is = <<>> THEN {"CHK_DEF_REMOVED"}
            ELSE UNION {chk_children(was[i], is) : i \in DOMAIN was} : t \in Targets(old)}

chk_module(old, new) ==
  UNION {If(old.name # new.name, "CHK_INVALID_MODULENAME"),
         If(old.namespace # new.namespace, "CHK_INVALID_NAMESPACE"),
         chk_revision(old, new),
         UNION {chk_definition(d, new.definitions) : d \in ToSet(old.definitions)},
         chk_augment(old, new),
         chk_i_children(old.children, new.children)}

(* What the loading of a module has refused is not compared: an augment    *)
(* that adds a mandatory node, and types with an error.                    *)
RECURSIVE Within(_)
Within(nodes) == ToSet(nodes) \cup UNION {Within(n.children) : n \in ToSet(nodes)}
All(m) == Within(m.definitions) \cup Within(m.augments) \cup Within(m.children)
Wrong(made) == made.errs # {} \/ made.raised
Refuses(m) ==
  \/ \E a \in ToSet(m.augments) : \E n \in ToSet(a.children) : n.kw # "choice" /\ is_mandatory_node(n)
  \/ \E n \in All(m) : n.type # <<>> /\ Wrong(Made(n.type[1]))

(* The new module is loaded first, and the check ends there if it has an   *)
(* error; then the old one is loaded, and the two are compared.            *)
Load(new) ==
  /\ depth = 0 /\ node = "none" /\ loaded = <<>>
  /\ ~Refuses(new)
  /\ loaded' = <<new>>
  /\ UNCHANGED <<vars, update>>

check_update(old) ==
  /\ loaded # <<>> /\ update = <<>>
  /\ ~Refuses(old)
  /\ update' = <<[old |-> old, new |-> loaded[1], codes |-> chk_module(old, loaded[1])]>>
  /\ UNCHANGED <<vars, loaded>>

UpdateInit == Init /\ loaded = <<>> /\ update = <<>>

UpdateNext ==
  \/ Next /\ loaded = <<>> /\ UNCHANGED <<loaded, update>>
  \/ \E set \in Updates(builtin, graph) :
       \/ \E new \in set.to : Load(new)
       \/ loaded # <<>> /\ loaded[1] \in set.to /\ \E old \in set.from : check_update(old)

UpdateSpec == UpdateInit /\ [][UpdateNext]_updateVars
-----------------------------------------------------------------------------
(* What a module means (RFC 7950): the data that is valid under it.  A     *)
(* context says which features are supported, which expressions are true    *)
(* and what the identities are; data is a function from names to instances.*)
Exists(n, c) == /\ n.features \subseteq c.on
                /\ ToSet(n.whens) \subseteq c.true
                /\ n.config # "false"
Folds(n) == n.kw \in {"choice", "case"}

RECURSIVE DataNodes(_, _)
DataNodes(nodes, c) ==
  UNION {IF ~Exists(n, c) THEN {} ELSE IF Folds(n) THEN DataNodes(n.children, c) ELSE {n} : n \in ToSet(nodes)}

(* The values of a type, each with what stands for it in CBOR.             *)
Base(t) == t.links[1]
NumbersOf(links, all) ==
  FoldLeft(LAMBDA L, stmt : IF Numbers(stmt) = <<>> THEN L ELSE L \cap Asked(Numbers(stmt), L), all, links)
NamesOf(items, links) == {n \in {i[1] : i \in items} :
                            \A k \in DOMAIN links : LET own == links[k].enums \o links[k].bits
                                                    IN own = <<>> \/ \E i \in DOMAIN own : own[i].name = n}
ItemValues(of, links) ==
  LET spec == v_type_type(yang_type_specs(of), links[1], of).spec
      items == ToSet(Last(spec).items)
  IN {i \in items : i[1] \in NamesOf(items, links)}
TaggedValues(of, links, ids) ==
  CASE of = "int" -> {<<of, v>> : v \in NumbersOf(links, IntMin .. IntMax)}
    [] of = "decimal64" -> {<<of, <<v, links[1].fd>>>> : v \in NumbersOf(links, IntMin .. IntMax)}
    [] of \in {"enumeration", "bits"} -> {<<of, i>> : i \in ItemValues(of, links)}
    [] of = "identityref" -> {<<of, v>> : v \in {a \in DOMAIN ids :
                                \A k \in DOMAIN links : \A b \in ToSet(links[k].bases) : DerivesIn(ids, a, b)}}
    [] of = "string" -> {<<of, v>> : v \in NumbersOf(links, 0 .. MaxLength)}
    [] of = "boolean" -> {<<of, "true">>, <<of, "false">>}
    [] OTHER -> {<<of, "value">>}
Alternatives(t) ==
  IF t.of = "union" THEN {<<m.of, <<m.stmt>>>> : m \in ToSet(t.links[1].members)} ELSE {<<t.of, t.links>>}
ValuesOf(t, ids) ==
  IF t.of = "leafref" THEN {<<"leafref", t.target>>}
  ELSE UNION {TaggedValues(a[1], a[2], ids) : a \in Alternatives(t)}

InBounds(n, count) == (n.min # <<>> => count >= n.min[1]) /\ (n.max # <<>> => count <= n.max[1])

RECURSIVE Complete(_, _, _), ValidNodes(_, _, _)
KeyOf(n, entry) == [i \in DOMAIN n.key |-> entry[n.key[i]]]
Distinct(n, entries) ==
  \A e, f \in entries : e # f =>
    /\ KeyOf(n, e) # KeyOf(n, f)
    /\ \A u \in ToSet(n.uniques) :
         ~(ToSet(u) \subseteq DOMAIN e \cap DOMAIN f /\ \A i \in DOMAIN u : e[u[i]] = f[u[i]])
ValidInstance(n, x, c) ==
  /\ ToSet(n.musts) \subseteq c.true
  /\ CASE n.kw \in {"leaf", "leaf-list"} ->
              /\ (IF n.kw = "leaf" THEN {x} ELSE x) \subseteq ValuesOf(n.type[1], c.ids)
              /\ n.kw = "leaf-list" => InBounds(n, Cardinality(x))
       [] n.kw = "list" -> /\ InBounds(n, Cardinality(x))
                           /\ \A e \in x : ToSet(n.key) \subseteq DOMAIN e /\ Complete(n.children, e, c)
                           /\ Distinct(n, x)
       [] n.kw = "anydata" -> TRUE
       [] OTHER -> Complete(n.children, x, c)

AlwaysThere(n) == n.kw \in {"container", "input", "output", "augment"} /\ n.presence = <<>>
NoData == [name \in {} |-> name]
Required(n, c) ==
  \/ n.kw \in {"leaf", "anydata"} /\ n.mandatory = <<"true">>
  \/ n.kw \in {"list", "leaf-list"} /\ ~InBounds(n, 0)
  \/ AlwaysThere(n) /\ ~ValidInstance(n, NoData, c)

HasData(n, d, c) == \E m \in DataNodes(<<n>>, c) : m.name \in DOMAIN d
ValidNodes(nodes, d, c) ==
  \A n \in {m \in ToSet(nodes) : Exists(m, c)} :
    LET chosen == {k \in ToSet(n.children) : HasData(k, d, c)}
    IN CASE n.kw = "choice" -> /\ Cardinality(chosen) <= 1
                               /\ n.mandatory = <<"true">> => chosen # {}
                               /\ \A k \in chosen : ValidNodes(k.children, d, c)
         [] n.kw # "choice" /\ n.name \in DOMAIN d -> ValidInstance(n, d[n.name], c)
         [] OTHER -> ~Required(n, c)
Complete(nodes, d, c) ==
  DOMAIN d \subseteq {n.name : n \in DataNodes(nodes, c)} /\ ValidNodes(nodes, d, c)

(* The data worth a look: lists and leaf-lists of up to two entries.       *)
RECURSIVE Data(_, _)
Few2(S) == {{}} \cup {{x, y} : x, y \in S}
LeafInstances(kw, values) == IF kw = "leaf" THEN values ELSE Few2(values)
Instances(n, c) ==
  CASE n.kw \in {"leaf", "leaf-list"} -> LeafInstances(n.kw, ValuesOf(n.type[1], c.ids))
    [] n.kw = "list" -> Few2({e \in Data(n.children, c) : ToSet(n.key) \subseteq DOMAIN e})
    [] n.kw = "anydata" -> {"data"}
    [] OTHER -> Data(n.children, c)
Data(nodes, c) ==
  FoldLeft(LAMBDA ds, n : ds \cup {d @@ (n.name :> x) : d \in ds, x \in Instances(n, c)},
           {NoData}, SetToSeq(DataNodes(nodes, c)))

(* The schema nodes of a module as one tree: its own, its groupings, rpcs  *)
(* and notifications, and what it puts in each place of another module.    *)
Conditioned(a) == [i \in DOMAIN a.children |->
                     [a.children[i] EXCEPT !.features = @ \cup a.features, !.whens = @ \o a.whens]]
Tree(m) ==
  LET Into(t) == [Node("augment", t) EXCEPT
                    !.children = FlattenSeq([i \in DOMAIN m.augments |->
                      IF m.augments[i].name = t THEN Conditioned(m.augments[i]) ELSE <<>>])]
  IN m.children
       \o SelectSeq(m.definitions, LAMBDA d : d.kw \in {"grouping", "rpc", "notification", "structure"})
       \o SetToSeq({Into(t) : t \in Targets(m)})

RECURSIVE Shared(_, _)
Shared(was, is) ==
  UNION {{<<o, n>>} \cup Shared(o.children, n.children) :
           <<o, n>> \in {p \in ToSet(was) \X ToSet(is) : p[1].name = p[2].name}}
Typed(old, new) ==
  {p \in Shared(Tree(old), Tree(new)) \cup ToSet(old.definitions) \X ToSet(new.definitions) :
     p[1].type # <<>> /\ p[2].type # <<>> /\ p[1].name = p[2].name}

(* What the check does not look at.  Lengths and patterns (a FIXME at line *)
(* 766); an old range with min or max, which are read by the new one;      *)
(* a leafref that leads to a leaf of the same name farther down; enums     *)
(* derived from a typedef that changed elsewhere.                          *)
Strings(t) == IF t.of = "union" THEN {m \in ToSet(Base(t).members) : m.of = "string"}
              ELSE IF t.of = "string" THEN {t.links} ELSE {}
WordReread(was, is) == was # is /\ \E p \in ToSet(Last(was).parts) : Keyword(p[1]) \/ Keyword(p[2])
TypeGap(o, n) ==
  \/ Strings(o) # Strings(n)
  \/ WordReread(TypeSpec(o), TypeSpec(n))
  \/ o.of = "leafref" /\ Len(n.target) > Len(o.target)
  \/ o.of \in {"enumeration", "bits"} /\ Len(o.links) > 1 /\ Base(o) # Base(n)

(* The default of a typedef; mandatory of an anydata; a when taken off     *)
(* what is mandatory; a must of a container that is always there, if it is *)
(* new or was conditional; when and if-feature of an augment.              *)
DefaultOf(n) == IF n.mandatory = <<"true">> THEN <<>> ELSE IF n.default # <<>> THEN n.default ELSE n.type[1].default
Burdened(n) == \E m \in Within(<<n>>) : AlwaysThere(m) /\ m.musts # <<>>
NewBurden(was, is) == \E k \in ToSet(is) : k.name \notin {j.name : j \in ToSet(was)} /\ Burdened(k)
NodeGap(o, n) ==
  \/ o.kw = "leaf" /\ n.kw = "leaf" /\ o.default = <<>> /\ n.default = <<>> /\ o.type[1].default # n.type[1].default
  \/ n.kw = "anydata" /\ n.mandatory = <<"true">> /\ o.mandatory # n.mandatory
  \/ is_mandatory_node(n) /\ ~(ToSet(o.whens) \subseteq ToSet(n.whens))
  \/ Burdened(n) /\ (~(ToSet(o.whens) \subseteq ToSet(n.whens)) \/ ~(o.features \subseteq n.features))
  \/ NewBurden(o.children, n.children)
Gap(old, new) ==
  \/ \E p \in Typed(old, new) : TypeGap(p[1].type[1], p[2].type[1])
  \/ \E p \in Shared(Tree(old), Tree(new)) : NodeGap(p[1], p[2])
  \/ NewBurden(Tree(old), Tree(new))
  \/ \E a \in ToSet(old.augments), b \in ToSet(new.augments) :
       a.name = b.name /\ (a.whens # b.whens \/ a.features # b.features)

Identities(m) ==
  LET ids == {d \in ToSet(m.definitions) : d.kw = "identity"}
  IN [name \in {d.name : d \in ids} |-> (CHOOSE d \in ids : d.name = name).bases]
Contexts(u) ==
  LET nodes == All(u.old) \cup All(u.new)
  IN [ids : {Identities(u.old)},
      on : SUBSET UNION {n.features : n \in nodes},
      true : SUBSET UNION {ToSet(n.musts) \cup ToSet(n.whens) : n \in nodes}]

(* If nothing is reported, data that was valid under the old module is     *)
(* valid under the new one, in whatever way types, defaults, constraints   *)
(* and the tree have changed together; values are coded as before, and a   *)
(* leaf without a value has the default it had.                            *)
OldDataStaysValid ==
  \A u \in ToSet(update) : u.codes = {} /\ ~Gap(u.old, u.new) =>
    /\ \A p \in Typed(u.old, u.new) : 
           ValuesOf(p[1].type[1], Identities(u.old)) \subseteq ValuesOf(p[2].type[1], Identities(u.new))
    /\ \A p \in Typed(u.old, u.new) :
         p[1].kw = "leaf" /\ DefaultOf(p[1]) # <<>> => DefaultOf(p[2]) = DefaultOf(p[1])
    /\ \A c \in Contexts(u) : \A d \in Data(Tree(u.old), c) :
         Complete(Tree(u.old), d, c) => Complete(Tree(u.new), d, [c EXCEPT !.ids = Identities(u.new)])
=============================================================================
