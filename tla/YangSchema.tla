----------------------------- MODULE YangSchema -----------------------------
(* yang-utils: modules that pyang has accepted become schema trees, one for *)
(* each module, augmented and deviated by the others; leafrefs are resolved, *)
(* SIDs read from the files, and the trees joined into one of data nodes.   *)
(*                                                                          *)
(* A reference is <<prefix, name>>; a path is a sequence of references, in  *)
(* the path of a leafref with a third part: has it a predicate?             *)
EXTENDS Integers, Sequences, FiniteSets, SequencesExt

(* A document: [modules, sids], the modules and those of the SID files, in  *)
(* the order in which they are read.                                        *)
(* A module: [prefix, imports, deviations, stm].  A statement: [kw, name,   *)
(* config, keys, type, ref, path, sub]; a type: [name, names, ranges,       *)
(* members, path].                                                          *)
CONSTANT Documents

VARIABLES
  doc,
  pc,       \* the loop in ModuleSet#schema, or what follows it
  todo,     \* the modules or files that are left of it
  schema,   \* @schema of each module; none yet is nil
  data,     \* ModuleSet#data
  raised    \* an exception has ended the program

vars == <<doc, pc, todo, schema, data, raised>>

SCHEMA_NODES == {"action", "container", "leaf", "leaf-list", "list", "choice", "case", "rpc", "input",
                 "output", "notification", "anydata", "anyxml"}
IMPLICIT_CASE_NODES == {"anydata", "anyxml", "choice", "container", "leaf", "list", "leaf-list"}
Up == <<"", "..">>

\* Lengths, and the numbers of 16 bits and more, end here.
MaxNumber == 300
\* In a range: "min" and "max".  In an enum or a bit: no value.
RangeMin == -MaxNumber - 1
RangeMax == MaxNumber + 1
Auto == MaxNumber + 1

First(s, Test(_)) ==
  LET found == {i \in DOMAIN s : Test(s[i])}
  IN IF found = {} THEN 0 ELSE CHOOSE i \in found : \A j \in found : i <= j

Mod(name) == CHOOSE x \in ToSet(doc.modules) : x.stm.name = name
Loaded == [i \in DOMAIN doc.modules |-> doc.modules[i].stm.name]

imports_module(mod, name) == \E i \in ToSet(Mod(mod).imports) : i[2] = name

(* ModuleSet includes TSort: what a module imports comes before it.         *)
RECURSIVE tsort(_, _)
tsort(sorted, mod) ==
  IF mod \in ToSet(sorted) THEN sorted
  ELSE Append(FoldLeft(tsort, sorted, SelectSeq(Loaded, LAMBDA n : imports_module(mod, n))), mod)
Sorted == FoldLeft(tsort, <<>>, Loaded)

resolve_prefix(mod, prefix) ==
  IF prefix \in {"", Mod(mod).prefix} THEN mod
  ELSE (CHOOSE i \in ToSet(Mod(mod).imports) : i[1] = prefix)[2]

(* resolve_grouping, resolve_typedef: the innermost one around the          *)
(* statement, in another module only at its top.                            *)
Around(kw, name, scopes, mod) ==
  LET Defines(scope) == First(scope.sub, LAMBDA d : d.kw = kw /\ d.name = name)
      level == Max({i \in DOMAIN scopes : Defines(scopes[i]) # 0})
  IN [mod |-> mod, scopes |-> SubSeq(scopes, 1, level), def |-> scopes[level].sub[Defines(scopes[level])]]
InModule(kw, name, mod, other, scopes) ==
  Around(kw, name, IF other = mod THEN scopes ELSE <<Mod(other).stm>>, other)
resolve_def(kw, mod, ref, scopes) == InModule(kw, ref[2], mod, resolve_prefix(mod, ref[1]), scopes)

-----------------------------------------------------------------------------
(* Types *)
Limits == [int8 |-> <<-128, 127>>, uint8 |-> <<0, 255>>, uint16 |-> <<0, MaxNumber>>,
           string |-> <<0, MaxNumber>>, binary |-> <<0, MaxNumber>>]
BUILTIN_TYPES == DOMAIN Limits \cup {"leafref", "union", "enumeration", "bits", "boolean", "empty"}

NewType(name) ==
  [builtin |-> name, ranges |-> IF name \in DOMAIN Limits THEN <<Limits[name]>> ELSE <<>>,
   names |-> <<>>, members |-> <<>>, path |-> <<>>, deref |-> <<>>]
NoType == NewType("")

interpret_range_bound(low, high, n) == CASE n = RangeMin -> low [] n = RangeMax -> high [] OTHER -> n
add_range(type, ranges) ==
  LET low == Min({r[1] : r \in ToSet(type.ranges)})
      high == Max({r[2] : r \in ToSet(type.ranges)})
      Bound(n) == interpret_range_bound(low, high, n)
  IN IF ranges = <<>> THEN type ELSE [type EXCEPT !.ranges = [i \in DOMAIN ranges |-> <<Bound(ranges[i][1]), Bound(ranges[i][2])>>]]

(* restrict_bits and restrict_enums *)
Numbered(named, e) ==
  Append(named, <<e[1], IF e[2] # Auto THEN e[2]
                        ELSE IF named = <<>> THEN 0
                        ELSE 1 + Max({named[i][2] : i \in DOMAIN named})>>)
Kept(named, e) == <<e[1], IF e[2] # Auto THEN e[2] ELSE named[First(named, LAMBDA n : n[1] = e[1])][2]>>
\* Mutant: the names that are left are numbered anew.
restrict_Anew(type, names) ==
  IF names = <<>> THEN type ELSE [type EXCEPT !.names = FoldLeft(Numbered, <<>>, names)]

restrict(type, names) ==
  IF names = <<>> THEN type
  ELSE IF type.names = <<>> THEN [type EXCEPT !.names = FoldLeft(Numbered, <<>>, names)]
  ELSE [type EXCEPT !.names = [i \in DOMAIN names |-> Kept(@, names[i])]]

(* gsub(/\[.*\]/, ''): from the first bracket to the last one.              *)
WithoutPredicates(path) ==
  LET with == {i \in DOMAIN path : path[i][3]}
  IN IF with = {} THEN path ELSE SubSeq(path, 1, Min(with)) \o SubSeq(path, Max(with) + 1, Len(path))
Resolved(path, mod) ==
  [i \in DOMAIN path |-> <<IF path[i][1] = "" THEN "" ELSE resolve_prefix(mod, path[i][1]), path[i][2]>>]
add_path(type, path, mod) ==
  IF path = <<>> THEN type ELSE [type EXCEPT !.path = Resolved(WithoutPredicates(path), mod)]

RECURSIVE interpret_type(_, _, _), derive(_)
derive(d) == interpret_type(d.mod, d.def.type[1], d.scopes)
interpret_type(mod, t, scopes) ==
  LET builtin == t.name[1] = "" /\ t.name[2] \in BUILTIN_TYPES
      base == IF builtin THEN NewType(t.name[2]) ELSE derive(resolve_def("typedef", mod, t.name, scopes))
      members == [i \in DOMAIN t.members |-> interpret_type(mod, t.members[i], scopes)]
  IN add_range(add_path([restrict(base, t.names) EXCEPT !.members = @ \o members], t.path, mod), t.ranges)

-----------------------------------------------------------------------------
(* Statement *)
NewNode(kw, arg) ==
  [kw |-> kw, arg |-> arg, config |-> TRUE, keys |-> <<>>, type |-> NoType, sid |-> <<>>, substms |-> <<>>]
Raised == NewNode("raised", <<"", "">>)

RECURSIVE propagate_config_false(_)
propagate_config_false(node) ==
  [node EXCEPT !.config = FALSE,
               !.substms = [i \in DOMAIN @ |-> IF @[i].config THEN propagate_config_false(@[i]) ELSE @[i]]]

\* Mutant: a node that is added keeps its config.
add_child_Kept(node, c) ==
  IF "raised" \in {node.kw, c.kw} THEN Raised
  ELSE IF \E s \in ToSet(node.substms) : s.kw = c.kw /\ s.arg = c.arg THEN node
  ELSE [node EXCEPT !.substms = Append(@, c)]

add_child(node, c) ==
  IF "raised" \in {node.kw, c.kw} THEN Raised
  ELSE IF \E s \in ToSet(node.substms) : s.kw = c.kw /\ s.arg = c.arg THEN node
  ELSE IF node.config THEN [node EXCEPT !.substms = Append(@, c)]
  ELSE propagate_config_false([node EXCEPT !.substms = Append(@, c)])

(* The address of a node is the sequence of its positions.                  *)
RECURSIVE NodeAt(_, _), PutAt(_, _, _)
NodeAt(node, address) == IF address = <<>> THEN node ELSE NodeAt(node.substms[address[1]], Tail(address))
PutAt(node, address, new) ==
  IF address = <<>> THEN new ELSE [node EXCEPT !.substms[address[1]] = PutAt(@, Tail(address), new)]
ChangeAt(node, address, Change(_)) == PutAt(node, address, Change(NodeAt(node, address)))

Named(node, arg) ==
  LET i == First(node.substms, LAMBDA s : s.arg = arg)
  IN IF i = 0 /\ node.kw \in {"action", "rpc"} /\ arg[1] = "" /\ arg[2] \in {"input", "output"}
     THEN First(node.substms, LAMBDA s : s.kw = arg[2]) ELSE i

(* The addresses that the path leads to from another: one or none.          *)
resolve_schema_path(tree, from, path) ==
  LET Next(at, arg) ==
        LET i == Named(NodeAt(tree, at), arg)
        IN IF arg = Up /\ at # <<>> THEN {Front(at)} ELSE {Append(at, k) : k \in {i} \ {0}}
  IN FoldLeft(LAMBDA found, arg : UNION {Next(at, arg) : at \in found}, {from}, path)

(* Mutant: one pass only.                                                   *)
InOrder_Once(node, keys) ==
  LET swap(substms, i, j) == IF i < j THEN [substms EXCEPT ![i] = substms[j], ![j] = substms[i]] ELSE substms
      Place(substms, k) == First(substms, LAMBDA s : s.arg = <<"", k>>)
      against(substms, k) == swap(substms, Place(substms, keys[1]), Place(substms, k))
  IN IF keys = <<>> THEN node ELSE [node EXCEPT !.keys = keys, !.substms = FoldLeft(against, @, keys)]

(* The leafs that are keys change places until they stand in the order of   *)
(* the key statement.                                                       *)
InOrder(node, keys) ==
  LET swap(substms, i, j) == IF i < j THEN [substms EXCEPT ![i] = substms[j], ![j] = substms[i]] ELSE substms
      Place(substms, k) == First(substms, LAMBDA s : s.arg = <<"", k>>)
      pairs == [n \in 1 .. Len(keys) * Len(keys) |->
                  <<keys[(n - 1) \div Len(keys) + 1], keys[((n - 1) % Len(keys)) + 1]>>]
      exchange(substms, p) == swap(substms, Place(substms, p[1]), Place(substms, p[2]))
  IN [node EXCEPT !.keys = keys, !.substms = FoldLeft(exchange, @, pairs)]

-----------------------------------------------------------------------------
(* interpret_stm: the statements around one tell where its names lead, and  *)
(* whether it stands at the top of its module.                              *)
Implied(s) ==
  SelectSeq(<<NewNode("input", <<"", "">>), NewNode("output", <<"", "">>)>>,
            LAMBDA n : s.kw \in {"rpc", "action"} /\ \A c \in ToSet(s.sub) : c.kw # n.kw)

Started(mod, s, scopes) ==
  [NewNode(s.kw, <<IF Len(scopes) = 1 THEN mod ELSE "", s.name>>) EXCEPT
     !.config = s.config # "false",
     !.type = IF s.type = <<>> THEN @ ELSE interpret_type(mod, s.type[1], Append(scopes, s)),
     !.substms = Implied(s)]

\* interpret_extension
YangData(mod, node, tree) ==
  IF node.kw # "module" THEN node
  ELSE IF Len(tree.substms) # 1 \/ tree.substms[1].kw # "container" THEN Raised
  ELSE add_child(node, [tree.substms[1] EXCEPT !.arg = <<mod, @[2]>>])

ImplicitCase(c, tree) == add_child(NewNode("case", <<"", c.name>>), tree)
Added(mod, s, node, c, tree) ==
  IF tree.kw = "raised" THEN Raised
  ELSE CASE c.kw = "yang-data" -> YangData(mod, node, tree)
         [] c.kw = "uses" -> FoldLeft(add_child, node, tree.substms)
         [] OTHER -> add_child(node, IF s.kw = "choice" /\ c.kw \in IMPLICIT_CASE_NODES
                                     THEN ImplicitCase(c, tree) ELSE tree)

\* Mutant: whatever they are added to.
Renamed_Always(mod, own, target, cs) ==
  [i \in DOMAIN cs |-> IF own THEN cs[i] ELSE [cs[i] EXCEPT !.arg = <<mod, @[2]>>]]

(* interpret_augment: the nodes of another module are renamed, unless they  *)
(* are added to a node that bears the name of the module already.           *)
Renamed(mod, own, target, cs) ==
  [i \in DOMAIN cs |-> IF own \/ target.arg[1] = mod THEN cs[i] ELSE [cs[i] EXCEPT !.arg = <<mod, @[2]>>]]
Extended(mod, own, target, cs) == FoldLeft(add_child, target, Renamed(mod, own, target, cs))
Augmented(mod, own, tree, found, added) ==
  IF found = {} \/ "raised" \in {tree.kw, added.kw} THEN Raised
  ELSE ChangeAt(tree, CHOOSE at \in found : TRUE, LAMBDA target : Extended(mod, own, target, added.substms))

RECURSIVE interpret_stm(_, _, _), add_statement(_, _, _, _, _), expand(_, _, _, _)
(* The augments of a uses change the nodes of the grouping, which are those *)
(* of the statement that uses it.                                           *)
expand(mod, uses, scopes, g) ==
  LET augment(tree, a) ==
        Augmented(mod, TRUE, tree, resolve_schema_path(tree, <<>>, [i \in DOMAIN a.path |-> <<"", a.path[i][2]>>]),
                  interpret_stm(mod, a, scopes))
  IN FoldLeft(augment, interpret_stm(g.mod, g.def, g.scopes), uses.sub)

add_statement(mod, s, scopes, node, c) ==
  IF c.kw \notin SCHEMA_NODES \cup {"uses", "yang-data"} THEN node
  ELSE Added(mod, s, node, c,
             IF c.kw = "uses" THEN expand(mod, c, Append(scopes, c), resolve_def("grouping", mod, c.ref, scopes))
             ELSE interpret_stm(mod, c, scopes))

interpret_stm(mod, s, scopes) ==
  LET statement(node, c) == add_statement(mod, s, Append(scopes, s), node, c)
  IN InOrder(FoldLeft(statement, Started(mod, s, scopes), s.sub), s.keys)

(* A name bears its module where that changes on the way.                   *)
Shortened(path) ==
  [i \in DOMAIN path |-> <<IF i > 1 /\ path[i][1] = path[i - 1][1] THEN "" ELSE path[i][1], path[i][2]>>]
schema_node_id2schema_path(mod, path) ==
  Shortened([i \in DOMAIN path |-> <<resolve_prefix(mod, path[i][1]), path[i][2]>>])

-----------------------------------------------------------------------------
(* ModuleSet#schema *)
Nil == NewNode("nil", <<"", "">>)
Changed(schemas, mod, Change(_)) ==
  [schemas EXCEPT ![mod] = IF @.kw \in {"nil", "raised"} THEN Raised ELSE Change(@)]

(* An augment of the module by itself meets a schema that is not yet there. *)
augment_module(mod, schemas, a) ==
  LET path == schema_node_id2schema_path(mod, a.path)
      change(tree) == Augmented(mod, path[1][1] = mod, tree, resolve_schema_path(tree, <<>>, path),
                                interpret_stm(mod, a, <<Mod(mod).stm>>))
  IN Changed(schemas, path[1][1], change)

Phase(now) == pc = now /\ todo # <<>> /\ ~raised
Go(phase, order) ==
  /\ pc' = IF Len(todo) = 1 THEN phase ELSE pc
  /\ todo' = IF Len(todo) = 1 THEN order ELSE Tail(todo)
  /\ raised' = \E mod \in DOMAIN schema' : schema'[mod].kw = "raised"
  /\ UNCHANGED doc

Interpret ==
  /\ Phase("interpret")
  /\ schema' = [FoldLeft(LAMBDA schemas, a : augment_module(todo[1], schemas, a), schema,
                         SelectSeq(Mod(todo[1]).stm.sub, LAMBDA s : s.kw = "augment"))
                EXCEPT ![todo[1]] = IF @.kw = "raised" THEN @ ELSE interpret_stm(todo[1], Mod(todo[1]).stm, <<>>)]
  /\ Go("deviate", Sorted)
  /\ UNCHANGED data

Without(tree, address) ==
  ChangeAt(tree, Front(address), LAMBDA n : [n EXCEPT !.substms = RemoveAt(@, Last(address))])

(* A deviate statement: [kind, config, type].                               *)
replace(mod, d, node) ==
  LET typed == IF d.type = <<>> THEN node
               ELSE [node EXCEPT !.type = interpret_type(mod, d.type[1], <<Mod(mod).stm>>)]
  IN CASE d.config = "false" -> propagate_config_false(typed)
       [] d.config = "true" -> [typed EXCEPT !.config = TRUE]
       [] OTHER -> typed

interpret_deviation(mod, schemas, deviation) ==
  LET path == schema_node_id2schema_path(mod, deviation.path)
      change(tree) ==
        LET target == resolve_schema_path(tree, <<>>, path)
            at == CHOOSE at \in target : TRUE
        IN IF target = {} \/ deviation.kind \in {"add", "delete"} THEN Raised
           ELSE IF deviation.kind = "not-supported" THEN Without(tree, at)
           ELSE ChangeAt(tree, at, LAMBDA n : replace(mod, deviation, n))
  IN Changed(schemas, path[1][1], change)

Deviate ==
  /\ Phase("deviate")
  /\ schema' = FoldLeft(LAMBDA schemas, d : interpret_deviation(todo[1], schemas, d),
                        schema, Mod(todo[1]).deviations)
  /\ Go("leafref", Sorted)
  /\ UNCHANGED data

-----------------------------------------------------------------------------
(* resolve_leafref *)
RECURSIVE defining_module_name(_, _)
defining_module_name(tree, at) ==
  LET node == NodeAt(tree, at)
  IN IF node.kw = "module" THEN node.arg[2]
     ELSE IF node.arg[1] # "" THEN node.arg[1]
     ELSE defining_module_name(tree, Front(at))

\* Mutant: the module of the node gone up to is not noted.
route_Part_Unnoted(tree, way, id) ==
  IF way.dst_mod = "raised" \/ (id = Up /\ way.at = <<>>) THEN [way EXCEPT !.dst_mod = "raised"]
  ELSE IF id = Up THEN [way EXCEPT !.at = Front(@), !.path = Append(@, id)]
  ELSE [way EXCEPT !.dst_mod = IF @ = "" THEN id[1] ELSE @, !.parent_mod = id[1],
                            !.path = Append(@, <<IF id[1] = way.parent_mod THEN "" ELSE id[1], id[2]>>)]

(* The loop over the parts of a path: [at, parent_mod, dst_mod, path].      *)
(* Above the module there is no node, and it raises.                        *)
route_Part(tree, way, id) ==
  IF way.dst_mod = "raised" \/ (id = Up /\ way.at = <<>>) THEN [way EXCEPT !.dst_mod = "raised"]
  ELSE IF id = Up THEN [way EXCEPT !.at = Front(@), !.parent_mod = defining_module_name(tree, Front(way.at)),
                              !.path = Append(@, id)]
  ELSE [way EXCEPT !.dst_mod = IF @ = "" THEN id[1] ELSE @, !.parent_mod = id[1],
                            !.path = Append(@, <<IF id[1] = way.parent_mod THEN "" ELSE id[1], id[2]>>)]
leafref_path_to_schema_path(tree, at) ==
  LET defining_mod == defining_module_name(tree, at)
      ids == [i \in DOMAIN NodeAt(tree, at).type.path |->
                LET id == NodeAt(tree, at).type.path[i]
                IN IF id[1] = "" /\ id # Up THEN <<defining_mod, id[2]>> ELSE id]
  IN FoldLeft(LAMBDA way, id : route_Part(tree, way, id),
              [at |-> at, parent_mod |-> "", dst_mod |-> "", path |-> <<>>], ids)

(* Where the path leads: module and address.                                *)
Target(mod, tree, at, way) ==
  IF way.path[1] = Up THEN {<<mod, to>> : to \in resolve_schema_path(tree, at, way.path)}
  ELSE {<<way.dst_mod, to>> : to \in resolve_schema_path(schema[way.dst_mod], <<>>, way.path)}
Dereferenced(mod, tree, at, way) ==
  IF way.dst_mod = "raised" THEN Raised
  ELSE LET leafs == {to \in Target(mod, tree, at, way) : NodeAt(schema[to[1]], to[2]).kw \in {"leaf", "leaf-list"}}
       IN IF leafs = {} THEN Raised
          ELSE ChangeAt(tree, at, LAMBDA n : [n EXCEPT !.type.deref = CHOOSE to \in leafs : TRUE,
                                                       !.type.path = way.path])

RECURSIVE Leafrefs(_)
Leafrefs(node) ==
  IF node.type.builtin = "leafref" THEN {<<>>}
  ELSE UNION {{<<i>> \o at : at \in Leafrefs(node.substms[i])} : i \in DOMAIN node.substms}
resolve_leafref(mod, tree, at) ==
  IF tree.kw = "raised" THEN tree ELSE Dereferenced(mod, tree, at, leafref_path_to_schema_path(tree, at))

ResolveLeafrefs ==
  /\ Phase("leafref")
  /\ schema' = [schema EXCEPT ![todo[1]] =
                  FoldSet(LAMBDA at, tree : resolve_leafref(todo[1], tree, at), @, Leafrefs(@))]
  /\ Go("sid", doc.sids)
  /\ UNCHANGED data

-----------------------------------------------------------------------------
(* What the modules mean by RFC 7950: a set of nodes, each with the names on *)
(* its way and their modules.                                               *)
RECURSIVE MeantType(_, _, _)
MeantNumber(names) ==
  LET number[i \in DOMAIN names] ==
        IF names[i][2] # Auto THEN names[i][2]
        ELSE IF i = 1 THEN 0
        ELSE 1 + Max({number[j] : j \in 1 .. i - 1})
  IN {<<names[i][1], number[i]>> : i \in DOMAIN names}
MeantValues(all, ranges) ==
  LET least == Min(all)
      greatest == Max(all)
      Number(n) == CASE n = RangeMin -> least [] n = RangeMax -> greatest [] OTHER -> n
  IN IF ranges = <<>> THEN all ELSE {v \in all : \E r \in ToSet(ranges) : Number(r[1]) <= v /\ v <= Number(r[2])}
MeantBuiltin(name) ==
  [builtin |-> name, values |-> IF name \in DOMAIN Limits THEN Limits[name][1] .. Limits[name][2] ELSE {},
   names |-> {}, path |-> <<>>, predicates |-> 0]
MeantOf(d) == MeantType(d.mod, d.def.type[1], d.scopes)
MeantType(mod, t, scopes) ==
  LET base == IF t.name[1] = "" /\ t.name[2] \in BUILTIN_TYPES THEN MeantBuiltin(t.name[2])
              ELSE MeantOf(resolve_def("typedef", mod, t.name, scopes))
  IN [base EXCEPT
        !.values = MeantValues(@, t.ranges),
        !.names = IF t.names = <<>> THEN @
                  ELSE IF @ = {} THEN MeantNumber(t.names)
                  ELSE {n \in @ : \E i \in DOMAIN t.names : t.names[i][1] = n[1]},
        !.path = IF t.path = <<>> THEN @ ELSE Resolved(t.path, mod),
        !.predicates = IF t.path = <<>> THEN @ ELSE Len(SelectSeq(t.path, LAMBDA id : id[3]))]

Meant(path, kw, config, type) == [path |-> path, kw |-> kw, config |-> config, type |-> type]
NameOf(s) == IF s.kw \in {"input", "output"} THEN s.kw ELSE s.name
Kw(nodes, path) == (CHOOSE n \in nodes : n.path = path).kw

(* What the statements in s add to a node: its kw and path, and the module  *)
(* that the names are to belong to.                                         *)
RECURSIVE Body(_, _, _, _)
MeantNode(mod, at, scopes, c) ==
  LET here == Append(at.path, <<at.ns, NameOf(c)>>)
      shorthand == at.kw = "choice" /\ c.kw \in IMPLICIT_CASE_NODES
      path == IF shorthand THEN Append(here, <<at.ns, c.name>>) ELSE here
      type == IF c.type = <<>> THEN MeantBuiltin("") ELSE MeantType(mod, c.type[1], Append(scopes, c))
  IN (IF shorthand THEN {Meant(here, "case", TRUE, MeantBuiltin(""))} ELSE {})
       \cup {Meant(Append(path, <<at.ns, i.kw>>), i.kw, TRUE, MeantBuiltin("")) : i \in ToSet(Implied(c))}
       \cup {Meant(path, c.kw, c.config # "false", type)}
       \cup Body(mod, [at EXCEPT !.path = path, !.kw = c.kw], scopes, c)
MeantUses(mod, at, scopes, uses, g) ==
  LET augment(nodes, a) ==
        LET target == at.path \o [i \in DOMAIN a.path |-> <<at.ns, a.path[i][2]>>]
        IN nodes \cup Body(mod, [at EXCEPT !.path = target, !.kw = Kw(nodes, target)], Append(scopes, uses), a)
  IN FoldLeft(augment, Body(g.mod, at, g.scopes, g.def), uses.sub)
Body(mod, at, scopes, s) ==
  LET inner == Append(scopes, s)
      Of(c) == CASE c.kw = "uses" -> MeantUses(mod, at, inner, c, resolve_def("grouping", mod, c.ref, inner))
                 [] c.kw = "yang-data" -> Body(mod, at, inner, c)
                 [] c.kw \in SCHEMA_NODES -> MeantNode(mod, at, inner, c)
                 [] OTHER -> {}
  IN UNION {Of(c) : c \in ToSet(s.sub)}

Absolute(mod, path) == [i \in DOMAIN path |-> <<resolve_prefix(mod, path[i][1]), path[i][2]>>]
augments(mod) == SelectSeq(Mod(mod).stm.sub, LAMBDA s : s.kw = "augment")
MeantAugments(nodes, mod) ==
  LET augment(ns, a) ==
        LET target == Absolute(mod, a.path)
        IN ns \cup Body(mod, [ns |-> mod, path |-> target, kw |-> Kw(ns, target)], <<Mod(mod).stm>>, a)
  IN FoldLeft(augment, nodes, augments(mod))
MeantDeviations(nodes, mod) ==
  LET Replaced(n, d) ==
        [n EXCEPT !.config = IF d.config = "" THEN @ ELSE d.config = "true",
                  !.type = IF d.type = <<>> THEN @ ELSE MeantType(mod, d.type[1], <<Mod(mod).stm>>)]
      deviate(ns, d) ==
        LET target == Absolute(mod, d.path)
        IN IF d.kind = "not-supported" THEN {n \in ns : ~IsPrefix(target, n.path)}
           ELSE {IF n.path = target THEN Replaced(n, d) ELSE n : n \in ns}
  IN FoldLeft(deviate, nodes, Mod(mod).deviations)

(* Configuration is what stands below nothing that is not; choices and     *)
(* cases are no data nodes, and do not count on the way to one.             *)
InData(path, folded) ==
  LET kept == SelectSeq([i \in DOMAIN path |-> i], LAMBDA i : SubSeq(path, 1, i) \notin folded)
  IN [i \in DOMAIN kept |-> path[kept[i]]]
Paths(nodes, Has(_)) == {n.path : n \in {o \in nodes : Has(o)}}
Completed(nodes, state, folded) ==
  {[path |-> n.path, kw |-> n.kw, type |-> n.type, data |-> InData(n.path, folded),
    config |-> \A o \in state : ~IsPrefix(o, n.path)] : n \in nodes}
MeantNodes ==
  LET own == UNION {Body(mod, [ns |-> mod, path |-> <<>>, kw |-> "module"], <<>>, Mod(mod).stm) : mod \in ToSet(Loaded)}
  IN FoldLeft(MeantDeviations, FoldLeft(MeantAugments, own, Sorted), Sorted)
Folding(n) == n.kw \in {"choice", "case"}
Complete(nodes) == Completed(nodes, Paths(nodes, LAMBDA n : ~n.config), Paths(nodes, Folding))
MeantSchema == Complete(MeantNodes)

(* The SID files of the modules: the nodes that have a name of the module,  *)
(* as the SID plugin of pyang writes them.  A SID is the path it stands for. *)
sid_file(nodes, mod) ==
  {[namespace |-> "module", path |-> <<<<mod, mod>>>>, sid |-> <<<<mod, mod>>>>]}
    \cup {[namespace |-> "data", path |-> Shortened(n.path), sid |-> n.path] :
            n \in {o \in nodes : Last(o.path)[1] = mod}}

-----------------------------------------------------------------------------
(* add_sid_file: items whose node is not there are passed over.             *)
WithSid(tree, item) ==
  FoldSet(LAMBDA at, t : ChangeAt(t, at, LAMBDA n : [n EXCEPT !.sid = item.sid]),
          tree, resolve_schema_path(tree, <<>>, item.path))
add_sid(schemas, item) ==
  LET mod == item.path[1][1]
  IN IF item.namespace = "module"
       THEN IF mod \in DOMAIN schemas THEN [schemas EXCEPT ![mod].sid = item.sid] ELSE schemas
     ELSE IF mod \in DOMAIN schemas THEN [schemas EXCEPT ![mod] = WithSid(@, item)]
     ELSE [m \in DOMAIN schemas |-> Raised]

AddSidFile ==
  /\ Phase("sid")
  /\ schema' = FoldSet(LAMBDA item, schemas : add_sid(schemas, item), schema, sid_file(MeantNodes, todo[1]))
  /\ Go("data", <<"data">>)
  /\ UNCHANGED data

(* The nodes of choices and cases move up; those at the top stay.           *)
RECURSIVE flatten(_)
Hoisted(s) == IF s.kw \in {"choice", "case"} THEN flatten(s).substms ELSE <<flatten(s)>>
flatten(stm) ==
  FoldLeft(add_child, [stm EXCEPT !.substms = <<>>],
           FlattenSeq([i \in DOMAIN stm.substms |-> Hoisted(stm.substms[i])]))

Data ==
  /\ Phase("data")
  /\ data' = LET tops(mod) == [i \in DOMAIN schema[mod].substms |-> flatten(schema[mod].substms[i])]
             IN FoldLeft(add_child, NewNode("module", <<"", "data-tree-schema">>),
                         FlattenSeq([i \in DOMAIN Loaded |-> tops(Loaded[i])]))
  /\ pc' = "done"
  /\ UNCHANGED <<doc, todo, schema, raised>>

Init ==
  /\ doc \in Documents
  /\ pc = "interpret"
  /\ todo = Sorted
  /\ schema = [mod \in ToSet(Loaded) |-> Nil]
  /\ data = Nil
  /\ raised = FALSE

Next == Interpret \/ Deviate \/ ResolveLeafrefs \/ AddSidFile \/ Data
Spec == Init /\ [][Next]_vars

(* The nodes of a tree, with the names they are known by.                   *)
Known(arg, mod) == IF arg[1] = "" THEN mod ELSE arg[1]
RECURSIVE Told(_, _, _)
Told(node, path, mod) ==
  LET Node(c) == LET here == Append(path, <<Known(c.arg, mod), NameOf([kw |-> c.kw, name |-> c.arg[2]])>>)
                 IN {<<here, c>>} \cup Told(c, here, Known(c.arg, mod))
  IN UNION {Node(c) : c \in ToSet(node.substms)}

-----------------------------------------------------------------------------
(* What the program is known not to read as it is meant: nodes of a grouping *)
(* or a choice at the top of a module, a module that augments itself or what *)
(* it has already put into another below the top, choices added by another  *)
(* module or added to, children of what a deviation makes configuration,    *)
(* deviations that add or delete.                                           *)
AugmentGap(nodes, mod, a) ==
  LET target == Absolute(mod, a.path)
  IN \/ target[1][1] = mod
     \/ Last(target)[1] = mod /\ target[Len(target) - 1][1] = mod
     \/ \E n \in nodes : n.path = target /\ n.kw = "choice"
     \/ \E n \in nodes : /\ n.kw = "choice" /\ IsPrefix(target, n.path)
                         /\ n.path[Len(target) + 1][1] = mod /\ Len(n.path) = Len(target) + 1
DeviationGap(nodes, mod, d) ==
  LET target == Absolute(mod, d.path)
  IN \/ d.kind \in {"add", "delete"}
     \/ d.config = "true" /\ \E n \in nodes : IsStrictPrefix(target, n.path)
ModuleGap(nodes, mod) ==
  \/ \E s \in ToSet(Mod(mod).stm.sub) : s.kw \in {"uses", "choice"}
  \/ \E a \in ToSet(augments(mod)) : AugmentGap(nodes, mod, a)
  \/ \E d \in ToSet(Mod(mod).deviations) : DeviationGap(nodes, mod, d)

(* Where the path of a leafref leads in the tree of data nodes.             *)
MeantTarget(n) ==
  FoldLeft(LAMBDA at, id : IF id = Up THEN IF at = <<>> THEN at ELSE Front(at)
                           ELSE Append(at, <<IF id[1] = "" THEN Last(n.path)[1] ELSE id[1], id[2]>>),
           IF n.type.path[1] = Up THEN n.data ELSE <<>>, n.type.path)

(* Nor leafrefs that name a node at the top by their way up, lead into or out *)
(* of a case, or have several predicates: what stands between the first and  *)
(* the last is removed with them.  Those that lead to no leaf pyang has      *)
(* refused.                                                                  *)
LeafrefGap(n, nodes) ==
  LET target == {o \in nodes : o.data = MeantTarget(n)}
      up == n.type.path[1] = Up
  IN \/ \A o \in target : o.kw \notin {"leaf", "leaf-list"}
     \/ n.type.predicates > 1
     \/ up /\ First(n.type.path, LAMBDA id : id # Up) > Len(n.data)
     \/ \E f \in Paths(nodes, Folding), o \in target : IsPrefix(f, o.path) # (up /\ IsPrefix(f, n.path))
Gap(nodes) ==
  \/ \E mod \in ToSet(Loaded) : ModuleGap(nodes, mod)
  \/ \E n \in nodes : n.type.builtin = "leafref" /\ LeafrefGap(n, nodes)

DataNodes(nodes) == {n \in nodes : ~Folding(n)}
Compared(Holds(_, _)) ==
  (raised \/ pc = "done") =>
    LET nodes == MeantSchema
    IN Gap(nodes) \/ (~raised /\ Holds(DataNodes(nodes), Told(data, <<>>, "")))

(* Exchanging them until no pair is out of place puts the keys of each list *)
(* in the order of its key statement: the positions of the values in an     *)
(* instance-identifier.                                                     *)
KeysInOrder ==
  pc = "done" /\ ~raised =>
    \A n \in Told(data, <<>>, "") :
      SelectSeq([i \in DOMAIN n[2].substms |-> n[2].substms[i].arg[2]], LAMBDA k : k \in ToSet(n[2].keys)) = n[2].keys

RECURSIVE Size(_)
Size(node) == FoldLeft(LAMBDA n, c : n + 1 + Size(c), 0, node.substms)

(* Every document that is read leads to the tree that is meant: each data   *)
(* node stands once below the names, each in its module, that RFC 7950      *)
(* gives it, with its keyword and its place in the configuration, however   *)
(* groupings, augments and deviations are nested and ordered; and the keys  *)
(* of a list are in order.  Not so for what Gap names; refine, which is     *)
(* passed over, is in no document.                                          *)
TreeIsMeant ==
  /\ Compared(LAMBDA meant, told :
       /\ {<<n[1], n[2].kw, n[2].config>> : n \in told} = {<<n.data, n.kw, n.config>> : n \in meant}
       /\ Size(data) = Cardinality(meant))
  /\ KeysInOrder

(* Every data node is found under the identifier that the SID plugin gives  *)
(* it, in its own file or in that of the module that augments it, and none  *)
(* bears the SID of another.                                                *)
SidsFound == Compared(LAMBDA meant, told : {<<n[1], n[2].sid>> : n \in told} = {<<n.data, n.path>> : n \in meant})

(* Every leaf whose type is a leafref, with at most one predicate in its     *)
(* path, is led to the leaf that the path means in the data tree, with the  *)
(* names it leaves without a prefix in the module where it stands, though   *)
(* it is looked for among choices, cases and renamed nodes.  Not so for     *)
(* what Gap names; leafrefs that are members of a union, which the program  *)
(* leaves alone, are in no document.                                        *)
NamesAt(tree, address) ==
  LET Named_(way, i) ==
        LET c == NodeAt(tree, SubSeq(address, 1, i))
        IN Append(way, <<Known(c.arg, IF i = 1 THEN "" ELSE Last(way)[1]), NameOf([kw |-> c.kw, name |-> c.arg[2]])>>)
  IN FoldLeft(Named_, <<>>, [i \in DOMAIN address |-> i])
LeafrefsFound ==
  Compared(LAMBDA meant, told :
    \A n \in meant, t \in told :
      n.type.builtin = "leafref" /\ t[1] = n.data =>
        \E o \in meant : /\ o.data = MeantTarget(n)
                         /\ o.path = NamesAt(schema[t[2].type.deref[1]], t[2].type.deref[2]))

(* A type is taken down the chain of its typedefs, across modules, to the   *)
(* values, the numbers of its names that each step leaves.                  *)
TypesAreMeant ==
  Compared(LAMBDA meant, told :
    \A n \in meant, t \in told :
      n.kw \in {"leaf", "leaf-list"} /\ t[1] = n.data =>
        /\ t[2].type.builtin = n.type.builtin
        /\ UNION {range[1] .. range[2] : range \in ToSet(t[2].type.ranges)} = n.type.values
        /\ ToSet(t[2].type.names) = n.type.names)
=============================================================================
