---------------------------- MODULE MCYangSchema ----------------------------
EXTENDS YangSchema

Stm(kw, name, sub) ==
  [kw |-> kw, name |-> name, config |-> "", keys |-> <<>>, type |-> <<>>, ref |-> <<"", "">>, path |-> <<>>, sub |-> sub]
Type(prefix, name) == [name |-> <<prefix, name>>, names |-> <<>>, ranges |-> <<>>, members |-> <<>>, path |-> <<>>]
Typed(kw, name, type) == [Stm(kw, name, <<>>) EXCEPT !.type = <<type>>]
Leaf(name) == Typed("leaf", name, Type("", "boolean"))
Container(name, sub) == Stm("container", name, sub)
Uses(prefix, name, sub) == [Stm("uses", "", sub) EXCEPT !.ref = <<prefix, name>>]
Augment(path, sub) == [Stm("augment", "", sub) EXCEPT !.path = path]
List(keys, sub) == [Stm("list", "l", sub) EXCEPT !.keys = keys]
Ranged(name, ranges) == [Type("", name) EXCEPT !.ranges = ranges]
Names(type, names) == [type EXCEPT !.names = names]
Leafref(name, path) == Typed("leaf", name, [Type("", "leafref") EXCEPT !.path = path])
Config(s, config) == [s EXCEPT !.config = config]
In(prefix, names) == [i \in DOMAIN names |-> <<prefix, names[i]>>]
Plain(path) == [i \in DOMAIN path |-> Append(path[i], FALSE)]

Module(prefix, name, imports, deviations, sub) ==
  [prefix |-> prefix, imports |-> imports, deviations |-> deviations, stm |-> Stm("module", name, sub)]
Deviation(path, kind, config, type) == [path |-> path, kind |-> kind, config |-> config, type |-> type]
Document(modules, sids) == [modules |-> modules, sids |-> sids]

(* Keys in any order, before and after another leaf, one from a grouping.   *)
Keys == {"k1", "k2", "k3"}
Orders(S) == {s \in [1 .. Cardinality(S) -> S] : ToSet(s) = S}
KeyLeaf(k, used) == IF k = used THEN Uses("", "g", <<>>) ELSE Leaf(k)
KeyDocuments ==
  {LET leafs == [i \in 1 .. 4 |-> IF i = at THEN Leaf("v") ELSE KeyLeaf(order[IF i < at THEN i ELSE i - 1], used)]
   IN Document(<<Module("a", "a", <<>>, <<>>,
                        <<Stm("grouping", "g", <<Leaf(used), Leaf("w")>>), Container("c", <<List(keys, leafs)>>)>>)>>, <<"a">>) :
     keys \in Orders(Keys), order \in Orders(Keys), at \in {1, 3}, used \in {"k1", "k2"}}

(* Three modules: a with a grouping and a container, b that uses, augments  *)
(* and deviates, c that augments what b has added.                          *)
Choice == Stm("choice", "h", <<Leaf("s"), Stm("case", "t", <<Leaf("u"), Container("m", <<Leaf("n")>>)>>)>>)
GroupA(config) == Stm("grouping", "g", <<Config(Container("x", <<Leaf("y")>>), config)>>)
BodiesA == {
  <<Uses("", "g", <<>>), Leaf("y")>>,
  <<Uses("", "g", <<Augment(<<<<"", "x">>>>, <<Leaf("z"), Choice>>)>>)>>,
  <<Container("x", <<Choice, Leaf("y")>>), Stm("notification", "o", <<Leaf("y")>>)>>,
  <<Container("x", <<Uses("", "g", <<>>), Leaf("y")>>), Stm("action", "e", <<Stm("input", "", <<Leaf("y")>>)>>)>>}
GroupB == Stm("grouping", "gb", <<Uses("p", "g", <<Augment(<<<<"", "x">>>>, <<Container("i", <<Leaf("y")>>)>>)>>), Leaf("q")>>)
AugmentsB == {
  <<>>,
  <<Augment(In("p", <<"c">>), <<Container("d", <<Leaf("y")>>)>>),
    Augment(In("p", <<"c">>) \o In("", <<"d">>), <<Leaf("z"), Container("x", <<Leaf("y")>>)>>)>>,
  <<Augment(In("p", <<"c", "x">>), <<Leaf("y"), Container("d", <<Leaf("y")>>)>>)>>,
  <<Augment(In("p", <<"c">>), <<Uses("", "gb", <<>>)>>)>>,
  <<Augment(In("p", <<"c">>), <<Config(Container("d", <<Uses("p", "g", <<>>), Leaf("y")>>), "false")>>),
    Augment(In("p", <<"c", "x">>), <<Uses("p", "g", <<>>)>>)>>,
  <<Augment(In("p", <<"c">>), <<Container("d", <<Choice, Leaf("y")>>)>>), Augment(In("p", <<"c", "x">>), <<Choice>>)>>}
DeviationsB == {
  <<>>,
  <<Deviation(In("p", <<"c", "x">>), "replace", "false", <<>>)>>,
  <<Deviation(In("p", <<"c", "x", "y">>), "not-supported", "", <<>>)>>,
  <<Deviation(In("p", <<"c", "x", "y">>), "replace", "", <<Ranged("int8", <<>>)>>)>>}
AugmentsC(augmentsB) ==
  {<<>>, <<Augment(In("a", <<"c", "x">>), <<Leaf("y"), Uses("b", "gb", <<>>)>>)>>}
    \cup IF \E i \in DOMAIN augmentsB : augmentsB[i].sub[1].name = "d" /\ Len(augmentsB[i].path) = 1
         THEN {<<Augment(In("a", <<"c">>) \o In("b", <<"d">>), <<Leaf("y"), Container("x", <<Leaf("y")>>)>>)>>} ELSE {}
InAnyOrder(modules, order) == [i \in DOMAIN order |-> modules[order[i]]]
TreeDocuments ==
  {LET modules ==
         <<Module("a", "a", <<>>, <<>>, <<GroupA(configX), Config(Container("c", bodyA), configC)>>),
           Module("b", "b", <<<<"p", "a">>>>, deviations, <<GroupB, Container("c", <<Uses("", "gb", <<>>)>>)>> \o augmentsB),
           Module("c", "c", <<<<"a", "a">>, <<"b", "b">>>>, <<>>, augmentsC)>>
   IN Document(InAnyOrder(modules, order), IF order[1] = 1 THEN <<"c", "a", "b">> ELSE <<"a", "b", "c">>) :
     configX \in {"", "false"}, configC \in {"", "false"}, order \in {<<1, 2, 3>>, <<3, 2, 1>>},
     bodyA \in BodiesA, deviations \in DeviationsB,
     <<augmentsB, augmentsC>> \in UNION {{b} \X AugmentsC(b) : b \in AugmentsB}}

(* An rpc whose input and output another module adds to, yang-data, and what *)
(* stands at the top.                                                       *)
Rpc(sub) == Stm("rpc", "r", sub)
Tops == {<<Rpc(<<>>)>>, <<Rpc(<<Stm("input", "", <<Leaf("y")>>)>>)>>,
         <<Stm("yang-data", "", <<Container("f", <<Leaf("y")>>)>>), Rpc(<<Stm("output", "", <<Leaf("y")>>)>>)>>,
         <<Stm("grouping", "g", <<Leaf("y")>>), Uses("", "g", <<>>), Rpc(<<>>)>>, <<Choice, Rpc(<<>>)>>}
TopDocuments ==
  {Document(<<Module("a", "a", <<>>, <<>>, top),
              Module("b", "b", <<<<"p", "a">>>>, deviations,
                     <<Augment(In("p", <<"r", way>>), <<Leaf("y"), Leaf("z")>>)>>)>>, <<"b", "a">>) :
     top \in Tops, way \in {"input", "output"},
     deviations \in {<<>>, <<Deviation(In("p", <<"r">>), "add", "", <<>>)>>}}

(* Typedefs three deep, in two modules, one hidden by another of its name.  *)
EnumBases == {<<<<"r", Auto>>, <<"s", 5>>, <<"t", Auto>>>>, <<<<"t", 2>>, <<"s", 0>>, <<"r", Auto>>>>}
EnumSteps == {<<>>, <<<<"t", Auto>>>>, <<<<"s", Auto>>, <<"t", Auto>>>>, <<<<"t", Auto>>, <<"s", Auto>>>>}
Derived == Type("", "t1")
EnumDocuments ==
  {Document(<<Module("a", "a", <<>>, <<>>,
                     <<Typed("typedef", "t1", Names(Type("", kind), base)),
                       Container("c", <<Typed("typedef", "t2", Names(Derived, step)), Typed("leaf", "e", Type("", "t2"))>>),
                       Typed("typedef", "t2", Names(Derived, <<<<"t", Auto>>>>))>>),
             Module("b", "b", <<<<"p", "a">>>>, <<>>,
                    <<Typed("typedef", "t1", Type("p", local)), Typed("leaf", "e", Derived)>>)>>, <<"b", "a">>) :
     kind \in {"enumeration", "bits"}, base \in EnumBases, step \in EnumSteps, local \in {"t1", "t2"}}
Steps == {<<>>, <<<<RangeMin, 9>>>>, <<<<RangeMin, 3>>, <<7, RangeMax>>>>, <<<<RangeMax, RangeMax>>>>,
          <<<<1, 1>>, <<3, 7>>, <<9, RangeMax>>>>}
(* Each step may only leave what the one before it allows.                  *)
Narrows(type, ranges) ==
  LET to == add_range(type, ranges).ranges
  IN \A i \in DOMAIN to : \E j \in DOMAIN type.ranges : type.ranges[j][1] <= to[i][1] /\ to[i][2] <= type.ranges[j][2]
Chains(kind) ==
  {steps \in Steps \X Steps \X Steps :
     /\ Narrows(NewType(kind), steps[1])
     /\ Narrows(add_range(NewType(kind), steps[1]), steps[2])
     /\ Narrows(add_range(add_range(NewType(kind), steps[1]), steps[2]), steps[3])}
RangeDocument(kind, steps) ==
  Document(<<Module("a", "a", <<>>, <<>>,
                    <<Typed("typedef", "t1", Ranged(kind, steps[1])),
                      Typed("typedef", "t2", [Derived EXCEPT !.ranges = steps[2]]),
                      Typed("leaf", "e", [Type("", "t2") EXCEPT !.ranges = steps[3]])>>)>>, <<"a">>)
RangeDocuments == UNION {{RangeDocument(kind, steps) : steps \in Chains(kind)} : kind \in {"int8", "string"}}

(* Leafrefs in a grouping, in a typedef, of another module, with predicates. *)
Ref(path) == Leafref("f", path)
Step(up, path) == Plain([i \in 1 .. up |-> Up]) \o Plain(path)
RefPaths == {
  Step(1, <<<<"", "v">>>>), Step(1, <<<<"q", "v">>>>), Step(2, <<<<"", "l">>, <<"", "k1">>>>),
  Step(0, <<<<"q", "c">>, <<"q", "l">>, <<"q", "k1">>>>), Step(0, <<<<"", "c">>, <<"", "l">>, <<"", "k1">>>>),
  <<<<"q", "c", FALSE>>, <<"q", "l", TRUE>>, <<"q", "v", FALSE>>>>,
  <<Append(Up, FALSE), Append(Up, FALSE), <<"", "l", TRUE>>, <<"", "v", FALSE>>>>,
  <<<<"q", "c", FALSE>>, <<"q", "l", TRUE>>, <<"q", "l", TRUE>>, <<"q", "v", FALSE>>>>,
  Step(2, <<<<"", "m">>>>), Step(1, <<<<"", "m">>>>), Step(3, <<<<"q", "c">>, <<"q", "l">>, <<"q", "v">>>>)}
ListOf(ref) == List(<<"k1">>, <<Leaf("k1"), Leaf("v"), ref, List(<<"k1">>, <<Leaf("k1"), Leaf("v")>>)>>)
Around3 == {"list", "grouping", "typedef", "choice", "augment"}
LeafrefDocuments ==
  {LET typedef == Typed("typedef", "t", Ref(path).type[1])
       ref == IF way = "typedef" THEN Typed("leaf", "f", Type("q", "t")) ELSE Ref(path)
       list == IF way = "choice" THEN Stm("choice", "h", <<Stm("case", "t", <<Leaf("m"), ListOf(ref)>>)>>) ELSE ListOf(ref)
   IN Document(<<Module("q", "a", <<>>, <<>>,
                        <<typedef, Stm("grouping", "g", <<ListOf(ref), Leaf("m")>>),
                          Container("c", IF way = "grouping" THEN <<Uses("", "g", <<>>)>> ELSE <<list, Leaf("o")>>)>>),
                 Module("b", "b", <<<<"q", "a">>>>, <<>>,
                        <<Container("c", IF way = "grouping" THEN <<Uses("q", "g", <<>>)>> ELSE <<ListOf(ref), Leaf("m")>>)>>
                          \o IF way = "augment" THEN <<Augment(In("q", <<"c", "l">>), <<Container("x", <<Ref(path), Leaf("v"), Leaf("k1")>>)>>)>>
                             ELSE <<>>)>>, <<"a", "b">>) :
     path \in RefPaths, way \in Around3}

MCDocuments == KeyDocuments \cup TopDocuments \cup TreeDocuments \cup EnumDocuments \cup RangeDocuments \cup LeafrefDocuments
=============================================================================
