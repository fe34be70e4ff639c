---------------------------- MODULE MCYangTypes ----------------------------
(* Values of the constants of YangTypes and UpdateCheck: one int type of   *)
(* five values, and strings of up to four characters.                      *)
EXTENDS UpdateCheck

Ends == {MinWord, MaxWord} \cup -2 .. 4
Part == {<<lo, hi>> : lo \in Ends, hi \in Ends \cup {None}}
Ascending == {p \in Part : is_smaller(p[1], p[2])}
OnePart == {<<p>> : p \in Part}
Middle == {p \in Ascending : p[1] \in {MinWord, MaxWord} \cup 0 .. 2 /\ p[2] \in {None, MaxWord} \cup 1 .. 2}
TwoParts == {pq \in Middle \X Middle :
               is_smaller(IF pq[1][2] = None THEN pq[1][1] ELSE pq[1][2], pq[2][1])}
R(ranges) == {[NoStmt EXCEPT !.range = r] : r \in ranges}
L(lengths) == {[NoStmt EXCEPT !.length = l] : l \in lengths}
Lengths == {<<<<MinWord, 2>>>>, <<<<1, None>>, <<3, MaxWord>>>>, <<<<2, 4>>>>, <<<<2, None>>>>,
            <<<<0, 1>>, <<3, None>>>>, <<<<3, 6>>>>}
Pattern(id, invert, good) == [id |-> id, invert |-> invert, good |-> good]
Patterns == {<<Pattern(1, FALSE, TRUE)>>, <<Pattern(1, TRUE, TRUE), Pattern(2, FALSE, TRUE)>>,
             <<Pattern(1, FALSE, TRUE), Pattern(2, FALSE, FALSE)>>}
P(patterns) == {[NoStmt EXCEPT !.patterns = p] : p \in patterns}

Item(n, v) == [name |-> n, value |-> v, feature |-> n = "b"]
Items == {Item(n, v) : n \in {"a", "b"}, v \in {<<>>, <<-1>>, <<1>>, <<3>>, <<4>>}} \cup {Item("c", <<>>)}
Few == {<<>>} \cup {<<i>> : i \in Items}
ItemSeqs == Few \cup (Items \X Items)
            \cup {<<Item("a", <<1>>), Item("b", v), Item("c", w)>> : v \in {<<>>, <<0>>, <<2>>}, w \in {<<>>, <<2>>}}
MCIntMin == -1
MCMinWord == -20
MCBuiltIns == {"int", "string", "decimal64", "enumeration", "bits", "identityref", "union", "boolean", "empty"}

Union == {[NoStmt EXCEPT !.members = m] : m \in
  {<<[of |-> "int", stmt |-> [NoStmt EXCEPT !.range = <<<<2, 3>>>>]],
     [of |-> "enumeration", stmt |-> [NoStmt EXCEPT !.enums = <<[name |-> "a", value |-> <<>>, feature |-> FALSE]>>]]>>,
   <<[of |-> "string", stmt |-> [NoStmt EXCEPT !.length = <<<<3, 4>>>>]],
     [of |-> "empty", stmt |-> NoStmt]>>}}
MCStatements == [b \in MCBuiltIns |->
  CASE b = "int" -> <<R(OnePart \cup TwoParts), R(OnePart \cup TwoParts) \cup {NoStmt} \cup L(OnePart),
                          R({<<<<MaxWord, None>>>>, <<<<1, MaxWord>>>>}) \cup {NoStmt}>>
    [] b = "string" -> LET S == L(Lengths) \cup P(Patterns) \cup {NoStmt}
                       IN <<S \cup R({<<<<1, 2>>>>}), S, S>>
    [] b = "decimal64" -> LET F == {[NoStmt EXCEPT !.fd = fd, !.range = r] : fd \in {0, 1, 2}, r \in {<<>>, <<<<1, 3>>>>}}
                          IN <<F, F, {NoStmt}>>
    [] b \in {"enumeration"} -> LET S == {[NoStmt EXCEPT !.enums = i] : i \in ItemSeqs}
                                IN <<S, {[NoStmt EXCEPT !.enums = i] : i \in Few}, {NoStmt}>>
    [] b = "bits" -> LET S == {[NoStmt EXCEPT !.bits = i] : i \in ItemSeqs}
                     IN <<S, {[NoStmt EXCEPT !.bits = i] : i \in Few}, {NoStmt}>>
    [] b = "identityref" -> <<{[NoStmt EXCEPT !.bases = i] : i \in {<<>>, <<1>>, <<2, 1>>, <<9, 1>>}},
                              {NoStmt}, {NoStmt}>>
    [] b = "union" -> <<Union \cup {NoStmt}, Union \cup {NoStmt}, {NoStmt}>>
    [] OTHER -> <<{NoStmt}, {NoStmt}, {NoStmt}>>]

Text == [name |-> "#", words |-> <<"#">>, len |-> 2, in |-> {1}, neg |-> FALSE, hex |-> FALSE,
         digits |-> <<>>, frac |-> <<>>]
Named(n) == [Text EXCEPT !.name = n, !.words = <<n>>]
Number(neg, hex, digits, frac) == [Text EXCEPT !.neg = neg, !.hex = hex, !.digits = digits, !.frac = frac]
MCTexts == [b \in MCBuiltIns |->
  CASE b = "int" -> {Number(FALSE, FALSE, <<0, 2>>, <<>>)}
    [] b = "string" -> {[Text EXCEPT !.len = n, !.in = m] : n \in {1, 3}, m \in {{1}, {2}}}
    [] b = "decimal64" -> {Number(FALSE, FALSE, <<0>>, f) : f \in {<<>>, <<0, 2>>, <<3>>}} \cup {Number(TRUE, FALSE, <<0>>, <<0, 1>>)}
    [] b = "enumeration" -> {Named("a"), Named("b")}
    [] b = "bits" -> {[Text EXCEPT !.words = w] : w \in {<<>>, <<"a">>, <<"b", "a">>}}
    [] b = "identityref" -> {Named(i) : i \in {1, 2, 3, 8}}
    [] b = "union" -> {Named("a"), [Text EXCEPT !.len = 3], Number(FALSE, FALSE, <<2>>, <<>>), Number(FALSE, TRUE, <<>>, <<>>)}
    [] OTHER -> {Named("true"), Named("a")}]
MCLists == [b \in MCBuiltIns |->
  IF b \in {"string", "decimal64", "boolean"}
  THEN {[texts |-> t, min |-> m[1], max |-> m[2]] : m \in {<<0, 2>>, <<2, 1>>, <<1, 1>>},
        t \in {<<>>} \cup {<<x>> : x \in MCTexts[b]} \cup {SetToSeq(MCTexts[b])}}
  ELSE {[texts |-> <<>>, min |-> 0, max |-> 1]}]
MCGraphs == [1 .. 3 -> {<<>>, <<1>>, <<2>>, <<3, 2>>, <<9, 1>>}]

(* Updates: a module against every other of a theme.  Themes without a     *)
(* type of their own stand with the built-in types boolean and empty.      *)
Holding(nodes) == [Module EXCEPT !.children = nodes]
Defining(defs) == [Module EXCEPT !.definitions = defs]
Versions(modules) == [from |-> modules, to |-> {[m EXCEPT !.revisions = {2}] : m \in modules}]
Renamed(n, name) == [n EXCEPT !.name = name]
LeafOf(t) == [Node("leaf", "x") EXCEPT !.type = <<t>>]
Derived(of, base, own) ==
  [Module EXCEPT !.definitions = <<[Node("typedef", "t") EXCEPT !.type = <<Type(of, <<base>>)>>]>>,
                 !.children = <<LeafOf(Type(of, <<base, own>>))>>]
Elsewhere(m) == [m EXCEPT !.definitions = <<>>]
Direct(of, stmts) == {Holding(<<LeafOf(Type(of, <<s>>))>>) : s \in stmts}

Ranges == {<<p>> : p \in {<<MinWord, 1>>, <<0, MaxWord>>, <<-1, 2>>, <<0, 2>>, <<1, 1>>, <<1, None>>, <<MinWord, MaxWord>>}}
          \cup {<<<<-1, 0>>, <<2, 3>>>>, <<<<-1, None>>, <<1, None>>>>, <<<<0, 1>>, <<2, 3>>>>, <<<<MinWord, 0>>, <<2, None>>>>}
UpdateItems == {<<Item("a", <<>>)>>, <<Item("a", <<>>), Item("b", <<>>)>>, <<Item("b", <<>>), Item("a", <<>>)>>,
                <<Item("a", <<1>>), Item("b", <<>>)>>, <<Item("b", <<1>>), Item("a", <<0>>)>>,
                <<Item("a", <<0>>), Item("c", <<>>), Item("b", <<>>)>>, <<Item("b", <<1>>)>>}
Enums(items) == {[NoStmt EXCEPT !.enums = i] : i \in items}
Bits(items) == {[NoStmt EXCEPT !.bits = i] : i \in items}
Member(of, s) == [of |-> of, stmt |-> s]
UnionOf(ms) == [NoStmt EXCEPT !.members = ms]
Unions == {UnionOf(<<Member("int", r), Member("enumeration", e)>>) :
             r \in R({<<<<0, 1>>>>, <<<<0, 2>>>>}) \cup {NoStmt}, e \in Enums(UpdateItems)}
          \cup {UnionOf(<<Member("int", NoStmt)>>), UnionOf(<<Member("string", NoStmt), Member("int", NoStmt)>>)}

TypesOf(b) ==
  CASE b = "int" -> {Direct(b, R(Ranges) \cup {NoStmt}),
                     {Derived(b, base, own) : base \in R(Ranges) \cup {NoStmt}, own \in R({<<<<0, 1>>>>}) \cup {NoStmt}}}
    [] b = "decimal64" -> {Direct(b, {[NoStmt EXCEPT !.fd = fd, !.range = r] : fd \in {1, 2}, r \in {<<>>} \cup Ranges})}
    [] b = "string" -> {Direct(b, L(Lengths) \cup {NoStmt})}
    [] b = "enumeration" -> {Direct(b, Enums(UpdateItems)),
                             {Derived(b, e, f) : e \in Enums(UpdateItems), f \in Enums({<<Item("b", <<>>)>>})},
                             {Elsewhere(Derived(b, e, f)) : e \in Enums(UpdateItems), f \in Enums({<<Item("b", <<>>)>>})}}
    [] b = "bits" -> {Direct(b, Bits(UpdateItems))}
    [] b = "union" -> {Direct(b, Unions)}
    [] OTHER -> {}

(* A circle of identities has been refused, and so has a missing base.     *)
(* Identities have numbers for names, and so has the leaf beside them.     *)
NoCircle(g) == \A a \in DOMAIN g : /\ ToSet(g[a]) \subseteq DOMAIN g
                                   /\ \A b \in ToSet(g[a]) : a # b /\ ~DerivesIn(g, b, a)
WithIdentities(g, bases) ==
  [Module EXCEPT !.definitions = [i \in DOMAIN g |-> [Node("identity", i) EXCEPT !.bases = g[i]]],
                 !.children = <<Renamed(LeafOf(Type("identityref", <<[NoStmt EXCEPT !.bases = bases]>>)), 0)>>]
IdentityUpdates(g) ==
  IF ~NoCircle(g) THEN {}
  ELSE LET With(h) == {WithIdentities(h, bases) : bases \in {<<1>>, <<2, 1>>, <<1, 1>>}}
       IN {[from |-> With(g),
             to |-> {[m EXCEPT !.revisions = {2}] : m \in UNION {With(h) : h \in {i \in MCGraphs : NoCircle(i)}}}]}

Flag == LeafOf(Type("boolean", <<NoStmt>>))
May(n) == [n EXCEPT !.mandatory = <<"false">>]
Must(n) == [n EXCEPT !.mandatory = <<"true">>]
Constrained(n) ==
  {[n EXCEPT !.features = f, !.whens = w, !.musts = m, !.config = c] :
     f \in {{}, {"f"}}, w \in {<<>>, <<"w">>}, m \in {<<>>, <<"m">>, <<"m", "m">>}, c \in {"true", "false"}}
Leafs == UNION {Constrained(n) : n \in {Flag, May(Flag), Must(Flag)}}
Defaults == {[[Flag EXCEPT !.default = d, !.units = u, !.mandatory = m] EXCEPT !.type[1].default = t] :
               d, t \in {<<>>, <<"true">>, <<"false">>}, u \in {<<>>, <<"kg">>, <<"g">>}, m \in {<<>>, <<"true">>}}
Accepted(n) == n.default = <<>> \/ n.mandatory = <<>>
LeafLists == {[Flag EXCEPT !.kw = "leaf-list", !.min = i, !.max = a, !.order = o] :
                i \in {<<>>, <<0>>, <<1>>, <<2>>}, a \in {<<>>, <<1>>, <<2>>, <<Unbounded>>}, o \in {<<>>, <<"user">>, <<"system">>}}
Inside(n) == {<<>>, <<n>>, <<May(n)>>, <<Must(n)>>, <<Must(n), Renamed(n, "y")>>, <<Must(Renamed(n, "y")), n>>,
              <<[Node("container", "inner") EXCEPT !.children = <<Must(n)>>]>>,
              <<[Node("container", "inner") EXCEPT !.children = <<n>>]>>,
              <<[Node("container", "inner") EXCEPT !.children = <<n>>, !.musts = <<"m">>]>>,
              <<[n EXCEPT !.kw = "leaf-list", !.min = <<1>>]>>}
Containers == {[Node("container", "c") EXCEPT !.presence = p, !.features = f, !.whens = w, !.children = i] :
                 p \in {<<>>, <<"p">>}, f \in {{}, {"f"}}, w \in {<<>>, <<"w">>}, i \in Inside(Flag)}
Keyed(keys) == [i \in DOMAIN keys |-> Renamed(Flag, keys[i])]
ListNodes == {[Node("list", "l") EXCEPT !.key = k, !.uniques = u, !.min = m, !.children = <<Renamed(Flag, "k"), Renamed(Flag, "v")>> \o i] :
              k \in {<<"k">>, <<"v">>, <<"k", "v">>, <<"v", "k">>}, u \in {<<>>, <<<<"v">>>>, <<<<"v">>, <<"v">>>>, <<<<"v", "k">>>>},
              m \in {<<>>, <<1>>}, i \in {<<>>, <<Must(Flag)>>}}
Case(name, nodes) == [Node("case", name) EXCEPT !.children = nodes]
ChoiceNodes == {[Node("choice", "ch") EXCEPT !.mandatory = m, !.children = cs] : m \in {<<>>, <<"false">>, <<"true">>},
            cs \in {<<Case("a", i)>> : i \in Inside(Flag)}
                   \cup {<<Case("a", i), [Case("b", <<Renamed(Flag, "z")>>) EXCEPT !.features = f]>> : i \in Inside(Flag), f \in {{}, {"f"}}}}
Alone(nodes) == {Holding(<<n>>) : n \in nodes} \cup {Module}

Targeted(t, w, nodes) == [Node("augment", t) EXCEPT !.whens = w, !.children = nodes]
Augmenting == {[Module EXCEPT !.augments = a] :
  a \in {<<>>} \cup {<<Targeted("/o", w, i)>> : w \in {<<>>, <<"w">>}, i \in Inside(Flag) \ {<<>>}}
        \cup {<<Targeted("/o", <<>>, <<Flag>>), Targeted(t, <<>>, <<Renamed(Flag, "y")>>)>> : t \in {"/o", "/p"}}}

Rpc(in, out) == [Node("rpc", "r") EXCEPT !.config = "none",
  !.children = <<[Node("input", "input") EXCEPT !.config = "none", !.children = in],
                 [Node("output", "output") EXCEPT !.config = "none", !.children = out]>>]
NoConfig(nodes) == [i \in DOMAIN nodes |-> [nodes[i] EXCEPT !.config = "none",
                      !.children = [k \in DOMAIN nodes[i].children |-> [nodes[i].children[k] EXCEPT !.config = "none"]]]]
Rpcs == {Rpc(NoConfig(in), NoConfig(out)) : in \in Inside(Flag), out \in {<<>>, <<Flag>>, <<Must(Flag)>>}}
Definitions(kw) ==
  {[Node(kw, "d") EXCEPT !.features = f, !.status = s, !.children = i] :
     f \in {{}, {"f"}}, s \in {<<>>, <<"current">>, <<"deprecated">>, <<"obsolete">>}, i \in {<<>>, <<Flag>>, <<Must(Flag)>>}}
Extensions == {[Node("extension", "e") EXCEPT !.argument = a] :
                 a \in {<<>>} \cup {<<[name |-> "arg", yin |-> y]>> : y \in {<<>>, <<"true">>, <<"false">>}}}
Defined(defs) == {Defining(<<d>>) : d \in defs} \cup {Module}
Headers == {[Module EXCEPT !.name = n, !.namespace = ns, !.revisions = r] :
              n \in {"m", "n"}, ns \in {"urn:m", "urn:n"}, r \in {{}, {1}, {2}, {1, 2}}}
Anydata == {[Node("anydata", "any") EXCEPT !.mandatory = m] : m \in {<<>>, <<"true">>}}
Leafrefs == {LeafOf([Type("leafref", <<NoStmt>>) EXCEPT !.target = t]) :
               t \in {<<"x">>, <<"x", "c">>, <<"x", "d">>, <<"x", "c", "d">>}}

Themes ==
  {Alone(Leafs), Alone({n \in Defaults : Accepted(n)}), Alone(LeafLists), Alone(Containers), Alone(ListNodes),
   Alone(ChoiceNodes), Alone(Leafrefs), Alone({Flag, [Flag EXCEPT !.kw = "leaf-list"]} \cup Anydata),
   Augmenting, Defined(Rpcs), Defined(Extensions)}
  \cup {Defined(Definitions(kw)) : kw \in {"grouping", "notification", "structure"}}
MCUpdates(b, g) ==
  CASE b = "identityref" -> IdentityUpdates(g)
    [] b = "boolean" -> {Versions(t) : t \in Themes}
    [] b = "empty" -> {[from |-> Headers, to |-> Headers]}
    [] OTHER -> {Versions(t) : t \in TypesOf(b)}
=============================================================================
