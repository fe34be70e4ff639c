---------------------------- MODULE MCSchemaTree ----------------------------
(* Values of SchemaTree's constant: a body with augments of it in every    *)
(* order; groupings that are refined and augmented where they are used;    *)
(* augments and deviations by another module.                              *)
EXTENDS SchemaTree

A(s) == <<"a", s>>
B(s) == <<"b", s>>
LeafOf(arg) == Stmt("leaf", arg, <<>>)
Container(arg, sub) == Stmt("container", arg, sub)
List(arg, key, sub) == [Stmt("list", arg, sub) EXCEPT !.key = key]
AugmentOf(path, sub) == [Stmt("augment", "", sub) EXCEPT !.path = path]
Conf(c, s) == [s EXCEPT !.cfg = c]
Mand(s) == [s EXCEPT !.mand = TRUE]
Plain(body) == [groupings |-> <<>>, body |-> body, augments |-> [m \in {"a", "b"} |-> <<>>],
                deviations |-> <<>>]

(* Sequences of at most n of the elements of S, none twice.                *)
Selections(S, n) ==
  UNION {{f \in [1 .. k -> S] : \A i, j \in 1 .. k : f[i] = f[j] => i = j} : k \in 0 .. n}

(* A container with a choice and a list, and augments of our own module.   *)
Body(c) ==
  <<Conf(c, Container("x",
      <<Stmt("choice", "ch", <<Stmt("case", "c", <<LeafOf("l")>>), Container("k", <<>>)>>),
        List("s", <<"id">>, <<LeafOf("id"), LeafOf("v")>>)>>))>>

OwnAugments ==
  {AugmentOf(<<A("x")>>, <<Container("y", <<LeafOf("p")>>)>>),
   AugmentOf(<<A("x"), A("y")>>, <<LeafOf("q")>>),
   AugmentOf(<<A("x"), A("y")>>, <<List("z", <<>>, <<LeafOf("p")>>), LeafOf("q")>>),
   AugmentOf(<<A("x"), A("ch")>>, <<Container("n", <<LeafOf("o")>>)>>),
   AugmentOf(<<A("x"), A("ch"), A("n"), A("n")>>, <<LeafOf("r")>>),
   AugmentOf(<<A("x"), A("ch"), A("c")>>, <<Mand(LeafOf("q")), LeafOf("n")>>),
   AugmentOf(<<A("x"), A("y"), A("w")>>, <<Conf("true", LeafOf("u"))>>),
   AugmentOf(<<A("x"), A("y")>>, <<Container("w", <<>>)>>)}

AugmentDocs ==
  {[Plain(Body(c)) EXCEPT !.augments["a"] = augs] :
     <<c, augs>> \in {"", "false"} \X Selections(OwnAugments, 3)}

(* Groupings: the second uses the first.                                   *)
Groupings(c) ==
  <<<<Container("g", <<LeafOf("l"), List("s", <<"id">>, <<Conf(c, LeafOf("id"))>>)>>),
      Stmt("action", "act", <<Stmt("input", "input", <<LeafOf("i")>>)>>)>>,
    <<Container("h", <<Stmt("uses", 1, <<>>)>>), Conf(c, LeafOf("m"))>>>>

Refines ==
  {[path |-> <<A("h")>>, cfg |-> "false", mand |-> ""],
   [path |-> <<A("h"), A("g"), A("l")>>, cfg |-> "true", mand |-> "true"],
   [path |-> <<A("h"), A("g"), A("s")>>, cfg |-> "false", mand |-> ""],
   [path |-> <<A("m")>>, cfg |-> "", mand |-> "false"]}

UsesAugments ==
  {AugmentOf(<<A("h"), A("g")>>, <<LeafOf("v")>>),
   AugmentOf(<<A("h"), A("g"), A("t")>>, <<List("z", <<>>, <<LeafOf("p")>>)>>),
   AugmentOf(<<A("h"), A("g")>>, <<Container("t", <<>>)>>),
   AugmentOf(<<A("h"), A("act"), A("input")>>, <<LeafOf("v")>>)}

UsesDocs ==
  {[Plain(<<List("x", <<"id">>, <<LeafOf("id"),
                                   [Stmt("uses", 2, <<>>) EXCEPT !.refines = rs, !.augs = augs]>>),
            Stmt("uses", 1, <<>>)>>) EXCEPT !.groupings = Groupings(c)] :
     <<c, rs, augs>> \in {"", "true"} \X Selections(Refines, 2) \X Selections(UsesAugments, 2)}

(* What module b does to the tree of a.                                    *)
Deviates == {"not-supported", "add mandatory", "replace mandatory",
             "replace config true", "replace config false"}
Deviated == {<<A("x")>>, <<A("x"), A("s")>>, <<A("x"), A("s"), A("id")>>, <<A("x"), A("s"), A("v")>>,
             <<A("x"), A("s"), A("nosuch")>>}
Deviations ==
  {[path |-> p, deviate |-> d] : p \in Deviated, d \in Deviates}
  \cup {[path |-> <<A("x"), A("ch")>>, deviate |-> d] :
          d \in {"delete default", "delete mandatory", "not-supported"}}

DeviationDocs ==
  {[Plain(<<[body EXCEPT !.sub[2].sub[2].mand = TRUE, !.sub[1].dflt = "c"]>>)
      EXCEPT !.deviations = ds] :
     <<body, ds>> \in {Body("")[1], Body("false")[1]} \X Selections(Deviations, 2)}

OtherAugments ==
  {AugmentOf(<<A("x")>>, <<Container("y", <<>>)>>),
   AugmentOf(<<A("x"), B("y")>>, <<Mand(LeafOf("q"))>>),
   AugmentOf(<<A("x"), A("ch")>>, <<LeafOf("n")>>),
   AugmentOf(<<A("x"), A("s")>>, <<Mand(LeafOf("q")), Container("z", <<>>)>>),
   AugmentOf(<<A("x"), A("nosuch")>>, <<LeafOf("q")>>),
   AugmentOf(<<A("x"), A("ch"), A("c"), A("l")>>, <<LeafOf("q")>>)}

OtherDocs ==
  {[Plain(Body(c)) EXCEPT !.augments["b"] = augs] :
     <<c, augs>> \in {"", "false"} \X Selections(OtherAugments, 3)}

(* A leafref in seven places of a tree, beside two that it may go through, *)
(* of which one is to a key.                                               *)
L(s) == Step("", s)
On(m, name, preds) == [Step(m, name) EXCEPT !.preds = preds]
Equals(m, key, up, leaf) == [key |-> <<m, key>>, up |-> up, dn |-> <<L(leaf)>>]
LeafrefOf(arg, path) == [LeafOf(arg) EXCEPT !.ref = <<path>>]
Deref(dn, path) == [path EXCEPT !.derefup = 1, !.derefdn = <<dn>>]

LeafrefPaths ==
  {Path(up, dn) : up \in 1 .. 4, dn \in {<<L("id")>>, <<L("l")>>, <<L("cf")>>, <<L("k"), L("v")>>,
                                         <<L("c"), L("l")>>, <<L("v"), L("v")>>, <<L("s"), Step("a", "w")>>,
                                         <<L("r")>>, <<L("k")>>, <<L("i")>>, <<Step("a", "id")>>}}
  \cup {[Path(1, <<L("cf")>>) EXCEPT !.req = FALSE], [Path(2, <<Step("a", "cf")>>) EXCEPT !.req = FALSE]}
  \cup {Path(-1, <<On("a", "x", xs), On("a", "s", ss), Step("a", leaf)>>) :
           xs \in {<<>>, <<Equals("a", "id", 1, "l")>>, <<Equals("a", "l", 1, "l")>>, <<Equals("a", "id", 1, "k")>>},
           ss \in {<<>>, <<Equals("a", "k1", 1, "d")>>, <<Equals("", "k1", 1, "d"), Equals("", "k2", 1, "l")>>,
                   <<Equals("a", "k1", 1, "d"), Equals("a", "k1", 1, "d")>>},
           leaf \in {"w", "k1"}}
  \cup {Path(-1, <<Step("a", "x"), On("a", "k", <<Equals("a", "id", 1, "l")>>), Step("a", "v")>>),
        Path(-1, <<Step("a", "x"), Step("a", "ch"), Step("a", "l")>>), Path(-1, <<L("x"), L("id")>>)}
  \cup {Deref(L(d), Path(1, <<Step(m, leaf)>>)) :
           d \in {"d", "nk", "l", "r"}, m \in {"", "a"}, leaf \in {"w", "k2", "nosuch"}}

Places == {"case", "container", "action", "top", "uses", "own", "other"}
LeafrefTree(at, leafs) ==
  LET In(place) == IF at = place THEN leafs ELSE <<>>
  IN <<List("x", <<"id">>,
         <<LeafOf("id"), Conf("false", LeafOf("cf")),
           Stmt("choice", "ch", <<Stmt("case", "c", <<LeafOf("l")>>), Stmt("case", "e", In("case"))>>),
           Container("k", <<LeafOf("v")>> \o In("container")),
           List("s", <<"k1", "k2">>, <<LeafOf("k1"), LeafOf("k2"), LeafOf("w")>>),
           Stmt("action", "act", <<Stmt("input", "input", <<LeafOf("i")>> \o In("action"))>>)>>
         \o (IF at = "uses" THEN <<Container("g", <<Stmt("uses", 1, <<>>)>>)>> ELSE <<>>))>>
     \o In("top")

LeafrefDocs ==
  {LET To(leaf) == Path(-1, <<Step("a", "x"), Step("a", "s"), Step("a", leaf)>>)
       leafs == <<LeafrefOf("d", To("k1")), LeafrefOf("nk", To("w")), LeafrefOf("r", path)>>
       augs == <<AugmentOf(<<A("x"), A("ch"), A("e")>>, leafs)>>
   IN [groupings |-> IF at = "uses" THEN <<leafs>> ELSE <<>>,
       body |-> LeafrefTree(at, leafs),
       augments |-> [m \in {"a", "b"} |-> IF <<m, at>> \in {<<"a", "own">>, <<"b", "other">>} THEN augs ELSE <<>>],
       deviations |-> <<>>] :
     <<at, path>> \in Places \X LeafrefPaths}

UniquePaths == {<<"id">>, <<"cf">>, <<"l">>, <<"ch", "c", "l">>, <<"k", "v">>, <<"k">>, <<"s", "w">>, <<"id", "id">>}
UniqueDocs ==
  {Plain(<<[LeafrefTree("", <<>>)[1] EXCEPT !.unique = us, !.cfg = c]>>) :
     <<c, us>> \in {"", "false"} \X Selections({<<p>> : p \in UniquePaths}
                                              \cup {<<p, q>> : p \in UniquePaths, q \in UniquePaths}, 1)}

MCDocuments ==
  AugmentDocs \cup UsesDocs \cup DeviationDocs \cup OtherDocs \cup LeafrefDocs \cup UniqueDocs
=============================================================================
