----------------------------- MODULE MCYangEnc -----------------------------
(* Values of the constants of YangEnc: documents with one value of each     *)
(* type and of unions of two, and requests for paths with keys, lists,      *)
(* status and actions.                                                      *)
EXTENDS YangEnc

T(b) == [builtin |-> b, ranges |-> <<>>, enums |-> <<>>, bits |-> <<>>, members |-> <<>>, to |-> <<>>,
         ids |-> <<>>, source |-> "", fd |-> 0, patterns |-> <<>>]
R(b, ranges) == [T(b) EXCEPT !.ranges = ranges]
int8 == R("int8", <<<<1, 3>>, <<5, 5>>>>)
int64 == R("int64", <<<<-5, 20>>>>)
text == [R("string", <<<<1, 3>>>>) EXCEPT !.patterns = <<{"7", "a", "b a", "n:a", "1.5", "12"}>>]
string == R("string", <<<<0, 9>>>>)
decimal64 == [R("decimal64", <<<<-150, 850>>>>) EXCEPT !.fd = 2]
decimal1 == [R("decimal64", <<<<-9, 99>>>>) EXCEPT !.fd = 1]
enumeration == [T("enumeration") EXCEPT !.enums = <<<<"a", 0>>, <<"b", 5>>>>]
bits == [T("bits") EXCEPT !.bits = <<<<"d", 31>>, <<"a", 0>>, <<"c", 3>>, <<"b", 8>>, <<"e", 9>>>>]
boolean == T("boolean")
empty == T("empty")
binary == R("binary", <<<<1, 2>>>>)
identityref ==
  [T("identityref") EXCEPT !.ids = <<[mod |-> "n", name |-> "a", sid |-> 40], [mod |-> "m", name |-> "b", sid |-> 41]>>,
                           !.source = "m"]
iid == T("instance-identifier")
leafref(t) == [T("leafref") EXCEPT !.to = <<t>>]
union(ms) == [T("union") EXCEPT !.members = ms]

Num(neg, digits, frac) == <<[neg |-> neg, digits |-> digits, frac |-> frac]>>
Txt(len) == [NoText EXCEPT !.len = len]
I(n, neg, digits) == [Txt(Len(digits)) EXCEPT !.int = <<n>>, !.num = Num(neg, digits, <<>>)]
D(neg, digits, frac) == [Txt(4) EXCEPT !.num = Num(neg, digits, frac)]
W(words, len) == [Txt(len) EXCEPT !.words = words]
B(canonical, bytes) == [Txt(4) EXCEPT !.b64 = canonical, !.bytes = bytes]
Strings ==
  [t \in {"7", "07", "08", "-5", "30", "12", "1.5", "1.50", "0.8", "0.07", "-0.1", "-0.0", "7.", ".5", ".", "9.1", "1.234",
          "a", "b", "n:a", "m:b", "b a", "d c", "e b a", "d", "x y", "", "QQ==", "QUI=", "QUJD", "QR==",
          "1", "2", "3", "x", "true", "false", "[null]"} |->
   CASE t = "7" -> I(7, FALSE, <<7>>) [] t = "07" -> I(7, FALSE, <<0, 7>>) [] t = "08" -> D(FALSE, <<0, 8>>, <<>>)
     [] t = "-5" -> I(-5, TRUE, <<5>>) [] t = "30" -> I(30, FALSE, <<3, 0>>) [] t = "12" -> I(12, FALSE, <<1, 2>>)
     [] t = "1.5" -> [D(FALSE, <<1>>, <<5>>) EXCEPT !.len = 3] [] t = "1.50" -> D(FALSE, <<1>>, <<5, 0>>)
     [] t = "0.8" -> D(FALSE, <<0>>, <<8>>)
     [] t = "0.07" -> D(FALSE, <<0>>, <<0, 7>>) [] t = "-0.1" -> D(TRUE, <<0>>, <<1>>)
     [] t = "-0.0" -> D(TRUE, <<0>>, <<0>>) [] t = "7." -> D(FALSE, <<7>>, <<>>)
     [] t = ".5" -> D(FALSE, <<>>, <<5>>) [] t = "9.1" -> D(FALSE, <<9>>, <<1>>)
     [] t = "1.234" -> D(FALSE, <<1>>, <<2, 3, 4>>)
     [] t \in {"a", "b", "d", "x"} -> [W(<<t>>, 1) EXCEPT !.b64 = ""]
     [] t \in {"n:a", "m:b"} -> W(<<t>>, 3)
     [] t = "b a" -> W(<<"b", "a">>, 3) [] t = "d c" -> W(<<"d", "c">>, 3)
     [] t = "e b a" -> W(<<"e", "b", "a">>, 5) [] t = "x y" -> W(<<"x", "y">>, 3)
     [] t = "" -> [W(<<>>, 0) EXCEPT !.num = Num(FALSE, <<>>, <<>>)]
     [] t = "." -> [W(<<>>, 1) EXCEPT !.words = <<t>>, !.num = Num(FALSE, <<>>, <<>>)]
     [] t = "QQ==" -> B(t, 1) [] t = "QUI=" -> B(t, 2) [] t = "QUJD" -> B(t, 3) [] t = "QR==" -> B("QQ==", 1)
     [] t = "1" -> I(1, FALSE, <<1>>) [] t = "2" -> I(2, FALSE, <<2>>) [] t = "3" -> I(3, FALSE, <<3>>)
     [] OTHER -> W(<<t>>, 6)]
MCTexts == [t \in DOMAIN Strings |->
              LET s == Strings[t] IN IF s.words = <<"/">> THEN [s EXCEPT !.words = <<t>>] ELSE s]

-----------------------------------------------------------------------------
N(kw, arg, sid, sub) ==
  [kw |-> kw, arg |-> arg, sid |-> sid, config |-> TRUE, mandatory |-> FALSE, keys |-> <<>>,
   type |-> T("empty"), sub |-> sub]
Leaf(arg, sid, t) == [N("leaf", arg, <<sid>>, <<>>) EXCEPT !.type = t]
Module(sub) == N("module", "data-tree-schema", <<>>, sub)

Inner == [N("list", "k", <<21>>,
            <<Leaf("n", 23, boolean), [Leaf("w", 22, int8) EXCEPT !.config = FALSE], Leaf("u", 24, text)>>)
          EXCEPT !.keys = <<"n">>]
Outer == [N("list", "l", <<11>>,
            <<Leaf("a", 15, int8), Leaf("b", 12, identityref), Inner, Leaf("v", 13, int64)>>)
          EXCEPT !.keys = <<"a", "b">>]
Action == N("action", "r", <<16>>, <<N("input", "", <<17>>, <<[Leaf("p", 18, bits) EXCEPT !.mandatory = TRUE]>>),
                                     N("output", "", <<19>>, <<Leaf("q", 20, decimal64)>>)>>)
MCDefaultSchema ==
  Module(<<N("container", "m:c", <<10>>, <<Outer, Action, [Leaf("s", 14, enumeration) EXCEPT !.config = FALSE],
                                           Leaf("n:z", 100, empty)>>)>>)

El(name, keys) == [name |-> name, keys |-> keys]
A(v) == <<"a", v>>
K(v) == <<"b", v>>
OuterKeys == {<<>>, <<A("1")>>, <<K("n:a")>>, <<A("2"), K("b")>>, <<K("m:b"), A("3")>>, <<A("7"), K("b")>>,
              <<A("1"), A("2")>>, <<<<"v", "7">>>>, <<A("x"), K("b")>>}
InnerKeys == {<<>>, <<<<"n", "true">>>>, <<<<"n", "false">>>>, <<<<"n", "x">>>>}
Lists == {Path(<<El("m:c", <<>>), El("l", o)>>) : o \in OuterKeys}
Entries == {Path(<<El("m:c", <<>>), El("l", o), El("k", i)>>) : o \in OuterKeys, i \in InnerKeys}
At(path, name) == Path(path[2] \o <<El(name, <<>>)>>)
Container == Path(<<El("m:c", <<>>)>>)
TheAction == At(Container, "r")

KMap(v) == Map(<<<<"n", Bool(FALSE)>>, <<"w", Int_(v)>>>>)
KOnly == Map(<<<<"u", Str("a")>>, <<"n", Bool(TRUE)>>>>)
LMap(k) == Map(<<<<"b", Str("b")>>, <<"a", Int_(2)>>>> \o k)
LValues == {LMap(<<>>), LMap(<<<<"k", Arr(<<KOnly>>)>>>>), LMap(<<<<"v", Str("07")>>, <<"k", Arr(<<KMap(3), KOnly>>)>>>>),
            Map(<<<<"a", Int_(1)>>>>)}
Request(schema, format, entries, c) == [schema |-> schema, format |-> format, entries |-> entries, continue |-> c]
One(pathSet, vs) == {Map(<<<<p, v>>>>) : p \in pathSet, v \in vs}
Requested ==
  Lists \cup Entries \cup {At(e, n) : e \in Entries, n \in {"w", "nosuch"}}
Written ==
  One(Lists, {Null} \cup LValues \cup {Arr(<<l>>) : l \in LValues})
  \cup One(Entries, {KMap(3), Arr(<<KOnly>>)}) \cup One({At(e, "w") : e \in Entries}, {Int_(5), Int_(4)})
  \cup One({Container}, {Map(<<<<"s", Str("b")>>, <<"n:z", Arr(<<Null>>)>>>>), Map(<<<<"n:z", Arr(<<Null>>)>>>>)})
Called ==
  One({TheAction}, {Null, Map(<<>>), Int_(1)}
       \cup {Map(<<<<p, v>>>>) : p \in {"input", "output"},
                                 v \in {Null, Map(<<>>), Map(<<<<"p", Str("e b a")>>>>), Map(<<<<"q", Str("0.07")>>>>)}})
Requests_ ==
  {Request(<<"default">>, "fetch", <<e>>, FALSE) : e \in Requested \cup Written}
  \cup {Request(<<"default">>, "ipatch", <<e>>, c) : e \in Written, c \in BOOLEAN}
  \cup {Request(<<"default">>, "post", <<e>>, FALSE) : e \in Called}
  \cup {Request(<<"default">>, "post", <<e, f>>, TRUE) : e, f \in Called}
  \cup {Request(<<"default">>, "ipatch", <<e, f>>, FALSE) :
          e \in One({Container}, {Map(<<<<"n:z", Arr(<<Null>>)>>>>)}), f \in Lists \cup {Map(<<>>)} \cup Written}

-----------------------------------------------------------------------------
Pool == <<int8, int64, text, decimal64, enumeration, bits, boolean, empty, binary, identityref, leafref(int8),
          string, decimal1, iid, union(<<union(<<int8, boolean>>), text>>)>>
Types == {<<"type", i>> : i \in DOMAIN Pool}
Unions == {<<"union", i, j>> : i, j \in 1 .. 11}
Values_ == {Str(t) : t \in DOMAIN MCTexts \ {"1", "2", "3", "true", "false", "[null]", "08"}}
           \cup {Int_(n) : n \in {-5, 2, 4, 7}} \cup {Bool(TRUE), Null, Arr(<<Null>>)}
           \cup {Path(<<El("m:c", <<>>), El("l", o)>>) : o \in {<<A("2"), K("n:a")>>, <<A("x"), K("b")>>}}
SchemaOf(t) == Module(<<N("container", "m:c", <<60>>,
                          <<Leaf("x", 50, t), [N("leaf-list", "y", <<62>>, <<>>) EXCEPT !.type = t],
                            [Leaf("none", 63, t) EXCEPT !.sid = <<>>]>>)>>)
MCSchemas == [s \in {<<"default">>} \cup Types \cup Unions |->
                IF s[1] = "default" THEN MCDefaultSchema
                ELSE SchemaOf(IF s[1] = "type" THEN Pool[s[2]] ELSE union(<<Pool[s[2]], Pool[s[3]]>>))]
Doc(ps) == Map(<<<<"m:c", Map(ps)>>>>)
Documents ==
  {Request(t, "yang", <<Doc(<<<<"x", v>>>>)>>, c) : t \in Types, v \in Values_, c \in BOOLEAN}
  \cup {Request(t, "put", <<Doc(<<<<"x", v>>>>)>>, FALSE) : t \in Unions, v \in Values_}
  \cup {Request(t, "get", <<Doc(<<<<"y", Arr(<<v, w>>)>>>>)>>, FALSE) :
          t \in {<<"type", i>> : i \in {1, 4, 6}}, v \in Values_, w \in {Int_(1), Str("a"), Str("1.5")}}
  \cup {Request(<<"type", 1>>, "yang", <<Doc(<<<<n, Int_(2)>>, <<"x", Int_(3)>>>>)>>, c) :
          n \in {"none", "nosuch", "y"}, c \in BOOLEAN}
  \cup {Request(<<"default">>, f, <<Doc(<<<<"l", v>>>>)>>, FALSE) :
          f \in {"yang", "put"}, v \in LValues \cup {Arr(<<l>>) : l \in LValues} \cup {Arr(<<l, l>>) : l \in LValues}}
MCRequests == Requests_ \cup Documents
=============================================================================
