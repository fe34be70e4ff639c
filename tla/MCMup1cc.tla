----------------------------- MODULE MCMup1cc -----------------------------
(* Two shells with two devices: runs of both that share the cache, a log   *)
(* that one shell writes and then replays, a log that both write.  Beside  *)
(* them requests of any other script, with texts at the lengths where the  *)
(* encoding changes, and messages of devices.                              *)
EXTENDS Mup1cc

MCShell == {"s1", "s2"}
MCDut == {"d1", "d2"}
MCChecksum == {1, 2}

O == [mode |-> "call", dut |-> "d1", method |-> "get", query |-> <<>>, doc |-> 1,
      format |-> "", ends |-> "", written |-> "yaml", steps |-> <<>>]

CN == <<99, 61, 110>>   \* c=n
CC == <<99, 61, 99>>    \* c=c
DA == <<100, 61, 97>>   \* d=a

Get == [O EXCEPT !.query = <<CN, DA>>]
Fetch == [O EXCEPT !.method = "fetch", !.query = <<DA>>, !.format = "json"]
FetchJson == [Fetch EXCEPT !.written = "json"]
Ipatch == [O EXCEPT !.method = "ipatch", !.doc = 2, !.ends = "yaml"]
Put == [O EXCEPT !.method = "put"]
Post == [O EXCEPT !.method = "post", !.query = <<CC>>]
Delete == [O EXCEPT !.method = "delete"]
Twice == [O EXCEPT !.query = <<CN, CC>>]
At(d, o) == [o EXCEPT !.dut = d]
Append_(o) == [o EXCEPT !.mode = "append"]
Run(ranges) == [O EXCEPT !.mode = "run", !.steps = ranges]

Ranges == {<<>>, <<<<2, 1>>>>, <<<<2, 2>>, <<1, 3>>>>, <<<<3, 1>>>>}

MCPlans ==
  \* only other scripts
  {("s1" :> <<>> @@ "s2" :> <<>>)}
  \* runs of two devices, of every method
  \cup {("s1" :> <<Put, o>> @@ "s2" :> <<At("d2", Ipatch)>>) : o \in {Delete, Twice, Post}}
  \* a log of three steps, replayed
  \cup {("s1" :> <<Append_(o), Append_(Ipatch), Append_(Delete), Run(r)>> @@ "s2" :> <<>>) :
          o \in {Get, FetchJson}, r \in Ranges}
  \* a log written by two, and replayed while it is written
  \cup {("s1" :> <<Append_(Get), Run(<<>>)>> @@ "s2" :> <<At("d2", Append_(o))>>) :
          o \in {Put, Fetch}}

Text(n) == [i \in 1 .. n |-> 97 + (i % 3)]
Uri(path, query) == path \o (IF query = <<>> THEN <<>> ELSE <<63>> \o query)
Path(n) == <<47>> \o Text(n)

Ask == [code |-> CODE_GET, uri |-> C, accept |-> <<>>, size |-> 256, b2 |-> 0, b1 |-> <<>>,
        ct |-> <<>>, payload |-> <<>>]

\* Escaped bytes, as they are written.
Esc(bytes) == FlattenSeq([i \in DOMAIN bytes |->
                <<37, HexDigit(bytes[i] \div 16), HexDigit(bytes[i] % 16)>>])

\* UTF-8 at the ends of its ranges, and what is none: bytes that begin no character,
\* characters cut short, too long, surrogates and beyond the last.
MCBytes ==
  {<<194, 128>>, <<195, 169, 65>>, <<224, 160, 128>>, <<226, 130, 172>>, <<237, 159, 191>>,
   <<239, 191, 189>>, <<240, 144, 128, 128>>, <<244, 143, 191, 191>>, <<0, 127>>,
   <<195>>, <<128, 65>>, <<193, 191>>, <<195, 65>>, <<226, 130>>, <<226, 130, 65>>,
   <<224, 159, 128>>, <<237, 160, 128>>, <<240, 159, 152, 65>>, <<240, 143, 191, 191>>,
   <<244, 144, 128, 128>>, <<245, 128>>, <<255, 195, 169, 239, 191, 189>>, <<240, 144, 195, 169>>}

\* Queries whose parts are cut, named and escaped in every way.
MCQueries ==
  {Esc(<<99>>) \o <<61>> \o Esc(b) : b \in MCBytes}
  \cup {<<99, 61, 37, 99, 51>>, <<61>>, <<61, 118>>, <<97, 61, 98, 61, 99>>, <<99, 61>>, <<38>>,
        <<97, 38>>, <<38, 97>>, <<97, 38, 38, 98>>, <<99, 61, 47, 120, 58, 63>>, <<97, 126>>,
        <<99, 61, 43>> \o Esc(<<43, 32, 38, 61, 37>>) \o <<43>>, Esc(<<61>>) \o <<61, 38>> \o CN}

MCPaths ==
  {<<47, 97>> \o Esc(<<47, 98>>), <<99>> \o Esc(<<195, 169>>) \o <<47>>, <<97, 47, 43, 58, 47, 47, 98>>}

MCAsks ==
  {[Ask EXCEPT !.uri = Uri(p, q)] : p \in {C} \cup MCPaths, q \in MCQueries}
  \cup {[Ask EXCEPT !.uri = u] : u \in
     MCPaths \cup {<<>>, <<47>>, Path(12), Path(13), Path(14), Path(268), Path(269), Path(600),
      Path(3) \o <<47, 47>> \o Path(2), Uri(Path(1), CN \o <<38>> \o DA),
      Uri(Path(0), CN), Uri(Path(1), <<99, 61>>), Uri(Path(1), <<99, 61, 43, 37, 50, 70>>),
      Uri(Path(20), <<100, 38, 99, 61, 37, 99, 51>>)}}
  \cup {[Ask EXCEPT !.b2 = n, !.size = 2 ^ z, !.code = CODE_FETCH, !.ct = c, !.payload = p,
                    !.accept = a] :
          n \in {0, 1, 15, 16, 4095, 4096}, z \in {4, 7, 8, 10}, c \in {<<>>, <<0>>, <<141>>, <<300>>},
          p \in {<<>>, <<<<>>>>, <<<<255, 1>>>>}, a \in {<<>>, <<60>>}}
  \cup {[Ask EXCEPT !.code = CODE_PUT, !.payload = <<Text(256)>>, !.ct = <<140>>, !.size = 256,
                    !.b1 = <<[num |-> n, more |-> more, size |-> 256]>>, !.uri = u] :
          n \in {0, 15, 16, 5000}, more \in {0, 1}, u \in {C, <<47>>}}

Message == [type |-> 2, class |-> 2, detail |-> 5, msgid |-> 513, token |-> <<>>, opts |-> <<>>,
            payload |-> <<7, 255>>]

MCMessages ==
  {[Message EXCEPT !.class = c, !.token = t, !.payload = p,
      !.opts = <<Opt(4, e)>> \o f
         \o <<Opt(OPT_BLOCK2, BlockValue([num |-> n, more |-> more, size |-> z]))>> \o x] :
     c \in {2, 4}, t \in {<<>>, <<255, 0>>}, p \in {<<>>, <<255>>}, e \in {<<>>, Text(8)},
     f \in {<<>>, <<Opt(OPT_CONTENT_FORMAT, UInt[0])>>, <<Opt(OPT_CONTENT_FORMAT, UInt[300])>>},
     n \in {0, 15, 16, 4096}, more \in {0, 1}, z \in {16, 256},
     x \in {<<>>, <<Opt(60, UInt[70000])>>, <<Opt(300, <<>>)>>, <<Opt(258, Text(20))>>}}
  \cup {[Message EXCEPT !.class = 0, !.type = t, !.opts =
           <<Opt(OPT_URI_PATH, Text(n)), Opt(OPT_URI_PATH, <<>>), Opt(OPT_URI_QUERY, Text(k))>>] :
          t \in 0 .. 3, n \in {0, 12, 13, 268, 269}, k \in {0, 12, 13}}
=============================================================================
