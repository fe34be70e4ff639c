----------------------------- MODULE CoapFrame -----------------------------
(***************************************************************************)
(* The CoAP frames of support/libeasy/frame/coap.rb, byte by byte, and the *)
(* request frame that ReqBlockWise#next_step of handler/coap.rb makes of a *)
(* URI and its options.  Beside them, RefBytes is what RFC 7252 says a     *)
(* message looks like, and PathIs and QueryIs what it is to say of a URI:  *)
(* what the client sends must be that, and of that it must read what the   *)
(* device said.                                                            *)
(*                                                                         *)
(* A byte is a number, a string or a payload a sequence of bytes; nil is   *)
(* the empty sequence where the code has an optional value: <<>> or <<v>>. *)
(***************************************************************************)
EXTENDS Integers, Sequences, SequencesExt, FiniteSets

OPT_URI_PATH == 11
OPT_CONTENT_FORMAT == 12
OPT_URI_QUERY == 15
OPT_ACCEPT == 17
OPT_BLOCK2 == 23
OPT_BLOCK1 == 27

CODE_GET == 1
CODE_POST == 2
CODE_PUT == 3
CODE_DEL == 4
CODE_FETCH == 5
CODE_IPATCH == 7

Big16(v) == <<v \div 256, v % 256>>

\* A frame object with nothing set but what a frame always has; error is
\* @parse_error, raised an exception that leaves initialize.
EmptyFrame ==
  [type |-> 0, class |-> 0, detail |-> 0, msgid |-> 0, token |-> <<>>, paths |-> <<>>,
   keys |-> <<>>, ct |-> <<>>, accept |-> <<>>, b1 |-> <<>>, b2 |-> <<>>,
   payload |-> <<>>, error |-> FALSE, raised |-> FALSE]

----------------------------------------------------------------------------
(* Encoding                                                                *)

\* Mutant: the first length that needs a byte of its own is 14.
opt_val_enc_Late(v) ==
  IF v < 14 THEN <<v, <<>>>>
  ELSE IF v <= 268 THEN <<13, <<v - 13>>>> ELSE <<14, Big16(v - 269)>>

\* The nibble that stands for a delta or a length, and the bytes behind it.
opt_val_enc(v) ==
  IF v < 13 THEN <<v, <<>>>>
  ELSE IF v <= 268 THEN <<13, <<v - 13>>>> ELSE <<14, Big16(v - 269)>>

opt_enc(delta, value) ==
  LET d == opt_val_enc(delta)
      l == opt_val_enc(Len(value))
  IN  <<d[1] * 16 + l[1]>> \o d[2] \o l[2] \o value

opt_uint_enc(v) ==
  IF v = 0 THEN <<>>
  ELSE IF v < 256 THEN <<v>>
  ELSE IF v < 65536 THEN Big16(v)
  ELSE IF v < 16777216 THEN <<v \div 65536>> \o Big16(v % 65536)
  ELSE Big16(v \div 65536) \o Big16(v % 65536)

szx(size) == CHOOSE k \in 0 .. 6 : 2 ^ (k + 4) = size

\* A block option is [num, more, size].
opt_block_enc(b) == opt_uint_enc(szx(b.size) + (IF b.more # 0 THEN 8 ELSE 0) + b.num * 16)

\* Options are put behind one another: last is the number of the one before.
PutOption(w, number, value) ==
  [last |-> number, bytes |-> w.bytes \o opt_enc(number - w.last, value)]

PutTexts(w, number, texts) ==
  FoldLeft(LAMBDA v, t : IF t = <<>> THEN v ELSE PutOption(v, number, t), w, texts)

PutValue(w, number, opt, value(_)) ==
  IF opt = <<>> THEN w ELSE PutOption(w, number, value(opt[1]))

Header(f) ==
  <<64 + f.type * 16 + Len(f.token), f.class * 32 + f.detail>> \o Big16(f.msgid)

\* The token is counted in the header and not written: no caller sets one.
enc(f) ==
  LET start == [last |-> 0, bytes |-> Header(f)]
      path == PutTexts(start, OPT_URI_PATH, f.paths)
      format == PutValue(path, OPT_CONTENT_FORMAT, f.ct, opt_uint_enc)
      query == PutTexts(format, OPT_URI_QUERY, f.keys)
      accept == PutValue(query, OPT_ACCEPT, f.accept, opt_uint_enc)
      block2 == PutValue(accept, OPT_BLOCK2, f.b2, opt_block_enc)
      block1 == PutValue(block2, OPT_BLOCK1, f.b1, opt_block_enc)
  IN  block1.bytes \o (IF f.payload = <<>> THEN <<>> ELSE <<255>> \o f.payload)

----------------------------------------------------------------------------
(* Decoding                                                                *)

From(data, i) == SubSeq(data, i, Len(data))

opt_uint_dec(v) == FoldLeft(LAMBDA n, b : n * 256 + b, 0, v)

opt_block_dec(v) ==
  LET val == opt_uint_dec(v)
  IN  [num |-> val \div 16, more |-> (val \div 8) % 2, size |-> 2 ^ ((val % 8) + 4)]

\* A delta or a length with the bytes that extend it, from position i on.  Two
\* bytes are unpacked into an array, and adding a number to that raises.
opt_val_dec(data, nibble, i) ==
  LET failed == [v |-> 0, next |-> i, error |-> TRUE, raised |-> FALSE]
      read == [failed EXCEPT !.error = FALSE]
  IN  CASE nibble = 13 /\ Len(data) >= i -> [read EXCEPT !.v = data[i] + 13, !.next = i + 1]
        [] nibble = 14 /\ Len(data) >= i + 1 -> [read EXCEPT !.raised = TRUE]
        [] nibble < 13 -> [read EXCEPT !.v = nibble]
        [] OTHER -> failed

\* An option that has more than four bytes of number raises.
TooLong(number, value) ==
  number \in {OPT_CONTENT_FORMAT, OPT_ACCEPT, OPT_BLOCK1, OPT_BLOCK2} /\ Len(value) > 4

TakeOption(f, number, value) ==
  IF TooLong(number, value) THEN [f EXCEPT !.raised = TRUE]
  ELSE CASE number = OPT_URI_PATH -> [f EXCEPT !.paths = Append(@, value)]
         [] number = OPT_CONTENT_FORMAT -> [f EXCEPT !.ct = <<opt_uint_dec(value)>>]
         [] number = OPT_URI_QUERY -> [f EXCEPT !.keys = Append(@, value)]
         [] number = OPT_ACCEPT -> [f EXCEPT !.accept = <<opt_uint_dec(value)>>]
         [] number = OPT_BLOCK1 -> [f EXCEPT !.b1 = <<opt_block_dec(value)>>]
         [] number = OPT_BLOCK2 -> [f EXCEPT !.b2 = <<opt_block_dec(value)>>]
         [] OTHER -> f

\* The options of data from position i on, then the payload.
RECURSIVE Options(_, _, _, _)
Options(data, i, number, f) ==
  IF i > Len(data) THEN f
  ELSE IF data[i] = 255 THEN [f EXCEPT !.payload = From(data, i + 1)]
  ELSE LET delta == opt_val_dec(data, data[i] \div 16, i + 1)
           size == opt_val_dec(data, data[i] % 16, delta.next)
           n == number + delta.v
           end == size.next + size.v - 1
           taken == TakeOption(f, n, SubSeq(data, size.next, end))
       IN  IF delta.raised \/ (size.raised /\ ~delta.error) THEN [f EXCEPT !.raised = TRUE]
           ELSE IF delta.error \/ size.error \/ end > Len(data) THEN [f EXCEPT !.error = TRUE]
           ELSE IF taken.raised THEN taken
           ELSE Options(data, end + 1, n, taken)

\* Coap#initialize with data of at least four bytes.
initialize(data) ==
  LET tkl == data[1] % 16
      f == [EmptyFrame EXCEPT !.type = (data[1] \div 16) % 4, !.class = data[2] \div 32,
              !.detail = data[2] % 32, !.msgid = data[3] * 256 + data[4]]
  IN  IF data[1] \div 64 # 1 THEN [EmptyFrame EXCEPT !.error = TRUE]
      ELSE IF Len(data) < 4 + tkl THEN [f EXCEPT !.error = TRUE]
      ELSE Options(data, 5 + tkl, 0, [f EXCEPT !.token = SubSeq(data, 5, 4 + tkl)])

----------------------------------------------------------------------------
(* The request frame of a URI                                              *)

Slash == 47
Question == 63
Ampersand == 38
Equals == 61
Percent == 37
Plus == 43
Space == 32

\* String#split at one character.
Split(text, at) ==
  LET cuts == <<0>> \o SelectSeq([i \in DOMAIN text |-> i], LAMBDA i : text[i] = at)
                \o <<Len(text) + 1>>
  IN  [k \in 1 .. Len(cuts) - 1 |-> SubSeq(text, cuts[k] + 1, cuts[k + 1] - 1)]

\* The text before the first such character, and the rest.
Partition(text, at) ==
  LET where == {i \in DOMAIN text : text[i] = at}
      first == CHOOSE i \in where : \A k \in where : i <= k
  IN  IF where = {} THEN <<text, <<>>>>
      ELSE <<SubSeq(text, 1, first - 1), From(text, first + 1)>>

Digits == 48 .. 57
HexValue(c) == IF c \in Digits THEN c - 48 ELSE IF c >= 97 THEN c - 87 ELSE c - 55
HexDigit(v) == IF v < 10 THEN v + 48 ELSE v + 55
IsHex(c) == c \in Digits \cup (65 .. 70) \cup (97 .. 102)
Plain == Digits \cup (65 .. 90) \cup (97 .. 122) \cup {42, 45, 46, 95}

\* UTF-8: a character is a first byte and the bytes that may follow it.
Lead == (0 .. 127) \cup (194 .. 244)
Cont == 128 .. 191
Follow(b) ==
  IF b <= 127 THEN <<>> ELSE IF b <= 223 THEN <<Cont>>
  ELSE IF b = 224 THEN <<160 .. 191, Cont>> ELSE IF b = 237 THEN <<128 .. 159, Cont>>
  ELSE IF b <= 239 THEN <<Cont, Cont>>
  ELSE <<IF b = 240 THEN 144 .. 191 ELSE IF b = 244 THEN 128 .. 143 ELSE Cont, Cont, Cont>>

\* The length of the longest beginning of text that begins a character.
Agreeing(text) ==
  IF text[1] \notin Lead THEN 0
  ELSE Max({n \in 1 .. Min({Len(text), 1 + Len(Follow(text[1]))}) :
              \A i \in 2 .. n : text[i] \in Follow(text[1])[i - 1]})

\* U+FFFD
Replacement == <<239, 191, 189>>

\* String#scrub!: what begins a character and does not end it is replaced, as far as
\* it goes, and so is each other byte that begins none.
RECURSIVE scrub(_)
scrub(text) ==
  IF text = <<>> THEN <<>>
  ELSE LET n == Agreeing(text)
       IN  IF n > 0 /\ n = 1 + Len(Follow(text[1]))
           THEN SubSeq(text, 1, n) \o scrub(From(text, n + 1))
           ELSE Replacement \o scrub(From(text, Max({n, 1}) + 1))

\* What URI.decode_www_form makes of a name or a value: "+" and percent-encodings are
\* taken for what they stand for, and what is then no UTF-8 is replaced.
RECURSIVE Unescaped(_)
Unescaped(text) ==
  IF text = <<>> THEN <<>>
  ELSE IF text[1] = Plus THEN <<Space>> \o Unescaped(Tail(text))
  ELSE IF text[1] = Percent /\ Len(text) >= 3 /\ IsHex(text[2]) /\ IsHex(text[3])
       THEN <<HexValue(text[2]) * 16 + HexValue(text[3])>> \o Unescaped(From(text, 4))
  ELSE <<text[1]>> \o Unescaped(Tail(text))

FormDecode(text) == scrub(Unescaped(text))

\* URI.encode_www_form_component
FormEncode(text) ==
  FlattenSeq([i \in DOMAIN text |->
    IF text[i] \in Plain THEN <<text[i]>>
    ELSE IF text[i] = Space THEN <<Plus>>
    ELSE <<Percent, HexDigit(text[i] \div 16), HexDigit(text[i] % 16)>>])

NonEmpty(text) == text # <<>>

\* The pair a part of a query stands for: what is behind the first "=" is "" when
\* there is none.
Pair(part) == LET p == Partition(part, Equals) IN <<FormDecode(p[1]), FormDecode(p[2])>>

QueryItem(part) ==
  LET p == Pair(part)
  IN  FormEncode(p[1]) \o (IF p[2] = <<>> THEN <<>> ELSE <<Equals>> \o FormEncode(p[2]))

PathOf(uri) == SelectSeq(Split(Partition(uri, Question)[1], Slash), NonEmpty)

\* Each part ends at an "&" or at the end of the query; behind the last "&" is none.
PartsOf(uri) ==
  LET parts == Split(Partition(uri, Question)[2], Ampersand)
  IN  IF Last(parts) = <<>> THEN Front(parts) ELSE parts

QueryOf(uri) == [i \in DOMAIN PartsOf(uri) |-> QueryItem(PartsOf(uri)[i])]

\* What a caller asks for: the code, the URI, options, the payload if there is one,
\* and the blocks: b2 the number of the block to read, b1 that of the one that is
\* sent.  next_step makes a frame of it.
next_step(ask, mid) ==
  [EmptyFrame EXCEPT
     !.detail = ask.code, !.msgid = mid, !.accept = ask.accept,
     !.paths = PathOf(ask.uri), !.keys = QueryOf(ask.uri),
     !.b2 = <<[num |-> ask.b2, more |-> 0, size |-> ask.size]>>,
     !.b1 = ask.b1,
     !.ct = IF ask.payload = <<>> THEN <<>> ELSE ask.ct,
     !.payload = IF ask.payload = <<>> THEN <<>> ELSE ask.payload[1]]

----------------------------------------------------------------------------
(* RFC 7252                                                                *)

Nibble(v) == IF v < 13 THEN v ELSE IF v < 269 THEN 13 ELSE 14
Extended(v) ==
  IF v < 13 THEN <<>> ELSE IF v < 269 THEN <<v - 13>>
  ELSE <<(v - 269) \div 256, (v - 269) % 256>>

\* The bytes of a number, without leading zeros.
UInt[v \in Nat] == IF v = 0 THEN <<>> ELSE Append(UInt[v \div 256], v % 256)

\* Block options (RFC 7959): four bits and more of number, one of more, three of size.
BlockValue(b) == UInt[b.num * 16 + b.more * 8 + (CHOOSE k \in 0 .. 6 : 2 ^ (k + 4) = b.size)]

\* An option is [num, value].
OptionAt(opts, i) ==
  LET delta == opts[i].num - (IF i = 1 THEN 0 ELSE opts[i - 1].num)
      size == Len(opts[i].value)
  IN  <<Nibble(delta) * 16 + Nibble(size)>> \o Extended(delta) \o Extended(size)
        \o opts[i].value

\* A message is [type, class, detail, msgid, token, opts, payload].
RefBytes(m) ==
  <<64 + m.type * 16 + Len(m.token), m.class * 32 + m.detail>> \o Big16(m.msgid)
    \o m.token
    \o FlattenSeq([i \in DOMAIN m.opts |-> OptionAt(m.opts, i)])
    \o (IF m.payload = <<>> THEN <<>> ELSE <<255>> \o m.payload)

Opt(number, value) == [num |-> number, value |-> value]
Texts(number, texts) == [i \in DOMAIN texts |-> Opt(number, texts[i])]
Maybe(number, opt, value(_)) == IF opt = <<>> THEN <<>> ELSE <<Opt(number, value(opt[1]))>>
UIntOf(v) == UInt[v]

\* The message a caller means, of a URI with these path segments and query arguments.
Asked(ask, mid, paths, keys) ==
  [type |-> 0, class |-> 0, detail |-> ask.code, msgid |-> mid, token |-> <<>>,
   opts |-> Texts(OPT_URI_PATH, paths)
              \o (IF ask.payload = <<>> THEN <<>> ELSE Maybe(OPT_CONTENT_FORMAT, ask.ct, UIntOf))
              \o Texts(OPT_URI_QUERY, keys)
              \o Maybe(OPT_ACCEPT, ask.accept, UIntOf)
              \o <<Opt(OPT_BLOCK2, BlockValue([num |-> ask.b2, more |-> 0, size |-> ask.size]))>>
              \o Maybe(OPT_BLOCK1, ask.b1, BlockValue),
   payload |-> IF ask.payload = <<>> THEN <<>> ELSE ask.payload[1]]

\* The value of the one option of a message that has a number.
ValuesOf(m, number) ==
  LET chosen == SelectSeq(m.opts, LAMBDA o : o.num = number)
  IN  [i \in DOMAIN chosen |-> chosen[i].value]

----------------------------------------------------------------------------
(* What a URI says: RFC 7252, 6.4, and RFC 3986                            *)

\* The texts between the characters at which a text is cut.
Cut(text, at) ==
  FoldLeft(LAMBDA texts, b : IF b = at THEN Append(texts, <<>>)
                             ELSE [texts EXCEPT ![Len(texts)] = Append(@, b)], <<<<>>>>, text)

\* The text behind the first part of a cut.
Behind(text, at) == From(text, Len(Cut(text, at)[1]) + 2)

Segments(uri) ==
  LET path == Cut(uri, Question)[1]
      segments == Cut(path, Slash)
  IN  IF path \in {<<>>, <<Slash>>} THEN <<>>
      ELSE IF Head(segments) = <<>> THEN Tail(segments) ELSE segments

Arguments(uri) ==
  IF Behind(uri, Question) = <<>> THEN <<>> ELSE Cut(Behind(uri, Question), Ampersand)

\* Every "%" of a URI has its two digits.
PercentDecoded(text) ==
  LET Of(k) == k >= 1 /\ text[k] = Percent
      Byte(i) == HexValue(text[i + 1]) * 16 + HexValue(text[i + 2])
  IN  FlattenSeq([i \in DOMAIN text |->
        IF Of(i) THEN <<Byte(i)>> ELSE IF Of(i - 1) \/ Of(i - 2) THEN <<>> ELSE <<text[i]>>])

\* The name and the value that one who takes an argument for a part of a form reads.
FormText(text) == PercentDecoded([i \in DOMAIN text |-> IF text[i] = Plus THEN Space ELSE text[i]])
ReadForm(argument) ==
  <<FormText(Cut(argument, Equals)[1]), FormText(Behind(argument, Equals))>>

\* The bytes of a code point, and the characters of a text: bytes of none are left out.
Utf8(c) ==
  LET Low(k) == 128 + ((c \div 64 ^ k) % 64)
  IN  IF c < 128 THEN <<c>> ELSE IF c < 2048 THEN <<192 + c \div 64, Low(0)>>
      ELSE IF c < 65536 THEN <<224 + c \div 4096, Low(1), Low(0)>>
      ELSE <<240 + c \div 262144, Low(2), Low(1), Low(0)>>
IsCharacter(bytes) ==
  LET n == Len(bytes)
      first == IF n = 1 THEN bytes[1] ELSE bytes[1] % 2 ^ (7 - n)
      c == FoldLeft(LAMBDA v, b : v * 64 + (b % 64), first, Tail(bytes))
  IN  Utf8(c) = bytes /\ c \notin 55296 .. 57343 /\ c <= 1114111

RECURSIVE Characters(_)
Characters(text) ==
  LET lengths == {n \in 1 .. Min({4, Len(text)}) : IsCharacter(SubSeq(text, 1, n))}
  IN  IF text = <<>> THEN <<>>
      ELSE IF lengths = {} THEN Characters(Tail(text))
      ELSE <<SubSeq(text, 1, Max(lengths))>> \o Characters(From(text, Max(lengths) + 1))

IsUtf8(text) == FlattenSeq(Characters(text)) = text

\* Exception: what is no UTF-8 is lost, but no more than that.
SameText(read, meant) ==
  LET Known(text) == SelectSeq(Characters(text), LAMBDA c : c # Replacement)
  IN  IsUtf8(read) /\ IF IsUtf8(meant) THEN read = meant ELSE Known(read) = Known(meant)

\* An option for each segment.  Exceptions: none for one that is empty, and one with
\* percent-encodings is sent as it is written.
PathIs(uri, paths) ==
  LET segments == SelectSeq(Segments(uri), NonEmpty)
  IN  /\ Len(paths) = Len(segments)
      /\ \A i \in DOMAIN paths :
           paths[i] = IF Percent \in ToSet(segments[i]) THEN segments[i]
                      ELSE PercentDecoded(segments[i])

\* An argument that is sent as RFC 7252 says: of letters, digits and "*-._", with one
\* "=" at most and something behind it.
Literal(argument) ==
  LET parts == Cut(argument, Equals)
  IN  /\ ToSet(argument) \subseteq Plain \cup {Equals}
      /\ Len(parts) = 1 \/ (Len(parts) = 2 /\ NonEmpty(parts[2]))

\* An option for each argument.  Exceptions: none for one that names and says nothing,
\* and one that is not literal is sent as a part of a form, in which one who takes both
\* for that reads the same name and value.
QueryIs(uri, keys) ==
  LET arguments == SelectSeq(Arguments(uri), LAMBDA a : ReadForm(a) # <<<<>>, <<>>>>)
  IN  /\ Len(keys) = Len(arguments)
      /\ \A i \in DOMAIN keys :
           IF Literal(arguments[i]) THEN keys[i] = PercentDecoded(arguments[i])
           ELSE \A k \in 1 .. 2 : SameText(ReadForm(keys[i])[k], ReadForm(arguments[i])[k])

\* What the client sends for a URI is a message of RFC 7252 with its options, and with
\* the path and the query that the URI says.
Understood(ask, mid, frame, bytes) ==
  LET keys == SelectSeq(frame.keys, NonEmpty)
  IN  /\ bytes = RefBytes(Asked(ask, mid, frame.paths, keys))
      /\ PathIs(ask.uri, frame.paths)
      /\ QueryIs(ask.uri, keys)

\* An option of 269 bytes or more, or that far from the one before, is one that
\* initialize raises on.
Raises(m) == \E i \in DOMAIN m.opts : OptionAt(m.opts, i)[1] % 16 = 14
                                        \/ OptionAt(m.opts, i)[1] \div 16 = 14

\* What the client reads of a message of RFC 7252 is what it says.
ReadAs(m, f) ==
  IF Raises(m) THEN f.raised
  ELSE /\ ~f.error /\ ~f.raised
       /\ <<f.type, f.class, f.detail, f.msgid, f.token, f.payload>>
            = <<m.type, m.class, m.detail, m.msgid, m.token, m.payload>>
       /\ f.paths = ValuesOf(m, OPT_URI_PATH)
       /\ f.keys = ValuesOf(m, OPT_URI_QUERY)
       /\ [i \in DOMAIN f.ct |-> UInt[f.ct[i]]] = ValuesOf(m, OPT_CONTENT_FORMAT)
       /\ [i \in DOMAIN f.b1 |-> BlockValue(f.b1[i])] = ValuesOf(m, OPT_BLOCK1)
       /\ [i \in DOMAIN f.b2 |-> BlockValue(f.b2[i])] = ValuesOf(m, OPT_BLOCK2)
=============================================================================
