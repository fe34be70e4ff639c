------------------------------ MODULE YangEnc ------------------------------
(* yang-enc: a document in JSON is validated against the schema, encoded    *)
(* in CBOR with the SIDs of its nodes, and decoded again where it arrives.  *)
(*                                                                          *)
(* A value is a tuple with its kind in front.  JSON has Int, Str, Bool,     *)
(* Null, Arr, Map and Path (a text that is an instance-identifier), CBOR    *)
(* has Bytes and Tag as well; a Map is a sequence of pairs.  A text is a    *)
(* TLA+ string, and what can be read from it is in Texts.                   *)
EXTENDS Integers, Sequences, FiniteSets, SequencesExt

CONSTANTS
  Schemas,       \* the data trees that the tool may be given
  Requests,      \* [schema, format, entries, continue]
  Texts,         \* text -> [int, num, words, len, b64, bytes]
  DefaultSchema  \* yang_schema_get: the schema of the repository's own modules

ASSUME RequestsAssumption == \A r \in Requests : r.schema \in DOMAIN Schemas
ASSUME TextsAssumption == \A t \in DOMAIN Texts : Texts[t].b64 \in DOMAIN Texts

VARIABLES
  request,   \* what the tool is called with
  at,        \* the phase, and the entry it has come to
  cbor,      \* the entries that are encoded
  json,      \* the entries that are decoded again
  errors,    \* what was printed, by phase
  raised     \* an exception has ended the program

vars == <<request, at, cbor, json, errors, raised>>

Int_(n) == <<"int", n>>
Str(t) == <<"str", t>>
Bool(b) == <<"bool", b>>
Null == <<"null">>
Arr(s) == <<"arr", s>>
Map(ps) == <<"map", ps>>
Path(p) == <<"path", p>>     \* elements [name, keys], keys are <<name, text>>
Bytes(b) == <<"bytes", b>>   \* by their base64 text, or sets of bits
Tag(n, v) == <<"tag", n, v>>
Kind(v) == v[1]

NoText == [int |-> <<>>, num |-> <<>>, words |-> <<"/">>, len |-> 9, b64 |-> "", bytes |-> 0]
TextOf(v) == IF Kind(v) = "path" THEN NoText ELSE Texts[v[2]]
Word(v) == IF Kind(v) = "path" THEN "/" ELSE v[2]
IsText(v) == Kind(v) \in {"str", "path"}

(* A result and the errors on the way to it: print_error raises or goes on. *)
(* "fatal" is an exception that nothing rescues.                            *)
Ok(v) == [v |-> v, errs |-> {}]
Fail(v, code) == [v |-> v, errs |-> {code}]
Errs(rs) == UNION {rs[i].errs : i \in DOMAIN rs}
Each(Op(_), s) == [i \in DOMAIN s |-> Op(s[i])]
Values(rs) == [i \in DOMAIN rs |-> rs[i].v]
ArrOf(rs) == [v |-> Arr(Values(rs)), errs |-> Errs(rs)]
MapOf(keys, rs, codes) ==
  [v |-> Map([i \in DOMAIN rs |-> <<keys[i], rs[i].v>>]), errs |-> Errs(rs) \cup codes]
Instance(k, r) == IF k.errs # {} THEN k ELSE MapOf(<<k.v>>, <<r>>, {})

Find(s, Test(_)) ==
  LET found == {i \in DOMAIN s : Test(s[i])}
  IN IF found = {} THEN <<>> ELSE <<s[CHOOSE i \in found : \A j \in found : i <= j]>>

Small == {"int8", "int16", "int32", "uint8", "uint16", "uint32"}
Long == {"int64", "uint64"}
InRanges(type, x) == \E i \in DOMAIN type.ranges : type.ranges[i][1] <= x /\ x <= type.ranges[i][2]
Named(pairs, name) == Find(pairs, LAMBDA p : p[1] = name)

-----------------------------------------------------------------------------
(* Instance-identifiers *)
Child(node, name) == Find(node.sub, LAMBDA s : s.arg = name)

Key(names, path) == Find(path, LAMBDA k : k[1] = names)

(* Mutant: keys in the order of the path.                                   *)
IidStep_AsWritten(st, e) ==
  LET c == Child(st.node[1], e.name)
  IN IF st.node = <<>> THEN st
     ELSE IF c = <<>> \/ \E i \in DOMAIN e.keys : e.keys[i][1] \notin ToSet(c[1].keys)
       THEN [node |-> <<>>, keys |-> <<>>]
     ELSE [node |-> c,
           keys |-> st.keys \o [i \in DOMAIN e.keys |->
                      [text |-> e.keys[i][2], type |-> Child(c[1], e.keys[i][1])[1].type]]]

(* One element of the path; the keys come out in the order of the list.     *)
IidStep(st, e) ==
  LET c == Child(st.node[1], e.name)
      twice == \E i, j \in DOMAIN e.keys : i # j /\ e.keys[i][1] = e.keys[j][1]
      given == SelectSeq(c[1].keys, LAMBDA k : Key(k, e.keys) # <<>>)
  IN IF st.node = <<>> THEN st
     ELSE IF c = <<>> \/ twice \/ \E i \in DOMAIN e.keys : e.keys[i][1] \notin ToSet(c[1].keys)
       THEN [node |-> <<>>, keys |-> <<>>]
     ELSE [node |-> c,
           keys |-> st.keys \o [i \in DOMAIN given |->
                      [text |-> Key(given[i], e.keys)[1][2], type |-> Child(c[1], given[i])[1].type]]]

json_validate_iid(schema, path) ==
  FoldLeft(IidStep, [node |-> <<schema>>, keys |-> <<>>], path)

convert_iid_key_value(type, text) ==
  CASE type.builtin \in Small ->
         IF Texts[text].int = <<>> THEN Fail(Null, "fatal") ELSE Ok(Int_(Texts[text].int[1]))
    [] type.builtin = "boolean" ->
         IF text \in {"true", "false"} THEN Ok(Bool(text = "true")) ELSE Fail(Null, "fatal")
    [] type.builtin = "empty" ->
         IF text = "[null]" THEN Ok(Null) ELSE Fail(Null, "fatal")
    [] OTHER -> Ok(Str(text))

-----------------------------------------------------------------------------
(* Could a value be of a type? *)
\* The pattern of decimal64 lets a sign and a point stand alone, or nothing at all.
HasDigits(num) == num.digits \o num.frac # <<>>
DecimalIn(type, num) ==
  LET e == Len(num.frac)
      digits == FoldLeft(LAMBDA v, d : 10 * v + d, 0, num.digits \o num.frac)
      n == IF num.neg THEN -digits ELSE digits
  IN \E i \in DOMAIN type.ranges :
       /\ type.ranges[i][1] * 10 ^ e <= n * 10 ^ type.fd
       /\ n * 10 ^ type.fd <= type.ranges[i][2] * 10 ^ e

StringIn(type, text, len) == InRanges(type, len) /\ \A i \in DOMAIN type.patterns : text \in type.patterns[i]

IdentityText(id) == id.mod \o ":" \o id.name

(* type.deref: the type of the leaf that a leafref leads to.                *)
RECURSIVE Deref(_)
Deref(type) == IF type.builtin = "leafref" THEN Deref(type.to[1]) ELSE type

MatchesText(type, v, t) ==
  CASE Kind(v) = "int" -> type.builtin \in Small /\ InRanges(type, v[2])
    [] Kind(v) = "arr" -> v = Arr(<<Null>>) /\ type.builtin = "empty"
    [] Kind(v) = "bool" -> type.builtin = "boolean"
    [] IsText(v) /\ type.builtin \in Long /\ t.int # <<>> -> InRanges(type, t.int[1])
    [] IsText(v) /\ type.builtin = "decimal64" ->
         t.num # <<>> /\ HasDigits(t.num[1]) /\ DecimalIn(type, t.num[1])
    [] IsText(v) /\ type.builtin = "string" -> StringIn(type, Word(v), t.len)
    [] IsText(v) /\ type.builtin = "binary" -> InRanges(type, t.len)
    [] IsText(v) /\ type.builtin = "bits" ->
         \A i \in DOMAIN t.words : Named(type.bits, t.words[i]) # <<>>
    [] IsText(v) /\ type.builtin = "enumeration" -> Named(type.enums, Word(v)) # <<>>
    [] IsText(v) /\ type.builtin = "identityref" ->
         \E i \in DOMAIN type.ids : Word(v) \in {type.ids[i].name, IdentityText(type.ids[i])}
    [] OTHER -> IsText(v) /\ type.builtin = "instance-identifier"
match_type_json(type, v) == MatchesText(Deref(type), v, TextOf(v))

MatchesItem(type, v) ==
  CASE Kind(v) = "tag" ->
         CASE v[2] = 4 /\ type.builtin = "decimal64" ->
                \E i \in DOMAIN type.ranges :
                  /\ type.ranges[i][1] * 10 ^ v[3][1] <= v[3][2] * 10 ^ type.fd
                  /\ v[3][2] * 10 ^ type.fd <= type.ranges[i][2] * 10 ^ v[3][1]
           [] v[2] = 44 /\ type.builtin = "enumeration" -> Named(type.enums, v[3][2]) # <<>>
           [] v[2] = 43 /\ type.builtin = "bits" ->
                \A i \in DOMAIN Texts[v[3][2]].words : Named(type.bits, Texts[v[3][2]].words[i]) # <<>>
           [] v[2] = 45 /\ type.builtin = "identityref" ->
                \E i \in DOMAIN type.ids : Int_(type.ids[i].sid) = v[3]
           [] OTHER -> FALSE
    [] Kind(v) = "null" -> type.builtin = "empty"
    [] Kind(v) = "bool" -> type.builtin = "boolean"
    [] Kind(v) = "int" -> type.builtin \in Small \cup Long /\ InRanges(type, v[2])
    [] Kind(v) = "bytes" ->
         type.builtin \in {"binary", "string"} /\ InRanges(type, Texts[v[2]].bytes)
    [] Kind(v) = "str" -> type.builtin = "string" /\ StringIn(type, v[2], Texts[v[2]].len)
    [] OTHER -> FALSE
match_type_cbor(type, v) == MatchesItem(Deref(type), v)

(* The type that a value is encoded or decoded as: the first member of a    *)
(* union that could take it; none if no member does.                        *)
RECURSIVE ToEncode(_, _), ToDecode(_, _), FirstToEncode(_, _), FirstToDecode(_, _)
FirstToEncode(member, v) == IF member = <<>> THEN <<>> ELSE ToEncode(member[1], v)
ToEncode(type, v) ==
  IF Deref(type).builtin # "union" THEN <<Deref(type)>>
  ELSE FirstToEncode(Find(Deref(type).members, LAMBDA m : match_type_json(m, v)), v)
FirstToDecode(member, v) == IF member = <<>> THEN <<>> ELSE ToDecode(member[1], v)
ToDecode(type, v) ==
  IF Deref(type).builtin # "union" THEN <<Deref(type)>>
  ELSE FirstToDecode(Find(Deref(type).members, LAMBDA m : match_type_cbor(m, v)), v)

-----------------------------------------------------------------------------
(* Values in CBOR *)
RECURSIVE Insert(_, _)
Insert(s, x) == IF s = <<>> THEN <<x>> ELSE IF x <= s[1] THEN <<x>> \o s ELSE <<s[1]>> \o Insert(Tail(s), x)

(* The loop over the positions: strings of bytes, and how many bytes are    *)
(* left out between them.  A byte is the set of its bits.                   *)
BitStep(st, pos) ==
  LET delta == (pos - st.stop) \div 8
  IN IF pos < st.stop
     THEN [st EXCEPT !.bytes[Len(st.bytes)] = @ \cup {pos - st.offset}]
     ELSE IF delta = 0
       THEN [st EXCEPT !.bytes = Append(@, {pos - st.stop}), !.offset = st.stop, !.stop = @ + 8]
     ELSE LET offset == st.stop + delta * 8
          IN [enc |-> st.enc \o (IF st.bytes = <<>> THEN <<>> ELSE <<Bytes(st.bytes)>>) \o <<Int_(delta)>>,
              bytes |-> <<{pos - offset}>>, offset |-> offset, stop |-> offset + 8]

EncodeBits(positions) ==
  LET st == FoldLeft(BitStep, [enc |-> <<>>, bytes |-> <<>>, offset |-> 0, stop |-> 0], positions)
      all == st.enc \o (IF st.bytes = <<>> THEN <<>> ELSE <<Bytes(st.bytes)>>)
  IN IF Len(all) = 1 THEN all[1] ELSE Arr(all)

bits2cbor(type, v) ==
  LET found == [i \in DOMAIN TextOf(v).words |-> Named(type.bits, TextOf(v).words[i])]
  IN IF \E i \in DOMAIN found : found[i] = <<>> THEN Fail(v, "encode")
     ELSE Ok(EncodeBits(FoldLeft(LAMBDA s, b : Insert(s, b[1][2]), <<>>, found)))

(* Integer takes a leading zero for octal, and refuses 8 and 9 behind it.   *)
decimal2cbor(type, v) ==
  LET num == TextOf(v).num
      n == num[1]
      short == type.fd - Len(n.frac)
      digits == n.digits \o n.frac \o [i \in 1 .. (IF short > 0 THEN short ELSE 0) |-> 0]
      octal == Len(digits) > 1 /\ digits[1] = 0
      x == FoldLeft(LAMBDA a, d : 10 * a + d, 0, digits)
  IN IF num = <<>> \/ (octal /\ \E i \in DOMAIN digits : digits[i] > 7) THEN Fail(v, "fatal")
     ELSE Ok(Tag(4, <<type.fd, IF n.neg THEN -x ELSE x>>))

identity2cbor(type, text) ==
  LET mine(id) == (id.mod = type.source /\ id.name = text) \/ IdentityText(id) = text
      found == SelectSeq(type.ids, mine)
  IN IF found = <<>> THEN <<>> ELSE <<found[Len(found)].sid>>

Rescued(r, v, code) == IF "fatal" \in r.errs THEN Fail(v, code) ELSE r

(* The texts of a type that has only texts; any other value raises.         *)
Texted == {"bits", "binary", "decimal64", "identityref", "instance-identifier"}

RECURSIVE type2cbor(_, _), Plain2cbor(_, _, _), iid2cbor(_, _)
Text2cbor(type, v, unions) ==
  LET sid == IF v = Null THEN <<>> ELSE identity2cbor(type, Word(v))
      identity == IF sid = <<>> THEN Null ELSE Int_(sid[1])
  IN IF ~IsText(v) /\ ~(type.builtin = "identityref" /\ v = Null) THEN Fail(v, "encode")
     ELSE CASE type.builtin = "bits" -> IF unions THEN Ok(Tag(43, v)) ELSE bits2cbor(type, v)
            [] type.builtin = "binary" -> Ok(Bytes(TextOf(v).b64))
            [] type.builtin = "decimal64" -> decimal2cbor(type, v)
            [] type.builtin = "identityref" -> Ok(IF unions THEN Tag(45, identity) ELSE identity)
            [] type.builtin = "instance-identifier" ->
                 IF Kind(v) = "path" THEN Rescued(iid2cbor(DefaultSchema, v[2]), v, "encode")
                 ELSE Fail(v, "encode")

Plain2cbor(type, v, unions) ==
  CASE type.builtin = "enumeration" ->
         IF unions THEN Ok(Tag(44, v))
         ELSE LET e == IF Kind(v) = "str" THEN Named(type.enums, v[2]) ELSE <<>>
              IN IF e = <<>> THEN Fail(v, "encode") ELSE Ok(Int_(e[1][2]))
    [] type.builtin \in Long ->
         CASE Kind(v) = "int" -> Ok(v)
           [] Kind(v) = "str" /\ Texts[v[2]].int # <<>> -> Ok(Int_(Texts[v[2]].int[1]))
           [] OTHER -> Fail(v, "encode")
    [] type.builtin = "empty" -> Ok(Null)
    [] type.builtin \in Texted -> Text2cbor(type, v, unions)
    [] OTHER -> Ok(v)

Encoded(type, v, unions) == IF type = <<>> THEN Fail(v, "encode") ELSE Plain2cbor(type[1], v, unions)
type2cbor(type, v) == Encoded(ToEncode(type, v), v, Deref(type).builtin = "union")

(* continue_on_error is not handed on: an error in a key is the end.        *)
EncodedKey(type, r) == IF r.errs # {} THEN r ELSE type2cbor(type, r.v)

IidOf(sid, keys) ==
  IF Errs(keys) # {} THEN Fail(Null, "fatal") ELSE Ok(IF keys = <<>> THEN sid ELSE Arr(<<sid>> \o Values(keys)))
FoundIid(found) ==
  IF found.node = <<>> THEN Fail(Null, "fatal")
  ELSE IidOf(IF found.node[1].sid = <<>> THEN Null ELSE Int_(found.node[1].sid[1]),
             Each(LAMBDA k : EncodedKey(k.type, convert_iid_key_value(k.type, k.text)), found.keys))
iid2cbor(schema, path) == FoundIid(json_validate_iid(schema, path))

-----------------------------------------------------------------------------
(* json2cbor *)
Strict == {"module", "container", "input", "output"}
(* Mutant: only of a request that reads.                                    *)
Loose_Fetch(format) == format = "fetch"

(* One entry of a list may come without the list.                           *)
Loose(format) == format \in {"fetch", "ipatch"}
Sid(node) == IF node.kw = "module" THEN <<0>> ELSE node.sid

(* A leaf has one value, a list or a leaf-list one for each entry.          *)
IsMany(node, v) == Kind(v) = "arr" /\ node.kw # "leaf"
Parts(node, v) == IF IsMany(node, v) THEN v[2] ELSE <<v>>
Collected(node, v, rs) == IF IsMany(node, v) THEN ArrOf(rs) ELSE rs[1]

(* json2cbor_array, and what a hash may be given for.                       *)
Shaped(node, v, format) ==
  \/ Kind(v) = "map" /\ (node.kw = "list" => Loose(format))
  \/ Kind(v) = "arr" /\ node.kw = "list" /\ \A i \in DOMAIN v[2] : Kind(v[2][i]) = "map"
Misshaped(node, v) ==
  IF node.kw # "list" THEN Fail(Map(<<>>), "kind")
  ELSE IF Kind(v) = "arr" THEN Fail(Null, "fatal") ELSE Fail(Arr(<<>>), "kind")

RECURSIVE json2cbor(_, _, _, _)

(* base: the SID that those of the children are relative to.                *)
json2cbor_hash(node, base, pairs, format) ==
  LET known == SelectSeq(pairs, LAMBDA p : Child(node, p[1]) # <<>> /\ Child(node, p[1])[1].sid # <<>>)
      to == Each(LAMBDA p : Child(node, p[1])[1], known)
  IN MapOf(Each(LAMBDA c : c.sid[1] - base[1], to),
           [i \in DOMAIN known |-> json2cbor(to[i], Sid(to[i]), known[i][2], format)],
           {e \in {"skipped"} : known # pairs})

(* What is below input and output is relative to the SID of the rpc.        *)
ParameterBase(node, child) == node.sid

json2cbor(node, base, v, format) ==
  CASE node.kw \in Strict \cup {"list"} ->
         IF ~Shaped(node, v, format) THEN Misshaped(node, v)
         ELSE Collected(node, v, Each(LAMBDA e : json2cbor_hash(node, base, e[2], format), Parts(node, v)))
    [] node.kw \in {"leaf", "leaf-list"} ->
         IF node.kw = "leaf-list" /\ Kind(v) # "arr" THEN Fail(Null, "fatal")
         ELSE Collected(node, v, Each(LAMBDA e : type2cbor(node.type, e), Parts(node, v)))
    [] node.kw = "anydata" ->
         IF node.arg = "board:factory_default_config" THEN json2cbor(DefaultSchema, <<0>>, v, format)
         ELSE Ok(Null)
    [] node.kw \in {"rpc", "action"} ->
         LET first == IF Kind(v) = "map" /\ v[2] # <<>> THEN v[2][1] ELSE <<"", Null>>
             part == Find(node.sub, LAMBDA s : s.kw = first[1])
         IN IF part # <<>> /\ Kind(first[2]) = "map" /\ first[2] # Map(<<>>)
            THEN json2cbor(part[1], ParameterBase(node, part[1]), first[2], format)
            ELSE IF Kind(v) \notin {"map", "null"} THEN Fail(Null, "fatal") ELSE Ok(Null)
    [] OTHER -> Fail(Null, "fatal")

Value2cbor(node, value, format) ==
  IF value = Null /\ format # "post" THEN Ok(Null) ELSE json2cbor(node, Sid(node), value, format)

instance2cbor(schema, key, value, format) ==
  Instance(iid2cbor(schema, key[2]), Value2cbor(json_validate_iid(schema, key[2]).node[1], value, format))

-----------------------------------------------------------------------------
(* Values in JSON again *)
Joined(words) == IF words = <<>> THEN ""
                 ELSE FoldLeft(LAMBDA s, w : s \o " " \o w, words[1], Tail(words))

RECURSIVE Shortest(_)
Shortest(num) ==
  IF Len(num.frac) > 1 /\ num.frac[Len(num.frac)] = 0 THEN Shortest([num EXCEPT !.frac = Front(@)])
  ELSE IF Len(num.digits) > 1 /\ num.digits[1] = 0 THEN Shortest([num EXCEPT !.digits = Tail(@)])
  ELSE num

(* decode_decimal64: at least one digit on either side of the point.        *)
decode_decimal64(value) ==
  LET n == value[2]
      size == IF n < 0 THEN -n ELSE n
      Digit(k) == (size \div 10 ^ k) % 10
  IN <<"decimal", Shortest([neg |-> n < 0,
                            digits |-> [i \in 1 .. 6 |-> Digit(value[1] + 6 - i)],
                            frac |-> [i \in 1 .. value[1] |-> Digit(value[1] - i)]])>>

(* Mutant: numbers of bytes that are left out are taken for numbers of bits. *)
ByteStep_Bits(st, v) ==
  IF Kind(v) = "int" THEN [st EXCEPT !.offset = @ + v[2]]
  ELSE FoldLeft(LAMBDA s, byte :
         [offset |-> s.offset + 8, positions |-> s.positions \cup {s.offset + b : b \in byte}], st, v[2])

ByteStep(st, v) ==
  IF Kind(v) = "int" THEN [st EXCEPT !.offset = @ + 8 * v[2]]
  ELSE FoldLeft(LAMBDA s, byte :
         [offset |-> s.offset + 8, positions |-> s.positions \cup {s.offset + b : b \in byte}], st, v[2])

bits2json(type, v) ==
  LET parts == IF Kind(v) = "bytes" THEN <<v>> ELSE v[2]
      positions == FoldLeft(ByteStep, [offset |-> 0, positions |-> {}], parts).positions
      sorted == SetToSortSeq(positions, LAMBDA a, b : a < b)
      names == [i \in DOMAIN sorted |-> Find(type.bits, LAMBDA b : b[2] = sorted[i])]
  IN IF \E i \in DOMAIN names : names[i] = <<>> THEN Fail(v, "decode")
     ELSE Ok(Str(Joined([i \in DOMAIN names |-> names[i][1][1]])))

RECURSIVE type2json(_, _), Plain2json(_, _), iid2json(_, _)
Plain2json(type, v) ==
  CASE type.builtin \in Long -> Ok(IF Kind(v) = "int" THEN Str(ToString(v[2])) ELSE v)
    [] type.builtin = "empty" -> Ok(Arr(<<v>>))
    [] type.builtin = "binary" -> Ok(Str(v[2]))
    [] type.builtin \in {"enumeration", "bits"} /\ Kind(v) = "tag" -> Ok(v[3])
    [] type.builtin = "enumeration" /\ Kind(v) # "tag" ->
         LET e == Find(type.enums, LAMBDA x : Int_(x[2]) = v) IN Ok(IF e = <<>> THEN v ELSE Str(e[1][1]))
    [] type.builtin = "bits" /\ Kind(v) # "tag" -> bits2json(type, v)
    [] type.builtin = "identityref" ->
         LET sid == IF Kind(v) = "tag" THEN v[3] ELSE v
             id == Find(type.ids, LAMBDA x : Int_(x.sid) = sid)
         IN IF id = <<>> THEN Fail(v, "decode") ELSE Ok(Str(IdentityText(id[1])))
    [] type.builtin = "decimal64" -> Ok(decode_decimal64(v[3]))
    [] type.builtin = "instance-identifier" ->
         IF Kind(v) \in {"int", "arr"} THEN Rescued(iid2json(DefaultSchema, v), v, "decode") ELSE Fail(v, "fatal")
    [] OTHER -> Ok(v)

Decoded(type, v) == IF type = <<>> THEN Fail(v, "decode") ELSE Plain2json(type[1], v)
type2json(type, v) == Decoded(ToDecode(type, v), v)

RECURSIVE PathTo(_, _)
(* find_node_from_sid: the nodes on the way to it, the first one found.     *)
PathTo(node, sid) ==
  IF node.sid = <<sid>> THEN <<<<node>>>>
  ELSE LET below == [i \in DOMAIN node.sub |-> PathTo(node.sub[i], sid)]
           found == Find(below, LAMBDA p : p # <<>>)
       IN IF found = <<>> THEN <<>> ELSE <<<<node>> \o found[1][1]>>

(* The next keys, for the key leafs of a list in the order they stand in.   *)
(* A key that is false or nil is not written; one that is not of the type   *)
(* raises.                                                                  *)
KeyText(v) == IF Kind(v) = "int" THEN ToString(v[2]) ELSE IF v = Bool(TRUE) THEN "true" ELSE v[2]

KeysOf(leafs, rs) ==
  [keys |-> IF Errs(rs) # {} THEN <<>> ELSE [i \in DOMAIN rs |-> <<leafs[i].arg, KeyText(rs[i].v)>>],
   errs |-> Errs(rs)]
KeyTexts(leafs, keys, written) ==
  KeysOf(Each(LAMBDA i : leafs[i], written), Each(LAMBDA i : type2json(leafs[i].type, keys[i]), written))

KeyLeafs(node) ==
  IF node.kw = "list" THEN SelectSeq(node.sub, LAMBDA s : s.arg \in ToSet(node.keys)) ELSE <<>>

Taken(st, name, n, texts) ==
  [iid |-> Append(st.iid, [name |-> name, keys |-> texts.keys]),
   keys |-> SubSeq(st.keys, n + 1, Len(st.keys)),
   errs |-> st.errs \cup texts.errs]
TakeKeys(st, name, leafs, n) ==
  Taken(st, name, n,
        KeyTexts(leafs, st.keys,
                 SelectSeq([i \in 1 .. n |-> i], LAMBDA i : st.keys[i] \notin {Null, Bool(FALSE)})))
IidPart(st, node) ==
  TakeKeys(st, node.arg, KeyLeafs(node), Cardinality(DOMAIN KeyLeafs(node) \cap DOMAIN st.keys))

IidText(st) == IF st.errs # {} THEN Fail(Path(<<>>), "fatal") ELSE Ok(Path(st.iid))
IidAlong(path, keys) ==
  IF path = <<>> THEN Ok(Path(<<>>))
  ELSE IidText(FoldLeft(IidPart, [iid |-> <<>>, keys |-> keys, errs |-> {}], Tail(path[1])))
iid2json(schema, v) ==
  IF Kind(v) = "int" THEN IidAlong(PathTo(schema, v[2]), <<>>)
  ELSE IF Kind(v[2][1]) = "int" THEN IidAlong(PathTo(schema, v[2][1][2]), Tail(v[2]))
  ELSE Fail(Path(<<>>), "fatal")

-----------------------------------------------------------------------------
(* cbor2json *)
WithSid(node, sid) == Find(node.sub, LAMBDA s : s.sid = <<sid>>)

RECURSIVE cbor2json(_, _, _, _)
cbor2json_hash(node, base, pairs, format) ==
  LET known == SelectSeq(pairs, LAMBDA p : WithSid(node, p[1] + base[1]) # <<>>)
      to == Each(LAMBDA p : WithSid(node, p[1] + base[1])[1], known)
  IN MapOf(Each(LAMBDA c : c.arg, to),
           [i \in DOMAIN known |-> cbor2json(to[i], Sid(to[i]), known[i][2], format)],
           {e \in {"skipped"} : known # pairs})

cbor2json(node, base, v, format) ==
  CASE node.kw \in Strict \cup {"list"} ->
         IF ~Shaped(node, v, format) THEN Misshaped(node, v)
         ELSE Collected(node, v, Each(LAMBDA e : cbor2json_hash(node, base, e[2], format), Parts(node, v)))
    [] node.kw \in {"leaf", "leaf-list"} ->
         IF node.kw = "leaf-list" /\ Kind(v) # "arr" THEN Fail(Null, "fatal")
         ELSE Collected(node, v, Each(LAMBDA e : type2json(node.type, e), Parts(node, v)))
    [] node.kw = "anydata" ->
         IF node.arg = "board:factory_default_config" THEN cbor2json(DefaultSchema, <<0>>, v, format)
         ELSE Ok(Null)
    [] node.kw \in {"rpc", "action"} ->
         LET part == IF Kind(v) # "map" \/ v[2] = <<>> THEN <<>>
                     ELSE Find(node.sub, LAMBDA s : WithSid(s, v[2][1][1] + node.sid[1]) # <<>>)
         IN IF v \in {Null, Map(<<>>)} THEN Ok(v)
            ELSE IF part = <<>> THEN Fail(Null, "fatal")
            ELSE MapOf(<<part[1].kw>>, <<cbor2json(part[1], ParameterBase(node, part[1]), v, format)>>, {})
    [] OTHER -> Fail(Null, "fatal")

Value2json(node, value, format) ==
  IF value = Null /\ format # "post" THEN Ok(Null) ELSE cbor2json(node, Sid(node), value, format)
instance2json(schema, key, value, format) ==
  LET path == PathTo(schema, IF Kind(key) = "int" THEN key[2] ELSE key[2][1][2])
  IN IF path = <<>> THEN Fail(Null, "fatal")
     ELSE Instance(iid2json(schema, key), Value2json(Last(path[1]), value, format))

-----------------------------------------------------------------------------
(* The JSON schema, and what it lets through *)
RECURSIVE Members(_)
Members(type) ==
  IF Deref(type).builtin # "union" THEN <<Deref(type)>>
  ELSE FlattenSeq([i \in DOMAIN Deref(type).members |-> Members(Deref(type).members[i])])
AMember(type, Test(_)) == \E m \in ToSet(Members(type)) : Test(m)

(* type2schema, for what is not a union.                                    *)
ConformsTo(type, v) ==
  LET t == TextOf(v)
  IN CASE type.builtin \in Small -> Kind(v) = "int" /\ InRanges(type, v[2])
       [] type.builtin = "boolean" -> Kind(v) = "bool"
       [] type.builtin = "empty" -> v = Arr(<<Null>>)
       [] type.builtin = "decimal64" -> IsText(v) /\ t.num # <<>> /\ Len(t.num[1].frac) <= type.fd
       [] type.builtin = "enumeration" -> IsText(v) /\ Named(type.enums, Word(v)) # <<>>
       [] type.builtin = "bits" ->
            IsText(v) /\ \A i \in DOMAIN t.words : Named(type.bits, t.words[i]) # <<>>
       [] type.builtin = "binary" ->
            IsText(v) /\ \E i \in DOMAIN type.ranges :
              /\ 4 * ((type.ranges[i][1] + 2) \div 3) <= t.len
              /\ t.len <= 4 * ((type.ranges[i][2] + 2) \div 3)
       [] type.builtin = "identityref" ->
            IsText(v) /\ \E i \in DOMAIN type.ids :
              Word(v) \in {IdentityText(type.ids[i])}
                         \cup {n \in {type.ids[i].name} : type.ids[i].mod = type.source}
       [] type.builtin = "string" -> IsText(v) /\ StringIn(type, Word(v), t.len)
       [] OTHER -> IsText(v)
Conforms(type, v) == AMember(type, LAMBDA m : ConformsTo(m, v))

DataNodes == {"container", "leaf", "leaf-list", "list", "anydata", "anyxml"}

Properties(stm, format) ==
  SelectSeq(stm.sub, LAMBDA s : format \notin {"ipatch", "put"} \/ s.config)

RECURSIVE Valid(_, _, _)

(* to_json_schema *)
ValidMap(stm, pairs, format, keys) ==
  LET props == Properties(stm, format)
      Fits(p) == \E i \in DOMAIN props :
        \/ props[i].kw \in DataNodes /\ props[i].arg = p[1] /\ Valid(props[i], p[2], format)
        \/ props[i].kw \in {"input", "output"} /\ props[i].kw = p[1] /\ Valid(props[i], p[2], format)
      required == keys \cup {props[i].arg : i \in {j \in DOMAIN props : props[j].mandatory}}
  IN /\ \A i \in DOMAIN pairs : Fits(pairs[i])
     /\ required \subseteq {pairs[i][1] : i \in DOMAIN pairs}

Distinct(s) == \A i, j \in DOMAIN s : i # j => s[i] # s[j]

Valid(stm, v, format) ==
  CASE stm.kw \in {"module", "container"} -> Kind(v) = "map" /\ ValidMap(stm, v[2], format, {})
    [] stm.kw = "leaf" -> Conforms(stm.type, v)
    [] stm.kw = "leaf-list" ->
         /\ Kind(v) = "arr" /\ \A i \in DOMAIN v[2] : Conforms(stm.type, v[2][i])
         /\ stm.config => Distinct(v[2])
    [] stm.kw = "list" ->
         LET Entry(e) == Kind(e) = "map" /\ ValidMap(stm, e[2], format, ToSet(stm.keys))
         IN \/ Kind(v) = "arr" /\ \A i \in DOMAIN v[2] : Entry(v[2][i])
            \/ format \in {"fetch", "ipatch"} /\ Entry(v)
    [] stm.kw = "anydata" /\ stm.arg = "board:factory_default_config" -> Valid(DefaultSchema, v, "put")
    [] stm.kw \in {"input", "output"} ->
         IF stm.sub = <<>> THEN v = Null ELSE Kind(v) = "map" /\ ValidMap(stm, v[2], format, {})
    [] stm.kw \in {"rpc", "action"} ->
         v = Null \/ /\ \E i \in DOMAIN stm.sub : stm.sub[i].sub # <<>>
                     /\ Kind(v) = "map" /\ ValidMap(stm, v[2], format, {})
    [] OTHER -> TRUE

(* validate_instance_entry!, json_validate_iid and validate.                *)
json_validate(schema, entry, format) ==
  IF format \notin {"fetch", "ipatch", "post"}
  THEN {e \in {"invalid"} : ~Valid(schema, entry, format)}
  ELSE IF format = "fetch" /\ Kind(entry) = "path" THEN {}
  ELSE IF Kind(entry) # "map" \/ Len(entry[2]) # 1 THEN {"fatal"}
  ELSE LET key == entry[2][1][1]
           value == entry[2][1][2]
           node == IF Kind(key) # "path" THEN <<>> ELSE json_validate_iid(schema, key[2]).node
       IN IF node = <<>> THEN {"fatal"}
          ELSE {e \in {"invalid"} : (value # Null \/ format = "post") /\ ~Valid(node[1], value, format)}

-----------------------------------------------------------------------------
(* One action for each entry in each phase.  What is encoded without errors *)
(* is decoded again, as by the one that it is sent to.                      *)
Turn(phase) == at.phase = phase /\ ~raised

Note(errs) ==
  /\ errors' = [errors EXCEPT ![at.phase] = @ \cup errs]
  /\ raised' = ("fatal" \in errs \/ (errs # {} /\ (~request.continue \/ at.phase = "decode")))
  /\ at' = IF at.entry < Len(request.entries) THEN [at EXCEPT !.entry = @ + 1]
           ELSE [phase |-> CASE at.phase = "validate" -> "encode"
                             [] at.phase = "encode" /\ errors'.encode = {} -> "decode"
                             [] OTHER -> "done",
                 entry |-> 1]
  /\ UNCHANGED request

Schema == Schemas[request.schema]
Entry == request.entries[at.entry]
Sequence == request.format \in {"fetch", "ipatch", "post"}

Validate ==
  /\ Turn("validate")
  /\ Note(json_validate(Schema, Entry, request.format))
  /\ UNCHANGED <<cbor, json>>

(* json_seq2cbor *)
Encode ==
  /\ Turn("encode")
  /\ \E r \in {IF ~Sequence THEN json2cbor(Schema, <<0>>, Entry, request.format)
               ELSE IF Kind(Entry) = "path" THEN iid2cbor(Schema, Entry[2])
               ELSE instance2cbor(Schema, Entry[2][1][1], Entry[2][1][2], request.format)} :
       /\ Note(r.errs)
       /\ cbor' = IF raised' THEN cbor ELSE Append(cbor, r.v)
  /\ UNCHANGED json

(* cbor_seq2json *)
Decode ==
  /\ Turn("decode")
  /\ \E r \in {IF ~Sequence THEN cbor2json(Schema, <<0>>, cbor[at.entry], request.format)
               ELSE IF request.format = "fetch" /\ Kind(cbor[at.entry]) # "map"
                 THEN iid2json(Schema, cbor[at.entry])
               ELSE instance2json(Schema, cbor[at.entry][2][1][1], cbor[at.entry][2][1][2], request.format)} :
       /\ Note(r.errs)
       /\ json' = IF raised' THEN json ELSE Append(json, r.v)
  /\ UNCHANGED cbor

Init ==
  /\ request \in Requests
  /\ at = [phase |-> "validate", entry |-> 1]
  /\ cbor = <<>> /\ json = <<>>
  /\ errors = [phase \in {"validate", "encode", "decode"} |-> {}]
  /\ raised = FALSE

Next == Validate \/ Encode \/ Decode
Spec == Init /\ [][Next]_vars

-----------------------------------------------------------------------------
(* What a document means, by YANG and not by how it is encoded. *)
RECURSIVE IsOf(_, _), NodesOn(_, _), Leafs(_, _), Canonical(_, _)

NodesOn(node, path) ==
  IF path = <<>> THEN <<>>
  ELSE LET c == Child(node, path[1].name)[1] IN <<c>> \o NodesOn(c, Tail(path))

\* The keys of a path, in the order of the lists.
KeysAt(node, keys) ==
  [i \in DOMAIN node.keys |-> [type |-> Child(node, node.keys[i])[1].type, name |-> node.keys[i],
                              given |-> Key(node.keys[i], keys)]]
KeysAlong(nodes, path) == [i \in DOMAIN path |-> KeysAt(nodes[i], path[i].keys)]
KeysOn(schema, path) == KeysAlong(NodesOn(schema, path), path)

KeyFits(key, r) == key.given = <<>> \/ (r.errs = {} /\ AMember(key.type, LAMBDA m : IsOf(m, r.v)))
(* The keys of the path are of their types.                                 *)
KeysFit(schema, path) ==
  /\ json_validate_iid(schema, path).node # <<>>
  /\ \A k \in ToSet(FlattenSeq(KeysOn(schema, path))) :
       KeyFits(k, IF k.given = <<>> THEN Ok(Null) ELSE convert_iid_key_value(k.type, k.given[1][2]))

(* Of the type, with the ranges that the JSON schema leaves out.            *)
IsOf(type, v) ==
  CASE type.builtin \in Long ->
         Kind(v) = "str" /\ Texts[v[2]].int # <<>> /\ InRanges(type, Texts[v[2]].int[1])
    [] type.builtin = "decimal64" -> 
         ConformsTo(type, v) /\ HasDigits(TextOf(v).num[1]) /\ DecimalIn(type, TextOf(v).num[1])
    [] type.builtin = "binary" ->
         Kind(v) = "str" /\ Texts[v[2]].b64 = v[2] /\ InRanges(type, Texts[v[2]].bytes)
    [] type.builtin = "instance-identifier" ->
         Kind(v) = "path" /\ KeysFit(DefaultSchema, v[2])
    [] OTHER -> ConformsTo(type, v)
InType(type, v) == AMember(type, LAMBDA m : IsOf(m, v))

(* A number is the same in CBOR for every type of numbers.                  *)
Number(v) == IF Kind(v) = "int" THEN <<v[2]>> ELSE IF IsText(v) THEN TextOf(v).int ELSE <<>>
Takes(m, v) ==
  \/ IsOf(m, v) \/ match_type_json(m, v)
  \/ m.builtin \in Small \cup Long /\ Number(v) # <<>> /\ InRanges(m, Number(v)[1])
Plain(type, v) ==
  Cardinality({m.builtin : m \in {x \in ToSet(Members(type)) : Takes(x, v)}}) = 1

\* The canonical form of a value.
CanonicalNum(num, digits) ==
  Shortest([neg |-> num.neg /\ \E i \in DOMAIN digits : digits[i] # 0,
            digits |-> <<0>> \o num.digits, frac |-> num.frac \o <<0>>])
ByPosition(bits) == SortSeq(bits, LAMBDA a, b : a[2] < b[2])
Meant(type, v) ==
  CASE type.builtin \in Long -> Str(ToString(Texts[v[2]].int[1]))
    [] type.builtin = "decimal64" ->
         <<"decimal", CanonicalNum(TextOf(v).num[1], TextOf(v).num[1].digits \o TextOf(v).num[1].frac)>>
    [] type.builtin = "bits" ->
         Str(Joined([i \in DOMAIN TextOf(v).words |->
                      ByPosition(SelectSeq(type.bits, LAMBDA b : b[1] \in ToSet(TextOf(v).words)))[i][1]]))
    [] type.builtin = "identityref" ->
         Str(IdentityText(Find(type.ids, LAMBDA id : v[2] = IdentityText(id)
                                           \/ (id.mod = type.source /\ v[2] = id.name))[1]))
    [] OTHER -> v
(* Bits in a union are sent as their text.                                  *)
MeantBy(type, m, v) == IF m.builtin = "bits" /\ Deref(type).builtin = "union" THEN v ELSE Meant(m, v)
Meaning(type, v) == MeantBy(type, Find(Members(type), LAMBDA m : IsOf(m, v))[1], v)

Part(stm, name) == Find(stm.sub, LAMBDA s : name = IF s.kw \in {"input", "output"} THEN s.kw ELSE s.arg)[1]
Maps(v) == IF Kind(v) = "arr" THEN {v[2][i] : i \in DOMAIN v[2]} ELSE {v}

(* The values in a document that is valid, with their types and SIDs.       *)
Leafs(stm, v) ==
  CASE stm.kw = "leaf" -> {<<stm.type, v, stm.sid>>}
    [] stm.kw = "leaf-list" -> {<<stm.type, v[2][i], stm.sid>> : i \in DOMAIN v[2]}
    [] stm.kw \in {"anydata", "anyxml"} \/ v = Null -> {}
    [] OTHER -> UNION {UNION {Leafs(Part(stm, e[2][i][1]), e[2][i][2]) : i \in DOMAIN e[2]} : e \in Maps(v)}

CanonicalParts(v, vs) == IF Kind(v) = "arr" THEN Arr(vs) ELSE vs[1]
Canonical(stm, v) ==
  CASE stm.kw \in {"leaf", "leaf-list"} ->
         LET vs == IF stm.kw = "leaf" THEN <<v>> ELSE v[2]
         IN CanonicalParts(<<IF stm.kw = "leaf" THEN "" ELSE "arr">>, [i \in DOMAIN vs |-> Meaning(stm.type, vs[i])])
    [] stm.kw \in {"anydata", "anyxml"} -> Null
    [] stm.kw \in {"rpc", "action"} /\
       (v \in {Null, Map(<<>>)} \/ v[2][1][2] \in {Null, Map(<<>>)}) -> Null
    [] OTHER ->
         LET es == IF Kind(v) = "arr" THEN v[2] ELSE <<v>>
         IN CanonicalParts(v, [i \in DOMAIN es |-> Map([j \in DOMAIN es[i][2] |->
              <<es[i][2][j][1], Canonical(Part(stm, es[i][2][j][1]), es[i][2][j][2])>>])])

Content(entry) == IF Sequence THEN entry[2][1][2] ELSE entry
Node(entry) == IF Sequence THEN Last(NodesOn(Schema, entry[2][1][1][2])) ELSE Schema
Empty(entry) == Kind(entry) = "path" \/ (Content(entry) = Null /\ request.format # "post")
AllLeafs == UNION {Leafs(Node(e), Content(e)) : e \in {x \in ToSet(request.entries) : ~Empty(x)}}

RECURSIVE Unencodable(_, _)
(* Values that cannot be encoded: a decimal with a leading zero and 8 or 9, *)
(* a union in a union, and binary in a union when the length of its base64  *)
(* text is not a length of the type.                                        *)
Unencodable(type, v) ==
  \/ type.builtin = "decimal64" /\ \E n \in ToSet(TextOf(v).num) :
       /\ HasDigits(n) /\ Head(n.digits \o n.frac) = 0
       /\ {8, 9} \cap ToSet(n.digits \o n.frac) # {}
  \/ type.builtin = "union" /\ \E i \in DOMAIN type.members :
       LET m == type.members[i]
       IN \/ m.builtin = "union"
          \/ m.builtin = "binary" /\ ~InRanges(m, TextOf(v).len)
          \/ m.builtin = "decimal64" /\ Unencodable(m, v)

PathOf(entry) == IF Kind(entry) = "path" THEN entry[2] ELSE entry[2][1][1][2]
(* A key that is left out in front of another one shifts the ones behind it *)
(* when it is decoded, and a key that is false or empty is not written.     *)
InFront(ks) ==
  \A i \in DOMAIN ks : ks[i].given # <<>> =>
    /\ \A j \in 1 .. i : ks[j].given # <<>>
    /\ ks[i].given[1][2] \notin {"false", "[null]"}
PlainPath(path) == KeysFit(Schema, path) /\ InFront(FlattenSeq(KeysOn(Schema, path)))

CanonicalKey(type, text) ==
  CASE type.builtin \in Small -> ToString(Texts[text].int[1])
    [] type.builtin = "boolean" -> text
    [] OTHER -> Meaning(type, Str(text))[2]
CanonicalKeys(ks) == [i \in DOMAIN ks |-> <<ks[i].name, CanonicalKey(ks[i].type, ks[i].given[1][2])>>]
CanonicalPath(ks, path) ==
  [i \in DOMAIN path |-> [name |-> path[i].name,
                         keys |-> CanonicalKeys(SelectSeq(ks[i], LAMBDA k : k.given # <<>>))]]

-----------------------------------------------------------------------------
(* Properties. *)

(* A document that the JSON schema lets through, with values of their types, *)
(* is encoded without an error, whatever its format; but for two kinds of   *)
(* values that yang-enc cannot encode.                                      *)
ValidEncodes ==
  errors.validate = {} /\ errors.encode # {} =>
    \/ \E l \in AllLeafs : ~InType(l[1], l[2]) \/ Unencodable(l[1], l[2]) \/ l[3] = <<>>
    \/ Sequence /\ \E e \in ToSet(request.entries) : ~KeysFit(Schema, PathOf(e))

(* What is decoded from an encoded document is the document: every value is *)
(* what it meant, in canonical form, in the node it was given for.  Values  *)
(* that members of a union of different types take may change.              *)
RoundTrip ==
  (/\ at.phase = "done" /\ errors.validate = {} /\ errors.encode = {}
   /\ Sequence => \A i \in DOMAIN request.entries : PlainPath(PathOf(request.entries[i]))
   /\ \A l \in AllLeafs : InType(l[1], l[2]) /\ Plain(l[1], l[2]))
  => /\ errors.decode = {}
     /\ \A i \in DOMAIN json : ~Empty(request.entries[i]) =>
          Content(json[i]) = Canonical(Node(request.entries[i]), Content(request.entries[i]))

(* The path of an entry comes back with its keys, each for its own list, in *)
(* the order of the list's key statement, whatever order they were given in;*)
(* a path that stands alone always does.                                    *)
PathRoundTrip ==
  at.phase = "done" /\ errors.validate = {} /\ errors.encode = {} /\ Sequence =>
    \A i \in DOMAIN request.entries :
      LET given == PathOf(request.entries[i])
      IN PlainPath(given) =>
           IF i \in DOMAIN json THEN PathOf(json[i]) = CanonicalPath(KeysOn(Schema, given), given)
           ELSE \E j \in 1 .. i : Kind(request.entries[j]) # "path"

=============================================================================
