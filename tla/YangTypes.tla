----------------------------- MODULE YangTypes -----------------------------
(***************************************************************************)
(* Types as pyang checks them (types.py, v_type_type and the statements    *)
(* around it in statements.py): a chain of typedefs, each of which         *)
(* restricts the one before, with a default value that is inherited and    *)
(* checked again, and a leaf or a leaf-list at the end.                    *)
(*                                                                         *)
(* A type_spec is the sequence of its layers: the built-in type, and one   *)
(* layer for each restriction; .base is all but the last.  A text (the     *)
(* argument of a default) is a record of what the types look at: its name  *)
(* as a whole, the words in it, its length, the patterns it matches, and   *)
(* its sign and digits if it is a number.  An optional value is a sequence *)
(* of none or one.                                                         *)
(***************************************************************************)
EXTENDS Integers, Sequences, FiniteSets, SequencesExt

CONSTANTS
  BuiltIns,    \* the built-in types to start from
  IntMin, IntMax, MaxLength, MaxEnum,  \* limits of integers, lengths, values of enums
  MinWord, MaxWord,  \* the keywords min and max, as numbers that no limit reaches
  Statements,  \* Statements[b][depth + 1]: the type statements in the chain
  Texts,       \* Texts[b]: the arguments of default
  Lists,       \* Lists[b]: defaults, min-elements and max-elements of a leaf-list
  Graphs,      \* identities: id |-> the sequence of its bases
  MaxDepth     \* typedefs in the chain

None == MaxWord + 1    \* the high end of a part that has none
Keyword(x) == x \in {MinWord, MaxWord}
End == MinWord .. MaxWord
RangePart == End \X (End \cup {None})    \* low and high; one number has no high
Upper(p) == IF p[2] = None THEN p[1] ELSE p[2]

ASSUME LimitsAssumption ==
  /\ MinWord \in Int /\ MaxWord \in Int
  /\ IntMin \in MinWord + 1 .. 0 /\ IntMax \in 0 .. MaxWord - 1
  /\ MaxLength \in 0 .. MaxWord - 1
  /\ MaxDepth \in Nat

TypeNames == {"int", "string", "decimal64", "enumeration", "bits", "identityref", "union",
              "boolean", "empty"}
ASSUME BuiltInsAssumption == BuiltIns \subseteq TypeNames

AreItems(items) == items \in Seq(ToSet(items)) /\ \A i \in ToSet(items) : i.value \in Seq(Int)
IsStatement(stmt) ==
  /\ stmt.fd \in Nat
  /\ AreItems(stmt.enums) /\ AreItems(stmt.bits)
  /\ stmt.bases \in Seq(ToSet(stmt.bases))
ASSUME StatementsAssumption ==
  \A b \in BuiltIns : \A d \in 1 .. MaxDepth + 1 : \A stmt \in Statements[b][d] :
    /\ stmt.range \in Seq(RangePart) /\ stmt.length \in Seq(RangePart)
    /\ IsStatement(stmt)
    /\ \A i \in DOMAIN stmt.members :
         stmt.members[i].of \in TypeNames \cup {"leafref"} /\ IsStatement(stmt.members[i].stmt)

IsText(text) == text.digits \in Seq(Nat) /\ text.frac \in Seq(Nat) /\ text.len \in Nat
ASSUME TextsAssumption ==
  \A b \in BuiltIns :
    /\ \A text \in Texts[b] : IsText(text)
    /\ \A list \in Lists[b] : list.texts \in Seq(Texts[b])

IsGraph(g) == IsFiniteSet(DOMAIN g) /\ \A x \in DOMAIN g : g[x] \in Seq(ToSet(g[x]))
ASSUME GraphsAssumption == \A g \in Graphs : IsGraph(g)

VARIABLES
  builtin,   \* the name of the built-in type
  version1,  \* is the module of YANG version 1
  graph,     \* the identities
  depth,     \* typedefs so far
  type,      \* the last one: its spec, default, names under if-feature;
             \* history: the text of the default
  node,      \* the leaf at the end of it
  errors,    \* ctx.errors
  raised,    \* an exception ended the program
  lang,      \* history: the numbers that all the statements ask for
  last       \* history: the last statement, with type, lang as before it

vars == <<builtin, version1, graph, depth, type, node, errors, raised, lang, last>>

(* A loop over a sequence, from its first element to its last.             *)
Along(Turn(_, _), start, seq) ==
  LET after[k \in 0 .. Len(seq)] == IF k = 0 THEN start ELSE Turn(after[k - 1], seq[k])
  IN after[Len(seq)]

-----------------------------------------------------------------------------
(* Layers. *)
Layer(class) == [class |-> class, min |-> 0, max |-> 0, parts |-> <<>>, patterns |-> <<>>,
                 items |-> <<>>, digits |-> 0, bases |-> <<>>, members |-> <<>>]

IntSpec == [Layer("int") EXCEPT !.min = IntMin, !.max = IntMax]
StringSpec == [Layer("string") EXCEPT !.max = MaxLength]
DecimalSpec(fd) == [Layer("decimal") EXCEPT !.min = IntMin, !.max = IntMax, !.digits = fd]

yang_type_specs(b) == <<CASE b = "int" -> IntSpec
                          [] b = "string" -> StringSpec
                          [] OTHER -> Layer(b)>>

(* restrictions() *)
Restrictions(spec) ==
  CASE spec[1].class \in {"int", "decimal"} -> {"range"}
    [] spec[1].class = "string" -> {"pattern", "length"}
    [] spec[1].class = "enumeration" -> {"enum"}
    [] spec[1].class = "bits" -> {"bit"}
    [] OTHER -> {}

(* get_ancestor_typespec_skip_pattern *)
SkipPattern(spec) == SubSeq(spec, 1, Max({i \in DOMAIN spec : spec[i].class # "pattern"}))

-----------------------------------------------------------------------------
(* Ranges and lengths: what is in a part of the last layer. *)
Resolved(layer, x) == IF x = MinWord THEN layer.min ELSE IF x = MaxWord THEN layer.max ELSE x

\* Mutant: a part that is a single number takes what is above it.
InPart_Open(layer, p, v) ==
  /\ Keyword(p[1]) \/ v >= p[1]
  /\ \/ p[2] \in {None, MaxWord}
     \/ p[2] \notin {None, MaxWord} /\ v <= p[2]

InPart(layer, p, v) ==
  /\ Keyword(p[1]) \/ v >= p[1]
  /\ \/ p[2] = None /\ v = Resolved(layer, p[1])
     \/ p[2] = MaxWord
     \/ p[2] \notin {None, MaxWord} /\ v <= p[2]

Parts(layer, v) == {i \in DOMAIN layer.parts : InPart(layer, layer.parts[i], v)}

(* validate() of the numbers, and of lengths.                              *)
NumberValid(spec, v) ==
  \A i \in DOMAIN spec :
    CASE spec[i].class \in {"int", "decimal", "string"} -> v >= spec[i].min /\ v <= spec[i].max
      [] spec[i].class = "parts" -> Parts(spec[i], v) # {}
      [] OTHER -> TRUE

is_smaller(lo, hi) ==
  \/ lo = None
  \/ lo = MinWord /\ hi # MinWord
  \/ ~(lo = MaxWord /\ hi # None) /\ hi # MinWord /\ (hi \in {None, MaxWord} \/ lo < hi)

\* Mutant: the high end of the base itself is too high.
TooHigh_Equal(p, high) ==
  IF p[2] = None THEN high # p[1] ELSE p[2] # MaxWord /\ high >= p[2]

TooHigh(p, high) ==
  IF p[2] = None THEN high # p[1] ELSE p[2] # MaxWord /\ high > p[2]

(* common_restriction: a part against the restriction of the base.  What   *)
(* it returns is not used, only whether it reports or raises.              *)
Against(spec, lo, hi) ==
  LET top == Last(spec)
      low == IF lo = MinWord THEN top.min ELSE lo
      part == IF NumberValid(spec, low) THEN CHOOSE i \in Parts(top, low) :
                                               \A j \in Parts(top, low) : i <= j ELSE 0
      high == IF hi = MaxWord THEN top.max ELSE hi
  IN IF lo = MaxWord THEN [err |-> hi # None, raised |-> FALSE]
     ELSE IF Keyword(low) THEN [err |-> FALSE, raised |-> TRUE]
     ELSE [err |-> part = 0 \/ (hi \notin {None, MinWord} /\ TooHigh(top.parts[part], high)),
           raised |-> FALSE]

OutOf(spec, x) == x \notin {None, MinWord, MaxWord} /\ ~NumberValid(spec, x)

Ascends(cur, p) == is_smaller(cur, p[1]) /\ is_smaller(p[1], p[2])

(* The loop of validate_ranges, which stops at the first part that is not  *)
(* above the one before it.  A keyword compares with numbers only where    *)
(* the code asks for it: elsewhere it raises.                              *)
PartStep(spec, st, p) ==
  LET top == Last(spec)
      base == IF top.class = "parts" THEN Against(spec, p[1], p[2])
              ELSE [err |-> OutOf(spec, p[1]) \/ OutOf(spec, p[2]), raised |-> FALSE]
      late == p[1] = MaxWord /\ st.cur \notin {None, MinWord}
      early == p[1] = MinWord /\ p[2] \notin {None, MaxWord}
      ascends == Ascends(st.cur, p)
      raises == ascends /\ \/ late /\ Keyword(top.max)
                           \/ early /\ Keyword(top.min)
  IN IF ~st.ok \/ st.raised THEN st
     ELSE IF base.raised \/ raises THEN [st EXCEPT !.raised = TRUE]
     ELSE [cur |-> Upper(p),
           ok |-> ascends /\ ~(late /\ st.cur >= top.max) /\ ~(early /\ p[2] < top.min),
           err |-> st.err \/ base.err,
           raised |-> FALSE]

validate_ranges(spec, parts) ==
  Along(LAMBDA st, p : PartStep(spec, st, p),
        [cur |-> None, ok |-> TRUE, err |-> FALSE, raised |-> FALSE], parts)

validate_length_expr(spec, parts) == validate_ranges(SkipPattern(spec), parts)

(* RangeTypeSpec, LengthTypeSpec: base is without the patterns.            *)
PartsSpec(base, parts) ==
  LET top == Upper(Last(parts))
  IN [Layer("parts") EXCEPT
        !.parts = parts,
        !.min = IF parts[1][1] = MinWord THEN Last(base).min ELSE parts[1][1],
        !.max = IF top = MaxWord THEN Last(base).max ELSE top]

-----------------------------------------------------------------------------
(* Values of enums, positions of bits. *)
ItemNames(spec) == {Last(spec).items[i][1] : i \in DOMAIN Last(spec).items}

(* get_value, get_position: of the first one with the name.                *)
ValueOf(spec, name) ==
  LET same == {i \in DOMAIN Last(spec).items : Last(spec).items[i][1] = name}
  IN IF same = {} THEN <<>>
     ELSE <<Last(spec).items[CHOOSE i \in same : \A j \in same : i <= j][2]>>

NextAuto(auto, x) == IF x >= auto THEN x + 1 ELSE auto

(* One enum or bit: a value that is given, or the next one.                *)
Assign(lo, hi, spec, st, item) ==
  LET given == item.value # <<>>
      x == IF given THEN item.value[1] ELSE st.auto
      old == ValueOf(spec, item.name)
      inside == lo <= x /\ x <= hi
      kept == inside \/ ~given
  IN [auto |-> IF kept THEN NextAuto(st.auto, x) ELSE st.auto,
      values |-> IF kept THEN st.values \cup {x} ELSE st.values,
      items |-> Append(st.items, <<item.name, x>>),
      errs |-> st.errs
        \cup {e \in {"TYPE_VALUE"} : Last(spec).items # <<>> /\ item.name \notin ItemNames(spec)}
        \cup {e \in {"BAD_VALUE"} : given /\ old \notin {<<>>, <<x>>}}
        \cup {e \in {"ENUM_VALUE"} : ~inside}
        \cup {e \in {"DUPLICATE_VALUE"} : given /\ inside /\ x \in st.values}
        \cup {e \in {"DUPLICATE_NAME"} : \E i \in DOMAIN st.items : st.items[i][1] = item.name}]

Unassigned == [auto |-> 0, values |-> {}, items |-> <<>>, errs |-> {}]
Assigned(lo, hi, spec, items) ==
  Along(LAMBDA st, item : Assign(lo, hi, spec, st, item), Unassigned, items)
validate_enums(spec, enums) == Assigned(-MaxEnum, MaxEnum, spec, enums)
validate_bits(spec, bits) == Assigned(0, MaxEnum, spec, bits)

-----------------------------------------------------------------------------
(* Identities; g is the graph of them. *)
(* is_derived_from_or_self: depth first, visited is shared by the branches.  *)
(* A base that does not exist is None, whose bases are asked for too.  The *)
(* recursion is as deep as there are identities: each call visits another. *)
Unfound(visited) == [found |-> FALSE, visited |-> visited, raised |-> FALSE]

Branches(walk, bases, visited) ==
  Along(LAMBDA r, p : IF r.found \/ r.raised \/ p \in r.visited THEN r
                      ELSE walk[p][r.visited \cup {p}],
        Unfound(visited), bases)

Visit(g, walk, x, b, visited) ==
  IF x = b THEN [Unfound(visited) EXCEPT !.found = TRUE]
  ELSE IF x \notin DOMAIN g THEN [Unfound(visited) EXCEPT !.raised = TRUE]
  ELSE Branches(walk, g[x], visited)

Reached(g, a) == {a} \cup DOMAIN g \cup UNION {ToSet(g[x]) : x \in DOMAIN g}
DerivedOrSelf(g, a, b) ==
  LET walk[k \in 0 .. Cardinality(Reached(g, a)) + 1] ==
        [x \in Reached(g, a) |-> [visited \in SUBSET Reached(g, a) |->
           IF k = 0 THEN Unfound(visited) ELSE Visit(g, walk[k - 1], x, b, visited)]]
  IN walk[Cardinality(Reached(g, a)) + 1][a][{}]

IsDerivedFrom(g, a, b) ==
  IF a = b THEN [found |-> FALSE, raised |-> FALSE]
  ELSE LET r == DerivedOrSelf(g, a, b) IN [found |-> r.found, raised |-> r.raised]

-----------------------------------------------------------------------------
(* str_to_val: a value or none, with an error. *)
Read(val) == [val |-> <<val>>, err |-> FALSE, raised |-> FALSE]
Refused == [val |-> <<>>, err |-> TRUE, raised |-> FALSE]

Signed(text, v) == IF text.neg THEN -v ELSE v
Positional(digits, base) ==
  Along(LAMBDA v, d : base * v + d, 0, digits)

(* A leading zero in front of more digits makes them octal.                *)
ReadInt(text) ==
  LET octal == ~text.hex /\ Len(text.digits) > 1 /\ text.digits[1] = 0
      digits == IF octal THEN Tail(text.digits) ELSE text.digits
      base == IF text.hex THEN 16 ELSE IF octal THEN 8 ELSE 10
  IN IF digits = <<>> \/ text.frac # <<>> \/ \E i \in DOMAIN digits : digits[i] >= base
     THEN Refused ELSE Read(Signed(text, Positional(digits, base)))

(* The digits behind the point, filled up to fraction-digits.              *)
Filled(frac, fd) == [i \in 1 .. fd |-> IF i <= Len(frac) THEN frac[i] ELSE 0]
ReadDecimal(fd, text) ==
  IF text.hex \/ text.digits = <<>> \/ Len(text.frac) > fd THEN Refused
  ELSE Read(Signed(text, Positional(text.digits \o Filled(text.frac, fd), 10)))

ReadIdentity(g, spec, text) ==
  LET rs == [i \in DOMAIN spec[1].bases |-> IsDerivedFrom(g, text.name, spec[1].bases[i])]
      bad == {i \in DOMAIN rs : ~rs[i].found}
  IN IF text.name \notin DOMAIN g THEN Refused
     ELSE IF bad = {} THEN Read(text)
     ELSE IF rs[CHOOSE i \in bad : \A j \in bad : i <= j].raised
       THEN [Refused EXCEPT !.raised = TRUE]
     ELSE Refused

StrToVal(g, spec, text) ==
  CASE spec[1].class = "int" -> ReadInt(text)
    [] spec[1].class = "decimal" -> ReadDecimal(spec[1].digits, text)
    [] spec[1].class = "boolean" -> IF text.name \in {"true", "false"} THEN Read(text) ELSE Refused
    [] spec[1].class = "empty" -> Refused
    [] spec[1].class = "identities" -> ReadIdentity(g, spec, text)
    [] OTHER -> Read(text)

(* validate() of values.  The names of enums and bits are those of the     *)
(* last restriction; what is in front of it is not asked.                  *)
Matches(p, text) == IF p.invert THEN p.id \notin text.in ELSE p.id \in text.in

ValidAlone(spec, v) ==
  CASE Last(spec).class = "enum" -> v.name \in ItemNames(spec)
    [] Last(spec).class = "bit" -> \A i \in DOMAIN v.words : v.words[i] \in ItemNames(spec)
    [] spec[1].class \in {"int", "decimal"} -> NumberValid(spec, v)
    [] spec[1].class = "string" ->
         /\ NumberValid(spec, v.len)
         /\ \A i \in DOMAIN spec : \A k \in DOMAIN spec[i].patterns : Matches(spec[i].patterns[k], v)
    [] OTHER -> TRUE

(* UnionTypeSpec: some member reads it, and takes what it read.            *)
Valid(g, spec, v) ==
  IF spec[1].class # "union" THEN ValidAlone(spec, v)
  ELSE \E i \in DOMAIN spec[1].members :
         LET r == StrToVal(g, spec[1].members[i], v)
         IN r.val # <<>> /\ ValidAlone(spec[1].members[i], r.val[1])

-----------------------------------------------------------------------------
(* The type statement.  s is where its checks have come to.                *)
NoStmt == [fd |-> 0, range |-> <<>>, length |-> <<>>, patterns |-> <<>>, enums |-> <<>>,
           bits |-> <<>>, bases |-> <<>>, members |-> <<>>]

Note(s, codes) == [s EXCEPT !.errs = @ \cup codes]
Restricted(s, codes, ok, layer) ==
  [Note(s, codes) EXCEPT !.spec = IF ok THEN Append(@, layer) ELSE @]

(* of is the name of the built-in type, if the statement refers to one.    *)
CheckFraction(s, stmt, of) ==
  IF stmt.fd # 0 /\ of # "decimal64" THEN Note(s, {"BAD_RESTRICTION"})
  ELSE IF of = "decimal64" /\ stmt.fd = 0 THEN Note(s, {"MISSING_TYPE_SPEC"})
  ELSE IF of = "decimal64" THEN [s EXCEPT !.spec = <<DecimalSpec(stmt.fd)>>]
  ELSE s

CheckParts(s, parts, restriction, base, r) ==
  IF parts = <<>> \/ s.raised THEN s
  ELSE IF restriction \notin Restrictions(s.spec) THEN Note(s, {"BAD_RESTRICTION"})
  ELSE IF r.raised THEN [s EXCEPT !.raised = TRUE]
  ELSE Restricted(s, {e \in {"TYPE_VALUE"} : r.err} \cup {e \in {"BOUNDS"} : ~r.ok},
                r.ok, PartsSpec(base, parts))

CheckRange(s, stmt) ==
  CheckParts(s, stmt.range, "range", s.spec, validate_ranges(s.spec, stmt.range))
CheckLength(s, stmt) ==
  CheckParts(s, stmt.length, "length", SkipPattern(s.spec), validate_length_expr(s.spec, stmt.length))

(* A pattern that is none gives an error, and all are dropped.             *)
CheckPattern(s, stmt) ==
  LET good == \A i \in DOMAIN stmt.patterns : stmt.patterns[i].good
  IN IF stmt.patterns = <<>> THEN s
     ELSE IF "pattern" \notin Restrictions(s.spec) THEN Note(s, {"BAD_RESTRICTION"})
     ELSE Restricted(s, {e \in {"PATTERN_ERROR"} : ~good}, good,
                   [Layer("pattern") EXCEPT !.patterns = stmt.patterns])

Existing(g, bases) ==
  Along(LAMBDA bs, b : IF b \in DOMAIN g THEN Append(bs, b) ELSE bs, <<>>, bases)
CheckBase(s, stmt, of) ==
  LET found == Existing(graph, stmt.bases)
  IN IF stmt.bases # <<>> /\ of # "identityref" THEN Note(s, {"BAD_RESTRICTION"})
     ELSE IF of = "identityref" /\ stmt.bases = <<>> THEN Note(s, {"MISSING_TYPE_SPEC"})
     ELSE IF stmt.bases = <<>> THEN s
     ELSE IF Len(stmt.bases) > 1 /\ version1 THEN Note(s, {"UNEXPECTED_KEYWORD"})
     ELSE [Note(s, {e \in {"IDENTITY_NOT_FOUND"} : found # stmt.bases})
             EXCEPT !.spec = IF found = <<>> THEN @
                             ELSE <<[Layer("identities") EXCEPT !.bases = found]>>]

(* Enums and bits; a derived type may have them since version 1.1.         *)
CheckItems(s, items, class, restriction, builtIn, of, r) ==
  IF items # <<>> /\ (restriction \notin Restrictions(s.spec) \/ (version1 /\ of # builtIn))
  THEN Note(s, {"BAD_RESTRICTION"})
  ELSE IF of = builtIn /\ items = <<>> THEN Note(s, {"MISSING_TYPE_SPEC"})
  ELSE IF items = <<>> THEN s
  ELSE Restricted(s, r.errs, TRUE, [Layer(class) EXCEPT !.items = r.items])

CheckEnum(s, stmt, of) ==
  CheckItems(s, stmt.enums, "enum", "enum", "enumeration", of, validate_enums(s.spec, stmt.enums))
CheckBits(s, stmt, of) ==
  CheckItems(s, stmt.bits, "bit", "bit", "bits", of, validate_bits(s.spec, stmt.bits))

TypeAlone(spec, stmt, of) ==
  LET s0 == [spec |-> spec, errs |-> {}, raised |-> FALSE]
      s1 == CheckPattern(CheckLength(CheckRange(CheckFraction(s0, stmt, of), stmt), stmt), stmt)
  IN CheckBits(CheckEnum(CheckBase(s1, stmt, of), stmt, of), stmt, of)

MemberType(m) == TypeAlone(yang_type_specs(m.of), m.stmt, m.of)
CheckUnion(s, stmt, of, rs) ==
  LET old == version1 /\ \E i \in DOMAIN rs : stmt.members[i].of \in {"empty", "leafref"}
  IN IF rs # <<>> /\ of # "union" THEN Note(s, {"BAD_RESTRICTION"})
     ELSE IF rs = <<>> /\ of = "union" THEN Note(s, {"MISSING_TYPE_SPEC"})
     ELSE IF rs = <<>> THEN s
     ELSE [Note(s, (UNION {rs[i].errs : i \in DOMAIN rs}) \cup {e \in {"BAD_TYPE_IN_UNION"} : old})
             EXCEPT !.spec = <<[Layer("union") EXCEPT !.members = [i \in DOMAIN rs |-> rs[i].spec]]>>]

v_type_type(spec, stmt, of) ==
  CheckUnion(TypeAlone(spec, stmt, of), stmt, of, [i \in DOMAIN stmt.members |-> MemberType(stmt.members[i])])

-----------------------------------------------------------------------------
(* Defaults. *)
\* Mutant: what is inherited is taken as it is.
Inherited_Trusted(spec, val) == [val |-> val, errs |-> {}, raised |-> FALSE]

Invalid(spec, val) == {e \in {"TYPE_VALUE"} : val # <<>> /\ ~Valid(graph, spec, val[1])}

Inherited(spec, val) == [val |-> val, errs |-> Invalid(spec, val), raised |-> FALSE]

Given(spec, text) ==
  LET r == StrToVal(graph, spec, text)
  IN [val |-> r.val, errs |-> {e \in {"TYPE_VALUE"} : r.err} \cup Invalid(spec, r.val),
      raised |-> r.raised]

Default(spec, text) ==
  IF text = <<>> THEN Inherited(spec, type.default) ELSE Given(spec, text[1])

(* v_check_default looks at the enumeration or bits at the start.          *)
Conditional(of, stmt) ==
  LET items == IF of = "enumeration" THEN stmt.enums ELSE IF of = "bits" THEN stmt.bits ELSE <<>>
  IN {items[i].name : i \in {j \in DOMAIN items : items[j].feature /\
                              \A k \in 1 .. j - 1 : items[k].name # items[j].name}}

CheckDefault(conditional, val) ==
  {e \in {"DEFAULT_AND_IFFEATURE"} : \E i \in DOMAIN val :
     conditional \cap (IF builtin = "bits" THEN ToSet(val[i].words)
                       ELSE IF builtin = "enumeration" THEN {val[i].name} ELSE {}) # {}}

(* History: what the numbers of a statement mean, by the numbers before.   *)
Meant(L, x) == IF x = MinWord THEN Min(L) ELSE IF x = MaxWord THEN Max(L) ELSE x
Piece(L, p) == Meant(L, p[1]) .. Meant(L, Upper(p))
Asked(parts, L) == IF L = {} THEN {} ELSE UNION {Piece(L, parts[i]) : i \in DOMAIN parts}

Numbers(stmt) == IF stmt.range # <<>> THEN stmt.range ELSE stmt.length

Of == IF depth = 0 THEN builtin ELSE "a typedef"

Step(stmt, s, text, default, abort, errs) ==
  /\ type' = [spec |-> s.spec,
              default |-> default,
              conditional |-> IF depth = 0 THEN Conditional(builtin, stmt) ELSE type.conditional,
              text |-> IF text = <<>> THEN type.text ELSE text]
  /\ errors' = errors \cup s.errs \cup errs
  /\ raised' = (s.raised \/ abort)
  /\ lang' = IF Numbers(stmt) = <<>> THEN lang ELSE lang \cap Asked(Numbers(stmt), lang)
  /\ last' = [stmt |-> stmt, spec |-> type.spec, lang |-> lang, sound |-> errors = {} /\ ~raised,
               errs |-> s.errs \cup {e \in {"raised"} : s.raised}]
  /\ depth' = depth + 1
  /\ UNCHANGED <<builtin, version1, graph>>

(* v_type_typedef.  s is what v_type_type has made of the statement.       *)
Typedef(stmt, s, text) ==
  /\ depth < MaxDepth
  /\ \E d \in {Default(s.spec, text)} : Step(stmt, s, text, d.val, d.raised, d.errs)
  /\ UNCHANGED node

(* v_type_leaf *)
Leaf(stmt, s, text, mandatory) ==
  /\ \E d \in {Default(s.spec, text)} :
       Step(stmt, s, text, d.val, d.raised,
          d.errs \cup CheckDefault(type'.conditional, d.val)
            \cup {e \in {"DEFAULT_AND_MANDATORY"} : text # <<>> /\ mandatory})
  /\ node' = "leaf"

(* v_type_leaf_list; its default here is the first of i_default.           *)
LeafList(stmt, s, texts, min, max) ==
  /\ \E given \in {[i \in DOMAIN texts |-> Given(s.spec, texts[i])]} :
     \E read \in {{i \in DOMAIN texts : given[i].val # <<>>}} :
     LET wrong == min > (IF read = {} THEN max ELSE 0)
         own == IF read # {} THEN {given[i] : i \in read}
                ELSE IF wrong THEN {} ELSE {Inherited(s.spec, type.default)}
     IN Step(stmt, s, IF read = {} THEN <<>> ELSE <<texts[Min(read)]>>,
          IF read # {} THEN given[Min(read)].val ELSE IF wrong THEN <<>> ELSE type.default,
          \E i \in DOMAIN texts : given[i].raised,
          (UNION {given[i].errs : i \in DOMAIN texts}) \cup (UNION {d.errs : d \in own})
            \cup {e \in {"DEFAULT_AND_MIN_ELEMENTS"} : read # {} /\ min > 0}
            \cup {e \in {"MAX_ELEMENTS_AND_MIN_ELEMENTS"} : read = {} /\ min > max}
            \cup (IF wrong THEN {} ELSE UNION {CheckDefault(type'.conditional, d.val) : d \in own}))
  /\ node' = "leaf-list"

Init ==
  /\ builtin \in BuiltIns
  /\ version1 \in IF builtin \in {"enumeration", "bits", "identityref", "union"} THEN BOOLEAN ELSE {FALSE}
  /\ graph \in IF builtin = "identityref" THEN Graphs ELSE {<<>>}
  /\ depth = 0
  /\ type = [spec |-> yang_type_specs(builtin), default |-> <<>>, conditional |-> {}, text |-> <<>>]
  /\ node = "none"
  /\ errors = {}
  /\ raised = FALSE
  /\ lang = IF builtin = "string" THEN 0 .. MaxLength ELSE IntMin .. IntMax
  /\ last = [stmt |-> NoStmt, spec |-> type.spec, lang |-> lang, sound |-> TRUE, errs |-> {}]

(* A bound: pyang goes on after an error, the chain here ends with it.     *)
Next ==
  /\ node = "none" /\ ~raised /\ errors = {}
  /\ \E stmt \in Statements[builtin][depth + 1] :
     \E s \in {v_type_type(type.spec, stmt, Of)} :
       \/ \E text \in {<<>>} \cup {<<t>> : t \in Texts[builtin]} :
            \/ Typedef(stmt, s, text)
            \/ \E mandatory \in {FALSE, text # <<>>} : Leaf(stmt, s, text, mandatory)
       \/ \E list \in Lists[builtin] : LeafList(stmt, s, list.texts, list.min, list.max)

Spec == Init /\ [][Next]_vars
-----------------------------------------------------------------------------
(* Properties. *)

Sound == errors = {} /\ ~raised
Numeric == type.spec[1].class \in {"int", "decimal", "string"}
(* A statement that is one keyword by itself keeps the word as its limit:  *)
(* comparing with it raises, or is never true, when it is restricted.      *)
WordAsLimit(spec) == \E i \in DOMAIN spec : Keyword(spec[i].min) \/ Keyword(spec[i].max)
(* A part of the base that ends in max takes a part beyond the limit that  *)
(* max stands for; what is derived from it reads max as that other limit.  *)
Overshoots(spec) ==
  \E i, j \in DOMAIN spec : /\ i < j
                            /\ spec[i].class # "pattern" /\ spec[j].class = "parts"
                            /\ spec[j].max > spec[i].max
Exact(spec) == ~WordAsLimit(spec) /\ ~Overshoots(spec)
Wide == IntMin - 1 .. IF IntMax > MaxLength THEN IntMax + 1 ELSE MaxLength + 1

(* A chain of ranges, or of lengths, without an error takes exactly the    *)
(* numbers that all its statements ask for, whatever keywords, single      *)
(* numbers and gaps are in them; and none of them asks for a number in a   *)
(* gap of the one before, or below it.                                     *)
RestrictionsNarrow ==
  Sound /\ Numeric /\ Exact(last.spec) =>
    /\ {v \in Wide : NumberValid(type.spec, v)} = lang
    /\ \A v \in Asked(Numbers(last.stmt), last.lang) : v <= Max(last.lang) => v \in last.lang

(* A restriction in ascending parts, each within one part of the base, is  *)
(* taken without an error.                                                 *)
Fits(parts, spec, L) ==
  LET pieces == IF Last(spec).class = "parts"
                THEN {Piece(L, p) : p \in ToSet(Last(spec).parts)} ELSE {L}
      lo == [i \in DOMAIN parts |-> Meant(L, parts[i][1])]
      hi == [i \in DOMAIN parts |-> Meant(L, Upper(parts[i]))]
  IN /\ \A p, q \in pieces : p # q => p \cap q = {}
     /\ \A i \in DOMAIN parts :
       /\ \E piece \in pieces : {lo[i], hi[i]} \subseteq piece
       /\ parts[i][2] # None => lo[i] < hi[i]
       /\ i > 1 => hi[i - 1] < lo[i]
FittingAccepted ==
  (/\ last.sound /\ Numeric /\ Exact(last.spec)
   /\ (builtin = "string") = (last.stmt.range = <<>>)
   /\ Numbers(last.stmt) # <<>> /\ Fits(Numbers(last.stmt), SkipPattern(last.spec), last.lang))
  => last.errs \cap {"TYPE_VALUE", "BOUNDS", "raised"} = {}

(* A default that gives no error, inherited through any restrictions, is   *)
(* what its text says, and a value of the type it ends up in.              *)
Power(base, n) ==
  LET power[k \in 0 .. n] == IF k = 0 THEN 1 ELSE base * power[k - 1]
  IN power[n]
Weighted(digits, base) ==
  LET sum[k \in 0 .. Len(digits)] ==
        IF k = 0 THEN 0 ELSE sum[k - 1] + digits[k] * Power(base, Len(digits) - k)
  IN sum[Len(digits)]
Says(text) == IF text.hex THEN Weighted(text.digits, 16)
              ELSE Weighted(text.digits, IF text.digits[1] = 0 THEN 8 ELSE 10)
SaysDecimal(text, fd) ==
  Weighted(text.digits, 10) * Power(10, fd) + Weighted(text.frac, 10) * Power(10, fd - Len(text.frac))
DerivesIn(g, a, b) ==
  a # b /\ \A S \in SUBSET DOMAIN g :
    (/\ ToSet(g[a]) \cap DOMAIN g \subseteq S
     /\ \A x \in S : ToSet(g[x]) \cap DOMAIN g \subseteq S) => b \in S
Derives(a, b) == DerivesIn(graph, a, b)
AllPatterns(spec, text) ==
  \A i \in DOMAIN spec : \A k \in DOMAIN spec[i].patterns :
    (spec[i].patterns[k].id \in text.in) <=> ~spec[i].patterns[k].invert
Fitting(spec, text, val, L) ==
  CASE spec[1].class = "int" -> val = (IF text.neg THEN -Says(text) ELSE Says(text)) /\ val \in L
    [] spec[1].class = "decimal" ->
         /\ val = (IF text.neg THEN -1 ELSE 1) * SaysDecimal(text, spec[1].digits)
         /\ val \in L
    [] spec[1].class = "string" -> text.len \in L /\ AllPatterns(spec, text)
    [] spec[1].class = "enumeration" ->
         \A i \in 2 .. Len(spec) : \E k \in DOMAIN spec[i].items : spec[i].items[k][1] = text.name
    [] spec[1].class = "bits" ->
         \A i \in 2 .. Len(spec) :
           ToSet(text.words) \subseteq {spec[i].items[k][1] : k \in DOMAIN spec[i].items}
    [] spec[1].class = "identities" -> \A i \in DOMAIN spec[1].bases : Derives(text.name, spec[1].bases[i])
    [] spec[1].class = "boolean" -> text.name \in {"true", "false"}
    [] OTHER -> spec[1].class # "empty"
FittingMember(spec, text) ==
  LET r == StrToVal(graph, spec, text)
  IN r.val # <<>> /\ Fitting(spec, text, r.val[1], {v \in Wide : NumberValid(spec, v)})
DefaultsFit ==
  Sound /\ type.default # <<>> /\ ~WordAsLimit(last.spec) =>
    /\ IF type.spec[1].class = "union"
       THEN \E i \in DOMAIN type.spec[1].members : FittingMember(type.spec[1].members[i], type.text[1])
       ELSE Fitting(type.spec, type.text[1], type.default[1], lang)
    /\ node # "none" /\ builtin = "enumeration" => type.text[1].name \notin type.conditional

=============================================================================
