# Verification of the VelocityDRIVE-SP support tools

This directory holds TLA+ models of the tools of this repository: the Ruby
programs that talk to a VelocityDRIVE-SP device over a serial line
(`src/support/libeasy`, `yang-enc`, `scripts`), and the part of pyang under
`src/support/pyang` that those programs depend on to validate YANG modules and to
number them (SIDs). There are modules, TLC configurations that check them on small
instances, and proofs for TLAPS.

    tlc -workers 2 -config CoapReq.cfg MCCoapReq.tla     # a run
    tlapm ResolveProofs.tla                              # proofs

`PROJECT.json` lists every run with its properties, the source lines behind each
definition, a plausible bug ("mutant") for each property that the run catches,
the hazards of the code, the theorems and the disagreement between code and
comments that a run shows.

## 1. The system

A YANG module takes this way through the repository:

    text ── pyang: names, types, schema tree ──┬─ sid plugin ── .sid file ─┐
                                               └─ yang-schema (Ruby) ──────┴─ schema
    request (URI, JSON) ── mup1cc ── yang-enc with the schema ── CBOR
         ── Coap ── (Dtls) ── Mup1 ── serial line ── device

**On the line.** A tool (`mup1ct`, `mup1cc`, `dbgreg`) is one process with one
thread. It opens a serial port, or a TCP connection to a terminal server, on which
the device multiplexes its console and framed protocols. Handlers form a tree:

    Dut ── Mup1 ─┬─ Coap                     mup1ct/mup1cc ... coap
                 ├─ Dtls_Record ── Dtls_Application ── Coap    coaps
                 │              ├─ Dtls_Handshake, Dtls_Alert, Dtls_ChangeCipherSpec
                 ├─ PingHandler, TraceHandler
                 └─ Mup1Con                  console text

Bytes go up the tree by `rx`, frames go down by `tx`, both as plain calls;
everything else that happens is a timer. A call that needs an answer loops over
`Dut#poll`, so the handlers run inside the caller's loop. There are no threads
and no locks in it: what makes the code hard is the other side - a line that
loses and changes bytes, a device that restarts, answers late or refuses - and
the order in which chunks of input and timers reach the handlers. Several
processes meet only in files: the cache of schemas and the log of steps of
`mup1cc`.

**In the schema.** pyang validates a module in phases that walk its statements and
change them in place: groupings are copied, augments added, deviations applied.
Nothing is concurrent; what is hard is order - definitions validated in the middle
of others, augments before their targets, another module's deviations after
everything was checked - and that the Ruby side makes the same tree a second time
by its own rules, and encodes and decodes by its own readings of it.

| Part | State it keeps | Operations | Interacts by | Hard | Correct when |
|---|---|---|---|---|---|
| **CoAP client** `handler/coap.rb` | per request: message id, bytes sent and acknowledged, block2 option, retry count, timer, last frame, payload | `coap_req`, `rx`, `timeout_work`, `req` and its wrappers | frames to Mup1 or DTLS; polls Dut | retransmission against late answers, two block-wise transfers in one request, give-up, a frame after the end | payload whole and in order, body executed once and intact, each call ends |
| **CoAP codec** `frame/coap.rb` | none | `enc`, decoding, option helpers | used by the client | lengths and distances at 13 and 269, leading zeros, order of options | what is sent is the message RFC 7252 says, and what was said is read |
| **Timers and loop** `handler/base.rb`, `dut.rb` | a timer and a cached minimum per handler | `timeout_*_set`, `timeout_clear`, `timeout_calc_next`, `timeout_cb`, `poll` | calls into every handler | cached minima while a callback changes timers | never sleeps past a timer, every wait ends |
| **MUP1 framing** `handler/mup1.rb` | receiver state, data, checksum, raw buffer, timer | `tx`, `rx`, `timeout_work` | bytes from Dut, frames to the handler of their type, text to the console handlers | damage in escapes, padding and trailer; text between frames; stall | a frame handed up was sent; the receiver finds the next frame |
| **DTLS client** `handler/dtls.rb`, `frame/dtls.rb` | handshake state and flags, epoch and sequence numbers, keys, transcript | `do_handshake`, `rx` of five handlers, `tx` | records to Mup1; polls Dut in the middle of `tx` | nested polls, lost and late flights, alerts | data goes out only under agreed keys |
| **U-Boot console** `handler/uboot.rb` | buffer, prompt state, timer | `wait`, `run`, `inject`, `rx` | text from Mup1 | prompt split over reads, stale prompt | the answer belongs to the command |
| **mup1ct** `scripts/mup1ct` | options, flags of ping and trace handlers | ping, listen, coap, trace, dump | polls Dut | waits | a wait ends at its time |
| **mup1cc** `scripts/mup1cc` | cache of schemas, log of steps, both files | look-up and making of a schema, request, log, replay | files, CoAP | runs that share the files, a stop while writing | a request uses the schema of its own device; a replay sends what was logged |
| **YANG encoder** `yang-enc/yang-enc.rb` | none | validate, encode, decode of documents and of FETCH, iPATCH and POST entries | used by mup1cc | SID deltas, bits, unions, identities, keys of paths | what is valid is encoded, and decoded as what it meant |
| **YANG schema** `yang-utils.rb`, `yang-schema.rb`, `yc2y.rb` | the trees, changed in place | trees of modules, augments, deviations, leafrefs, types, SIDs, joining | used by the encoder | order of modules, several keys, chains of types | the tree is what RFC 7950 means |
| **Name resolution** pyang `statements.py` | marks on definitions | validation on demand of groupings, typedefs, features, identities, imports | recursion through the module | cycles, who is validated in the middle of whom | it ends, cycles are reported, sound modules are not |
| **YANG types** pyang `types.py` | type specifications in layers | restrictions, values, defaults | used by the validation | gaps, min and max, inherited defaults | a restriction narrows, a default fits |
| **Schema tree** pyang `statements.py` | the statements, changed in place | expansion, refine, augment, config, keys, uniques, leafrefs, deviations | phases in turn | placeholders, what a later phase undoes | the tree is the sum of its statements |
| **SID files** pyang `plugins/sid.py` | the `.sid` file | generate, update, check, count, finalize | files that are made from one another | ranges with gaps, refusals half-way, a kill while writing | a number once given stays |
| **Substatement grammar** pyang `grammar.py` | - | which statement may hold which | validation | - | - |
| **Update check** pyang `plugins/check_update.py` | the errors | comparison of a module with its old version, statement by statement | trees and types of the validation | several statements that change together | data that was valid stays valid |
| **Parsers, module loading, translators, output and lint plugins** pyang | - | text to statements; files; printing | validation before or after | - | - |
| **CBOR diagnostics, dbgreg, bc2cbor, container scripts** | none | conversions, register access | files, CoAP | - | - |

## 2. Modules

| Module | What it is | Run |
|---|---|---|
| `CoapReq`, `MCCoapReq` | the CoAP client, the link below it and a CoAP server | `coap_request` |
| `ConfirmableCall` | what a caller of the client is promised; `CoapReq` implements it | `coap_request` |
| `CoapReqProofs` | type correctness and `PayloadInOrder` for all constants | |
| `CoapDeviceProofs` | `SuccessIsWhole`, `BodyIntact`, and that `CoapReq` implements `ConfirmableCall`, for all constants | |
| `Mup1`, `MCMup1` | MUP1 framing, the line and the device | `mup1` |
| `Mup1Proofs` | `Resync` for every payload, text, cut and damage | |
| `EventLoop`, `MCEventLoop` | timer tree, `Dut#poll`, and the loops that call it | `event_loop` |
| `EventLoopProofs` | both safety properties of `EventLoop` for every tree and all times | |
| `Dtls`, `MCDtls` | the DTLS client between `Coap` and `Mup1`, with the device's side | `dtls`, `dtls_reentered` |
| `DtlsProofs` | all three safety properties of `Dtls` for all constants | |
| `CoapFrame` | the CoAP codec and the frame of a URI, as operators | with `Mup1cc` |
| `Mup1cc`, `MCMup1cc` | runs of mup1cc that share cache and log | `mup1cc` |
| `YangEnc`, `MCYangEnc` | validation, encoding and decoding of documents | `yang_enc` |
| `YangSchema`, `MCYangSchema` | modules to schema trees on the Ruby side | `yang_schema` |
| `Resolve`, `MCResolve` | names: definitions validated on demand | `resolve` |
| `ResolveProofs` | all four properties of `Resolve` for all constants | |
| `YangTypes`, `MCYangTypes` | chains of typedefs, restrictions, defaults | `types` |
| `YangTypesProofs` | all three properties of `YangTypes` for all limits, statements, texts and chains | |
| `UpdateCheck` | a module against its old version, over the types of `YangTypes` | `types` |
| `Statements` | the numbered statements of a tree that pyang builds | with `SchemaTree` |
| `Leafref` | where the path of a leafref leads | with `SchemaTree` |
| `SchemaTree`, `MCSchemaTree` | the phases that make the schema tree | `tree` |
| `SidFile`, `MCSidFile` | the `.sid` file over revisions | `sid` |
| `SidFileProofs` | all four properties of `SidFile` for all constants | |

Modules that hold the same thing at two levels of detail are joined at a
boundary that both name: a frame is one message in `CoapReq`, bytes in
`CoapFrame`, and a request with its answer one step in `Mup1cc`; a handler's
timer is a time in `EventLoop` and an event that may always happen in `CoapReq`,
`Mup1` and `Dtls`; a schema is a name in `Mup1cc`, data in `YangEnc`, and made in
`YangSchema`.

### CoapReq

`req` is the `ReqBlockWise` object, field by field (`tx`/`ack` are `@req_tx` and
`@req_tx_ack`, `timer` is `@req_timer # nil`); `pc` and `polling` say where the
thread is in `Coap#req` and `Dut#poll`. `next_step` is the five disjuncts of
`Expired` and `Proceed` and `KeepWaiting`, one for each way through it;
`rx_data` is `RxOther`, `RxAnswer` and `RxError`. `Rx` is one frame of a chunk:
several frames may be handled before the loop looks at the timer again, which is
where a request that is over meets a further frame. Bytes of the body are
counted (offset and length of the slice), blocks of the response are numbered.
The timer has no value: it may fire whenever it runs, so every race between a
late answer and a retransmission is there.

Not in the repository, and so modelled from how the code uses them: the link
(FIFO, loses frames; MUP1's checksum removes damaged ones) and the device (a
server after RFC 7252 and 7959 that deduplicates on the message id, collects a
body block by block, and may refuse or reset any request).
`over`, `gaveUp`, `refused`, `again`, `runs` and `corrupt` are history.

`coap_request`: is the payload a prefix of the response (`PayloadInOrder`), is
success the whole response of an executed request (`SuccessIsWhole`), is the body
executed the one given and what can make `next_step` raise (`BodyIntact`), is a
request executed and answered as `ConfirmableCall` promises (`ImplementsCall`), and
does every call end (`Terminates`)? `SuccessIsWhole` leaves out requests that were
given up, and it has to: without that exception it fails, since giving up behind a block
that was answered leaves class 2.xx in the result (section 5). Of such a result only
`PayloadInOrder` speaks.

Bounds: two requests; no body, a body of just one block, of two full blocks and
of three with a partial last one; responses of no block and of three, so there is
a first, a middle and a last one; one retransmission and then give-up; two frames
per direction of the link, enough to hold an answer and its duplicate; one restart
of a request that was over (`MaxAgain`), one reset. A message id is the smallest
unused one: ids are only compared, so which one is drawn cannot matter unless it
collides with one in use, which is left out.

### Mup1

`m` is the receiver (`@state`, `@mup1_type`, `@mup1_data`, `@mup1_chk`,
`@raw_buf`); `RxSm` is `rx_sm` on one byte and `RxAll` what it makes of all that a
read took. `Enc` is `Mup1#tx`, and also how the device encodes. The bytes and both
checksum computations are the program's: the properties are about exactly this
coding. The CRC itself is a constant operator; the model value used is a sum that
depends on the place of each byte. Each byte in flight is tagged with its frame and
its place in it (text with the frame it stands before); only the properties look
at the tags.

`hurt` and `apart` are history. `hurt` collects the frames that damage may cost by
itself: the frame of a lost or changed byte and the one behind it, the frame behind
damaged text, the frame behind a `>` in the text, and what a stall cuts. `apart` are the
frames with text directly before them. A frame is `Spoiled` if it is `hurt`, or if a
`hurt` one comes before it and text stands before each frame from there on.

`mup1`: is what is handed up what was sent, in order (`NoPhantom`), and is every frame
that is not spoiled handed up as it was sent (`Resync`)? Four setups: the internet
checksum with payloads of every size and every special byte, text with `>` in it, one
damaged byte anywhere, one stall, reads of one or two bytes; the CRC-32 trailer with
two damaged bytes; three frames kept apart by text that escapes; and text that fills
a frame that is never closed up to its limit. What they taught us about this
coding, and the properties say:

* The internet checksum is computed over the frame without its escapes, and the
  padding is the byte `<`, which payload may hold: a payload of odd size ending
  in `<` whose escape byte is lost reads, with a correct checksum, as the
  payload without its last byte (`ReadsAs`).
* Damage to the end of a frame can cost the next frame: its start is taken for
  the end of the trailer. Inside the lost frame an escaped `>` is taken for a start.
* It costs no more than that, unless text follows. A receiver that is out of step
  is behind a whole frame in no escape and in no trailer, so it takes the `>` of the next
  frame for a start. Text in between may end in `\`, or in `<` and make it wait for a
  trailer, and then the next frame is lost too, and so on (`Spoiled`).
* A receiver out of step that has collected more than `maxData` bytes drops the
  byte it looks at, be it a start of frame. A frame with every byte escaped is 610 bytes
  long against 1024, so frames alone never bring it there; text can.

### EventLoop

`self` and `next` are `@timeout_self` and `@timeout_next` of every handler,
counted down by `Tick`. `Calc` is `timeout_calc_next` with its recursion to the
lower layer as a recursive function along `Path`. `timeout_cb` is not atomic: it looks at the
clock for each handler, so it is a list of tasks (`CbEnter` for the handler's own
timer, `CbLeave` for the calculation after its children) between which time
passes. What the handlers do with a frame is in the other modules; here a read
sets the timers they set.

`event_loop`: are the cached minima right, so that select wakes at the earliest
timer (`NextIsEarliest`), does a loop poll without a timer (`PollHasTimeout`), does
every wait end (`WaitEnds`)? Bounds: three timers in a tree of four handlers, with
times of 4 (answer), 2 (receiver), 1 (poll) and 5 (wait), so that each of them
falls due before, with and after another; two retransmissions, two chunks.

### Dtls

`c` holds the handlers: `@hs_state` and the message numbers of `Dtls_Handshake`,
its transcript, `@is_secure` and the current and pending parameters of
`Dtls_Record` (epoch, key, next number). Handlers are functions of it
(`RecordRx`, `HandshakeRx`, `Process`, `ChangeCipherSpecRx`); what they sent
(`out`) and whether they raised (`raised`) is dealt with in the same step.
`do_handshake` is not atomic: it waits in `poll_until`, so it is an entry of
`stack` with the wait it is in and the polls it has left; `Proceed` is the code
between two waits. A poll reads records (`Rx`, several to a chunk), finds nothing
for this part (`OtherPoll`), runs Coap's timer (`Timeout`) or raises (`NoTimer`).
`Timeout` may start `do_handshake` inside `do_handshake`. An exception ends the
innermost call (`Thrown`), or the tool if there is none.

A key is the number of the session, a signature or a Finished is the list of
messages it covers, so that transcripts that differ are told apart. The device
(`Serve`) follows RFC 6347 as far as the client needs it, takes only what fits its
state, and may send an alert or start anew.

`dtls`: does data go out only under keys both sides agreed on (`DataOnlyAgreed`),
is a channel that counts as secure one agreed session (`SecureIsAgreed`), does an
undisturbed handshake fit the device (`UndisturbedFits`), does `do_handshake`
return (`HandshakeEnds`)? `dtls_reentered`: is it called only when no handshake is
under way, as it asserts? (It is not.)

Bounds: two requests, so the second meets what the first left; two
retransmissions, since the first inside a handshake fails it and only the second
nests a handshake in it; waits of two polls (20 in the code), since an outer wait
must survive the inner call; one lost record or one alert; two sessions of the
device. The second session never completes, not for lack of room: the ephemeral
key of the client exists once (see section 5).

### CoapFrame and Mup1cc

`CoapFrame` has the codec as operators over bytes: `enc` for sending, `initialize`
for reading (with the exception it may raise as a field), and the request frame
that `next_step` makes of a URI (path, query, formats, blocks). The query goes through
`URI.decode_www_form` and `URI.encode_www_form_component` of Ruby, with the bytes that
are no UTF-8 replaced by U+FFFD (`scrub`). Apart from it stands what RFC 7252 says:
`RefBytes` is what a message looks like, and `PathIs` and `QueryIs` are what section 6.4
reads in a URI, cut and decoded by operators of their own (`Segments`, `Arguments`,
`PercentDecoded`), with UTF-8 as a set of byte strings (`Characters`). None of them uses
the translation of the code.

The client does not do all that section 6.4 asks for, and `FramesAreUnderstood` says
where. In the path empty segments are left out and percent-encodings are sent as they
are. In the query arguments without name and value are left out, and one is sent
percent-decoded only if it is letters, digits and `*-._` around one `=` with something
behind it (`Literal`). Any other is sent form-encoded, and claimed is that who reads it
as a form reads the name and the value of the URI, up to what is no UTF-8.

In `Mup1cc` each shell runs the tool again and again (`plan`); one run asks its
device for the checksum of its YANG library, looks into the cache, loads the schema
or downloads the catalog and makes one, and then makes its request, appends it to
the log, or replays steps of a log. Writing a file is what `File.write` does: the
file is emptied, then written. A run can be stopped anywhere (`Stop`), a device's
software changed once. A request with its answer is one step, its blocks being
`CoapReq`'s; what a payload is encoded to is `YangEnc`'s, here it names the schema
it was encoded with. `Request` and `Receive` are requests and messages of any other
script, so that the codec meets all lengths.

`mup1cc`: is what is sent the message RFC 7252 says, and read what was said
(`FramesAreUnderstood`)? Does a run send the request of its command line, a replay
what was logged in the order of the chosen ranges, and each encoded with the schema
of its own device (`SentIsMeant`)? Bounds: two shells, two devices, two checksums,
one upgrade; two runs of different devices for each method, a log of three steps
replayed with four lists of ranges, a log written by two; texts of 0 to 600 bytes
around 13 and 269, block numbers to 5000, every size of a number; three paths with percent-encodings,
queries with each kind of argument, and 23 texts at the ends of the ranges of UTF-8 and
just outside of them.

### YangEnc

The tool's three passes over a request: `Validate` (the JSON schema and the checks
of instance-identifiers), `Encode` and `Decode`, one step per entry. Values are
tuples with their kind in front, and what a text can be read as is a constant
(`Texts`). Below the properties stands what a document means by RFC 7951: its
leafs, canonical forms and the keys of a path.

`yang_enc`: is what is valid encoded without an error (`ValidEncodes`), decoded as
what it meant (`RoundTrip`), and do paths come back with each key at its list
(`PathRoundTrip`)? Inputs: one or two values of each of fifteen types and of unions
of two of them, in every format, paths with keys in
every order over two nested lists, actions. Left out of the properties, and listed in
section 5 as seen: values that cannot be encoded (`Unencodable`), unions of which
members with different built-in types take the value, keys left out, false or
empty in the middle of others, leafs without a SID.

### YangSchema

The actions are the passes of `yang-utils`: `Interpret` a module (with the augments
of those before it), `Deviate`, `ResolveLeafrefs`, `AddSidFile`, `Data` (joining the
trees). The properties compare the result with the tree that RFC 7950 means,
computed from the paths alone (`MeantSchema`).

`yang_schema`: is the data tree the one meant, keys in order included
(`TreeIsMeant`, which also counts them, so that
none is there twice), has each node its SID (`SidsFound`), does each leafref lead where
its path means (`LeafrefsFound`), has each type its values and numbers
(`TypesAreMeant`)? 2299 documents of one to three modules in five families: 144
orders of keys; trees with grouping, choice, action, augments of augments and
deviations in two loading orders; rpc and yang-data at the top; enums, bits and
ranges in chains of three (a `MaxNumber` of 300 stands for 16 bits and more);
leafref paths in lists that nest, grouping, typedef, choice and augment, with no, one
or two predicates. `Gap` names the
constructs that the code is known not to handle (section 5); about a quarter of the
tree documents have one, and for them the comparisons with the meant tree claim
nothing. No document has a `refine` or a leafref in a union, so nothing is claimed of
them either; the code handles neither (section 5).

### Resolve

Five kinds of definitions (groupings, typedefs, features, identities, modules) are
validated by the same scheme: on meeting or on first reference, a mark
`in_progress` meanwhile. `calls` is the stack of active functions, `todo` what the
phase has not visited, `done` the order of completion (history). `Visit` is a
reference that is looked at, `Nested` one that has its definition validated first,
`Leave` the end of a definition. Scopes are reduced to found and not found.

`resolve`: is no function active twice for one definition (`CallsAreDistinct`), is
each cycle reported (`CyclesReported`), has a sound module no error and each
reference its definition (`NoFalseAlarm`), is a module done after its imports
(`ImportsFirst`)? Bounds: three definitions with up to two references each (nine
bodies, three for the statements outside): cycles of one, two and three, side by
side and sharing a member; none or one definition imported. These properties are
also proved for any number of definitions.

### YangTypes

`type` is the last typedef with its `type_spec` as a sequence of layers; each step
adds a typedef, or ends in a leaf or leaf-list, and does all that the validation of
that statement does, defaults included. `lang` and `last` are history: the numbers
that all statements so far ask for, and the last one.

`MinWord` and `MaxWord`, the keywords `min` and `max`, are numbers outside of all
limits, so that a part is a pair of numbers.

`types`: does a chain without an error take exactly what all its statements ask for
(`RestrictionsNarrow`), is a restriction that fits taken (`FittingAccepted`), is a
default that gives no error a value of the type it ends up in (`DefaultsFit`)?
Bounds: two typedefs and a leaf, followed up to its first error; ranges of one part
with any ends in -2..4, min or max, and of two parts; six lengths, three sets of
patterns, decimals of up to two fraction digits, up to three enums or bits with
every assigned value around the ends, identities over every graph of three, unions
of two members. Ranges are varied for integers only; the code is the same
for lengths and decimals.

Two exceptions are named: a statement that is one keyword by itself (`WordAsLimit`) and
a part behind the limit that `max` stands for (`Overshoots`, section 5). In the run the
third statement of an integer is `max` or `1..max`: where the second one overshoots,
what is taken is no longer what is asked for.

### UpdateCheck

A definition or schema node is a record of its substatements, a module its
definitions, augments and nodes. `Load` takes the module pyang was called with, if
the validation has no error, `check_update` the old one, and leaves the codes of all
comparisons in `update`. The operators have the names of the functions they
translate; types are made by `v_type_type` of `YangTypes`, so that a range is
compared with the function that validates it.

The property (`OldDataStaysValid`) speaks of what a module means by RFC 7950:
`Data` enumerates documents (lists and leaf-lists of up to two entries), `Complete`
says which are valid, in each context of supported features and true expressions. If
no code is reported, each old value of a type is one of the new type with the same
code on the wire (enum values, bit positions, fraction digits), a leaf without a
value keeps its default, and each document that was valid still is. `Gap` names
the changes the check is known not to see (section 5).

`types` compares each module of a theme with every other one: leafs with must, when,
if-feature, mandatory and status; defaults of leaf and typedef; leaf-lists and
lists with bounds, keys and uniques; containers with and without presence; choices;
anydata; leafrefs; augments; rpcs, groupings, notifications and structures;
extensions; headers; seven built-in types with restrictions, direct and through a
typedef that stays or changes; identities over graphs of three.

### Statements, Leafref and SchemaTree

A node is numbered, since pyang shares, moves and changes statements in place; a
tree is the record of its nodes, of the errors and of an exception. `todo` is the
list of what the phases still visit, module `a` before module `b`; one action per
phase. `Leafref` follows a path as `validate_leafref_path` does. What the modules
mean is said beside it with paths, without an order (`Whole`), and for leafrefs with
the data tree.

`tree`: has an accepted document the tree it describes (`TreeIsTheSum`), a sound one
no error about names (`NoFalseAlarm`), is config inherited everywhere
(`ConfigIsInherited`), do keys, uniques and leafrefs lead to leafs
(`ReferencesLead`)? Documents: up to three of eight augments of the own module in
every order over a body with a choice and a list, with and without config; two nested groupings,
up to two refines and two augments of a uses; up to three augments and two
deviations by another module; a leafref in seven places (case, container, input of
an action, top, grouping, augment of either module) with paths up and absolute, with predicates
and `deref`; uniques of one and two paths. Leafrefs are judged where names are right
and nothing deviates. Assumed: no two predicates without prefix on one key, no
choice at the top, no leaf of an output named as one of the input (section 5).

### SidFile

A run of the plugin goes from `Generate`, `Check`, `Update` or `Count` through the
generator of numbers (`NextRange`, `SkipUsed`, `Yield`, `Exhausted`) to `Report` or
to `GenerateFile` and `Dump`, which truncates and then writes; `Crash` stops it in
between. `Edit` changes the module between runs. Items are numbers in the order of
`sort_items`. `promised` and `counted` are history.

`sid`: can what is written be read (`WrittenIsValid`), does a number once given stay
the item's (`Permanent`), does `count` ask for exactly what the update takes
(`CountIsExact`), is a written file complete (`UpdateIsComplete`)? Bounds: three
items, two revisions, two ranges (one of them full sooner), two imports, five files
found with one defect each or none, three runs, one crash.

### Deadlock

All configurations turn the deadlock check off: a run of a tool ends, a document is
done, and the model stops there. That nothing stops too early is the business of
the liveness properties and of those that speak of finished states.

## 3. Fairness

`CoapReq` assumes that a poll ends, that a timer that keeps running fires and
that the loop of `Coap#req` goes on: one thread, `select` with a timeout. Nothing
is assumed of the link or the device, which may stay silent for ever.
`EventLoop` assumes that the thread goes on (`Loop`) and that time passes
(`Tick`). It bounds the chunks that arrive during a call (`MaxInput`): timers are
served only when `select` finds nothing to read, so a device that always has a
chunk ready would starve them, and no fairness of the tool excludes that.
`Dtls` assumes that the thread goes on (`Tool`) and that a chunk ends (`EndPoll`);
the device and the line owe nothing, a wait ends because its polls are counted.

The other modules state no fairness and no liveness. Their programs are sequential
walks over finite documents; that pyang's recursion ends is a safety property
(`CallsAreDistinct`: no function is active twice for one definition).

## 4. What is proved

Eight modules hold proofs, each for every value of the constants under the named
assumption of the module it is about.

### CoapReqProofs

* `TypeCorrect`: `Spec => []TypeOK`.
* `PayloadOrdered`: `Spec => []PayloadInOrder`, the payload is a prefix of the
  response unless the device refused something.

`PayloadInOrder` speaks of the blocks already collected and is not inductive: an
answer that arrives could carry any block. `IInv` adds what makes the next one
fit:

* `Current`: a frame or a remembered response with the id the request waits for
  belongs to this request and answers the very frame it sent last (`FitsAnswer`),
  whichever of the copies it answers; ids of other frames differ.
* `Shape`: the frame sent last is the one its counters say (a piece of the body,
  or the read of block `num + 1`).
* `Progress`: as many blocks have been collected as the block number asked for.

The argument: a response is appended only if its id is the one waited for
(`Matches`); by `Current` it answers the last frame; by `Shape` that frame asks
for block `b2`; by `Progress` exactly `b2` blocks are there. After it the id is
cleared, so a duplicate no longer matches. Each of the three is proved for each
action in lemmas of its own (`CurrentStep`, `ShapeStep`, `ProgressStep`).

### CoapDeviceProofs

* `SuccessWhole`: `Spec => []SuccessIsWhole`.
* `BodyWhole`: `Spec => []BodyIntact`.

Both relate the client to the device, and `IInv` says of the device only that it
answers what it was asked. `DInv` adds, in this order:

* `Standing`: a request has a timer until it ends, and one that ended has one again
  only if it was started over (`again`); frames and the device are of no later request.
* `InTurn` and `Latest`: since the link is FIFO and an id is drawn once for each frame,
  copies of a frame are together on the link, and the frame sent last is the last
  that the device meets. So when the client takes an answer, this answer is the last
  thing the device did. Nothing of the rest is true without this.
* `Bodies`: the piece of body in a frame lies where its block number says, or before
  it, and then the device refuses it (`InSequence`): a refusal or a reset makes
  `@req_tx` run ahead of `@req_tx_ack`, so that number and bytes disagree.
* `Counts`: the counters of the client agree with the frame it sent last; bytes are
  multiples of the block size, the last piece excepted.
* `AtDevice`: what the device has collected is what the client has sent, what it
  has executed and with how many blocks of response; an answer without class 2.xx or
  4.xx carries no block (`ResetIsBare`).

The exception `SuccessWhole` and `BodyWhole` name, a request that sends after its end, is where
`Bodies` fails: no frame of it is spoken of.

`CallImplemented`, in the same module: `Spec => ImplementsCall`.

`Execute` of `ConfirmableCall` needs `runs[r] < tries[r]`, which is not inductive: a
frame under way is an execution to come. `Accounts` counts the executions of a
request together with its `Pending` ones, the message ids on the link or with the
client for which the device may still execute it; ids and not frames, because a
retransmission adds a frame and no id. A new request, and a frame that one sends
after its end, adds an id and an attempt. A frame that a request sends on its way
adds an id too, but takes no attempt: `Unrun` says that the device has not executed a
request whose answers still ask for a piece of body, so the last one is paid for by
the first attempt. When the device executes a frame the id leaves `Pending` with all
its copies, by `InTurn` and `Latest`. Then each step of `CoapReq` is one of
`ConfirmableCall` or leaves what the caller sees (`CallStep`).

The parts of `DInv` and of `Accounts` and `Unrun` were model-checked on the instance
of the run `coap_request` (1.08 million states) before they were proved.

### Mup1Proofs

* `Resynchronises`: `Spec => []Resync`, for every payload, either checksum, every CRC,
  every text, every way in which reads cut the stream, and any number of
  damaged bytes and stalls.

`Resync` speaks of an empty line. The invariant follows the line:

* `Line`: the bytes in flight are the rest of what was sent, in order. So the first of
  them says how much of which frame the receiver was given (`Ahead`), and a byte of
  a frame that is not `hurt` is the byte `Enc` put there.
* `Synced`: of a frame that is not spoiled the receiver has the type, the part of the payload
  that was given, the state of the escape, and the part of the checksum that was
  given. So with the last byte it hands up the frame.
* `Tame`: of a frame behind which the next one is not `hurt`, whatever the receiver took its
  first byte for, it is in an escape only in the place of an escaped byte, has no more
  data than the frame has bytes, and is in the trailer at least as far as the frame
  is. So behind the frame it is back in `init`, or in `data` with room for a byte.
* `Between`: there, before a frame that is not spoiled, it is in one of these two states,
  and in `data` only if the frame before was spoiled. Text keeps it in `init`.

`StandStep` is one byte read, by the place it has on the line: one lemma for text, and
for a byte of a frame `SyncStep` and `TameStep`. What the operators compute are
lemmas before it: the escaped payload cut at any place (`BodyStep`), that no byte of a
checksum is special and a frame is within the limit (`ChecksumIs`, `SizedIs`). The
assumption (`Mup1Assumption`): types are letters, payloads within `txLimit`, and twice
that and ten bytes within `maxData`, as 300 and 1024 are.

The property was stated without `apart` at first and held on the instance of the run. The
attempt to prove it failed at two frames with text between them behind a damaged one;
TLC then found the counterexample in the setup `MCApart`, added for it.

### EventLoopProofs

* `CachesAreRight`: `Spec => []NextIsEarliest`.
* `TimersForPoll`: `Spec => []PollHasTimeout`.

`NextIsEarliest` holds outside of `timeout_cb`; inside, the timers of the handlers it has
entered change without a calculation. `IInv` says of every state that a cache is the
earliest timer of its subtree, except for those with an entered handler in the
subtree (`RightBut`), and that every handler that was entered will be left: its
calculation then brings back the caches on its way down the tree. That the
recursion of `timeout_calc_next` restores what lies on its path, whatever was wrong
there, is an induction over the path: `CalcRight` takes the lowest place at which the
function were wrong (`Least`) and finds a lower one. The assumption
(`EventLoopAssumption`) says that the handlers are a finite tree: what follows a handler on
a path is the path of that handler.

### DtlsProofs

* `SecureWhenAgreed`: `Spec => []SecureIsAgreed`.
* `DataWhenAgreed`: `Spec => []DataOnlyAgreed`.
* `UndisturbedHandshake`: `Spec => []UndisturbedFits`.

For the first two `IInv` adds to them what leads to a secure channel: while the
device's change of cipher and its Finished are awaited the keys pending or in use are
those of the session (`Awaits`), and a Finished is on the line only of a session whose
own Finished from the client the device took (`FromDevice`). The epoch and the
number of a record are part of it: a Finished is the first record under new keys, and
one that comes late is a number behind. Each method of the handlers has a
lemma about what it does to `Base` and `Awaits`. With `pc = "died"` no handler runs, so
nothing is said of them but `Base`.

The third says that without loss, alert, timeout or new start every handshake fits
the device. `CalmInv` gives the stage of the handshake, from `Start` over `HelloSent`,
`VerifyAsked`, `VerifyTaken`, `CookieSent`, `ServerSaid(k)` (the device's flight of five
messages), `ClientSaid(j)` (the client's), `ServerDone` and `CipherChanged` to `Open`. A
stage fixes the handlers, the device, the records on the line and the transcript on
both sides, as functions of the messages still to come; each action leads from a stage to
itself or to the next one (`HelloStage` to `SendStage`), and `Calls` says that the wait the
thread is in is the one for that stage. `DtlsAssumption` asks for a poll and a session:
a device that answers no handshake at all would not fit a hello.

### SidFileProofs

* `WrittenValid`: a file the program wrote holds each number once, inside its own
  ranges, which are disjoint.
* `NumbersPermanent`: a number once given stays the item's in every file made from
  the one that gave it.
* `UpdateComplete`: a file that was written lists the module's revision.
* `CountExact`: `count` asks for exactly what the next update of that file takes.

The generator hands out numbers in the order of the ranges' entry points and skips
those in use. The invariant says where it is: the numbers in use are those taken over
from the file and those given so far; the ones given lie behind the generator or
were in use; the ranges still to come are disjoint from those behind. So nothing
ahead is taken, and what memory took over carries the file's numbers unchanged
(that gives permanence). A crash leaves an empty file, which no later run reads.
`CountExact` compares a sum made in one run with what a later run finds one number
at a time. `CountInv` joins them: no number of the ranges lies behind the generator
without being in use (`Behind`), the file counted is still as it was (`Counted`), and
the update's ranges hold as many numbers more as it was given (`Extended`). When the
generator is at the end, all numbers are in use; when the items are done, there were
enough: both are cardinalities of finite sets, and that `Allocated` is the number
of numbers in disjoint ranges is an induction over the ranges (`Least` again).
The assumption: the files found have finitely many items and natural numbers in
their ranges. The program
does not check that (`sid.py:536-558`, a negative entry point passes), so a found file
that has them is outside of the theorems.

### ResolveProofs

* `RecursionIsBounded`: `CallsAreDistinct`.
* `ImportsAreFirst`: `ImportsFirst`.
* `CyclesAreReported`: `CyclesReported`.
* `AlarmsAreTrue`: `NoFalseAlarm`.

All four properties of the run `resolve`, for any number of definitions with any
number of references. The argument for the cycles: definitions are done in an
order in which what each refers to was settled (done, missing or reported) before
it (`DoneInOrder`); so its place in `done` falls along every edge to a definition that was not
reported, and no cycle has none that was. `Linked`, `Passed` and `Seen` carry this through the
middle of a validation: what an active function has passed is settled, and what it
is waiting for is the next one on the stack. The stack is no longer than the document
since its functions are distinct. For the absence of false alarms: a sound document
has a rank that falls along the active calls, so no reference returns to an active
one; and a reference is without its definition only while it waits, or after its
target's cycle was reported. The strengthening was model-checked as an
invariant on the run's instance (3.7 million states) before it was proved.

### YangTypesProofs

* `SoundRestrictionsNarrow`: `Spec => []RestrictionsNarrow`.
* `FittingRestrictionsAccepted`: `Spec => []FittingAccepted`.
* `LayersTight`: `Spec => []IInv`, on which both rest.
* `SoundDefaultsFit`: `Spec => []DefaultsFit`.
* `DefaultsAreMeant`: `Spec => []DInv`, on which it rests, with `LayersTight`.

For any limits, any statements of any number of parts and chains of any length.
`common_restriction` compares a restriction with the last one before it and asks of
the layers below only whether the low end is valid. That this is enough is what
`IInv` says: as long as there is no error and the chain is `Exact`, its last restriction is
`Tight` - its limits are the ends of the set `L` asked for so far, its parts, read by
these limits, ascend and lie in `L`, and between the limits they are `L`. A further
range then is a list of parts that ascend (`validate_ranges`, an induction over the parts
by `Climb`), each of which begins in one part of the last layer and ends no higher
than it: so nothing in a gap is taken (`Narrows`), and the new layer is tight again. For
the other direction (`FitsAccepted`) a part within one piece of `L` is found in the
part of that piece, and no step of the loop objects. The other checks of a type
statement leave the layers of numbers alone (`NumberStatement`), and layers that are not
of numbers never become so (`OtherStatement`); a decimal64 is the built-in
type before its fraction-digits and a chain of numbers after it (`Undecided`, `Decided`).

The invariant was model-checked on the run's instance (201996 states) first. The
properties had held there with `WordAsLimit` as their only exception; the attempt to
prove that the last layer stays tight failed where a part of the base ends in `max`,
and a third restriction showed it (`Overshoots`).

For the defaults the last layer need not be tight, so chains that overshoot are
included: `DInv` asks that the layers take no number that was not asked for (`Loose`,
kept by `LooseMove`), that they have the `Shape` of their type - the first one as the
built-in type made it, each enum or bit of a restriction one of the restriction before
(`AssignedIs`), the bases of an identityref identities that exist (`ExistingIs`) - and
that the members of a union have such a shape too (`MemberShape`). A default that is not
none has a text that it means (`Means`), and is valid for the layers of now: `ReadMeans` when it is
given, and when it is inherited because a typedef keeps the first layer and the value is
asked for again (`TookHolds`). What a text means is defined apart from how the code reads it:
digits weighed by powers of the base against a loop that multiplies (`WeightedIsPositional`,
`IntMeans`, `DecimalMeans`), and derivation from an identity, as the least set closed under bases,
against a search depth first that shares its marks (`FoundDerives`: whatever the search has
entered lies in each closed set). The value of a union is one that a member reads from the same
text (`MemberFits`).

The assumptions: the limits lie between the two keywords and around zero; the
parts of a statement are ends with an optional second one, as the syntax of a range gives
them; fraction digits and digits are natural numbers; enums, bits and bases come in
sequences; there are finitely many identities; and the types are those that `BuiltIns` may
hold (`TypeNames`), or a leafref as a member of a union.

### Only model-checked

* `Terminates` of `CoapReq`, as all liveness (see below).
* `NoPhantom` of `Mup1`: it is not true of every frame. 16 bits of ones' complement sum, or 32
  of CRC, do not tell all damaged frames from what they may have been; for the run's
  payloads, and one or two damaged bytes, they do.
* `CoapFrame`, `Mup1cc`, `YangEnc`, `YangSchema`, `UpdateCheck`, `Leafref`,
  `SchemaTree`: recursion over trees and texts, with RECURSIVE operators, for
  which the prover has no arithmetic and set backend. Induction itself is not what is
  missing: over numbers it is made with the least counterexample (`Least`), which is how
  recursive functions along a sequence are proved about in `Mup1`, `EventLoop` and
  `SidFile`. Over trees there is no such number at hand.
* All liveness: `ENABLED` and fairness are outside the prover's reach.

## 5. Where code and comments disagree

One disagreement has a run: `dtls_reentered`. A retransmission by `Coap`, in the
middle of a poll of `do_handshake`, enters it again; its own check
(`dtls.rb:571`) fails and a handshake that was only slow is given up.

Seen while reading and modelling, without a run of their own. Where one of these
matters to a property, the property names the exception.

On the line:

* `coap.rb:113` giving up answers `(nil, nil)`, of which the comment at `coap.rb:98` says "we
  are done - you can use the result", but leaves class 2.xx of the block before and a part
  of the payload in it; `mup1ct` prints such a result as a success. (`SuccessIsWhole`
  without `~gaveUp` fails by it.) `coap.rb:88` an error message is cut after its first block; `coap.rb:63` a frame after the end
  makes a finished request send again.
* `mup1.rb:262` console text before or behind a frame in a read is dropped;
  `mup1.rb:268` an announcement is never noticed, so errors of the checksum are never
  logged.
* `mup1ct:885` waiting for traces raises when no timer is left; `Dut#sleep`
  (`dut.rb:46`) calls a method that does not exist.
* `dtls.rb:499` discards the ephemeral key, which only the constructor makes: a
  second handshake calls a method of `nil`.
* `frame/coap.rb:141` and `163`: an option whose distance or length is 269 or more
  raises a TypeError; `@parse_error` is looked at by nobody; a token would be counted
  in the header and not written; an empty payload behind its marker is accepted.
* `coap.rb:136-149`: RFC 7252 (6.4) has path and query percent-decoded. The path is sent as it
  is written, without its empty segments; the query is sent as a form encodes it, `a=` as
  `a`, and what is no UTF-8 as the encoding of U+FFFD (`c=%c3` as `c=%EF%BF%BD`).
* `uboot.rb`: ticks leave prompts that end the next `run` early.
* `mup1cc`: a run stopped while it writes leaves an empty schema file, on which every later
  run raises; one stopped while it writes the log leaves it empty; two that append
  lose a step; logging a
  step without a response raises; `--log-steps ""` replays all.

Encoder and schema (Ruby):

* `yang-enc.rb:351` chooses a member of a union by another reading than the JSON
  schema (the comment at `:352` says that one is guaranteed to match): int32 and int64 decode to the other JSON type, binary
  goes by the length of its base64 text, nested unions never match, instance-identifiers
  cannot be decoded, an identity without prefix becomes a tag of nothing.
* decimal64 with a leading zero before 8 or 9 aborts (`Integer("08")`); one without
  a digit, as `""` and `"."`, passes the pattern (`yang-enc.rb:1151`) and is encoded as 0; decoding by
  `to_f` loses digits; ranges of int64 and decimals are not in the JSON schema.
* In paths keys that are false or nil are dropped and a missing key shifts those
  behind it; leafref keys to integers stay text; `[null]` is written `[nil]`.
* An rpc with input and output encodes only the first; its SID is not restored after
  an exception; an ipatch may address what is not configuration; paths of fetch are
  not validated; instance-identifier leafs use the default schema; anydata is nil.
* `yang-schema.rb`: reading and writing the cache file are not protected.
* `yang-utils.rb`, each a case of `Gap`: names of top-level uses lack their prefix;
  a module that augments its own tree raises; a shorthand augment of a choice makes
  no case; prefixes are lost below a choice that another module augments and below
  top-level choices, which are not flattened; nodes of another module below a node
  are renamed; `deviate replace config` leaves the children, `add` and `delete` raise;
  predicates of leafref paths are removed greedily, with what stands between two of
  them; paths through choices, to top-level siblings or to another module's top raise.
* `yang-utils.rb`, in no document of the run: `refine` is ignored, and leafrefs in unions
  are not resolved.

pyang:

* `sid.py:1078` a second `--sid-finalize` is a KeyError; an update with only a new
  revision says "already up to date" (`sid.py:406-412`); `sid.py:1119` a check with
  registration information is a TypeError; negative numbers in a file that is read
  are accepted (`sid.py:538-547`).
* `statements.py:1819` an augment through a placeholder below a choice depends on the
  order (the docstring at `:1764` lets a later augment make the node); `statements.py:1349-1350`
  references behind a decided `or` or `and` are not looked at; circular imports end with
  exit code 1 and no message in one order.
* Types: a lone `min` or `max` is kept as a word, and restricting it raises or never
  matches; `types.py:450` does not compare the high end where the part of the base ends
  in `max`, so behind `1..max` of an int8 `2..200` is taken, and a further `max` stands
  for 200 and takes nothing (`Overshoots`); `types.py:338` accepts
  `min | 1..3`; `range "1.5"` on a derived integer is a TypeError; a base out of scope
  is an AttributeError in a derived identity; a part over two adjacent parts is
  rejected; defaults `1_0` and `0x-5` are accepted; a default under if-feature is
  reported in derived enumerations only.
* Schema tree: a node added late through a placeholder keeps its config; a duplicate
  by another module escapes in two cases, a mandatory node below a container or choice
  of the augment always; deviations to config true leave children of lists false and
  raise at the top (`statements.py:2370`); `not-supported` of a default case, of the
  leaf of a unique or of a leafref's target, and config false on a key, are not checked
  again; a refine can reach a sibling outside of its grouping.
* The update check (each a case of `Gap`): lengths and patterns are not compared (the
  FIXME at `check_update.py:766`); `min` and `max` in the old range are read with the
  new type's ends; a leafref may move to a leaf of the same name farther down
  (`:797-813`); the values of derived enums are those of the new typedef; a typedef's
  default may change unseen; `mandatory` of an anydata, a `when` removed from what is
  mandatory, a `must` on a new container without presence, and the `when` and
  `if-feature` of an augment are not compared. A statement that has the same `must`
  or base twice raises a ValueError (`:513-517`, `:815-826`).
* Leafrefs: `deref()` of itself never ends (`statements.py:2927`); a path behind
  `deref(a)` may be taken for one without it; a key named in two predicates without
  prefix escapes (`2866`); an absolute path does not look into a choice at the top
  and accepts its name (`2791`); `../i` in an output finds the input's leaf
  (`util.py:148`).

## 6. Not modelled

* Option parsing, printing and the opening of ports in the scripts; `dbgreg`,
  `bc2cbor`, CBOR diagnostics and the container scripts: straight-line, no state of
  their own.
* The U-Boot console: one prompt and one timer, in the pattern of `EventLoop`.
* The ciphers under DTLS, regular expressions of patterns, the CRC table: libraries or
  pure functions whose result the models take as given.
* pyang's parsers (tokens and tables; `yacc.py` is third-party and the tables are
  generated), its search for module files, its translators and its output and lint
  plugins: text before and after the statements with which the models begin.
* The matching of cardinalities in `grammar.py`: documents are taken to be
  grammatical.
* In the update check: reading the old module and its deviations, prefixes in names,
  and binary and instance-identifier, of which it compares nothing.
* Inside the modelled parts: collisions of message ids, a server that changes the
  block size or the response while it is read, and the frame lengths of 300 bytes
  in `CoapReq`; submodules, notifications, anydata, features and status, must and
  when, max-elements in `SchemaTree`; binary and instance-identifier in
  `YangTypes`; identities, descriptions, defaults and patterns in `YangSchema`;
  the printed lists, the registration information and the upgrade of old formats in
  `SidFile`.

Five hazards of `PROJECT.json` are real and no property covers them: a request that is
given up and looks like a success (`coap.rb:113`; the code is so, see section 5), a server that
answers with smaller blocks than asked for (`coap.rb:190`; the model's device does not),
a CoAP frame beyond the 300 bytes of Mup1 (`mup1.rb:292`; bodies are counted in
`CoapReq` and never encoded), the second handshake that has no ephemeral key
(`dtls.rb:499`; the tool ends, and nothing in the code promises otherwise), and a kill
between emptying and writing a SID file (`sid.py:1083`; nothing protects it, and the torn
file is at least not read). Others are covered in part: the wait for traces does poll
without a timer and is the exception of `PollHasTimeout`; a device that always has a
chunk ready is excluded by `MaxInput`.

## 7. What is left

* `SecureChannel`, an abstract specification for `Dtls`: data in order, only after
  both Finished.
* `Uboot`: prompt detection over split reads, `wait`, `run`, `inject`.
* Composition of `Coap` over `Mup1`: the link of `CoapReq` shown to be what `Mup1`
  offers. `Resync` is its first half; `NoPhantom` only holds up to the checksum.
* Proofs about the encoder: `YangEnc` with recursive functions on the length of a
  document in place of its RECURSIVE operators.
