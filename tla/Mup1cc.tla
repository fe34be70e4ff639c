------------------------------ MODULE Mup1cc ------------------------------
(***************************************************************************)
(* The command-line client support/scripts/mup1cc: each run asks its       *)
(* device for the checksum of its YANG library, takes the schema of that   *)
(* checksum from a cache that all runs share, or makes it from the catalog *)
(* of that checksum and puts it there, and then makes one request, which   *)
(* it may append to a log, or replays steps of a log.                      *)
(*                                                                         *)
(* Runs of several devices and of several users' shells go on at the same  *)
(* time and share the cache and the log; each can be stopped anywhere.     *)
(* Writing a file is two steps, it is emptied and then written at once.    *)
(* Requests are frames of CoapFrame; their blocks and their retransmission *)
(* are CoapReq's, so that here a request and its response are one step.    *)
(* What schema and data are encoded to is YangEnc's; here a payload names  *)
(* the schema it was encoded with and the document.                        *)
(***************************************************************************)
EXTENDS CoapFrame

CONSTANTS
  Shell,     \* where runs are started, one after the other
  Dut,       \* devices
  Checksum,  \* checksums a YANG library may have: numbers
  Plans,     \* what is run: functions from Shell to sequences of options
  Asks,      \* requests any other script makes
  Messages,  \* messages a device may send
  MaxUpgrade \* bound: how often the software of a device is changed

ASSUME MaxUpgradeAssumption == MaxUpgrade \in Nat

\* Documents are numbers; 0 is none.

VARIABLES
  plan,      \* the runs that are still to be started
  run,       \* the run of each shell
  library,   \* the checksum of each device
  upgrades,
  cache,     \* LOCAL_SCHEMA_BASE_DIR: the schema file of each checksum
  log,       \* the log file
  wire       \* the frames of the last request of any other script

vars == <<plan, run, library, upgrades, cache, log, wire>>

NoFile == [there |-> FALSE, whole |-> FALSE, data |-> <<>>]
Emptied == [there |-> TRUE, whole |-> FALSE, data |-> <<>>]
Holding(data) == [there |-> TRUE, whole |-> TRUE, data |-> data]

\* A run: sum is the checksum it was told, schema the one it uses (the checksum
\* whose catalog it was made of), todo the steps it is to replay, old what it read
\* of the log, out what it is to write; sent is history: what the device executed.
Idle == [pc |-> "none", opt |-> <<>>, sum |-> 0, schema |-> <<>>, todo |-> <<>>,
         old |-> <<>>, out |-> <<>>, sent |-> <<>>]

Init ==
  /\ plan \in Plans
  /\ run = [s \in Shell |-> Idle]
  /\ library \in [Dut -> Checksum]
  /\ upgrades = 0
  /\ cache = [c \in Checksum |-> NoFile]
  /\ log = NoFile
  /\ wire = <<>>

Dead(r) == r.pc \in {"none", "dead", "done"}
Become(s, r) == run' = [run EXCEPT ![s] = r]

----------------------------------------------------------------------------
(* Options and input                                                       *)

\* A query parameter is "c=..." or "d=...", each once.
Duplicate(query) ==
  \E i, k \in DOMAIN query : i < k /\ query[i][1] = query[k][1]

\* parse_step_ranges: "5-7" and "7-5"; a single step n is n-n.
Steps(ranges) ==
  FlattenSeq([i \in DOMAIN ranges |->
    LET a == ranges[i][1]
        b == ranges[i][2]
    IN  IF a <= b THEN [k \in 1 .. (b - a + 1) |-> a + k - 1]
        ELSE [k \in 1 .. (a - b + 1) |-> a - k + 1]])

\* The format in which input is read or output written: what was forced, else what
\* the name of the file ends in, else YAML.
FormatOf(forced, file) == IF forced # "" THEN forced ELSE IF file # "" THEN file ELSE "yaml"

\* input_data_read: JSON.parse takes no YAML, YAML.load takes JSON too.
input_data_read(o) ==
  LET format == FormatOf(o.format, o.ends)
  IN  IF format = "json" /\ o.written = "yaml" THEN [doc |-> 0, raised |-> TRUE]
      ELSE [doc |-> o.doc, raised |-> FALSE]

HasBody(method) == method \in {"fetch", "ipatch", "put", "post"}
Input(o) == IF HasBody(o.method) THEN input_data_read(o) ELSE [doc |-> 0, raised |-> FALSE]

\* "c", and behind it "?" or "&" with each parameter.
C == <<99>>
url_with_query_params(o) ==
  IF o.query = <<>> THEN [url |-> C, raised |-> FALSE]
  ELSE [url |-> C \o FlattenSeq([i \in DOMAIN o.query |->
                      <<IF i = 1 THEN Question ELSE Ampersand>> \o o.query[i]]),
        raised |-> o.method \notin {"fetch", "get"}]

Code(method) ==
  CASE method = "fetch" -> CODE_FETCH
    [] method = "ipatch" -> CODE_IPATCH
    [] method = "get" -> CODE_GET
    [] method = "put" -> CODE_PUT
    [] method = "post" -> CODE_POST
    [] OTHER -> CODE_DEL

CT_YANG_DATA == 140
CT_IDENTIFIERS == 141
CT_INSTANCES == 142

ContentFormat(method) ==
  CASE method = "fetch" -> CT_IDENTIFIERS
    [] method = "put" -> CT_YANG_DATA
    [] OTHER -> CT_INSTANCES

----------------------------------------------------------------------------
(* Requests                                                                *)

\* json_seq2cbor: documents encoded with the SIDs of a schema.
Cbor(schema, doc) == <<schema, doc>>

BlockSize == 256

\* What coap_method_run asks the CoAP client for.
MethodAsk(schema, doc, url, method) ==
  [code |-> Code(method), uri |-> url, accept |-> <<>>, size |-> BlockSize, b2 |-> 0, b1 |-> <<>>,
   ct |-> IF HasBody(method) THEN <<ContentFormat(method)>> ELSE <<>>,
   payload |-> IF HasBody(method) THEN <<Cbor(schema, doc)>> ELSE <<>>]

\* What reaches a device, whatever its message id.
Executed(ask) == initialize(enc(next_step(ask, 0)))

\* The answers of a device: a result, nothing to say, a refusal with a text, and
\* no answer at all, after which the class is nil and the payload is "".
Answers ==
  {[class |-> 2, doc |-> 3], [class |-> 2, doc |-> 0], [class |-> 4, doc |-> 4],
   [class |-> 0, doc |-> 0]}

\* What a method makes of the payload of its response: put and delete look at none,
\* and the text of a refusal is no sequence of what fetch, get or post return, so
\* that reading it as that may raise.
OutputOf(method, a, readable) ==
  IF method \in {"put", "delete"} \/ a.doc = 0 THEN [doc |-> 0, raised |-> FALSE]
  ELSE [doc |-> a.doc,
        raised |-> a.class # 2 /\ method # "ipatch" /\ ~readable]

----------------------------------------------------------------------------
(* The log                                                                 *)

\* A step that is logged; url is <<>> when it is just "c".  was is history: what
\* the device was sent.
Step(o, n, doc, out, a, url, was) ==
  [step |-> n, method |-> o.method, url |-> IF url = C THEN <<>> ELSE url,
   request |-> doc, response |-> out.doc, class |-> a.class, was |-> was]

\* Mutant: the URL is taken for "c" whatever its query.
log_append_Bare(old, o, doc, out, a, url, was) ==
  Append(old, [Step(o, Len(old) + 1, doc, out, a, url, was) EXCEPT !.url = <<>>])

log_append(old, o, doc, out, a, url, was) ==
  Append(old, Step(o, Len(old) + 1, doc, out, a, url, was))

\* YAML.load_file of a file that is not there raises, of an empty one gives no steps.
StepsIn(file) == IF file.whole THEN file.data ELSE <<>>

\* The steps to replay: all, or for each number the first step that has it, if any.
Find(steps, n) ==
  LET found == SelectSeq(steps, LAMBDA x : x.step = n)
  IN  IF found = <<>> THEN <<>> ELSE <<found[1]>>

Chosen(steps, ranges) ==
  IF ranges = <<>> THEN steps
  ELSE FlattenSeq([i \in DOMAIN Steps(ranges) |-> Find(steps, Steps(ranges)[i])])

----------------------------------------------------------------------------
(* A run                                                                   *)

Frozen == UNCHANGED <<library, upgrades, wire>>
Quiet == Frozen /\ UNCHANGED <<plan, cache, log>>

\* OptionParser raises on a parameter that is given twice.
Start(s) ==
  /\ Dead(run[s]) /\ plan[s] # <<>> /\ wire = <<>>
  /\ plan' = [plan EXCEPT ![s] = Tail(@)]
  /\ Become(s, [Idle EXCEPT !.opt = <<plan[s][1]>>,
                  !.pc = IF Duplicate(plan[s][1].query) THEN "dead" ELSE "checksum"])
  /\ Frozen /\ UNCHANGED <<cache, log>>

Opts(s) == run[s].opt[1]

\* fetch_yang_lib_checksum_from_dut raises unless the answer is 2.05.
FetchChecksum(s) ==
  /\ run[s].pc = "checksum"
  /\ \E answered \in BOOLEAN :
       Become(s, IF answered THEN [run[s] EXCEPT !.sum = library[Opts(s).dut], !.pc = "look"]
                 ELSE [run[s] EXCEPT !.pc = "dead"])
  /\ Quiet

\* The name of the schema file of a checksum.
SchemaFile(sum) == sum

\* get_yang_schema: the file is there or is to be made.
Look(s) ==
  /\ run[s].pc = "look"
  /\ Become(s, [run[s] EXCEPT !.pc = IF cache[SchemaFile(run[s].sum)].there
                                     THEN "load" ELSE "download"])
  /\ Quiet

\* Marshal.load raises on what is not whole.
Load(s) ==
  /\ run[s].pc = "load"
  /\ LET file == cache[SchemaFile(run[s].sum)]
     IN  Become(s, IF file.whole THEN [run[s] EXCEPT !.schema = file.data, !.pc = "begin"]
                   ELSE [run[s] EXCEPT !.pc = "dead"])
  /\ Quiet

\* download_remote_catalog takes the first remote that has the catalog and raises
\* when none has; the schema is made of what it holds.
Download(s) ==
  /\ run[s].pc = "download"
  /\ \E found \in BOOLEAN :
       Become(s, IF found THEN [run[s] EXCEPT !.schema = <<run[s].sum>>, !.pc = "open"]
                 ELSE [run[s] EXCEPT !.pc = "dead"])
  /\ Quiet

\* File.write empties the file and writes it.
OpenSchema(s) ==
  /\ run[s].pc = "open"
  /\ cache' = [cache EXCEPT ![SchemaFile(run[s].sum)] = Emptied]
  /\ Become(s, [run[s] EXCEPT !.pc = "save"])
  /\ Frozen /\ UNCHANGED <<plan, log>>

SaveSchema(s) ==
  /\ run[s].pc = "save"
  /\ cache' = [cache EXCEPT ![SchemaFile(run[s].sum)] = Holding(run[s].schema)]
  /\ Become(s, [run[s] EXCEPT !.pc = "begin"])
  /\ Frozen /\ UNCHANGED <<plan, log>>

\* The log to replay is read, or the input, after which the URL is made.
Begin(s) ==
  /\ run[s].pc = "begin"
  /\ LET o == Opts(s)
         refused == IF o.mode = "run" THEN ~log.there
                    ELSE Input(o).raised \/ url_with_query_params(o).raised
     IN  Become(s, IF refused THEN [run[s] EXCEPT !.pc = "dead"]
                   ELSE [run[s] EXCEPT !.pc = IF o.mode = "run" THEN "replay" ELSE "call",
                           !.old = IF o.mode = "run" THEN StepsIn(log) ELSE <<>>,
                           !.todo = IF o.mode = "run" THEN Chosen(StepsIn(log), o.steps)
                                    ELSE <<>>])
  /\ Quiet

Sent(s, ask) == Append(run[s].sent, Executed(ask))

\* One request of the command line.  Logging it formats the code of the response,
\* which raises when there is none; the log is opened and read before.
Call(s) ==
  /\ run[s].pc = "call"
  /\ \E a \in Answers, readable \in BOOLEAN :
       LET o == Opts(s)
           url == url_with_query_params(o).url
           doc == Input(o).doc
           ask == MethodAsk(run[s].schema[1], doc, url, o.method)
           out == OutputOf(o.method, a, readable)
           after == [run[s] EXCEPT !.sent = Sent(s, ask)]
       IN  Become(s, IF out.raised THEN [after EXCEPT !.pc = "dead"]
                     ELSE IF o.mode = "append"
                          THEN [after EXCEPT !.pc = "append",
                                  !.out = <<doc, out, a, url, Executed(ask)>>]
                          ELSE [after EXCEPT !.pc = "done"])
  /\ Quiet

ReadLog(s) ==
  /\ run[s].pc = "append"
  /\ log' = IF log.there THEN log ELSE Emptied
  /\ LET x == run[s].out
     IN  Become(s, IF x[3].class = 0 THEN [run[s] EXCEPT !.pc = "dead"]
                   ELSE [run[s] EXCEPT !.pc = "openlog",
                           !.old = log_append(StepsIn(log), Opts(s), x[1], x[2], x[3], x[4], x[5])])
  /\ Frozen /\ UNCHANGED <<plan, cache>>

OpenLog(s) ==
  /\ run[s].pc = "openlog"
  /\ log' = Emptied
  /\ Become(s, [run[s] EXCEPT !.pc = "savelog"])
  /\ Frozen /\ UNCHANGED <<plan, cache>>

SaveLog(s) ==
  /\ run[s].pc = "savelog"
  /\ log' = Holding(run[s].old)
  /\ Become(s, [run[s] EXCEPT !.pc = "done"])
  /\ Frozen /\ UNCHANGED <<plan, cache>>

\* log_run of the next step that was chosen.
StepUrl(step) == IF step.url = <<>> THEN C ELSE step.url

Replay(s) ==
  /\ run[s].pc = "replay" /\ run[s].todo # <<>>
  /\ \E a \in Answers, readable \in BOOLEAN :
       LET step == run[s].todo[1]
           ask == MethodAsk(run[s].schema[1], step.request, StepUrl(step), step.method)
       IN  Become(s, [run[s] EXCEPT
             !.sent = Sent(s, ask),
             !.todo = Tail(@),
             !.pc = IF OutputOf(step.method, a, readable).raised THEN "dead" ELSE "replay"])
  /\ Quiet

Finish(s) ==
  /\ run[s].pc = "replay" /\ run[s].todo = <<>>
  /\ Become(s, [run[s] EXCEPT !.pc = "done"])
  /\ Quiet

\* A run is interrupted.
Stop(s) ==
  /\ ~Dead(run[s])
  /\ Become(s, [run[s] EXCEPT !.pc = "dead"])
  /\ Quiet

\* The software of a device is changed.
Upgrade ==
  /\ upgrades < MaxUpgrade /\ wire = <<>>
  /\ \E d \in Dut : \E c \in Checksum \ {library[d]} : library' = [library EXCEPT ![d] = c]
  /\ upgrades' = upgrades + 1
  /\ UNCHANGED <<plan, run, cache, log, wire>>

\* Another script makes a request, or reads a message of the device.
Idling == wire = <<>> /\ upgrades = 0 /\ \A s \in Shell : run[s] = Idle /\ plan[s] = <<>>

Request ==
  /\ Idling
  /\ \E ask \in Asks, mid \in {0, 258} :
       LET f == next_step(ask, mid)
       IN  wire' = <<[ask |-> ask, mid |-> mid, frame |-> f, bytes |-> enc(f)]>>
  /\ UNCHANGED <<plan, run, library, upgrades, cache, log>>

Receive ==
  /\ Idling
  /\ \E m \in Messages : wire' = <<[said |-> m, read |-> initialize(RefBytes(m))]>>
  /\ UNCHANGED <<plan, run, library, upgrades, cache, log>>

Next ==
  \/ \E s \in Shell :
       \/ Start(s) \/ FetchChecksum(s) \/ Look(s) \/ Load(s) \/ Download(s)
       \/ OpenSchema(s) \/ SaveSchema(s) \/ Begin(s) \/ Call(s)
       \/ ReadLog(s) \/ OpenLog(s) \/ SaveLog(s) \/ Replay(s) \/ Finish(s) \/ Stop(s)
  \/ Upgrade \/ Request \/ Receive

Spec == Init /\ [][Next]_vars

----------------------------------------------------------------------------
(* Properties                                                              *)

\* What any script of the client sends for a URI is a message of RFC 7252 with the
\* formats and blocks asked for, whatever their lengths, and the path and the query
\* that RFC 7252 reads in the URI, with these exceptions.  Path: empty segments are
\* left out, and percent-encodings are sent as they are.  Query: arguments without
\* name and value are left out, and one with anything else than letters, digits and
\* "*-._" around one "=", or with nothing behind the "=", is sent form-encoded: who
\* reads it as a form reads name and value of the URI's, where what is no UTF-8 is
\* replaced.  And of any message of a device the client reads what was said (but for
\* options of 269 bytes and more and those 269 numbers apart, on which it raises).
FramesAreUnderstood ==
  \A i \in DOMAIN wire :
    IF "said" \in DOMAIN wire[i] THEN ReadAs(wire[i].said, wire[i].read)
    ELSE Understood(wire[i].ask, wire[i].mid, wire[i].frame, wire[i].bytes)

\* A frame with another document in the place of its own, encoded with schema sum.
With(f, sum) == IF f.payload = <<>> THEN f ELSE [f EXCEPT !.payload[1] = sum]

\* The numbers of a range in their order.
Counted(a, b) ==
  IF a <= b THEN SetToSortSeq(a .. b, LAMBDA x, y : x < y)
  ELSE SetToSortSeq(b .. a, LAMBDA x, y : x > y)

Wanted(steps, ranges) ==
  IF ranges = <<>> THEN steps
  ELSE LET numbers == FlattenSeq([i \in DOMAIN ranges |-> Counted(ranges[i][1], ranges[i][2])])
           there == SelectSeq(numbers, LAMBDA n : n \in DOMAIN steps)
       IN  [i \in DOMAIN there |-> steps[there[i]]]

\* What a run that is not a replay is asked to send.
CommandLine(o, f) ==
  /\ f.paths = <<C>> /\ f.keys = o.query /\ f.detail = Code(o.method)
  /\ HasBody(o.method) => f.payload[2] = o.doc /\ f.ct = <<ContentFormat(o.method)>>

\* What a run sends is the request of its command line, and a replay sends what
\* each of the chosen steps of the log sent when it was logged, in the order in
\* which they were chosen, none left out: method, URL, query, format and document; and what it
\* sends is encoded with the schema of the checksum that its own device told it.
\* So it is with several runs that share the cache and the log, with runs that are
\* stopped while they write either, and with devices whose software is changed.
SentIsMeant ==
  \A s \in Shell :
    LET r == run[s]
    IN  /\ \A i \in DOMAIN r.sent : r.sent[i].payload # <<>> => r.sent[i].payload[1] = r.sum
        /\ r.opt # <<>> =>
             IF Opts(s).mode # "run" THEN \A i \in DOMAIN r.sent : CommandLine(Opts(s), r.sent[i])
             ELSE LET wanted == Wanted(r.old, Opts(s).steps)
                  IN  /\ Len(r.sent) <= Len(wanted)
                      /\ r.pc = "done" => Len(r.sent) = Len(wanted)
                      /\ \A i \in DOMAIN r.sent : r.sent[i] = With(wanted[i].was, r.sum)
=============================================================================
