-------------------------------- MODULE Mup1 --------------------------------
(***************************************************************************)
(* The MUP1 framing of support/libeasy/handler/mup1.rb: the encoder of     *)
(* Mup1#tx, the byte-wise receiver Mup1#rx_sm with its escapes, its        *)
(* padding and its checksum, the raw buffer that carries console text, and *)
(* the timer that resets the receiver.                                     *)
(*                                                                         *)
(* The device at the other end and the serial line are not part of the     *)
(* repository: the device encodes its frames as Mup1#tx does, prints       *)
(* console text between them, and the line loses or changes bytes.         *)
(*                                                                         *)
(* Bytes are the program's.  A byte in flight also carries where it comes  *)
(* from, which the receiver does not look at; the properties do.           *)
(***************************************************************************)
EXTENDS Integers, Sequences

CONSTANTS
  Setups,        \* what the tool is configured to, and how far a behaviour goes
  Crc(_)         \* the CRC-32 of a sequence of bytes (a number)

(* A setup is a record:                                                    *)
(*   checksum  "internet" or "crc32", of both sides                        *)
(*   frames    the frames the device may send                              *)
(*   texts     the bytes of console text                                   *)
(*   maxData   1024: data bytes after which the receiver drops a frame     *)
(*   rawCap    10240: the raw buffer takes no chunk once it is this full   *)
(*   txLimit   300: the largest payload Mup1#tx accepts                    *)
(*   chunk     bound: bytes one read takes (128 in dut.rb:81)              *)
(*   sent, text, damage, stalls                                            *)
(*             bounds: frames and bytes of text of the device, bytes the   *)
(*             line loses or changes, times it falls silent                *)
(* A type is a letter and never needs an escape.  A frame of the largest   *)
(* payload, every byte of it escaped, is shorter than what the receiver    *)
(* drops: 2 * 300 + 10 of 1024.                                            *)
ASSUME Mup1Assumption ==
  \A u \in Setups :
    /\ u.checksum \in {"internet", "crc32"}
    /\ u.chunk \in Nat \ {0}
    /\ u.maxData \in Nat /\ u.txLimit \in Nat /\ 2 * u.txLimit + 10 <= u.maxData
    /\ u.texts \subseteq 0 .. 255
    /\ \A f \in u.frames :
         /\ f.type \in (0 .. 255) \ {62, 60, 92, 0, 255}
         /\ f.data \in Seq(0 .. 255) /\ Len(f.data) <= u.txLimit
         /\ Crc(<<62, f.type>> \o f.data \o <<60>>) \in Nat

VARIABLES
  setup,    \* chosen once
  wire,     \* bytes in flight to the tool
  m,        \* the receiver, see Fresh
  on,       \* @on: FALSE when all that arrives is console text; set once
  armed,    \* @timeout_self is set
  console,  \* history: what was handed to the console handlers
  sent,     \* history: the frames sent
  hurt,     \* history: frames the line damaged, and the one behind each
  apart,    \* history: frames with text directly before them
  printed,  \* how many bytes of text the device printed
  damage, stalls

vars == <<setup, wire, m, on, armed, console, sent, hurt, apart, printed, damage, stalls>>

----------------------------------------------------------------------------
(* Bytes                                                                   *)

SOF == 62
EOF == 60
ESC == 92
Esc00 == 48   \* MUP1_00
EscFF == 70   \* MUP1_FF

Special == {SOF, EOF, ESC, 0, 255}

\* Every byte of the payload as it goes over the line.
Escaped(b) ==
  IF b \in Special
  THEN <<ESC, IF b = 0 THEN Esc00 ELSE IF b = 255 THEN EscFF ELSE b>>
  ELSE <<b>>

\* Payloads of even size end in two EOF with the internet checksum.
Padded(data) == setup.checksum = "internet" /\ Len(data) % 2 = 0
Ending(data) == IF Padded(data) THEN <<EOF, EOF>> ELSE <<EOF>>

\* What the checksum is computed over: the frame without its escapes.
Plain(type, data) == <<SOF, type>> \o data \o Ending(data)

\* checksum_calc_internet: the ones' complement sum of 16-bit words, the carry
\* added twice, as four hexadecimal digits.
WordSum(s) ==
  LET sum[k \in 0 .. Len(s) \div 2] ==
        IF k = 0 THEN 0 ELSE sum[k - 1] + (256 * s[2 * k - 1]) + s[2 * k]
  IN  sum[Len(s) \div 2]
Carried(sum) == (sum \div 65536) + (sum % 65536)
Hex(d) == IF d < 10 THEN 48 + d ELSE 87 + d
Internet(s) ==
  LET c == (65535 - Carried(Carried(WordSum(s)))) % 65536
  IN  <<Hex(c \div 4096), Hex((c \div 256) % 16), Hex((c \div 16) % 16), Hex(c % 16)>>

\* to_base128: the digits are numbers into BASE128_ENCODE, which has no special
\* byte; only a table's worth of them matters here.
Base128(d) ==
  IF d < 11 THEN 47 + d ELSE IF d < 39 THEN 52 + d
  ELSE IF d < 65 THEN 58 + d ELSE 126 + d
ToBase128(v) ==
  <<Base128((v \div 268435456) % 128), Base128((v \div 2097152) % 128),
    Base128((v \div 16384) % 128), Base128((v \div 128) % 128), Base128(v % 128)>>

ChkSize == IF setup.checksum = "crc32" THEN 5 ELSE 4
Checksum(type, data) ==
  IF setup.checksum = "crc32" THEN ToBase128(Crc(Plain(type, data)))
  ELSE Internet(Plain(type, data))

\* Mutant: a zero byte is not escaped.
Stuffed_PlainZero(data) ==
  LET upTo[k \in 0 .. Len(data)] ==
        IF k = 0 THEN <<>>
        ELSE upTo[k - 1] \o (IF data[k] = 0 THEN <<0>> ELSE Escaped(data[k]))
  IN  upTo

\* The first k bytes of the payload as they go over the line, for every k.
Stuffed(data) ==
  LET upTo[k \in 0 .. Len(data)] ==
        IF k = 0 THEN <<>> ELSE upTo[k - 1] \o Escaped(data[k])
  IN  upTo

\* Mup1#tx.
Enc(type, data) ==
  <<SOF, type>> \o Stuffed(data)[Len(data)] \o Ending(data) \o Checksum(type, data)

----------------------------------------------------------------------------
(* The receiver                                                            *)

\* got: history, the frames handed up.
Fresh == [state |-> "init", type |-> 0, data |-> <<>>, chk |-> <<>>,
          raw |-> <<>>, got |-> <<>>]

\* rx_sm_sof
Sof(s) == [s EXCEPT !.state = "sof", !.type = 0, !.data = <<>>, !.chk = <<>>]

ToInit(s) == [s EXCEPT !.state = "init"]
Collect(s, b) == [s EXCEPT !.state = "data", !.data = Append(@, b)]

InData(s, b) ==
  IF Len(s.data) > setup.maxData THEN ToInit(s)
  ELSE CASE b = ESC -> [s EXCEPT !.state = "esc"]
         [] b = EOF -> [s EXCEPT !.state = IF Padded(s.data) THEN "eof2" ELSE "chk0"]
         [] b = SOF -> Sof(s)
         [] b \in {0, 255} -> ToInit(s)
         [] OTHER -> Collect(s, b)

InEsc(s, b) ==
  CASE b \in {SOF, ESC, EOF} -> Collect(s, b)
    [] b = Esc00 -> Collect(s, 0)
    [] b = EscFF -> Collect(s, 255)
    [] OTHER -> ToInit(s)

\* A frame whose checksum matches clears the raw buffer and is handed up.  The
\* flag @announce_received only decides about a log message: it is left out.
Deliver(s, of) ==
  [s EXCEPT !.raw = <<>>,
            !.got = Append(@, [type |-> s.type, data |-> s.data, of |-> of])]

\* Mutant: the checksum is not compared.
InChk_NoCompare(s, x) ==
  LET t == [s EXCEPT !.chk = Append(@, x.b)]
  IN  IF Len(t.chk) < ChkSize THEN t
      ELSE Deliver(ToInit(t), x.of)

InChk(s, x) ==
  LET t == [s EXCEPT !.chk = Append(@, x.b)]
  IN  IF Len(t.chk) < ChkSize THEN t
      ELSE IF t.chk = Checksum(t.type, t.data) THEN Deliver(ToInit(t), x.of)
      ELSE ToInit(t)

\* rx_sm with one byte.
RxSm(s, x) ==
  CASE s.state = "init" -> IF x.b = SOF THEN Sof(s) ELSE s
    [] s.state = "sof"  -> [s EXCEPT !.state = "data", !.type = x.b]
    [] s.state = "data" -> InData(s, x.b)
    [] s.state = "esc"  -> InEsc(s, x.b)
    [] s.state = "eof2" -> [s EXCEPT !.state = IF x.b = EOF THEN "chk0" ELSE "init"]
    [] s.state = "chk0" -> InChk(s, x)

\* The receiver after all of xs.
RxAll(s, xs) ==
  LET after[k \in 0 .. Len(xs)] == IF k = 0 THEN s ELSE RxSm(after[k - 1], xs[k])
  IN  after[Len(xs)]

\* The raw buffer takes a chunk whole, before the receiver looks at it.
Buffered(s, xs) == IF Len(s.raw) < setup.rawCap THEN [s EXCEPT !.raw = @ \o xs] ELSE s

\* dispatch_raw
DispatchRaw(s) ==
  /\ console' = console \o s.raw
  /\ m' = [s EXCEPT !.raw = <<>>]

\* Mup1#rx with what one read took from the line.
Rx ==
  /\ wire # <<>>
  /\ \E n \in 1 .. setup.chunk :
       /\ n <= Len(wire)
       /\ LET xs == SubSeq(wire, 1, n)
              s  == Buffered(m, xs)
          IN  IF on
              THEN /\ m' = RxAll(s, xs)
                   /\ armed' = TRUE
                   /\ UNCHANGED console
              ELSE /\ DispatchRaw(s)
                   /\ UNCHANGED armed
       /\ wire' = SubSeq(wire, n + 1, Len(wire))
  /\ UNCHANGED <<setup, on, sent, hurt, apart, printed, damage, stalls>>

\* The frames that damage to the first byte of xs may cost: its own, and the one
\* behind; damaged text may cost the frame behind it.
Reached(xs) ==
  IF xs = <<>> THEN {}
  ELSE IF xs[1].of = 0 THEN {xs[1].at} ELSE {xs[1].of, xs[1].of + 1}

Expire(s) == DispatchRaw(ToInit(s))

\* Mup1#timeout_work.  With a frame half received the frame is lost.
Timeout ==
  /\ armed
  /\ stalls < setup.stalls
  /\ armed' = FALSE
  /\ IF on THEN Expire(m) ELSE UNCHANGED <<m, console>>
  /\ hurt' = hurt \cup Reached(wire)
  /\ stalls' = stalls + 1
  /\ UNCHANGED <<setup, wire, on, sent, apart, printed, damage>>

----------------------------------------------------------------------------
(* The device and the line                                                 *)

\* of: the frame the byte belongs to, 0 for text; at: its place in the frame, for
\* text the frame it stands before.
Tagged(bs, i) == [k \in DOMAIN bs |-> [b |-> bs[k], of |-> i, at |-> k]]
TextByte(b) == [b |-> b, of |-> 0, at |-> Len(sent) + 1]

Send ==
  /\ Len(sent) < setup.sent
  /\ \E f \in setup.frames :
       /\ sent' = Append(sent, f)
       /\ wire' = wire \o Tagged(Enc(f.type, f.data), Len(sent) + 1)
  /\ UNCHANGED <<setup, m, on, armed, hurt, apart, console, printed, damage, stalls>>

\* A ">" in the text may be taken for the start of a frame.
Text ==
  /\ printed < setup.text
  /\ \E b \in setup.texts :
       /\ wire' = Append(wire, TextByte(b))
       /\ hurt' = IF b = SOF THEN hurt \cup {Len(sent) + 1} ELSE hurt
  /\ apart' = apart \cup {Len(sent) + 1}
  /\ printed' = printed + 1
  /\ UNCHANGED <<setup, m, on, armed, console, sent, damage, stalls>>

Lose ==
  /\ damage < setup.damage
  /\ wire # <<>>
  /\ wire' = Tail(wire)
  /\ hurt' = hurt \cup Reached(wire)
  /\ damage' = damage + 1
  /\ UNCHANGED <<setup, m, on, armed, console, sent, apart, printed, stalls>>

Change ==
  /\ damage < setup.damage
  /\ wire # <<>>
  /\ \E b \in Special \cup {Esc00, EscFF} :
       /\ b # Head(wire).b
       /\ wire' = <<[Head(wire) EXCEPT !.b = b]>> \o Tail(wire)
  /\ hurt' = hurt \cup Reached(wire)
  /\ damage' = damage + 1
  /\ UNCHANGED <<setup, m, on, armed, console, sent, apart, printed, stalls>>

----------------------------------------------------------------------------
Init ==
  /\ setup \in Setups
  /\ wire = <<>>
  /\ m = Fresh
  /\ on \in BOOLEAN
  /\ armed = FALSE
  /\ console = <<>>
  /\ sent = <<>>
  /\ hurt = {}
  /\ apart = {}
  /\ printed = 0
  /\ damage = 0
  /\ stalls = 0

Next == Rx \/ Timeout \/ Send \/ Text \/ Lose \/ Change

Spec == Init /\ [][Next]_vars

----------------------------------------------------------------------------
(* Properties                                                              *)

\* The checksum is computed over the frame without its escapes, and the padding
\* is a byte that payload may hold: a payload of odd size that ends in "<" and
\* loses the escape of it reads as the payload without it.
ReadsAs(f, g) ==
  /\ g.type = f.type
  /\ g.data = f.data \/ (~Padded(f.data) /\ Padded(g.data) /\ f.data = Append(g.data, EOF))

\* A frame handed up is one the device sent, each at most once and in order: a
\* byte lost or changed on the line never makes another frame of it, but for a
\* final "<".
NoPhantom ==
  /\ \A i \in DOMAIN m.got :
       m.got[i].of \in DOMAIN sent /\ ReadsAs(sent[m.got[i].of], m.got[i])
  /\ \A i, k \in DOMAIN m.got : i < k => m.got[i].of < m.got[k].of

\* Frames that may be lost: those the damage reached, and behind them frame by
\* frame as long as text stands between; a receiver that is out of step but not in
\* the middle of an escape or a trailer finds the frame that follows at once, and
\* text may bring it there again.
Spoiled(i) == \E h \in hurt : h <= i /\ (h + 1) .. i \subseteq apart

HandedUp(s, i) ==
  \E k \in DOMAIN s.got : s.got[k] = [type |-> sent[i].type, data |-> sent[i].data, of |-> i]

\* Whatever the payload, the text around it and how reads cut the stream, a frame
\* the line left alone is handed up as it was sent, and damage costs at most one
\* frame behind the damaged one, and those that text keeps apart from it.
Resync == on /\ wire = <<>> => \A i \in DOMAIN sent : Spoiled(i) \/ HandedUp(m, i)

=============================================================================
