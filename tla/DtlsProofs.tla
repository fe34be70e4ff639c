----------------------------- MODULE DtlsProofs -----------------------------
(***************************************************************************)
(* Proofs about Dtls: the channel is used only under keys that the device  *)
(* has agreed to, whatever interrupts the handshakes.                      *)
(*                                                                         *)
(* That the channel counts as secure says nothing by itself of the keys in *)
(* use.  The invariant adds what the handlers hold while they await the    *)
(* device's change of cipher and its Finished, and what can be on the line *)
(* meanwhile: a Finished only of a session that the device agreed to, and  *)
(* under a session's keys no message of a handshake after it.  Each method *)
(* of the handlers has a lemma about what it does to Base and Awaits, each *)
(* action one about the invariant.                                         *)
(*                                                                         *)
(* The second part follows a handshake that nothing disturbs.  It has      *)
(* stages, from Start to Open: each fixes the handlers, the device, what   *)
(* is on the line and the transcript on both sides, and each step of the   *)
(* tool or the device leads from a stage to itself or to the next one.     *)
(***************************************************************************)
EXTENDS Dtls, SequenceTheorems, TLAPS

-----------------------------------------------------------------------------
(* Types *)

\* The types of records, of messages, the states of a handshake.
ContentType == {"handshake", "ccs", "alert", "app"}
MsgType == {"hello", "cookieHello", "verifyRequest", "serverHello", "certificate", "keyExchange",
            "certRequest", "helloDone", "certVerify", "ccs", "finished", "alert", "app"}
HsState == {"idle", "failed", "waitVerifyRequest", "sendCookieHello", "waitServerHello",
            "waitCertificate", "waitKeyExchange", "waitCertRequest", "waitHelloDone",
            "sendCertificate", "waitChangeCipherSpec", "waitFinished"}

Transcript == Seq(MsgType \X Nat \X Nat)
Message == [t : MsgType, seq : Nat, sid : Nat, over : Transcript]
SecOf == [epoch : Nat, key : Nat, n : Nat]
Rec == [ct : ContentType, epoch : Nat, key : Nat, n : Nat, msg : Message]

\* The handlers, see Fresh.
Handlers ==
  [hs : HsState, ekey : BOOLEAN, rx : Nat, tx : Nat, log : Transcript, sid : Nat, key : Nat,
   secure : BOOLEAN, r : SecOf, w : SecOf, pr : SecOf \cup {None}, pw : {None},
   out : Seq(Rec), raised : BOOLEAN]

\* The device.
Server ==
  [cookies : BOOLEAN, sid : Nat, at : 0 .. 6, n : Nat, seq : Nat, log : Transcript, troubles : Nat]

-----------------------------------------------------------------------------
(* The invariant *)

\* Data is under the keys of A.
DataUnder(q, A) == \A i \in 1 .. Len(q) : q[i].ct = "app" => q[i].key \in A

\* A secure channel has the keys of A in both directions; it has taken a record under them.
SecureUnder(d, A) ==
  d.secure => /\ d.r.key = d.w.key /\ d.w.key \in A
              /\ d.hs = "idle" /\ d.pr = None
              /\ d.r.epoch > 0 /\ d.r.n > 0

\* What the handlers are at any time.
Base(d, A) ==
  /\ d \in Handlers
  /\ DataUnder(d.out, A)
  /\ SecureUnder(d, A)

\* While the device's change of cipher and its Finished are awaited, the keys of the
\* session are those that will be used, or already are.
Awaits(d) ==
  /\ d.hs = "waitChangeCipherSpec" =>
       ~d.secure /\ d.w.key = d.key /\ d.pr.key = d.key /\ d.pr.epoch > 0
  /\ d.hs = "waitFinished" =>
       ~d.secure /\ d.w.key = d.key /\ d.r.key = d.key /\ d.r.epoch > 0 /\ d.pr = None

\* What the device may have sent when it has taken the Finished of the sessions A.
FromDevice(rec, A) ==
  /\ rec.ct = "handshake" => /\ rec.msg.t \in DOMAIN Expected
                             /\ rec.epoch > 0 => rec.n = 0
                             /\ rec.msg.t = "finished" => rec.msg.sid \in A
  /\ rec.ct = "ccs" => rec.epoch = 0

\* The line from the device.
AllFromDevice(q, A) == \A i \in 1 .. Len(q) : FromDevice(q[i], A)

\* The two lines.
Queues ==
  /\ reqQ \in Seq(Rec) /\ DataUnder(reqQ, agreed)
  /\ respQ \in Seq(Rec) /\ AllFromDevice(respQ, agreed)

\* The inductive invariant.
IInv ==
  /\ agreed \in SUBSET Nat /\ requests \in Nat /\ srv \in Server
  /\ Queues
  /\ Base(c, agreed) /\ c.out = <<>> /\ ~c.raised
  /\ pc # "died" => Awaits(c)
  /\ pc = "died" => ~polling

-----------------------------------------------------------------------------
(* The operators on the handlers *)

\* A record is added to what was sent.
LEMMA Sent ==
  ASSUME NEW A, NEW q \in Seq(Rec), NEW x \in Rec, DataUnder(q, A), x.ct = "app" => x.key \in A
  PROVE  Append(q, x) \in Seq(Rec) /\ DataUnder(Append(q, x), A)
<1>1. /\ Append(q, x) \in Seq(Rec) /\ Len(Append(q, x)) = Len(q) + 1 /\ Len(q) \in Nat
      /\ \A i \in 1 .. Len(q) : Append(q, x)[i] = q[i]
      /\ Append(q, x)[Len(q) + 1] = x
  OBVIOUS
<1>2. \A i \in 1 .. Len(q) + 1 : i \in 1 .. Len(q) \/ i = Len(q) + 1
  BY <1>1
<1>3. QED
  BY <1>1, <1>2 DEF DataUnder

\* Messages are well formed.
LEMMA MsgIs ==
  ASSUME NEW t \in MsgType, NEW seq \in Nat, NEW sid \in Nat, NEW over \in Transcript
  PROVE  /\ Msg(t, seq, sid, over) \in Message
         /\ Msg(t, seq, sid, over).t = t /\ Msg(t, seq, sid, over).sid = sid
         /\ Token(Msg(t, seq, sid, over)) \in MsgType \X Nat \X Nat
BY DEF Msg, Message, Token

\* A message without contents is one.
LEMMA PlainIs ==
  ASSUME NEW t \in MsgType
  PROVE  Plain(t) \in Message
<1>1. <<>> \in Transcript
  BY DEF Transcript
<1>2. QED
  BY <1>1, MsgIs DEF Plain

\* e differs from d in what was sent and in its own numbers.
HasSent(e, d) ==
  /\ e.hs = d.hs /\ e.secure = d.secure /\ e.raised = d.raised /\ e.ekey = d.ekey
  /\ e.sid = d.sid /\ e.key = d.key /\ e.rx = d.rx
  /\ e.r = d.r /\ e.w.key = d.w.key /\ e.pr = d.pr

\* Tx adds one record, data only under the keys of A.
LEMMA TxIs ==
  ASSUME NEW A, NEW d, NEW ct \in ContentType, NEW m \in Message,
         Base(d, A), ct = "app" => d.w.key \in A
  PROVE  /\ Base(Tx(d, ct, m), A) /\ HasSent(Tx(d, ct, m), d)
         /\ Tx(d, ct, m).log = d.log /\ Tx(d, ct, m).tx = d.tx
<1> DEFINE e == Tx(d, ct, m)
           x == Record(ct, d.w, m)
<1>1. d \in Handlers /\ d.w \in SecOf /\ d.out \in Seq(Rec)
  BY DEF Base, Handlers
<1>2. x \in Rec /\ x.ct = ct /\ x.key = d.w.key
  BY <1>1 DEF Record, Rec, SecOf
<1>3. Append(d.out, x) \in Seq(Rec) /\ DataUnder(Append(d.out, x), A)
  BY <1>1, <1>2, Sent DEF Base
<1> HIDE DEF x
<1> DEFINE w == [d.w EXCEPT !.n = @ + 1]
<1>4. w \in SecOf /\ w.key = d.w.key
  BY <1>1 DEF SecOf
<1>5. e = [d EXCEPT !.out = Append(d.out, x), !.w = w]
  BY <1>1 DEF Tx, x, Handlers
<1> HIDE DEF e, w
<1>6. e \in Handlers /\ HasSent(e, d) /\ e.log = d.log /\ e.tx = d.tx /\ e.out = Append(d.out, x)
  BY <1>1, <1>3, <1>4, <1>5 DEF Handlers, HasSent
<1>7. SecureUnder(e, A)
  BY <1>6 DEF Base, SecureUnder, HasSent
<1>8. QED
  BY <1>3, <1>6, <1>7 DEF Base, e

\* What has been sent does not matter to what is awaited.
LEMMA SentAwaits ==
  ASSUME NEW d, NEW e, HasSent(e, d), Awaits(d)
  PROVE  Awaits(e)
BY DEF HasSent, Awaits

\* An alert changes nothing else.
LEMMA AlertIs ==
  ASSUME NEW A, NEW d, Base(d, A)
  PROVE  Base(Alert(d), A) /\ HasSent(Alert(d), d)
<1>1. Plain("alert") \in Message /\ "alert" \in ContentType
  BY PlainIs DEF MsgType, ContentType
<1>2. QED
  BY <1>1, TxIs DEF Alert

\* A message out of place ends the handshake.
LEMMA HsFailIs ==
  ASSUME NEW A, NEW d, Base(d, A), ~d.secure
  PROVE  Base(HsFail(d), A) /\ HsFail(d).raised
<1> DEFINE e == Alert(d)
           f == HsFail(d)
<1>1. Base(e, A) /\ ~e.secure
  BY AlertIs DEF HasSent
<1>2. f = [[e EXCEPT !.hs = "failed"] EXCEPT !.raised = TRUE]
  BY DEF HsFail, Raise
<1> HIDE DEF e, f
<1>3. f \in Handlers /\ f.raised /\ f.out = e.out /\ ~f.secure
  BY <1>1, <1>2 DEF Base, Handlers, HsState
<1>4. QED
  BY <1>1, <1>3 DEF Base, SecureUnder, f

\* An exception changes nothing else.
LEMMA RaiseIs ==
  ASSUME NEW A, NEW d, Base(d, A)
  PROVE  Base(Raise(d), A) /\ Raise(d).raised
<1> DEFINE f == Raise(d)
<1>1. f = [d EXCEPT !.raised = TRUE]
  BY DEF Raise
<1> HIDE DEF f
<1>2. /\ f \in Handlers /\ f.raised /\ f.out = d.out /\ f.secure = d.secure
      /\ f.r = d.r /\ f.w = d.w /\ f.hs = d.hs /\ f.pr = d.pr
  BY <1>1 DEF Base, Handlers
<1>3. QED
  BY <1>2 DEF Base, SecureUnder, f

\* Without security parameters the channel is not secure.
LEMMA ClearIs ==
  ASSUME NEW A, NEW d, Base(d, A)
  PROVE  /\ Base(Clear(d), A) /\ ~Clear(d).secure
         /\ Clear(d).hs = d.hs /\ Clear(d).raised = d.raised
<1> DEFINE f == Clear(d)
<1>1. f = [d EXCEPT !.secure = FALSE, !.r = NoSec, !.w = NoSec, !.pr = None, !.pw = None]
  BY DEF Clear
<1> HIDE DEF f
<1>2. NoSec \in SecOf
  BY DEF NoSec, SecOf
<1>3. f \in Handlers /\ ~f.secure /\ f.hs = d.hs /\ f.raised = d.raised /\ f.out = d.out
  BY <1>1, <1>2 DEF Base, Handlers
<1>4. QED
  BY <1>3 DEF Base, SecureUnder, f

\* The handlers as they are left by a handshake that failed.
LEMMA RescueIs ==
  ASSUME NEW A, NEW d, Base(d, A)
  PROVE  /\ Base(Rescue(d), A) /\ Awaits(Rescue(d))
         /\ ~Rescue(d).secure /\ ~Rescue(d).raised
<1> DEFINE e == Clear(d)
           f == Rescue(d)
<1>1. Base(e, A) /\ ~e.secure
  BY ClearIs
<1>2. f = [e EXCEPT !.hs = "failed", !.raised = FALSE]
  BY DEF Rescue
<1> HIDE DEF e, f
<1>3. f \in Handlers /\ f.hs = "failed" /\ ~f.raised /\ f.out = e.out /\ ~f.secure
  BY <1>1, <1>2 DEF Base, Handlers, HsState
<1>4. Base(f, A)
  BY <1>1, <1>3 DEF Base, SecureUnder
<1>5. Awaits(f)
  BY <1>3 DEF Awaits
<1>6. QED
  BY <1>3, <1>4, <1>5 DEF f

\* A handshake message is no data.
LEMMA HsSendIs ==
  ASSUME NEW A, NEW d, NEW t \in MsgType, NEW over \in Transcript, Base(d, A)
  PROVE  Base(HsSend(d, t, over), A) /\ HasSent(HsSend(d, t, over), d)
<1> DEFINE m == Msg(t, d.tx, 0, over)
           e == [d EXCEPT !.tx = @ + 1, !.log = Append(@, Token(m))]
<1>1. d \in Handlers /\ d.tx \in Nat /\ d.log \in Transcript
  BY DEF Base, Handlers
<1>2. m \in Message /\ Token(m) \in MsgType \X Nat \X Nat
  BY <1>1, MsgIs
<1>3. HsSend(d, t, over) = Tx(e, "handshake", m)
  BY DEF HsSend
<1> HIDE DEF m
<1>4. Append(d.log, Token(m)) \in Transcript
  BY <1>1, <1>2 DEF Transcript
<1> DEFINE l == Append(d.log, Token(m))
           k == d.tx + 1
<1>10. l \in Transcript /\ k \in Nat
  BY <1>1, <1>4
<1> HIDE DEF l, k
<1>9. e = [d EXCEPT !.tx = k, !.log = l]
  BY <1>1 DEF l, k, Handlers
<1> HIDE DEF e
<1>5. e \in Handlers /\ HasSent(e, d) /\ e.out = d.out
  BY <1>1, <1>9, <1>10 DEF Handlers, HasSent
<1>6. Base(e, A)
  BY <1>5 DEF Base, SecureUnder, HasSent
<1>7. Base(Tx(e, "handshake", m), A) /\ HasSent(Tx(e, "handshake", m), e)
  BY <1>2, <1>6, TxIs DEF ContentType
<1>8. QED
  BY <1>3, <1>5, <1>7 DEF HasSent

\* A ClientHello begins where the channel is not secure.
LEMMA HelloIs ==
  ASSUME NEW A, NEW d, NEW t \in MsgType, Base(d, A), ~d.secure,
         NEW hs \in HsState \ {"waitChangeCipherSpec", "waitFinished"}
  PROVE  /\ Base(Hello(d, t, hs), A) /\ Awaits(Hello(d, t, hs))
         /\ Hello(d, t, hs).raised = d.raised
<1> DEFINE e == [d EXCEPT !.log = <<>>]
           f == HsSend(e, t, <<>>)
           g == Hello(d, t, hs)
<1>1. g = [f EXCEPT !.hs = hs]
  BY DEF Hello
<1>2. <<>> \in Transcript
  BY DEF Transcript
<1>3. e \in Handlers /\ e.out = d.out /\ ~e.secure /\ e.raised = d.raised
  BY <1>2 DEF Base, Handlers
<1>4. Base(e, A)
  BY <1>3 DEF Base, SecureUnder
<1> HIDE DEF e
<1>5. Base(f, A) /\ ~f.secure /\ f.raised = d.raised
  BY <1>2, <1>3, <1>4, HsSendIs DEF HasSent
<1> HIDE DEF f, g
<1>6. g \in Handlers /\ g.out = f.out /\ ~g.secure /\ g.raised = d.raised /\ g.hs = hs
  BY <1>1, <1>5 DEF Base, Handlers
<1>7. Base(g, A) /\ Awaits(g)
  BY <1>5, <1>6 DEF Base, SecureUnder, Awaits
<1>8. QED
  BY <1>6, <1>7 DEF g

\* Data goes out over a secure channel only.
LEMMA AppSendIs ==
  ASSUME NEW A, NEW d, Base(d, A), Awaits(d), requests \in Nat
  PROVE  Base(AppSend(d), A) /\ Awaits(AppSend(d)) /\ AppSend(d).raised = d.raised
<1> DEFINE m == Msg("app", requests, 0, <<>>)
<1>1. m \in Message
  <2>1. <<>> \in Transcript /\ "app" \in MsgType
    BY DEF Transcript, MsgType
  <2>2. QED
    BY <2>1, MsgIs
<1>2. CASE d.secure
  <2>1. d.w.key \in A
    BY <1>2 DEF Base, SecureUnder
  <2>2. Base(Tx(d, "app", m), A) /\ HasSent(Tx(d, "app", m), d)
    BY <1>1, <2>1, TxIs DEF ContentType
  <2>3. QED
    BY <1>2, <2>2, SentAwaits DEF AppSend, HasSent
<1>3. CASE ~d.secure
  BY <1>3 DEF AppSend
<1>4. QED
  BY <1>2, <1>3

-----------------------------------------------------------------------------
(* The flight of the client *)

\* What the messages of the flight add to the transcript.
LEMMA FlightLog ==
  ASSUME NEW d \in Handlers, NEW k \in {2, 3}
  PROVE  d.log \o [i \in 1 .. k |-> <<Rest[i], d.tx + i - 1, 0>>] \in Transcript
<1>1. \A i \in 1 .. k : Rest[i] \in MsgType
  BY DEF Rest, MsgType
<1>2. d.tx \in Nat /\ d.log \in Transcript
  BY DEF Handlers
<1>3. \A i \in 1 .. k : d.tx + i - 1 \in Nat
  BY <1>2
<1>4. \A i \in 1 .. k : <<Rest[i], d.tx + i - 1, 0>> \in MsgType \X Nat \X Nat
  BY <1>1, <1>3
<1>5. [i \in 1 .. k |-> <<Rest[i], d.tx + i - 1, 0>>] \in Transcript
  BY <1>4 DEF Transcript
<1>6. QED
  BY <1>2, <1>5 DEF Transcript

\* Each record of two sequences put together is one of theirs.
LEMMA RecordsOf ==
  ASSUME NEW q \in Seq(Rec), NEW p \in Seq(Rec)
  PROVE  /\ q \o p \in Seq(Rec)
         /\ \A i \in 1 .. Len(q \o p) : \/ \E j \in 1 .. Len(q) : (q \o p)[i] = q[j]
                                     \/ \E j \in 1 .. Len(p) : (q \o p)[i] = p[j]
<1>1. /\ q \o p \in Seq(Rec) /\ Len(q \o p) = Len(q) + Len(p) /\ Len(q) \in Nat /\ Len(p) \in Nat
      /\ \A i \in 1 .. Len(q) + Len(p) : (q \o p)[i] = IF i <= Len(q) THEN q[i] ELSE p[i - Len(q)]
  BY ConcatProperties
<1>2. ASSUME NEW i \in 1 .. Len(q) + Len(p)
      PROVE  \/ \E j \in 1 .. Len(q) : (q \o p)[i] = q[j]
             \/ \E j \in 1 .. Len(p) : (q \o p)[i] = p[j]
  <2>1. CASE i <= Len(q)
    <3>1. i \in 1 .. Len(q) /\ (q \o p)[i] = q[i]
      BY <1>1, <2>1
    <3>2. QED
      BY <3>1
  <2>2. CASE ~(i <= Len(q))
    <3>1. i - Len(q) \in 1 .. Len(p) /\ (q \o p)[i] = p[i - Len(q)]
      BY <1>1, <2>2
    <3>2. QED
      BY <3>1
  <2>3. QED
    BY <2>1, <2>2
<1>3. QED
  BY <1>1, <1>2

\* More records, data only under the keys of A.
LEMMA SentMore ==
  ASSUME NEW A, NEW q \in Seq(Rec), NEW p \in Seq(Rec), DataUnder(q, A), DataUnder(p, A)
  PROVE  q \o p \in Seq(Rec) /\ DataUnder(q \o p, A)
BY RecordsOf DEF DataUnder

\* After its Finished the client awaits the device's under the keys it has made.
LEMMA FlightIs ==
  ASSUME NEW A, NEW d, Base(d, A), d.hs = "sendCertificate", ~d.raised
  PROVE  /\ Base(Flight(d), A)
         /\ ~Flight(d).raised => Awaits(Flight(d))
<1> DEFINE p == [epoch |-> d.r.epoch + 1, key |-> d.sid, n |-> 0]
           log(k) == d.log \o [i \in 1 .. k |-> <<Rest[i], d.tx + i - 1, 0>>]
           pair == [i \in 1 .. 2 |-> Record("handshake", [d.w EXCEPT !.n = @ + i - 1],
                                            Msg(Rest[i], d.tx + i - 1, 0, <<>>))]
           two == [d EXCEPT !.tx = @ + 2, !.log = log(2), !.w.n = @ + 2, !.ekey = FALSE, !.key = d.sid,
                     !.out = @ \o pair]
           verify == Record("handshake", [d.w EXCEPT !.n = @ + 2], Msg("certVerify", d.tx + 2, 0, log(2)))
           ccs == Record("ccs", [d.w EXCEPT !.n = @ + 3], Plain("ccs"))
           fin == Record("handshake", p, Msg("finished", d.tx + 3, 0, log(3)))
           all == [two EXCEPT !.tx = d.tx + 4, !.log = Append(log(3), <<"finished", d.tx + 3, 0>>),
                     !.pr = p, !.w = [p EXCEPT !.n = 1], !.out = @ \o <<verify, ccs, fin>>,
                     !.hs = "waitChangeCipherSpec"]
<1>1. Flight(d) = IF d.pr # None \/ d.pw # None THEN Raise(two) ELSE all
  BY DEF Flight, SendFlight
<1>2. /\ d \in Handlers /\ d.tx \in Nat /\ d.sid \in Nat /\ d.w \in SecOf /\ d.r.epoch \in Nat
      /\ d.log \in Transcript /\ d.out \in Seq(Rec) /\ <<>> \in Transcript
  BY DEF Base, Handlers, SecOf, Transcript
<1>3. p \in SecOf /\ p.key = d.sid /\ p.epoch > 0
  BY <1>2 DEF SecOf
<1>4. log(2) \in Transcript /\ log(3) \in Transcript
  BY <1>2, FlightLog
<1>5. pair \in Seq(Rec) /\ DataUnder(pair, A)
  <2>1. ASSUME NEW i \in 1 .. 2
        PROVE  Record("handshake", [d.w EXCEPT !.n = @ + i - 1], Msg(Rest[i], d.tx + i - 1, 0, <<>>)) \in Rec
    <3>1. Rest[i] \in MsgType /\ d.tx + i - 1 \in Nat /\ d.w.n + i - 1 \in Nat
      BY <1>2 DEF Rest, MsgType, SecOf
    <3>2. Msg(Rest[i], d.tx + i - 1, 0, <<>>) \in Message
      BY <1>2, <3>1, MsgIs
    <3> DEFINE m == Msg(Rest[i], d.tx + i - 1, 0, <<>>)
    <3> HIDE DEF m
    <3>3. Record("handshake", [d.w EXCEPT !.n = @ + i - 1], m) \in Rec
      BY <1>2, <3>1, <3>2 DEF Record, Rec, SecOf, ContentType, m
    <3>4. QED
      BY <3>3 DEF m
  <2>2. \A i \in 1 .. 2 : pair[i].ct # "app"
    BY DEF Record
  <2>3. pair \in Seq(Rec) /\ Len(pair) = 2
    BY <2>1
  <2>4. QED
    BY <2>2, <2>3 DEF DataUnder
<1> DEFINE l2 == log(2)
           l3 == log(3)
<1>6. l2 \in Transcript /\ l3 \in Transcript
  BY <1>4
<1> HIDE DEF pair, log
<1>7. two = [d EXCEPT !.tx = d.tx + 2, !.log = l2, !.w = [d.w EXCEPT !.n = @ + 2], !.ekey = FALSE,
               !.key = d.sid, !.out = d.out \o pair]
  BY <1>2 DEF Handlers, l2
<1>8. verify = Record("handshake", [d.w EXCEPT !.n = @ + 2], Msg("certVerify", d.tx + 2, 0, l2))
  BY DEF l2
<1>9. fin = Record("handshake", p, Msg("finished", d.tx + 3, 0, l3))
  BY DEF l3
<1>10. all = [two EXCEPT !.tx = d.tx + 4, !.log = Append(l3, <<"finished", d.tx + 3, 0>>),
                !.pr = p, !.w = [p EXCEPT !.n = 1], !.out = two.out \o <<verify, ccs, fin>>,
                !.hs = "waitChangeCipherSpec"]
  BY <1>2, <1>7 DEF Handlers, l3
<1> HIDE DEF l2, l3, two, verify, ccs, fin, all
<1>11. verify \in Rec /\ ccs \in Rec /\ fin \in Rec
  <2>a. d.tx \in Nat /\ d.w.n \in Nat
    BY <1>2 DEF SecOf
  <2>1. d.tx + 2 \in Nat /\ d.tx + 3 \in Nat /\ d.w.n + 2 \in Nat /\ d.w.n + 3 \in Nat
    BY <2>a
  <2>f. "certVerify" \in MsgType /\ "finished" \in MsgType /\ "ccs" \in MsgType /\ 0 \in Nat
    BY DEF MsgType
  <2>b. Msg("certVerify", d.tx + 2, 0, l2) \in Message
    BY <1>6, <2>1, <2>a, <2>f, MsgIs
  <2>c. Msg("finished", d.tx + 3, 0, l3) \in Message
    BY <1>6, <2>1, <2>a, <2>f, MsgIs
  <2>d. Plain("ccs") \in Message
    BY <2>f, PlainIs
  <2>2. /\ Msg("certVerify", d.tx + 2, 0, l2) \in Message /\ Plain("ccs") \in Message
        /\ Msg("finished", d.tx + 3, 0, l3) \in Message
    BY <2>b, <2>c, <2>d
  <2>3. \A m \in Message : /\ Record("handshake", [d.w EXCEPT !.n = @ + 2], m) \in Rec
                           /\ Record("ccs", [d.w EXCEPT !.n = @ + 3], m) \in Rec
                           /\ Record("handshake", p, m) \in Rec
    BY <1>2, <1>3, <2>1 DEF Record, Rec, SecOf, ContentType
  <2>4. QED
    BY <1>8, <1>9, <2>2, <2>3 DEF ccs
<1>12. verify.ct # "app" /\ ccs.ct # "app" /\ fin.ct # "app"
  BY <1>8, <1>9 DEF ccs, Record
<1>13. ~d.secure
  BY DEF Base, SecureUnder
<1>14. d.out \o pair \in Seq(Rec) /\ DataUnder(d.out \o pair, A)
  BY <1>2, <1>5, SentMore DEF Base
<1> DEFINE o2 == d.out \o pair
           w2 == [d.w EXCEPT !.n = @ + 2]
           k2 == d.tx + 2
           k4 == d.tx + 4
           sid == d.sid
<1>27. w2 \in SecOf /\ k2 \in Nat /\ k4 \in Nat /\ sid \in Nat
  <2>1. d.w \in SecOf /\ d.tx \in Nat /\ d.sid \in Nat
    BY <1>2
  <2>2. w2 \in SecOf
    BY <2>1 DEF SecOf
  <2>3. QED
    BY <2>1, <2>2
<1> HIDE DEF w2
<1>15. o2 \in Seq(Rec) /\ DataUnder(o2, A)
  BY <1>14
<1>16. two = [d EXCEPT !.tx = k2, !.log = l2, !.w = w2, !.ekey = FALSE, !.key = sid, !.out = o2]
  BY <1>7 DEF w2
<1> HIDE DEF o2, k2, k4, sid
<1>17. two \in Handlers /\ two.out = o2 /\ ~two.secure /\ two.key = sid /\ ~two.raised
  BY <1>2, <1>6, <1>13, <1>15, <1>16, <1>27 DEF Handlers
<1>18. Base(two, A)
  BY <1>15, <1>17 DEF Base, SecureUnder
<1> DEFINE o5 == o2 \o <<verify, ccs, fin>>
           l4 == Append(l3, <<"finished", d.tx + 3, 0>>)
           w1 == [p EXCEPT !.n = 1]
<1>19. o5 \in Seq(Rec) /\ DataUnder(o5, A)
  <2> DEFINE q == <<verify, ccs, fin>>
  <2>1. q \in Seq(Rec) /\ Len(q) = 3 /\ q[1] = verify /\ q[2] = ccs /\ q[3] = fin
    BY <1>11
  <2> HIDE DEF q
  <2>2. \A i \in 1 .. Len(q) : q[i].ct # "app"
    <3>1. \A i \in 1 .. 3 : i = 1 \/ i = 2 \/ i = 3
      OBVIOUS
    <3>2. QED
      BY <1>12, <2>1, <3>1
  <2>3. o2 \o q \in Seq(Rec) /\ DataUnder(o2 \o q, A)
    BY <1>15, <2>1, <2>2, SentMore DEF DataUnder
  <2>4. QED
    BY <2>3 DEF q
<1>20. l4 \in Transcript
  <2>1. <<"finished", d.tx + 3, 0>> \in MsgType \X Nat \X Nat
    BY <1>2 DEF MsgType
  <2>2. QED
    BY <1>6, <2>1 DEF Transcript
<1>21. w1 \in SecOf /\ w1.key = sid /\ p.key = sid
  BY <1>3 DEF SecOf, sid
<1>22. all = [two EXCEPT !.tx = k4, !.log = l4, !.pr = p, !.w = w1, !.out = o5,
                !.hs = "waitChangeCipherSpec"]
  BY <1>10, <1>17 DEF k4
<1> HIDE DEF o5, l4, w1, p
<1>23. /\ all \in Handlers /\ all.out = o5 /\ ~all.secure /\ all.key = sid /\ all.pr = p /\ all.w = w1
       /\ all.hs = "waitChangeCipherSpec"
  BY <1>3, <1>17, <1>19, <1>20, <1>21, <1>22, <1>27 DEF Handlers, HsState
<1>24. Base(all, A) /\ Awaits(all)
  BY <1>3, <1>19, <1>21, <1>23 DEF Base, SecureUnder, Awaits
<1>25. Base(Raise(two), A) /\ Raise(two).raised
  BY <1>18, RaiseIs
<1>26. QED
  BY <1>1, <1>24, <1>25

-----------------------------------------------------------------------------
(* Receiving *)

\* No message of the handshake is expected when there is none, or before the change
\* of cipher; only Finished is expected after it.
LEMMA ExpectedIs ==
  ASSUME NEW t \in DOMAIN Expected
  PROVE  /\ "idle" \notin Expected[t] /\ "waitChangeCipherSpec" \notin Expected[t]
         /\ "waitFinished" \in Expected[t] => t = "finished"
         /\ Expected["finished"] = {"waitFinished"} /\ Then["finished"] = "idle"
         /\ Then[t] \in HsState
         /\ t # "finished" => Then[t] \notin {"idle", "waitChangeCipherSpec", "waitFinished"}
BY DEF Expected, Then, HsState

\* A message of the handshake, the channel not being secure.
LEMMA ProcessIs ==
  ASSUME NEW A, NEW d, NEW m \in Message, Base(d, A), Awaits(d), d.r.n > 0, ~d.raised, ~d.secure,
         m.t \in DOMAIN Expected, m.t = "finished" => m.sid \in A
  PROVE  /\ Base(Process(d, m), A)
         /\ ~Process(d, m).raised => Awaits(Process(d, m))
<1> DEFINE e == [d EXCEPT !.hs = Then[m.t]]
           f == Process(d, m)
<1>1. d \in Handlers /\ Then[m.t] \in HsState /\ m.sid \in Nat
  BY ExpectedIs DEF Base, Message
<1>2. CASE d.hs \notin Expected[m.t]
  <2>1. f = HsFail(d)
    BY <1>2 DEF Process
  <2>2. QED
    BY <2>1, HsFailIs
<1>3. CASE d.hs \in Expected[m.t] /\ m.t # "finished"
  <2>1. Then[m.t] \notin {"idle", "waitChangeCipherSpec", "waitFinished"}
    BY <1>3, ExpectedIs
  <2> DEFINE h == Then[m.t]
  <2>2. h \in HsState \ {"idle", "waitChangeCipherSpec", "waitFinished"} /\ e = [d EXCEPT !.hs = h]
    BY <1>1, <2>1
  <2> HIDE DEF h, e
  <2>3. /\ e \in Handlers /\ e.out = d.out /\ ~e.secure /\ e.hs = h
    BY <1>1, <2>2 DEF Handlers
  <2>4. Base(e, A) /\ Awaits(e)
    BY <2>2, <2>3 DEF Base, SecureUnder, Awaits
  <2>5. CASE m.t = "serverHello"
    <3> DEFINE g == [e EXCEPT !.sid = m.sid]
    <3>1. f = g
      BY <1>3, <2>5 DEF Process, e
    <3>2. g \in Handlers /\ g.out = e.out /\ ~g.secure /\ g.hs = e.hs
      BY <1>1, <2>3 DEF Handlers
    <3>3. Base(g, A) /\ Awaits(g)
      BY <2>2, <2>3, <2>4, <3>2 DEF Base, SecureUnder, Awaits
    <3>4. QED
      BY <3>1, <3>3
  <2>6. CASE m.t = "keyExchange" /\ m.sid # d.sid
    <3>1. f = HsFail(d)
      BY <1>3, <2>6 DEF Process
    <3>2. QED
      BY <3>1, HsFailIs
  <2>7. CASE m.t # "serverHello" /\ ~(m.t = "keyExchange" /\ m.sid # d.sid)
    <3>1. f = e
      BY <1>3, <2>7 DEF Process, e
    <3>2. QED
      BY <2>4, <3>1
  <2>8. QED
    BY <2>5, <2>6, <2>7
<1>4. CASE d.hs \in Expected[m.t] /\ m.t = "finished"
  <2>1. d.hs = "waitFinished" /\ Then[m.t] = "idle" /\ m.sid \in A
    BY <1>4, ExpectedIs
  <2>2. /\ d.w.key = d.key /\ d.r.key = d.key /\ d.r.epoch > 0 /\ d.pr = None
    BY <2>1 DEF Awaits
  <2>3. CASE m.sid = d.key /\ m.over = d.log
    <3> DEFINE g == [d EXCEPT !.hs = "idle", !.secure = TRUE]
    <3>1. f = g
      BY <1>1, <1>4, <2>1, <2>3 DEF Process, Handlers
    <3>2. /\ g \in Handlers /\ g.out = d.out /\ g.hs = "idle" /\ g.w = d.w /\ g.r = d.r /\ g.pr = d.pr
      BY <1>1 DEF Handlers, HsState
    <3>3. Base(g, A) /\ Awaits(g)
      BY <2>1, <2>2, <2>3, <3>2 DEF Base, SecureUnder, Awaits
    <3>4. QED
      BY <3>1, <3>3
  <2>4. CASE m.sid # d.key \/ m.over # d.log
    <3> DEFINE k == Clear(Alert(d))
               g == [k EXCEPT !.hs = "failed"]
    <3>1. f = g
      BY <1>4, <2>4 DEF Process
    <3>2. Base(k, A) /\ ~k.secure
      BY AlertIs, ClearIs
    <3> HIDE DEF k
    <3>3. g \in Handlers /\ g.out = k.out /\ g.hs = "failed" /\ ~g.secure
      BY <3>2 DEF Base, Handlers, HsState
    <3>4. Base(g, A) /\ Awaits(g)
      BY <3>2, <3>3 DEF Base, SecureUnder, Awaits
    <3>5. QED
      BY <3>1, <3>4
  <2>5. QED
    BY <2>3, <2>4
<1>5. QED
  BY <1>2, <1>3, <1>4

\* The same with its number and the transcript.
LEMMA HandshakeRxIs ==
  ASSUME NEW A, NEW d, NEW m \in Message, Base(d, A), Awaits(d), d.r.n > 0, ~d.raised, ~d.secure,
         m.t \in DOMAIN Expected, m.t = "finished" => m.sid \in A
  PROVE  /\ Base(HandshakeRx(d, m), A)
         /\ ~HandshakeRx(d, m).raised => Awaits(HandshakeRx(d, m))
<1> DEFINE e == [d EXCEPT !.rx = @ + 1]
           f == Process(e, m)
           g == [f EXCEPT !.log = Append(@, Token(m))]
<1>1. HandshakeRx(d, m) = IF m.seq # d.rx THEN Raise(d) ELSE IF f.raised THEN f ELSE g
  BY DEF HandshakeRx
<1>2. Base(Raise(d), A) /\ Raise(d).raised
  BY RaiseIs
<1>3. /\ e \in Handlers /\ e.out = d.out /\ e.secure = d.secure /\ e.raised = d.raised /\ e.hs = d.hs
      /\ e.r = d.r /\ e.w = d.w /\ e.pr = d.pr /\ e.key = d.key
  BY DEF Base, Handlers
<1>4. Base(e, A) /\ Awaits(e)
  BY <1>3 DEF Base, SecureUnder, Awaits
<1> HIDE DEF e
<1>5. Base(f, A) /\ (~f.raised => Awaits(f))
  BY <1>3, <1>4, ProcessIs
<1> HIDE DEF f
<1>6. Append(f.log, Token(m)) \in Transcript
  <2>1. f.log \in Transcript
    BY <1>5 DEF Base, Handlers
  <2>2. Token(m) \in MsgType \X Nat \X Nat
    BY DEF Token, Message
  <2>3. QED
    BY <2>1, <2>2 DEF Transcript
<1> DEFINE l == Append(f.log, Token(m))
<1>7. l \in Transcript /\ g = [f EXCEPT !.log = l]
  BY <1>5, <1>6 DEF Base, Handlers
<1> HIDE DEF l, g
<1>8. /\ g \in Handlers /\ g.out = f.out /\ g.secure = f.secure /\ g.raised = f.raised /\ g.hs = f.hs
      /\ g.r = f.r /\ g.w = f.w /\ g.pr = f.pr /\ g.key = f.key
  BY <1>5, <1>7 DEF Base, Handlers
<1>9. Base(g, A) /\ (~f.raised => Awaits(g))
  BY <1>5, <1>8 DEF Base, SecureUnder, Awaits
<1>10. QED
  BY <1>1, <1>2, <1>5, <1>9

\* The pending keys are taken into use.
LEMMA ChangeCipherSpecRxIs ==
  ASSUME NEW A, NEW d, Base(d, A), Awaits(d), ~d.secure
  PROVE  /\ Base(ChangeCipherSpecRx(d), A)
         /\ ~ChangeCipherSpecRx(d).raised => Awaits(ChangeCipherSpecRx(d))
<1>1. CASE d.hs # "waitChangeCipherSpec"
  BY <1>1, HsFailIs DEF ChangeCipherSpecRx
<1>2. CASE d.hs = "waitChangeCipherSpec" /\ d.pr = None
  BY <1>2, RaiseIs DEF ChangeCipherSpecRx
<1>3. CASE d.hs = "waitChangeCipherSpec" /\ d.pr # None
  <2> DEFINE f == [d EXCEPT !.r = d.pr, !.pr = None, !.hs = "waitFinished"]
  <2>1. ChangeCipherSpecRx(d) = f
    BY <1>3 DEF ChangeCipherSpecRx
  <2>2. d.pr \in SecOf /\ d.w.key = d.key /\ d.pr.key = d.key /\ d.pr.epoch > 0
    BY <1>3 DEF Base, Handlers, Awaits
  <2>3. /\ f \in Handlers /\ f.out = d.out /\ ~f.secure /\ f.hs = "waitFinished" /\ f.r = d.pr
        /\ f.w = d.w /\ f.pr = None /\ f.key = d.key
    BY <2>2 DEF Base, Handlers, HsState
  <2> HIDE DEF f
  <2>4. Base(f, A) /\ Awaits(f)
    BY <2>2, <2>3 DEF Base, SecureUnder, Awaits
  <2>5. QED
    BY <2>1, <2>4
<1>4. QED
  BY <1>1, <1>2, <1>3

\* A record leaves the handlers as the invariant wants them, or ends in an exception.
\* Over a secure channel only data and alerts are read.
LEMMA RecordRxIs ==
  ASSUME NEW A, NEW d, NEW rec \in Rec, Base(d, A), Awaits(d), ~d.raised, FromDevice(rec, A)
  PROVE  /\ Base(RecordRx(d, rec), A)
         /\ ~RecordRx(d, rec).raised => Awaits(RecordRx(d, rec))
<1> DEFINE r == [d.r EXCEPT !.n = @ + 1]
           e == [d EXCEPT !.r.n = @ + 1]
<1>1. d \in Handlers /\ d.r \in SecOf /\ d.r.n \in Nat
  BY DEF Base, Handlers, SecOf
<1>2. r \in SecOf /\ r.key = d.r.key /\ r.epoch = d.r.epoch /\ r.n = d.r.n + 1 /\ r.n > 0
  BY <1>1 DEF SecOf
<1>3. e = [d EXCEPT !.r = r]
  BY <1>1 DEF Handlers
<1> HIDE DEF e, r
<1>4. /\ e \in Handlers /\ e.out = d.out /\ e.secure = d.secure /\ ~e.raised /\ e.hs = d.hs
      /\ e.r = r /\ e.w = d.w /\ e.pr = d.pr /\ e.key = d.key
  BY <1>1, <1>2, <1>3 DEF Handlers
<1>5. Base(e, A) /\ Awaits(e)
  BY <1>2, <1>4 DEF Base, SecureUnder, Awaits
<1>6. CASE rec.epoch # d.r.epoch
  <2>1. RecordRx(d, rec) = Raise(d)
    BY <1>6 DEF RecordRx
  <2>2. QED
    BY <2>1, RaiseIs
<1>7. CASE rec.epoch = d.r.epoch /\ (rec.n # d.r.n \/ rec.key # d.r.key)
  <2>1. RecordRx(d, rec) = Raise(e)
    BY <1>7 DEF RecordRx, e
  <2>2. QED
    BY <1>5, <2>1, RaiseIs
<1>8. CASE rec.epoch = d.r.epoch /\ rec.n = d.r.n /\ rec.key = d.r.key
  <2>1. e.secure => rec.ct \notin {"handshake", "ccs"}
    BY <1>1, <1>4, <1>8 DEF FromDevice, Base, SecureUnder
  <2>2. rec.msg \in Message /\ rec.ct \in ContentType
    BY DEF Rec
  <2>3. CASE rec.ct = "handshake"
    <3>1. RecordRx(d, rec) = HandshakeRx(e, rec.msg)
      BY <1>8, <2>3 DEF RecordRx, e
    <3>2. rec.msg.t \in DOMAIN Expected /\ (rec.msg.t = "finished" => rec.msg.sid \in A)
      BY <2>3 DEF FromDevice
    <3>3. QED
      BY <1>2, <1>4, <1>5, <2>1, <2>2, <2>3, <3>1, <3>2, HandshakeRxIs
  <2>4. CASE rec.ct = "ccs"
    <3>1. RecordRx(d, rec) = ChangeCipherSpecRx(e)
      BY <1>8, <2>4 DEF RecordRx, e
    <3>2. QED
      BY <1>5, <2>1, <2>4, <3>1, ChangeCipherSpecRxIs
  <2>5. CASE rec.ct = "alert"
    <3>1. RecordRx(d, rec) = Raise(Clear(e))
      BY <1>8, <2>5 DEF RecordRx, e
    <3>2. QED
      BY <1>5, <3>1, ClearIs, RaiseIs
  <2>6. CASE rec.ct = "app"
    <3>1. RecordRx(d, rec) = e
      BY <1>8, <2>6 DEF RecordRx, e
    <3>2. QED
      BY <1>5, <3>1
  <2>7. QED
    BY <2>2, <2>3, <2>4, <2>5, <2>6 DEF ContentType
<1>9. QED
  BY <1>6, <1>7, <1>8

-----------------------------------------------------------------------------
(* The steps of the tool *)

\* The handlers and the line after a step that leaves d.
Left(d) ==
  /\ Base(c', agreed) /\ c'.out = <<>> /\ c'.raised = d.raised
  /\ Awaits(d) => Awaits(c')
  /\ reqQ' \in Seq(Rec) /\ DataUnder(reqQ', agreed)

\* The records go on the line.
LEMMA PutIs ==
  ASSUME IInv, NEW d, Base(d, agreed), Put(d)
  PROVE  Left(d)
<1>1. c' = [d EXCEPT !.out = <<>>] /\ reqQ' = reqQ \o d.out
  BY DEF Put
<1>2. d \in Handlers /\ d.out \in Seq(Rec) /\ <<>> \in Seq(Rec) /\ DataUnder(<<>>, agreed)
  BY DEF Base, Handlers, DataUnder
<1>3. reqQ' \in Seq(Rec) /\ DataUnder(reqQ', agreed)
  BY <1>1, <1>2, SentMore DEF IInv, Queues, Base
<1>4. /\ c' \in Handlers /\ c'.out = <<>> /\ c'.raised = d.raised /\ c'.secure = d.secure
      /\ c'.hs = d.hs /\ c'.r = d.r /\ c'.w = d.w /\ c'.pr = d.pr /\ c'.key = d.key
  BY <1>1, <1>2 DEF Handlers
<1>5. Base(c', agreed) /\ (Awaits(d) => Awaits(c'))
  BY <1>2, <1>4 DEF Base, SecureUnder, Awaits
<1>6. QED
  BY <1>3, <1>4, <1>5 DEF Left

\* A step of the tool that leaves the device alone keeps the invariant.
LEMMA ToolStep ==
  ASSUME IInv, UNCHANGED device, requests' \in Nat,
         NEW d, Left(d), ~d.raised, pc' # "died" => Awaits(d), pc' = "died" => ~polling',
         respQ' \in Seq(Rec), AllFromDevice(respQ', agreed)
  PROVE  IInv'
BY DEF IInv, Queues, Left, device

\* Data, a new handshake or a failed one.
LEMMA AppTxIs ==
  ASSUME IInv, pc # "died", NEW calls, AppTx(calls)
  PROVE  \E d : Left(d) /\ ~d.raised /\ Awaits(d)
<1>1. Base(c, agreed) /\ Awaits(c) /\ ~c.raised /\ requests \in Nat
  BY DEF IInv
<1>2. CASE c.secure
  <2>1. Base(AppSend(c), agreed) /\ Awaits(AppSend(c)) /\ ~AppSend(c).raised
    BY <1>1, AppSendIs
  <2>2. Put(AppSend(c))
    BY <1>2 DEF AppTx
  <2>3. QED
    BY <2>1, <2>2, PutIs
<1>3. CASE ~c.secure /\ c.hs \in {"idle", "failed"}
  <2>1. /\ Base(Hello(c, "hello", "waitVerifyRequest"), agreed)
        /\ Awaits(Hello(c, "hello", "waitVerifyRequest"))
        /\ ~Hello(c, "hello", "waitVerifyRequest").raised
    BY <1>1, <1>3, HelloIs DEF MsgType, HsState
  <2>2. Put(Hello(c, "hello", "waitVerifyRequest"))
    BY <1>3 DEF AppTx
  <2>3. QED
    BY <2>1, <2>2, PutIs
<1>4. CASE ~c.secure /\ c.hs \notin {"idle", "failed"}
  <2> DEFINE d == Rescue(HsFail(c))
  <2>1. Base(HsFail(c), agreed)
    BY <1>1, <1>4, HsFailIs
  <2>2. Base(d, agreed) /\ Awaits(d) /\ ~d.raised
    BY <2>1, RescueIs
  <2>4. Put(AppSend(d))
    BY <1>4 DEF AppTx
  <2> HIDE DEF d
  <2>3. Base(AppSend(d), agreed) /\ Awaits(AppSend(d)) /\ ~AppSend(d).raised
    BY <1>1, <2>2, AppSendIs
  <2>5. QED
    BY <2>3, <2>4, PutIs
<1>5. QED
  BY <1>2, <1>3, <1>4

\* A request sends.
LEMMA RequestStep == IInv /\ Request => IInv'
<1> SUFFICES ASSUME IInv, Request PROVE IInv'
  OBVIOUS
<1>1. PICK d : Left(d) /\ ~d.raised /\ Awaits(d)
  BY AppTxIs DEF Request
<1>2. /\ UNCHANGED device /\ requests' \in Nat /\ respQ' \in Seq(Rec) /\ AllFromDevice(respQ', agreed)
      /\ pc' = "busy"
  BY DEF Request, IInv, Queues
<1>3. QED
  BY <1>1, <1>2, ToolStep

\* The answer is there.
LEMMA ReturnStep == IInv /\ Return => IInv'
BY DEF Return, IInv, Queues, device

\* A poll ends.
LEMMA EndPollStep == IInv /\ EndPoll => IInv'
BY DEF EndPoll, IInv, Queues, device, coap

\* A poll of other traffic.
LEMMA OtherPollStep == IInv /\ OtherPoll => IInv'
BY DEF OtherPoll, IInv, Queues, device, coap

\* A retransmission sends as a request does.
LEMMA TimeoutStep == IInv /\ Timeout => IInv'
<1> SUFFICES ASSUME IInv, Timeout PROVE IInv'
  OBVIOUS
<1>1. UNCHANGED device /\ requests' \in Nat /\ respQ' \in Seq(Rec) /\ AllFromDevice(respQ', agreed)
  BY DEF Timeout, IInv, Queues
<1>2. pc' = pc /\ pc = "busy"
  BY DEF Timeout, Waits, Polls
<1>3. CASE MayRetransmit
  <2>1. PICK d : Left(d) /\ ~d.raised /\ Awaits(d)
    BY <1>2, <1>3, AppTxIs DEF Timeout
  <2>2. QED
    BY <1>1, <1>2, <2>1, ToolStep
<1>4. CASE ~MayRetransmit
  BY <1>1, <1>2, <1>4 DEF Timeout, IInv, Queues, device
<1>5. QED
  BY <1>3, <1>4

\* A poll without a timer ends the handshake.
LEMMA NoTimerStep == IInv /\ NoTimer => IInv'
<1> SUFFICES ASSUME IInv, NoTimer PROVE IInv'
  OBVIOUS
<1> DEFINE d == Rescue(c)
<1>1. Base(d, agreed) /\ Awaits(d) /\ ~d.raised
  BY RescueIs DEF IInv
<1>2. Put(AppSend(d))
  BY DEF NoTimer
<1>3. /\ UNCHANGED device /\ requests' \in Nat /\ respQ' \in Seq(Rec) /\ AllFromDevice(respQ', agreed)
      /\ requests \in Nat /\ pc' = "busy"
  BY DEF NoTimer, Polls, IInv, Queues, coap
<1> HIDE DEF d
<1>4. Base(AppSend(d), agreed) /\ Awaits(AppSend(d)) /\ ~AppSend(d).raised
  BY <1>1, <1>3, AppSendIs
<1>5. QED
  BY <1>2, <1>3, <1>4, PutIs, ToolStep

\* The handshake goes on, or ends.
LEMMA ProceedStep == IInv /\ Proceed => IInv'
<1> SUFFICES ASSUME IInv, Proceed PROVE IInv'
  OBVIOUS
<1>1. Base(c, agreed) /\ Awaits(c) /\ ~c.raised /\ requests \in Nat
  BY DEF IInv, Proceed
<1>2. /\ UNCHANGED device /\ requests' \in Nat /\ respQ' \in Seq(Rec) /\ AllFromDevice(respQ', agreed)
      /\ pc = "busy" /\ ~polling'
  BY DEF Proceed, IInv, Queues, coap
<1>3. c.hs # "idle" => ~c.secure
  BY <1>1 DEF Base, SecureUnder
<1>4. CASE Top.phase = "verify" /\ c.hs = "sendCookieHello"
  <2> DEFINE d == Hello(c, "cookieHello", "waitServerHello")
  <2>1. Put(d)
    BY <1>4 DEF Proceed
  <2>2. Base(d, agreed) /\ Awaits(d) /\ ~d.raised
    BY <1>1, <1>3, <1>4, HelloIs DEF MsgType, HsState
  <2> HIDE DEF d
  <2>3. QED
    BY <1>2, <2>1, <2>2, PutIs, ToolStep
<1>5. CASE Top.phase # "finish" /\ c.hs = "sendCertificate" /\ ~c.ekey
  <2> DEFINE d == HsSend(c, "certificate", <<>>)
  <2>1. Put(d) /\ pc' = "died"
    BY <1>5 DEF Proceed
  <2>2. <<>> \in Transcript /\ "certificate" \in MsgType
    BY DEF Transcript, MsgType
  <2>3. Base(d, agreed) /\ ~d.raised
    BY <1>1, <2>2, HsSendIs DEF HasSent
  <2> HIDE DEF d
  <2>4. QED
    BY <1>2, <2>1, <2>3, PutIs, ToolStep
<1>6. CASE Top.phase # "finish" /\ c.hs = "sendCertificate" /\ c.ekey
  <2> DEFINE d == Flight(c)
  <2>1. Base(d, agreed) /\ (~d.raised => Awaits(d))
    BY <1>1, <1>6, FlightIs
  <2>2. IF d.raised THEN Put(AppSend(Rescue(d))) ELSE Put(d)
    BY <1>6 DEF Proceed
  <2> HIDE DEF d
  <2>3. CASE d.raised
    <3> DEFINE f == Rescue(d)
    <3>1. Base(f, agreed) /\ Awaits(f) /\ ~f.raised
      BY <2>1, RescueIs
    <3>2. Put(AppSend(f))
      BY <2>2, <2>3
    <3> HIDE DEF f
    <3>3. Base(AppSend(f), agreed) /\ Awaits(AppSend(f)) /\ ~AppSend(f).raised
      BY <1>1, <3>1, AppSendIs
    <3>4. QED
      BY <1>2, <3>2, <3>3, PutIs, ToolStep
  <2>4. CASE ~d.raised
    BY <1>2, <2>1, <2>2, <2>4, PutIs, ToolStep
  <2>5. QED
    BY <2>3, <2>4
<1>7. CASE ~(Top.phase = "verify" /\ c.hs = "sendCookieHello")
           /\ ~(Top.phase # "finish" /\ c.hs = "sendCertificate" /\ ~c.ekey)
           /\ ~(Top.phase # "finish" /\ c.hs = "sendCertificate" /\ c.ekey)
  <2>1. Put(AppSend(c))
    BY <1>7 DEF Proceed
  <2>2. Base(AppSend(c), agreed) /\ Awaits(AppSend(c)) /\ ~AppSend(c).raised
    BY <1>1, AppSendIs
  <2>3. QED
    BY <1>2, <2>1, <2>2, PutIs, ToolStep
<1>8. QED
  BY <1>4, <1>5, <1>6, <1>7

\* Losing records from the front takes nothing from what is known of the others.
LEMMA Shortened ==
  ASSUME NEW A, NEW q \in Seq(Rec), AllFromDevice(q, A), NEW k \in 1 .. Len(q)
  PROVE  SubSeq(q, k + 1, Len(q)) \in Seq(Rec) /\ AllFromDevice(SubSeq(q, k + 1, Len(q)), A)
<1> DEFINE s == SubSeq(q, k + 1, Len(q))
<1>1. /\ s \in Seq(Rec) /\ Len(s) = Len(q) - k /\ Len(q) \in Nat
      /\ \A i \in 1 .. Len(q) - k : s[i] = q[k + i]
  OBVIOUS
<1>2. \A i \in 1 .. Len(q) - k : k + i \in 1 .. Len(q)
  BY <1>1
<1> HIDE DEF s
<1>3. AllFromDevice(s, A)
  BY <1>1, <1>2 DEF AllFromDevice
<1>4. QED
  BY <1>1, <1>3 DEF s

\* The first record is taken from a line.
LEMMA Later ==
  ASSUME NEW A, NEW q \in Seq(Rec), q # <<>>
  PROVE  /\ Tail(q) \in Seq(Rec) /\ Head(q) \in Rec
         /\ DataUnder(q, A) => DataUnder(Tail(q), A)
         /\ AllFromDevice(q, A) => AllFromDevice(Tail(q), A) /\ FromDevice(Head(q), A)
<1>1. /\ Tail(q) \in Seq(Rec) /\ Len(Tail(q)) = Len(q) - 1 /\ Len(q) \in Nat /\ Len(q) > 0
      /\ \A i \in 1 .. Len(q) - 1 : Tail(q)[i] = q[i + 1]
      /\ Head(q) = q[1] /\ Head(q) \in Rec
  OBVIOUS
<1>2. 1 \in 1 .. Len(q) /\ \A i \in 1 .. Len(q) - 1 : i + 1 \in 1 .. Len(q)
  BY <1>1
<1>3. QED
  BY <1>1, <1>2 DEF DataUnder, AllFromDevice

\* A record is read; an exception ends the handshake or the tool.
LEMMA RxStep == IInv /\ Rx => IInv'
<1> SUFFICES ASSUME IInv, Rx PROVE IInv'
  OBVIOUS
<1> DEFINE d == RecordRx(c, Head(respQ))
<1>1. /\ respQ \in Seq(Rec) /\ respQ # <<>> /\ AllFromDevice(respQ, agreed)
      /\ Base(c, agreed) /\ ~c.raised /\ requests \in Nat
  BY DEF Rx, IInv, Queues
<1>2. /\ Tail(respQ) \in Seq(Rec) /\ Head(respQ) \in Rec
      /\ AllFromDevice(Tail(respQ), agreed) /\ FromDevice(Head(respQ), agreed)
  BY <1>1, Later
<1>3. UNCHANGED device /\ requests' \in Nat
  BY <1>1 DEF Rx
<1>4. IF d.raised THEN Thrown(d) ELSE Handled(d)
  BY DEF Rx
<1>5. pc # "died" /\ Awaits(c)
  BY DEF IInv, Rx, Waits, Polls
<1>6. QED
  <2>1. Base(d, agreed) /\ (~d.raised => Awaits(d))
    BY <1>1, <1>2, <1>5, RecordRxIs
  <2> HIDE DEF d
  <2>2. CASE ~d.raised
    <3>1. Put(d) /\ respQ' = Tail(respQ) /\ pc' # "died"
      BY <1>4, <1>5, <2>2 DEF Handled
    <3>2. QED
      BY <1>2, <1>3, <2>1, <2>2, <3>1, PutIs, ToolStep
  <2>3. CASE d.raised
    <3>5. ~polling'
      BY <1>4, <2>3 DEF Thrown
    <3>1. respQ' \in Seq(Rec) /\ AllFromDevice(respQ', agreed)
      <4>1. PICK k \in 1 .. Len(respQ) : respQ' = SubSeq(respQ, k + 1, Len(respQ))
        BY <1>4, <2>3 DEF Thrown
      <4>2. QED
        BY <1>1, <4>1, Shortened
    <3>2. CASE stack = <<>>
      <4> DEFINE f == [d EXCEPT !.raised = FALSE]
      <4>1. Put(f) /\ pc' = "died"
        BY <1>4, <2>3, <3>2 DEF Thrown
      <4>2. /\ f \in Handlers /\ f.out = d.out /\ ~f.raised /\ f.secure = d.secure /\ f.hs = d.hs
            /\ f.r = d.r /\ f.w = d.w /\ f.pr = d.pr
        BY <2>1 DEF Base, Handlers
      <4> HIDE DEF f
      <4>3. Base(f, agreed)
        BY <2>1, <4>2 DEF Base, SecureUnder
      <4>4. QED
        BY <1>3, <3>1, <3>5, <4>1, <4>2, <4>3, PutIs, ToolStep
    <3>3. CASE stack # <<>>
      <4> DEFINE f == Rescue(d)
      <4>1. Base(f, agreed) /\ Awaits(f) /\ ~f.raised
        BY <2>1, RescueIs
      <4>2. Put(AppSend(f))
        BY <1>4, <2>3, <3>3 DEF Thrown
      <4> HIDE DEF f
      <4>3. Base(AppSend(f), agreed) /\ Awaits(AppSend(f)) /\ ~AppSend(f).raised
        BY <1>1, <4>1, AppSendIs
      <4>4. QED
        BY <1>3, <3>1, <3>5, <4>2, <4>3, PutIs, ToolStep
    <3>4. QED
      BY <3>2, <3>3
  <2>4. QED
    BY <2>2, <2>3

-----------------------------------------------------------------------------
(* The steps of the line and the device *)

\* The line loses a record.
LEMMA LoseStep == IInv /\ Lose => IInv'
<1> SUFFICES ASSUME IInv, Lose PROVE IInv'
  OBVIOUS
<1>1. Queues'
  BY Later DEF IInv, Queues, Lose
<1>2. srv' \in Server
  <2>1. srv' = [srv EXCEPT !.troubles = @ + 1] /\ srv \in Server
    BY DEF IInv, Lose
  <2>2. QED
    BY <2>1 DEF Server
<1>3. QED
  BY <1>1, <1>2 DEF IInv, Lose, coap

\* What is known of the handlers and the lines is not lost when a session is agreed.
LEMMA Grows ==
  ASSUME NEW A, NEW B, A \subseteq B
  PROVE  /\ \A q : DataUnder(q, A) => DataUnder(q, B)
         /\ \A q : AllFromDevice(q, A) => AllFromDevice(q, B)
         /\ \A d : Base(d, A) => Base(d, B)
BY DEF DataUnder, AllFromDevice, FromDevice, Base, SecureUnder

\* The device adds records to the line.
LEMMA MoreFromDevice ==
  ASSUME NEW A, NEW q \in Seq(Rec), NEW p \in Seq(Rec), AllFromDevice(q, A), AllFromDevice(p, A)
  PROVE  q \o p \in Seq(Rec) /\ AllFromDevice(q \o p, A)
BY RecordsOf DEF AllFromDevice

\* The messages of the handshake before Finished.
LEMMA SaidIs ==
  ASSUME NEW A, NEW s \in Server, NEW ts \in Seq(DOMAIN Expected \ {"finished"}), NEW seq \in Nat
  PROVE  /\ Said(s, ts, seq) \in Seq(Rec) /\ AllFromDevice(Said(s, ts, seq), A)
         /\ Tokens(Said(s, ts, seq)) \in Transcript
<1> DEFINE rs == Said(s, ts, seq)
<1>1. DOMAIN ts = 1 .. Len(ts) /\ Len(ts) \in Nat
  OBVIOUS
<1>2. ASSUME NEW i \in 1 .. Len(ts)
      PROVE  /\ rs[i] \in Rec
             /\ rs[i].ct = "handshake" /\ rs[i].epoch = 0 /\ rs[i].msg.t = ts[i]
  <2> DEFINE m == Msg(ts[i], seq + i - 1, s.sid, <<>>)
             p == [epoch |-> 0, key |-> 0, n |-> s.n + i - 1]
  <2>1. ts[i] \in DOMAIN Expected
    BY <1>1, <1>2
  <2>2. ts[i] \in MsgType
    BY <2>1 DEF Expected, MsgType
  <2>3. seq + i - 1 \in Nat /\ s.n + i - 1 \in Nat /\ s.sid \in Nat /\ <<>> \in Transcript
    BY <1>1, <1>2 DEF Server, Transcript
  <2>4. m \in Message /\ m.t = ts[i]
    <3>1. m \in Message
      BY <2>2, <2>3, MsgIs
    <3>2. m.t = ts[i]
      BY DEF Msg
    <3>3. QED
      BY <3>1, <3>2
  <2>5. p \in SecOf /\ p.epoch = 0
    BY <2>3 DEF SecOf
  <2>6. rs[i] = Record("handshake", p, m)
    BY <1>1, <1>2 DEF Said
  <2> HIDE DEF m, p, rs
  <2>7. QED
    BY <2>4, <2>5, <2>6 DEF Record, Rec, SecOf, ContentType
<1>3. rs = [i \in 1 .. Len(ts) |-> rs[i]]
  BY <1>1 DEF Said
<1> HIDE DEF rs
<1>4. rs \in Seq(Rec) /\ Len(rs) = Len(ts) /\ DOMAIN rs = 1 .. Len(ts)
  BY <1>1, <1>2, <1>3
<1>5. AllFromDevice(rs, A)
  <2>1. \A i \in 1 .. Len(ts) : ts[i] \in DOMAIN Expected /\ ts[i] # "finished"
    BY <1>1
  <2>2. QED
    BY <1>2, <1>4, <2>1 DEF AllFromDevice, FromDevice
<1>6. Tokens(rs) \in Transcript
  <2>1. \A i \in 1 .. Len(ts) : Token(rs[i].msg) \in MsgType \X Nat \X Nat
    BY <1>2 DEF Rec, Token, Message
  <2>2. Tokens(rs) = [i \in 1 .. Len(ts) |-> Token(rs[i].msg)]
    BY <1>4 DEF Tokens
  <2>3. QED
    BY <1>1, <2>1, <2>2 DEF Transcript
<1>7. QED
  BY <1>4, <1>5, <1>6 DEF rs

\* The flights of the device end before its Finished.
LEMMA FlightsOf ==
  /\ ServerFlight \in Seq(DOMAIN Expected \ {"finished"}) /\ Len(ServerFlight) = 5
  /\ <<"verifyRequest">> \in Seq(DOMAIN Expected \ {"finished"}) /\ Len(<<"verifyRequest">>) = 1
<1>1. {"verifyRequest", "serverHello", "certificate", "keyExchange", "certRequest", "helloDone"}
        \subseteq DOMAIN Expected \ {"finished"}
  BY DEF Expected
<1>2. QED
  BY <1>1 DEF ServerFlight

\* A transcript begins with a ClientHello.
LEMMA Begun ==
  ASSUME NEW m \in Message, NEW l \in Transcript
  PROVE  <<Token(m)>> \o l \in Transcript /\ Append(l, Token(m)) \in Transcript
<1>1. Token(m) \in MsgType \X Nat \X Nat
  BY DEF Token, Message
<1>2. QED
  BY <1>1 DEF Transcript

\* What a step of the device has to leave.
Served ==
  /\ srv' \in Server /\ agreed' \in SUBSET Nat /\ agreed \subseteq agreed'
  /\ respQ' \in Seq(Rec) /\ AllFromDevice(respQ', agreed')

\* The device starts a session.
LEMMA BeginIs ==
  ASSUME IInv, NEW m \in Message, Begin(m)
  PROVE  Served
<1>1. srv \in Server /\ respQ \in Seq(Rec) /\ AllFromDevice(respQ, agreed)
  BY DEF IInv, Queues
<1> DEFINE ts == IF srv.cookies THEN <<"verifyRequest">> ELSE ServerFlight
           s == [srv EXCEPT !.sid = @ + 1, !.n = 0]
<1>2. ts \in Seq(DOMAIN Expected \ {"finished"}) /\ Len(ts) \in Nat
  <2>1. CASE srv.cookies
    <3>1. ts = <<"verifyRequest">>
      BY <2>1
    <3>2. QED
      BY <3>1, FlightsOf
  <2>2. CASE ~srv.cookies
    <3>1. ts = ServerFlight
      BY <2>2
    <3>2. QED
      BY <3>1, FlightsOf
  <2>3. QED
    BY <2>1, <2>2
<1>3. s \in Server
  <2>1. s = [srv EXCEPT !.sid = srv.sid + 1, !.n = 0] /\ srv.sid + 1 \in Nat
    BY <1>1 DEF Server
  <2>2. QED
    BY <1>1, <2>1 DEF Server
<1>4. PICK seq \in {0, srv.seq} :
        /\ respQ' = respQ \o Said(s, ts, seq)
        /\ srv' = [s EXCEPT !.at = IF srv.cookies THEN 0 ELSE 1,
                            !.n = Len(ts), !.seq = seq + Len(ts),
                            !.log = <<Token(m)>> \o Tokens(Said(s, ts, seq))]
  BY DEF Begin
<1>5. seq \in Nat
  BY <1>1 DEF Server
<1> HIDE DEF s, ts
<1> DEFINE rs == Said(s, ts, seq)
<1>6. rs \in Seq(Rec) /\ AllFromDevice(rs, agreed) /\ Tokens(rs) \in Transcript
  BY <1>2, <1>3, <1>5, SaidIs
<1> DEFINE l == <<Token(m)>> \o Tokens(rs)
           n == Len(ts)
           k == seq + Len(ts)
           at == IF srv.cookies THEN 0 ELSE 1
<1>7. l \in Transcript /\ n \in Nat /\ k \in Nat /\ at \in 0 .. 6
  BY <1>2, <1>5, <1>6, Begun
<1>8. srv' = [s EXCEPT !.at = at, !.n = n, !.seq = k, !.log = l]
  BY <1>4
<1> HIDE DEF rs, l, n, k, at
<1>9. srv' \in Server
  BY <1>3, <1>7, <1>8 DEF Server
<1>10. respQ \o rs \in Seq(Rec) /\ AllFromDevice(respQ \o rs, agreed)
  BY <1>1, <1>6, MoreFromDevice
<1>11. respQ' = respQ \o rs /\ agreed' = agreed
  BY <1>4 DEF Begin, rs
<1>12. QED
  BY <1>9, <1>10, <1>11 DEF Served, IInv

\* The device has seen the cookie.
LEMMA ContinueIs ==
  ASSUME IInv, NEW m \in Message, Continue(m)
  PROVE  Served
<1>1. srv \in Server /\ respQ \in Seq(Rec) /\ AllFromDevice(respQ, agreed) /\ srv.seq \in Nat
  BY DEF IInv, Queues, Server
<1> DEFINE rs == Said(srv, ServerFlight, srv.seq)
           l == <<Token(m)>> \o Tokens(rs)
<1>2. rs \in Seq(Rec) /\ AllFromDevice(rs, agreed) /\ Tokens(rs) \in Transcript
  BY <1>1, FlightsOf, SaidIs
<1>3. l \in Transcript
  BY <1>2, Begun
<1>4. /\ srv' = [srv EXCEPT !.at = 1, !.n = @ + 5, !.seq = @ + 5, !.log = l]
      /\ respQ' = respQ \o rs /\ agreed' = agreed
  BY DEF Continue
<1> HIDE DEF rs, l
<1>5. srv' \in Server
  <2> DEFINE n == srv.n + 5
             seq == srv.seq + 5
             at == 1
  <2>1. n \in Nat /\ seq \in Nat /\ at \in 0 .. 6 /\ srv' = [srv EXCEPT !.at = at, !.n = n, !.seq = seq, !.log = l]
    BY <1>1, <1>4 DEF Server
  <2> HIDE DEF n, seq, at
  <2>2. QED
    BY <1>1, <1>3, <2>1 DEF Server
<1>6. respQ \o rs \in Seq(Rec) /\ AllFromDevice(respQ \o rs, agreed)
  BY <1>1, <1>2, MoreFromDevice
<1>7. QED
  BY <1>4, <1>5, <1>6 DEF Served, IInv

\* The session is agreed before the Finished of the device is on its way.
LEMMA AcceptIs ==
  ASSUME IInv, NEW rec \in Rec, Accept(rec)
  PROVE  Served
<1> DEFINE m == rec.msg
           log == IF m.t = "ccs" THEN srv.log ELSE Append(srv.log, Token(m))
           p == [epoch |-> 1, key |-> srv.sid, n |-> 0]
           fin == Msg("finished", srv.seq, srv.sid, log)
           A == agreed \cup {srv.sid}
           one == Record("ccs", [NoSec EXCEPT !.n = srv.n], Plain("ccs"))
           two == Record("handshake", p, fin)
           q == <<one, two>>
<1>1. /\ srv \in Server /\ respQ \in Seq(Rec) /\ AllFromDevice(respQ, agreed)
      /\ srv.seq \in Nat /\ srv.sid \in Nat /\ srv.n \in Nat /\ srv.log \in Transcript
      /\ agreed \in SUBSET Nat /\ m \in Message
  BY DEF IInv, Queues, Server, Rec
<1>2. log \in Transcript
  BY <1>1, Begun
<1>3. fin \in Message /\ fin.t = "finished" /\ fin.sid = srv.sid
  <2>1. "finished" \in MsgType
    BY DEF MsgType
  <2> HIDE DEF log
  <2>2. fin \in Message
    BY <1>1, <1>2, <2>1, MsgIs
  <2>3. fin.t = "finished" /\ fin.sid = srv.sid
    BY DEF Msg
  <2>4. QED
    BY <2>2, <2>3
<1>4. srv.at \in 1 .. 5
  BY DEF Accept, Accepts
<1>5. srv' = [srv EXCEPT !.at = srv.at + 1, !.log = log,
                         !.seq = IF srv.at = 5 THEN srv.seq + 1 ELSE srv.seq,
                         !.n = IF srv.at = 5 THEN 1 ELSE srv.n]
  BY <1>1 DEF Accept, Server
<1>6. IF srv.at = 5 THEN agreed' = A /\ respQ' = respQ \o q
                    ELSE agreed' = agreed /\ respQ' = respQ
  BY DEF Accept
<1> HIDE DEF log, fin, m
<1>7. srv' \in Server
  <2> DEFINE at == srv.at + 1
             seq == IF srv.at = 5 THEN srv.seq + 1 ELSE srv.seq
             n == IF srv.at = 5 THEN 1 ELSE srv.n
  <2>1. at \in 0 .. 6 /\ seq \in Nat /\ n \in Nat
    BY <1>1, <1>4
  <2>2. srv' = [srv EXCEPT !.at = at, !.log = log, !.seq = seq, !.n = n]
    BY <1>5
  <2> HIDE DEF at, seq, n
  <2>3. QED
    BY <1>1, <1>2, <2>1, <2>2 DEF Server
<1>8. one \in Rec /\ one.ct = "ccs" /\ one.epoch = 0
  <2>1. Plain("ccs") \in Message
    BY PlainIs DEF MsgType
  <2> DEFINE y == Plain("ccs")
  <2> HIDE DEF y
  <2>2. QED
    BY <1>1, <2>1 DEF y, Record, Rec, NoSec, ContentType
<1>9. two \in Rec /\ two.ct = "handshake" /\ two.n = 0 /\ two.msg = fin
  BY <1>1, <1>3 DEF Record, Rec, ContentType
<1> HIDE DEF one, two
<1>10. q \in Seq(Rec) /\ Len(q) = 2 /\ q[1] = one /\ q[2] = two
  BY <1>8, <1>9
<1>11. AllFromDevice(q, A)
  <2>1. FromDevice(one, A)
    BY <1>8 DEF FromDevice
  <2>2. FromDevice(two, A)
    BY <1>3, <1>9 DEF FromDevice, Expected
  <2>3. \A i \in 1 .. 2 : i = 1 \/ i = 2
    OBVIOUS
  <2> HIDE DEF q
  <2>4. QED
    BY <1>10, <2>1, <2>2, <2>3 DEF AllFromDevice
<1> HIDE DEF q
<1>12. respQ \o q \in Seq(Rec) /\ AllFromDevice(respQ \o q, A)
  BY <1>1, <1>10, <1>11, Grows, MoreFromDevice
<1>13. QED
  BY <1>1, <1>6, <1>7, <1>12 DEF Served

\* A record that is not of the handshake.
LEMMA OneMore ==
  ASSUME NEW A, NEW q \in Seq(Rec), AllFromDevice(q, A), NEW x \in Rec, FromDevice(x, A)
  PROVE  Append(q, x) \in Seq(Rec) /\ AllFromDevice(Append(q, x), A)
<1>1. /\ Append(q, x) \in Seq(Rec) /\ Len(Append(q, x)) = Len(q) + 1 /\ Len(q) \in Nat
      /\ \A i \in 1 .. Len(q) : Append(q, x)[i] = q[i]
      /\ Append(q, x)[Len(q) + 1] = x
  OBVIOUS
<1>2. \A i \in 1 .. Len(q) + 1 : i \in 1 .. Len(q) \/ i = Len(q) + 1
  BY <1>1
<1>3. QED
  BY <1>1, <1>2 DEF AllFromDevice

\* The device answers.
LEMMA AnswerIs ==
  ASSUME IInv, NEW rec \in Rec, Answer(rec)
  PROVE  Served
<1> DEFINE x == Record("app", [epoch |-> 1, key |-> srv.sid, n |-> srv.n], rec.msg)
<1>1. /\ srv \in Server /\ respQ \in Seq(Rec) /\ AllFromDevice(respQ, agreed)
      /\ srv.sid \in Nat /\ srv.n \in Nat /\ rec.msg \in Message
  BY DEF IInv, Queues, Server, Rec
<1>2. x \in Rec /\ FromDevice(x, agreed)
  BY <1>1 DEF Record, Rec, ContentType, FromDevice
<1>3. respQ' = Append(respQ, x) /\ srv' = [srv EXCEPT !.n = @ + 1] /\ agreed' = agreed
  BY DEF Answer
<1> HIDE DEF x
<1>4. srv' \in Server
  <2> DEFINE n == srv.n + 1
  <2>1. n \in Nat /\ srv' = [srv EXCEPT !.n = n]
    BY <1>1, <1>3 DEF Server
  <2> HIDE DEF n
  <2>2. QED
    BY <1>1, <2>1 DEF Server
<1>5. QED
  BY <1>1, <1>2, <1>3, <1>4, OneMore DEF Served, IInv

\* The device gives up.
LEMMA RefuseIs ==
  ASSUME IInv, Refuse
  PROVE  Served
<1> DEFINE p == [epoch |-> IF srv.at = 6 THEN 1 ELSE 0, key |-> IF srv.at = 6 THEN srv.sid ELSE 0, n |-> srv.n]
           x == Record("alert", p, Plain("alert"))
<1>1. /\ srv \in Server /\ respQ \in Seq(Rec) /\ AllFromDevice(respQ, agreed)
      /\ srv.sid \in Nat /\ srv.n \in Nat
  BY DEF IInv, Queues, Server
<1>2. p \in SecOf
  BY <1>1 DEF SecOf
<1>3. Plain("alert") \in Message
  BY PlainIs DEF MsgType
<1> DEFINE y == Plain("alert")
<1> HIDE DEF p, y
<1>4. x \in Rec /\ FromDevice(x, agreed)
  BY <1>2, <1>3 DEF y, Record, Rec, SecOf, ContentType, FromDevice
<1>5. /\ srv' = [srv EXCEPT !.troubles = @ + 1, !.n = @ + 1]
      /\ respQ' = Append(respQ, x) /\ agreed' = agreed
  BY DEF Refuse, p
<1> HIDE DEF x
<1>6. srv' \in Server
  <2> DEFINE n == srv.n + 1
             k == srv.troubles + 1
  <2>1. n \in Nat /\ k \in Nat /\ srv' = [srv EXCEPT !.troubles = k, !.n = n]
    BY <1>1, <1>5 DEF Server
  <2> HIDE DEF n, k
  <2>2. QED
    BY <1>1, <2>1 DEF Server
<1>7. QED
  BY <1>1, <1>4, <1>5, <1>6, OneMore DEF Served, IInv

\* The device takes a record.
LEMMA ServeStep == IInv /\ Serve => IInv'
<1> SUFFICES ASSUME IInv, Serve PROVE IInv'
  OBVIOUS
<1> DEFINE rec == Head(reqQ)
<1>1. reqQ \in Seq(Rec) /\ reqQ # <<>> /\ DataUnder(reqQ, agreed)
  BY DEF Serve, IInv, Queues
<1>2. rec \in Rec /\ reqQ' = Tail(reqQ) /\ Tail(reqQ) \in Seq(Rec) /\ DataUnder(Tail(reqQ), agreed)
  BY <1>1, Later DEF Serve
<1>3. rec.msg \in Message
  BY <1>2 DEF Rec
<1>4. Begin(rec.msg) \/ Continue(rec.msg) \/ Accept(rec) \/ Answer(rec) \/ Ignore(rec) \/ Refuse
  BY DEF Serve
<1>5. Ignore(rec) => Served
  BY DEF Ignore, Served, IInv, Queues
<1> HIDE DEF rec
<1>6. Served
  BY <1>2, <1>3, <1>4, <1>5, BeginIs, ContinueIs, AcceptIs, AnswerIs, RefuseIs
<1>7. Base(c, agreed') /\ DataUnder(reqQ', agreed')
  BY <1>2, <1>6, Grows DEF Served, IInv
<1>8. QED
  BY <1>2, <1>6, <1>7 DEF Served, Serve, IInv, Queues, coap

-----------------------------------------------------------------------------
(* The properties *)

\* The invariant holds at the start.
LEMMA InitIInv == Init => IInv
<1> SUFFICES ASSUME Init PROVE IInv
  OBVIOUS
<1>1. <<>> \in Transcript /\ <<>> \in Seq(Rec) /\ NoSec \in SecOf /\ None \in {None}
  BY DEF Transcript, NoSec, SecOf
<1>2. c = Fresh
  BY DEF Init
<1>3. c \in Handlers
  BY <1>1, <1>2 DEF Fresh, Handlers, HsState
<1>4. ~c.secure /\ c.hs = "idle" /\ c.out = <<>> /\ ~c.raised
  BY <1>2 DEF Fresh
<1>5. Base(c, agreed) /\ Awaits(c)
  BY <1>3, <1>4 DEF Base, SecureUnder, DataUnder, Awaits
<1>6. srv \in Server
  <2>1. /\ srv \in [cookies : BOOLEAN, sid : {0}, at : {0}, n : {0}, seq : {0}, log : {<<>>}, troubles : {0}]
        /\ 0 \in 0 .. 6
    BY DEF Init
  <2>2. QED
    BY <1>1, <2>1 DEF Server
<1>7. Queues
  BY <1>1 DEF Init, Queues, DataUnder, AllFromDevice
<1>8. QED
  BY <1>4, <1>5, <1>6, <1>7 DEF Init, IInv

\* Every step keeps the invariant.
LEMMA NextIInv == IInv /\ [Next]_vars => IInv'
<1> SUFFICES ASSUME IInv, [Next]_vars PROVE IInv'
  OBVIOUS
<1>1. CASE UNCHANGED vars
  BY <1>1 DEF vars, device, coap, IInv, Queues
<1>2. QED
  BY <1>1, RequestStep, ProceedStep, ReturnStep, RxStep, EndPollStep, OtherPollStep, TimeoutStep,
     NoTimerStep, LoseStep, ServeStep DEF Next, Tool

\* The invariant holds throughout.
LEMMA AlwaysIInv == Spec => []IInv
BY InitIInv, NextIInv, PTL DEF Spec

\* Whatever the line loses and wherever the device or a retransmission cuts a
\* handshake off, a channel that counts as secure uses the keys of one session in
\* which the device took our Finished, and no handshake is under way.
THEOREM SecureWhenAgreed == Spec => []SecureIsAgreed
<1>1. IInv => SecureIsAgreed
  BY DEF IInv, Base, SecureUnder, Handlers, SecureIsAgreed
<1>2. QED
  BY <1>1, AlwaysIInv, PTL

\* Every record of application data on the line is under such keys, for any number
\* of requests, polls, retransmissions, losses and sessions.
THEOREM DataWhenAgreed == Spec => []DataOnlyAgreed
<1>1. IInv => DataOnlyAgreed
  <2>1. SUFFICES ASSUME IInv PROVE DataOnlyAgreed
    OBVIOUS
  <2>2. DOMAIN reqQ = 1 .. Len(reqQ) /\ DataUnder(reqQ, agreed)
    BY <2>1 DEF IInv, Queues
  <2>3. QED
    BY <2>2 DEF DataOnlyAgreed, DataUnder
<1>2. QED
  BY <1>1, AlwaysIInv, PTL

-----------------------------------------------------------------------------
(* The undisturbed handshake                                               *)

\* The handshake messages that either side has sent when the ClientHello comes
\* that the device goes on with, and the type of that one.
Before == IF srv.cookies THEN 1 ELSE 0
First == IF srv.cookies THEN "cookieHello" ELSE "hello"

\* The messages of both sides that count for a signature or a Finished.
Own == <<"certificate", "keyExchange", "certVerify", "finished">>
Entry(i) ==
  IF i = 1 THEN <<First, Before, 0>>
  ELSE IF i <= 6 THEN <<ServerFlight[i - 1], Before + i - 2, 1>>
  ELSE <<Own[i - 6], Before + i - 6, 0>>
Log(k) == [i \in 1 .. k |-> Entry(i)]

\* The handlers while nothing is encrypted.
Unkeyed(hs, rx, tx) ==
  /\ c.hs = hs /\ c.rx = rx /\ c.tx = tx /\ c.ekey /\ ~c.secure
  /\ c.r = [epoch |-> 0, key |-> 0, n |-> rx]
  /\ c.w.key = 0 /\ c.pr = None /\ c.pw = None

Single(q, t, seq, sid) ==
  /\ Len(q) = 1
  /\ q[1].ct = "handshake" /\ q[1].msg = Msg(t, seq, sid, <<>>)

\* The device has not answered a ClientHello yet, or asks for the cookie.
Asleep == srv.sid = 0 /\ srv.at = 0 /\ srv.n = 0 /\ srv.seq = 0
Asking == srv.cookies /\ srv.sid = 1 /\ srv.at = 0 /\ srv.n = 1 /\ srv.seq = 1

Start ==
  /\ Unkeyed("idle", 0, 0) /\ Asleep
  /\ reqQ = <<>> /\ respQ = <<>>

HelloSent ==
  /\ Unkeyed("waitVerifyRequest", 0, 1) /\ Asleep
  /\ c.log = <<<<"hello", 0, 0>>>>
  /\ Single(reqQ, "hello", 0, 0) /\ respQ = <<>>

VerifyAsked ==
  /\ Unkeyed("waitVerifyRequest", 0, 1) /\ Asking
  /\ reqQ = <<>> /\ Single(respQ, "verifyRequest", 0, 1)
  /\ respQ[1].epoch = 0 /\ respQ[1].key = 0 /\ respQ[1].n = 0

VerifyTaken ==
  /\ Unkeyed("sendCookieHello", 1, 1) /\ Asking
  /\ reqQ = <<>> /\ respQ = <<>>

CookieSent ==
  /\ Unkeyed("waitServerHello", 1, 2) /\ Asking
  /\ c.log = <<<<"cookieHello", 1, 0>>>>
  /\ Single(reqQ, "cookieHello", 1, 0) /\ respQ = <<>>

\* k messages of the server's flight are taken, the rest is on the line.
Step == <<"waitCertificate", "waitKeyExchange", "waitCertRequest", "waitHelloDone", "sendCertificate">>
InStep(k) ==
  IF k > 0 THEN Step[k] ELSE IF srv.cookies THEN "waitServerHello" ELSE "waitVerifyRequest"

OfServer(rec, k) ==
  /\ rec.ct = "handshake" /\ rec.epoch = 0 /\ rec.key = 0 /\ rec.n = Before + k - 1
  /\ rec.msg = Msg(ServerFlight[k], Before + k - 1, 1, <<>>)

ServerSaid(k) ==
  /\ Unkeyed(InStep(k), Before + k, Before + 1)
  /\ k > 0 => c.sid = 1
  /\ c.log = Log(k + 1)
  /\ srv.sid = 1 /\ srv.at = 1 /\ srv.n = Before + 5 /\ srv.seq = Before + 5 /\ srv.log = Log(6)
  /\ reqQ = <<>>
  /\ Len(respQ) = 5 - k /\ \A i \in 1 .. 5 - k : OfServer(respQ[i], k + i)

\* The handlers when the client's flight is sent.
Keyed(hs, r) ==
  /\ c.hs = hs /\ c.rx = Before + 5 /\ ~c.secure
  /\ c.key = 1 /\ c.w.key = 1 /\ c.r = r /\ c.log = Log(10)

New == [epoch |-> 1, key |-> 1, n |-> 0]
Old == [epoch |-> 0, key |-> 0, n |-> Before + 5]

\* The device takes the j-th record of the client's flight.
Taken(j) == IF j <= 4 THEN 5 + j ELSE 4 + j

OfClient(rec, k) ==
  /\ rec.key = IF k = 5 THEN 1 ELSE 0
  /\ rec.ct # "app" /\ rec.msg.t = Rest[k]
  /\ k # 4 => Token(rec.msg) = Entry(Taken(k + 1))
  /\ k \in {3, 5} => rec.msg.over = Log(Taken(k))

ClientSaid(j) ==
  /\ Keyed("waitChangeCipherSpec", Old) /\ c.pr = New
  /\ srv.sid = 1 /\ srv.at = j /\ srv.n = Before + 5 /\ srv.seq = Before + 5 /\ srv.log = Log(Taken(j))
  /\ Len(reqQ) = 6 - j /\ \A i \in 1 .. 6 - j : OfClient(reqQ[i], j - 1 + i)
  /\ respQ = <<>>

IsCipherChange(rec) ==
  rec.ct = "ccs" /\ rec.epoch = 0 /\ rec.key = 0 /\ rec.n = Before + 5

IsFinished(rec) ==
  /\ rec.ct = "handshake" /\ rec.epoch = 1 /\ rec.key = 1 /\ rec.n = 0
  /\ rec.msg = Msg("finished", Before + 5, 1, Log(10))

Done == srv.sid = 1 /\ srv.at = 6 /\ srv.n = 1

ServerDone ==
  /\ Done /\ reqQ = <<>>
  /\ Keyed("waitChangeCipherSpec", Old) /\ c.pr = New
  /\ Len(respQ) = 2 /\ IsCipherChange(respQ[1]) /\ IsFinished(respQ[2])

CipherChanged ==
  /\ Done /\ reqQ = <<>>
  /\ Keyed("waitFinished", New) /\ c.pr = None
  /\ Len(respQ) = 1 /\ IsFinished(respQ[1])

Open ==
  /\ srv.sid = 1 /\ srv.at = 6 /\ srv.n = c.r.n + Len(respQ)
  /\ c.secure /\ c.hs = "idle" /\ c.r.epoch = 1 /\ c.r.key = 1 /\ c.w.key = 1
  /\ \A i \in 1 .. Len(reqQ) : reqQ[i].ct = "app" /\ reqQ[i].key = 1 /\ reqQ[i].msg.t = "app"
  /\ \A i \in 1 .. Len(respQ) : /\ respQ[i].ct = "app" /\ respQ[i].epoch = 1 /\ respQ[i].key = 1
                                /\ respQ[i].n = c.r.n + i - 1

Stage ==
  \/ Start \/ HelloSent \/ VerifyAsked \/ VerifyTaken \/ CookieSent
  \/ \E k \in 0 .. 5 : ServerSaid(k)
  \/ \E j \in 1 .. 5 : ClientSaid(j)
  \/ ServerDone \/ CipherChanged \/ Open

\* One handshake at most is under way, and a request waits for it; where none is
\* wanted none has begun or it has succeeded.
Calls ==
  /\ stack = <<>> \/ stack = <<stack[1]>>
  /\ stack # <<>> => timer /\ (c.secure => reqQ = <<>> /\ respQ = <<>>)
  /\ ~timer => Start \/ c.secure
  /\ pc # "died"
  /\ pc = "idle" => stack = <<>> /\ ~timer

CalmInv == ~trouble => Stage /\ Calls

\* e differs from d in what was sent.
Same(e, d) ==
  /\ e.hs = d.hs /\ e.rx = d.rx /\ e.tx = d.tx /\ e.ekey = d.ekey /\ e.secure = d.secure
  /\ e.r = d.r /\ e.w = d.w /\ e.pr = d.pr /\ e.pw = d.pw
  /\ e.sid = d.sid /\ e.key = d.key /\ e.log = d.log

LEMMA PutSame ==
  ASSUME NEW d \in Handlers, Put(d)
  PROVE  Same(c', d) /\ reqQ' = reqQ \o d.out
BY DEF Put, Handlers, Same

LEMMA PutQuiet ==
  ASSUME NEW d \in Handlers, Put(d), d.out = <<>>, reqQ \in Seq(Rec)
  PROVE  Same(c', d) /\ reqQ' = reqQ
BY PutSame, ConcatEmptySeq

\* A ClientHello on an empty line.
LEMMA HelloGives ==
  ASSUME NEW t \in MsgType, NEW next, c \in Handlers, c.out = <<>>, reqQ = <<>>,
         Put(Hello(c, t, next))
  PROVE  /\ c'.hs = next /\ c'.rx = c.rx /\ c'.tx = c.tx + 1 /\ c'.ekey = c.ekey
         /\ c'.secure = c.secure /\ c'.r = c.r /\ c'.w.key = c.w.key
         /\ c'.pr = c.pr /\ c'.pw = c.pw
         /\ c'.log = <<<<t, c.tx, 0>>>>
         /\ Single(reqQ', t, c.tx, 0)
<1> DEFINE m == Msg(t, c.tx, 0, <<>>)
           x == Record("handshake", c.w, m)
           w == [c.w EXCEPT !.n = @ + 1]
           l == <<<<t, c.tx, 0>>>>
           k == c.tx + 1
           q == <<x>>
           d == Hello(c, t, next)
           a == [c EXCEPT !.log = <<>>]
           b == [a EXCEPT !.tx = @ + 1, !.log = Append(@, Token(m))]
<1>1. c.w \in SecOf /\ c.tx \in Nat
  BY DEF Handlers
<1>2. w.key = c.w.key
  BY <1>1 DEF SecOf
<1>3. x.ct = "handshake" /\ x.msg = m
  BY DEF Record
<1>4. a.tx = c.tx /\ a.log = <<>> /\ a.w = c.w /\ a.out = <<>>
  BY DEF Handlers
<1>5. d = [Tx(b, "handshake", m) EXCEPT !.hs = next]
  BY <1>4 DEF Hello, HsSend
<1>6. Append(<<>>, Token(m)) = l
  BY DEF Token, Msg
<1>7. b = [c EXCEPT !.tx = k, !.log = l]
  BY <1>4, <1>6 DEF Handlers
<1> HIDE DEF m, x, l, k, a
<1>8. b.w = c.w /\ b.out = <<>>
  BY <1>7 DEF Handlers
<1> HIDE DEF b
<1>9. Append(b.out, Record("handshake", b.w, m)) = q
  BY <1>8 DEF x
<1> HIDE DEF q
<1>10. Tx(b, "handshake", m) = [b EXCEPT !.out = q, !.w = w]
  BY <1>1, <1>7, <1>8, <1>9 DEF Tx, Handlers
<1> HIDE DEF w, d
<1>11. d = [c EXCEPT !.tx = k, !.log = l, !.out = q, !.w = w, !.hs = next]
  BY <1>5, <1>7, <1>10 DEF Handlers
<1>12. c' = [c EXCEPT !.tx = k, !.log = l, !.out = <<>>, !.w = w, !.hs = next] /\ reqQ' = <<>> \o d.out
  BY <1>11 DEF Put, d, Handlers
<1>13. d.out = q
  BY <1>11 DEF Handlers
<1>14. reqQ' = q
  BY <1>12, <1>13 DEF q
<1>15. Single(reqQ', t, c.tx, 0)
  <2>1. Len(q) = 1 /\ q[1] = x
    BY DEF q
  <2>2. QED
    BY <1>3, <1>14, <2>1 DEF Single, m
<1>16. QED
  BY <1>2, <1>12, <1>15 DEF Handlers, l, k

\* A handshake message that is in its place, other than Finished.
LEMMA Received ==
  ASSUME c \in Handlers, ~c.raised, NEW rec, rec.ct = "handshake",
         rec.epoch = c.r.epoch, rec.key = c.r.key, rec.n = c.r.n, rec.msg.seq = c.rx,
         rec.msg.t \in DOMAIN Expected, rec.msg.t # "finished", c.hs \in Expected[rec.msg.t],
         rec.msg.t = "keyExchange" => rec.msg.sid = c.sid
  PROVE  LET d == RecordRx(c, rec)
         IN  /\ d.hs = Then[rec.msg.t] /\ d.rx = c.rx + 1 /\ d.tx = c.tx /\ d.ekey = c.ekey
             /\ d.secure = c.secure /\ d.w = c.w /\ d.pr = c.pr /\ d.pw = c.pw /\ d.key = c.key
             /\ d.r = [epoch |-> c.r.epoch, key |-> c.r.key, n |-> c.r.n + 1]
             /\ d.sid = (IF rec.msg.t = "serverHello" THEN rec.msg.sid ELSE c.sid)
             /\ d.log = Append(c.log, Token(rec.msg))
             /\ ~d.raised /\ d.out = c.out
<1> DEFINE m == rec.msg
           r == [epoch |-> c.r.epoch, key |-> c.r.key, n |-> c.r.n + 1]
           k == c.rx + 1
           h == Then[m.t]
           l == Append(c.log, Token(m))
           e == [c EXCEPT !.r.n = @ + 1]
           f == [e EXCEPT !.rx = @ + 1]
           g == [f EXCEPT !.hs = Then[m.t]]
           s == IF m.t = "serverHello" THEN m.sid ELSE c.sid
           p == Process(f, m)
<1>1. c.r \in SecOf
  BY DEF Handlers
<1>2. e = [c EXCEPT !.r = r]
  BY <1>1 DEF Handlers, SecOf
<1>3. RecordRx(c, rec) = HandshakeRx(e, m)
  BY DEF RecordRx
<1> HIDE DEF r
<1>4. e.rx = c.rx /\ e.log = c.log
  BY <1>2 DEF Handlers
<1>5. f = [c EXCEPT !.r = r, !.rx = k]
  BY <1>2 DEF Handlers
<1> HIDE DEF e, k
<1>6. HandshakeRx(e, m) = IF p.raised THEN p ELSE [p EXCEPT !.log = Append(@, Token(m))]
  BY <1>4 DEF HandshakeRx
<1>7. f.hs = c.hs /\ f.sid = c.sid
  BY <1>5 DEF Handlers
<1>8. g = [c EXCEPT !.r = r, !.rx = k, !.hs = h]
  BY <1>5 DEF Handlers
<1> HIDE DEF f, h
<1>9. p = IF m.t = "serverHello" THEN [g EXCEPT !.sid = m.sid] ELSE g
  BY <1>7 DEF Process
<1> HIDE DEF g
<1>10. p = [c EXCEPT !.r = r, !.rx = k, !.hs = h, !.sid = s]
  BY <1>8, <1>9 DEF Handlers
<1> HIDE DEF p, s
<1>11. ~p.raised /\ p.log = c.log
  BY <1>10 DEF Handlers
<1>12. RecordRx(c, rec) = [c EXCEPT !.r = r, !.rx = k, !.hs = h, !.sid = s, !.log = l]
  BY <1>3, <1>6, <1>10, <1>11 DEF Handlers
<1> HIDE DEF l
<1>13. QED
  BY <1>12 DEF Handlers, r, k, h, s, l

\* The change of cipher in its place.
LEMMA CipherTaken ==
  ASSUME c \in Handlers, ~c.raised, NEW rec, rec.ct = "ccs",
         rec.epoch = c.r.epoch, rec.key = c.r.key, rec.n = c.r.n,
         c.hs = "waitChangeCipherSpec", c.pr # None
  PROVE  RecordRx(c, rec) = [c EXCEPT !.r = c.pr, !.pr = None, !.hs = "waitFinished"]
<1> DEFINE e == [c EXCEPT !.r.n = @ + 1]
<1>1. RecordRx(c, rec) = ChangeCipherSpecRx(e)
  BY DEF RecordRx
<1> DEFINE r == [c.r EXCEPT !.n = @ + 1]
<1>2. e = [c EXCEPT !.r = r]
  BY DEF Handlers
<1> HIDE DEF e, r
<1>3. e.hs = c.hs /\ e.pr = c.pr
  BY <1>2 DEF Handlers
<1>4. ChangeCipherSpecRx(e) = [e EXCEPT !.r = c.pr, !.pr = None, !.hs = "waitFinished"]
  BY <1>3 DEF ChangeCipherSpecRx
<1>5. QED
  BY <1>1, <1>2, <1>4 DEF Handlers

\* The Finished that the transcript asks for.
LEMMA FinishedTaken ==
  ASSUME c \in Handlers, ~c.raised, c.out = <<>>, NEW rec, rec.ct = "handshake",
         rec.epoch = c.r.epoch, rec.key = c.r.key, rec.n = c.r.n, rec.msg.seq = c.rx,
         rec.msg.t = "finished", c.hs = "waitFinished", rec.msg.sid = c.key, rec.msg.over = c.log
  PROVE  LET d == RecordRx(c, rec)
         IN  /\ d.hs = "idle" /\ d.secure /\ d.w = c.w /\ d.pr = c.pr /\ d.pw = c.pw
             /\ d.r = [epoch |-> c.r.epoch, key |-> c.r.key, n |-> c.r.n + 1]
             /\ ~d.raised /\ d.out = <<>>
<1> DEFINE m == rec.msg
           r == [epoch |-> c.r.epoch, key |-> c.r.key, n |-> c.r.n + 1]
           k == c.rx + 1
           l == Append(c.log, Token(m))
           e == [c EXCEPT !.r.n = @ + 1]
           f == [e EXCEPT !.rx = @ + 1]
           p == Process(f, m)
<1>1. c.r \in SecOf
  BY DEF Handlers
<1>2. e = [c EXCEPT !.r = r]
  BY <1>1 DEF Handlers, SecOf
<1>3. RecordRx(c, rec) = HandshakeRx(e, m)
  BY DEF RecordRx
<1> HIDE DEF r
<1>4. e.rx = c.rx /\ e.log = c.log
  BY <1>2 DEF Handlers
<1>5. f = [c EXCEPT !.r = r, !.rx = k]
  BY <1>2 DEF Handlers
<1> HIDE DEF e, k
<1>6. HandshakeRx(e, m) = IF p.raised THEN p ELSE [p EXCEPT !.log = Append(@, Token(m))]
  BY <1>4 DEF HandshakeRx
<1>7. f.hs = c.hs /\ f.key = c.key /\ f.log = c.log
  BY <1>5 DEF Handlers
<1> HIDE DEF f
<1>8. Expected["finished"] = {"waitFinished"} /\ Then["finished"] = "idle"
  BY DEF Expected, Then
<1>9. p = [[f EXCEPT !.hs = "idle"] EXCEPT !.secure = TRUE]
  BY <1>7, <1>8 DEF Process
<1>10. p = [c EXCEPT !.r = r, !.rx = k, !.hs = "idle", !.secure = TRUE]
  BY <1>5, <1>9 DEF Handlers
<1> HIDE DEF p
<1>11. ~p.raised /\ p.log = c.log
  BY <1>10 DEF Handlers
<1>12. RecordRx(c, rec) = [c EXCEPT !.r = r, !.rx = k, !.hs = "idle", !.secure = TRUE, !.log = l]
  BY <1>3, <1>6, <1>10, <1>11 DEF Handlers
<1> HIDE DEF l
<1>13. QED
  BY <1>12 DEF Handlers, r

\* Data over the channel.
LEMMA DataTaken ==
  ASSUME c \in Handlers, NEW rec, rec.ct = "app",
         rec.epoch = c.r.epoch, rec.key = c.r.key, rec.n = c.r.n
  PROVE  LET d == RecordRx(c, rec)
         IN  /\ d.hs = c.hs /\ d.secure = c.secure /\ d.w = c.w /\ d.pr = c.pr
             /\ d.r = [epoch |-> c.r.epoch, key |-> c.r.key, n |-> c.r.n + 1]
             /\ d.raised = c.raised /\ d.out = c.out
<1> DEFINE r == [epoch |-> c.r.epoch, key |-> c.r.key, n |-> c.r.n + 1]
<1>1. c.r \in SecOf
  BY DEF Handlers
<1>2. RecordRx(c, rec) = [c EXCEPT !.r.n = @ + 1]
  BY DEF RecordRx
<1>3. RecordRx(c, rec) = [c EXCEPT !.r = r]
  BY <1>1, <1>2 DEF Handlers, SecOf
<1> HIDE DEF r
<1>4. QED
  BY <1>3 DEF Handlers, r

-----------------------------------------------------------------------------
(* From stage to stage: the client's messages                              *)

\* The transcript grows by one entry.
LEMMA LogGrows ==
  ASSUME NEW k \in Nat
  PROVE  Append(Log(k), Entry(k + 1)) = Log(k + 1)
<1> DEFINE S == {Entry(i) : i \in 1 .. k + 1}
<1>0. \A i \in 1 .. k : Entry(i) \in S
  OBVIOUS
<1>2. Entry(k + 1) \in S
  OBVIOUS
<1> HIDE DEF S
<1>1. Log(k) \in Seq(S) /\ Len(Log(k)) = k /\ \A i \in 1 .. k : Log(k)[i] = Entry(i)
  BY <1>0 DEF Log
<1>3. /\ Append(Log(k), Entry(k + 1)) = [i \in 1 .. k + 1 |-> Append(Log(k), Entry(k + 1))[i]]
      /\ \A i \in 1 .. k : Append(Log(k), Entry(k + 1))[i] = Log(k)[i]
      /\ Append(Log(k), Entry(k + 1))[k + 1] = Entry(k + 1)
  BY <1>1, <1>2
<1>4. \A i \in 1 .. k + 1 : Append(Log(k), Entry(k + 1))[i] = Entry(i)
  BY <1>1, <1>3
<1>5. QED
  BY <1>3, <1>4 DEF Log

LEMMA HelloStage ==
  ASSUME IInv, Start, Put(Hello(c, "hello", "waitVerifyRequest")), UNCHANGED <<respQ, srv>>
  PROVE  HelloSent'
<1>1. c \in Handlers /\ c.out = <<>> /\ "hello" \in MsgType
  BY DEF IInv, Base, MsgType
<1>2. c.tx = 0 /\ reqQ = <<>>
  BY DEF Start, Unkeyed
<1>3. /\ c'.hs = "waitVerifyRequest" /\ c'.rx = c.rx /\ c'.tx = c.tx + 1 /\ c'.ekey = c.ekey
      /\ c'.secure = c.secure /\ c'.r = c.r /\ c'.w.key = c.w.key
      /\ c'.pr = c.pr /\ c'.pw = c.pw
      /\ c'.log = <<<<"hello", c.tx, 0>>>>
      /\ Single(reqQ', "hello", c.tx, 0)
  BY <1>1, <1>2, HelloGives
<1>4. QED
  BY <1>2, <1>3 DEF Start, Unkeyed, HelloSent, Asleep

LEMMA CookieStage ==
  ASSUME IInv, VerifyTaken, Put(Hello(c, "cookieHello", "waitServerHello")), UNCHANGED <<respQ, srv>>
  PROVE  CookieSent'
<1>1. c \in Handlers /\ c.out = <<>> /\ "cookieHello" \in MsgType
  BY DEF IInv, Base, MsgType
<1>2. c.tx = 1 /\ reqQ = <<>>
  BY DEF VerifyTaken, Unkeyed
<1>3. /\ c'.hs = "waitServerHello" /\ c'.rx = c.rx /\ c'.tx = c.tx + 1 /\ c'.ekey = c.ekey
      /\ c'.secure = c.secure /\ c'.r = c.r /\ c'.w.key = c.w.key
      /\ c'.pr = c.pr /\ c'.pw = c.pw
      /\ c'.log = <<<<"cookieHello", c.tx, 0>>>>
      /\ Single(reqQ', "cookieHello", c.tx, 0)
  BY <1>1, <1>2, HelloGives
<1>4. QED
  BY <1>2, <1>3 DEF VerifyTaken, Unkeyed, CookieSent, Asking

\* The messages of the flight go on the transcript that the device has, too.
Added(k) == [i \in 1 .. k |-> <<Rest[i], c.tx + i - 1, 0>>]

LEMMA LogOfFlight ==
  ASSUME NEW k \in {2, 3}, srv.cookies \in BOOLEAN, c.tx = Before + 1
  PROVE  Log(6) \o Added(k) = Log(6 + k)
<1> DEFINE p == Added(k)
           S == {Entry(i) : i \in 1 .. 6 + k}
<1>0. Before \in Nat
  BY DEF Before
<1>1. \A i \in 1 .. k : Entry(6 + i) = <<Rest[i], c.tx + i - 1, 0>>
  <2> TAKE i \in 1 .. k
  <2>1. i \in 1 .. 3 /\ ~(6 + i = 1) /\ ~(6 + i <= 6) /\ 6 + i - 6 = i
    OBVIOUS
  <2>2. Own[i] = Rest[i]
    BY <2>1 DEF Own, Rest
  <2>3. Before + (6 + i) - 6 = c.tx + i - 1
    BY <1>0, <2>1
  <2>4. Entry(6 + i) = <<Own[i], Before + (6 + i) - 6, 0>>
    BY <2>1 DEF Entry
  <2>5. QED
    BY <2>2, <2>3, <2>4
<1>2. \A i \in 1 .. k : 6 + i \in 1 .. 6 + k
  OBVIOUS
<1>3. \A i \in 1 .. k : p[i] = Entry(6 + i) /\ p[i] \in S
  BY <1>1, <1>2 DEF Added
<1>4. p = [i \in 1 .. k |-> p[i]]
  BY DEF Added
<1>5. \A i \in 1 .. 6 : Entry(i) \in S
  OBVIOUS
<1> HIDE DEF p, S
<1>6. p \in Seq(S) /\ Len(p) = k
  BY <1>3, <1>4
<1>7. Log(6) \in Seq(S) /\ Len(Log(6)) = 6 /\ \A i \in 1 .. 6 : Log(6)[i] = Entry(i)
  BY <1>5 DEF Log
<1>8. /\ Log(6) \o p \in Seq(S) /\ Len(Log(6) \o p) = 6 + k
      /\ \A i \in 1 .. 6 + k : (Log(6) \o p)[i] = IF i <= 6 THEN Log(6)[i] ELSE p[i - 6]
  <2> DEFINE q == Log(6)
             t == q \o p
  <2>1. /\ t \in Seq(S) /\ Len(t) = Len(q) + Len(p)
        /\ \A i \in 1 .. Len(q) + Len(p) : t[i] = IF i <= Len(q) THEN q[i] ELSE p[i - Len(q)]
    BY <1>6, <1>7, ConcatProperties
  <2>2. Len(q) = 6 /\ Len(p) = k
    BY <1>6, <1>7
  <2> HIDE DEF q, t
  <2>3. /\ t \in Seq(S) /\ Len(t) = 6 + k
        /\ \A i \in 1 .. 6 + k : t[i] = IF i <= 6 THEN q[i] ELSE p[i - 6]
    BY <2>1, <2>2
  <2>4. QED
    BY <2>3 DEF q, t
<1>9. \A i \in 1 .. 6 + k : (Log(6) \o p)[i] = Entry(i)
  <2> TAKE i \in 1 .. 6 + k
  <2>1. CASE i <= 6
    BY <1>7, <1>8, <2>1
  <2>2. CASE ~(i <= 6)
    <3>1. i - 6 \in 1 .. k /\ 6 + (i - 6) = i
      BY <2>2
    <3>2. QED
      BY <1>3, <1>8, <2>2, <3>1
  <2>3. QED
    BY <2>1, <2>2
<1>10. Log(6) \o p = [i \in 1 .. 6 + k |-> Entry(i)]
  <2> DEFINE t == Log(6) \o p
  <2>1. t \in Seq(S) /\ Len(t) = 6 + k /\ \A i \in 1 .. 6 + k : t[i] = Entry(i)
    BY <1>8, <1>9
  <2> HIDE DEF t
  <2>2. t = [i \in 1 .. 6 + k |-> t[i]]
    BY <2>1
  <2>3. t = [i \in 1 .. 6 + k |-> Entry(i)]
    BY <2>1, <2>2
  <2>4. QED
    BY <2>3 DEF t
<1>11. QED
  BY <1>10 DEF Log, p

\* Two records and three.
LEMMA Five ==
  ASSUME NEW S, NEW q \in Seq(S), Len(q) = 2, NEW v \in S, NEW w \in S, NEW x \in S
  PROVE  /\ q \o <<v, w, x>> \in Seq(S) /\ Len(q \o <<v, w, x>>) = 5
         /\ (q \o <<v, w, x>>)[1] = q[1] /\ (q \o <<v, w, x>>)[2] = q[2]
         /\ (q \o <<v, w, x>>)[3] = v /\ (q \o <<v, w, x>>)[4] = w /\ (q \o <<v, w, x>>)[5] = x
<1> DEFINE p == <<v, w, x>>
<1>1. p \in Seq(S) /\ Len(p) = 3 /\ p[1] = v /\ p[2] = w /\ p[3] = x
  OBVIOUS
<1> HIDE DEF p
<1>2. /\ q \o p \in Seq(S) /\ Len(q \o p) = 5
      /\ \A i \in 1 .. 5 : (q \o p)[i] = IF i <= 2 THEN q[i] ELSE p[i - 2]
  <2> DEFINE t == q \o p
  <2>1. /\ t \in Seq(S) /\ Len(t) = Len(q) + Len(p)
        /\ \A i \in 1 .. Len(q) + Len(p) : t[i] = IF i <= Len(q) THEN q[i] ELSE p[i - Len(q)]
    BY <1>1, ConcatProperties
  <2> HIDE DEF t
  <2>2. /\ t \in Seq(S) /\ Len(t) = 5
        /\ \A i \in 1 .. 5 : t[i] = IF i <= 2 THEN q[i] ELSE p[i - 2]
    BY <1>1, <2>1
  <2>3. QED
    BY <2>2 DEF t
<1>3. /\ (q \o p)[1] = q[1] /\ (q \o p)[2] = q[2]
      /\ (q \o p)[3] = p[1] /\ (q \o p)[4] = p[2] /\ (q \o p)[5] = p[3]
  BY <1>2
<1>4. QED
  BY <1>1, <1>2, <1>3 DEF p

\* The messages in between leave what they are called from.
LEMMA FlightStage ==
  ASSUME IInv, ServerSaid(5)
  PROVE  ~Flight(c).raised /\ (Put(Flight(c)) /\ UNCHANGED <<respQ, srv>> => ClientSaid(1)')
<1> DEFINE p == [epoch |-> c.r.epoch + 1, key |-> c.sid, n |-> 0]
           log(k) == c.log \o [i \in 1 .. k |-> <<Rest[i], c.tx + i - 1, 0>>]
           pair == [i \in 1 .. 2 |-> Record("handshake", [c.w EXCEPT !.n = @ + i - 1],
                                            Msg(Rest[i], c.tx + i - 1, 0, <<>>))]
           two == [c EXCEPT !.tx = @ + 2, !.log = log(2), !.w.n = @ + 2, !.ekey = FALSE, !.key = c.sid,
                     !.out = @ \o pair]
           verify == Record("handshake", [c.w EXCEPT !.n = @ + 2], Msg("certVerify", c.tx + 2, 0, log(2)))
           ccs == Record("ccs", [c.w EXCEPT !.n = @ + 3], Plain("ccs"))
           fin == Record("handshake", p, Msg("finished", c.tx + 3, 0, log(3)))
           all == [two EXCEPT !.tx = c.tx + 4, !.log = Append(log(3), <<"finished", c.tx + 3, 0>>),
                     !.pr = p, !.w = [p EXCEPT !.n = 1], !.out = @ \o <<verify, ccs, fin>>,
                     !.hs = "waitChangeCipherSpec"]
<1>0. /\ c.pr = None /\ c.pw = None /\ ~c.secure /\ c.hs = "sendCertificate"
      /\ c.rx = Before + 5 /\ c.tx = Before + 1 /\ c.w.key = 0
      /\ c.r = [epoch |-> 0, key |-> 0, n |-> Before + 5]
      /\ c.sid = 1 /\ c.log = Log(6) /\ reqQ = <<>> /\ Len(respQ) = 0
      /\ srv.sid = 1 /\ srv.at = 1 /\ srv.n = Before + 5 /\ srv.seq = Before + 5 /\ srv.log = Log(6)
  BY DEF ServerSaid, Unkeyed, InStep, Step
<1>1. c \in Handlers /\ c.w \in SecOf /\ c.out = <<>> /\ ~c.raised /\ Before \in Nat /\ srv.cookies \in BOOLEAN
      /\ respQ = <<>>
  <2>1. c \in Handlers /\ c.out = <<>> /\ ~c.raised /\ srv.cookies \in BOOLEAN /\ respQ \in Seq(Rec)
    BY DEF IInv, Base, Server, Queues
  <2>2. QED
    BY <1>0, <2>1, EmptySeq DEF Handlers, Before
<1>2. log(2) = Log(8) /\ log(3) = Log(9)
  <2>1. 6 + 2 = 8 /\ 6 + 3 = 9 /\ 2 \in {2, 3} /\ 3 \in {2, 3}
    OBVIOUS
  <2>2. Log(6) \o Added(2) = Log(6 + 2) /\ Log(6) \o Added(3) = Log(6 + 3)
    BY <1>0, <1>1, <2>1, LogOfFlight
  <2>3. log(2) = Log(6) \o Added(2) /\ log(3) = Log(6) \o Added(3)
    BY <1>0 DEF Added
  <2> HIDE DEF log
  <2>4. QED
    BY <2>1, <2>2, <2>3
<1>3. Flight(c) = all
  BY <1>0 DEF Flight, SendFlight
<1> DEFINE l4 == Append(log(3), <<"finished", c.tx + 3, 0>>)
           w1 == [p EXCEPT !.n = 1]
           w2 == [c.w EXCEPT !.n = @ + 2]
<1>4. l4 = Log(10)
  <2>1. Entry(10) = <<"finished", Before + 4, 0>>
    <3>1. Own[10 - 6] = "finished" /\ ~(10 = 1) /\ ~(10 <= 6) /\ Before + 10 - 6 = Before + 4
      BY <1>1 DEF Own
    <3>2. QED
      BY <3>1 DEF Entry
  <2>2. c.tx + 3 = Before + 4 /\ 9 + 1 = 10 /\ 9 \in Nat
    BY <1>0, <1>1
  <2>3. Append(Log(9), Entry(9 + 1)) = Log(9 + 1)
    BY <2>2, LogGrows
  <2>4. QED
    BY <1>2, <2>1, <2>2, <2>3
<1>5. p = New /\ w1.key = 1
  BY <1>0 DEF New
<1> DEFINE l2 == log(2)
           k2 == c.tx + 2
           k4 == c.tx + 4
           o2 == c.out \o pair
           o5 == o2 \o <<verify, ccs, fin>>
           sid == c.sid
<1>6. two = [c EXCEPT !.tx = k2, !.log = l2, !.w = w2, !.ekey = FALSE, !.key = sid, !.out = o2]
  BY <1>1 DEF Handlers
<1> HIDE DEF two, w2, l2, k2, o2
<1>7. two.out = o2
  BY <1>6 DEF Handlers
<1>8. all = [two EXCEPT !.tx = k4, !.log = l4, !.pr = p, !.w = w1, !.out = o5, !.hs = "waitChangeCipherSpec"]
  BY <1>7
<1> HIDE DEF all, l4, w1, k4, o5, sid, p
<1>9. /\ all.tx = k4 /\ all.log = l4 /\ all.pr = p /\ all.w = w1 /\ all.out = o5
      /\ all.hs = "waitChangeCipherSpec" /\ all.rx = c.rx /\ all.r = c.r /\ all.key = sid
      /\ all.secure = c.secure /\ all.raised = c.raised
  BY <1>1, <1>6, <1>8 DEF Handlers
<1>12. /\ pair \in Seq({pair[1], pair[2]}) /\ Len(pair) = 2
       /\ OfClient(pair[1], 1) /\ OfClient(pair[2], 2)
  <2>1. ASSUME NEW i \in {1, 2}
        PROVE  OfClient(pair[i], i)
    <3> DEFINE m == Msg(Rest[i], c.tx + i - 1, 0, <<>>)
               w == [c.w EXCEPT !.n = @ + i - 1]
    <3>1. w.key = 0
      BY <1>0, <1>1 DEF SecOf
    <3>2. m.t = Rest[i] /\ Token(m) = <<Rest[i], c.tx + i - 1, 0>>
      BY DEF Msg, Token
    <3>3. pair[i] = Record("handshake", w, m)
      OBVIOUS
    <3>4. Entry(Taken(i + 1)) = <<Rest[i], c.tx + i - 1, 0>>
      <4>1. Taken(i + 1) = 6 + i /\ ~(6 + i = 1) /\ ~(6 + i <= 6) /\ (6 + i) - 6 = i
        BY DEF Taken
      <4>2. Own[i] = Rest[i]
        BY DEF Own, Rest
      <4>3. Before + (6 + i) - 6 = c.tx + i - 1
        BY <1>0, <1>1
      <4>4. Entry(6 + i) = <<Own[(6 + i) - 6], Before + (6 + i) - 6, 0>>
        BY <4>1 DEF Entry
      <4>5. QED
        BY <4>1, <4>2, <4>3, <4>4
    <3> HIDE DEF m, w, pair
    <3>5. pair[i].key = 0 /\ pair[i].ct = "handshake" /\ pair[i].msg = m
      BY <3>1, <3>3 DEF Record
    <3>6. QED
      BY <3>2, <3>4, <3>5 DEF OfClient
  <2>2. pair \in Seq({pair[1], pair[2]}) /\ Len(pair) = 2
    <3>1. pair = [i \in 1 .. 2 |-> pair[i]]
      OBVIOUS
    <3>2. \A i \in 1 .. 2 : pair[i] \in {pair[1], pair[2]}
      <4>1. \A i \in 1 .. 2 : i = 1 \/ i = 2
        OBVIOUS
      <4> HIDE DEF pair
      <4>2. QED
        BY <4>1
    <3> HIDE DEF pair
    <3>3. QED
      BY <3>1, <3>2
  <2>3. QED
    BY <2>1, <2>2
<1>13. OfClient(verify, 3) /\ OfClient(ccs, 4) /\ OfClient(fin, 5)
  <2>1. Taken(3) = 8 /\ Taken(5) = 9 /\ Taken(4) = 9 /\ Taken(6) = 10
    BY DEF Taken
  <2>2. /\ Entry(9) = <<"certVerify", c.tx + 2, 0>>
        /\ Entry(10) = <<"finished", c.tx + 3, 0>>
    <3>1. /\ Own[9 - 6] = "certVerify" /\ ~(9 = 1) /\ ~(9 <= 6) /\ Before + 9 - 6 = c.tx + 2
          /\ Own[10 - 6] = "finished" /\ ~(10 = 1) /\ ~(10 <= 6) /\ Before + 10 - 6 = c.tx + 3
      BY <1>0, <1>1 DEF Own
    <3>2. QED
      BY <3>1 DEF Entry
  <2>3. Rest[3] = "certVerify" /\ Rest[4] = "ccs" /\ Rest[5] = "finished"
    BY DEF Rest
  <2>4. OfClient(verify, 3)
    <3> DEFINE m == Msg("certVerify", c.tx + 2, 0, log(2))
               w == [c.w EXCEPT !.n = @ + 2]
    <3>1. w.key = 0
      BY <1>0, <1>1 DEF SecOf
    <3>2. m.t = "certVerify" /\ Token(m) = <<"certVerify", c.tx + 2, 0>> /\ m.over = Log(8)
      BY <1>2 DEF Msg, Token
    <3> HIDE DEF m, w
    <3>3. verify.key = 0 /\ verify.ct = "handshake" /\ verify.msg = m
      BY <3>1 DEF Record, m, w
    <3> HIDE DEF verify
    <3>4. QED
      BY <2>1, <2>2, <2>3, <3>2, <3>3 DEF OfClient
  <2>5. OfClient(ccs, 4)
    <3> DEFINE w == [c.w EXCEPT !.n = @ + 3]
    <3>1. w.key = 0
      BY <1>0, <1>1 DEF SecOf
    <3> HIDE DEF w
    <3>2. ccs.key = 0 /\ ccs.ct = "ccs" /\ ccs.msg = Plain("ccs")
      BY <3>1 DEF Record, w
    <3>3. Plain("ccs").t = "ccs"
      BY DEF Plain, Msg
    <3> HIDE DEF ccs
    <3>4. QED
      BY <2>3, <3>2, <3>3 DEF OfClient
  <2>6. OfClient(fin, 5)
    <3> DEFINE m == Msg("finished", c.tx + 3, 0, log(3))
    <3>1. m.t = "finished" /\ Token(m) = <<"finished", c.tx + 3, 0>> /\ m.over = Log(9)
      BY <1>2 DEF Msg, Token
    <3>2. fin.key = 1 /\ fin.ct = "handshake" /\ fin.msg = m
      BY <1>5 DEF Record, New
    <3> HIDE DEF m, fin
    <3>3. QED
      BY <2>1, <2>2, <2>3, <3>1, <3>2 DEF OfClient
  <2>7. QED
    BY <2>4, <2>5, <2>6
<1> HIDE DEF pair, verify, ccs, fin
<1>18. ASSUME Put(Flight(c)), UNCHANGED <<respQ, srv>>
       PROVE  ClientSaid(1)'
  <2>10. c' = [all EXCEPT !.out = <<>>] /\ reqQ' = <<>> \o o5
    BY <1>0, <1>3, <1>9, <1>18 DEF Put
  <2>11. /\ c'.log = l4 /\ c'.pr = p /\ c'.w = w1
         /\ c'.hs = "waitChangeCipherSpec" /\ c'.rx = c.rx /\ c'.r = c.r /\ c'.key = sid
         /\ c'.secure = c.secure
    BY <1>1, <1>6, <1>8, <2>10 DEF Handlers
  <2>14. /\ reqQ' = o5 /\ Len(o5) = 5 /\ o5[1] = pair[1] /\ o5[2] = pair[2]
         /\ o5[3] = verify /\ o5[4] = ccs /\ o5[5] = fin
    <3> DEFINE S == {pair[1], pair[2], verify, ccs, fin}
    <3>1. pair \in Seq(S)
      BY <1>12
    <3>2. o2 = pair
      BY <1>1, <3>1, ConcatEmptySeq DEF o2
    <3>3. verify \in S /\ ccs \in S /\ fin \in S
      OBVIOUS
    <3> HIDE DEF S
    <3>4. /\ o5 \in Seq(S) /\ Len(o5) = 5 /\ o5[1] = pair[1] /\ o5[2] = pair[2]
          /\ o5[3] = verify /\ o5[4] = ccs /\ o5[5] = fin
      BY <1>12, <3>1, <3>2, <3>3, Five DEF o5
    <3>5. QED
      BY <2>10, <3>4, ConcatEmptySeq
  <2>15. \A i \in 1 .. 5 : OfClient(o5[i], i)
    <3>1. \A i \in 1 .. 5 : i = 1 \/ i = 2 \/ i = 3 \/ i = 4 \/ i = 5
      OBVIOUS
    <3>2. QED
      BY <1>12, <1>13, <2>14, <3>1
  <2>16. ClientSaid(1)'
    <3>1. Before' = Before /\ First' = First /\ \A i : Entry(i)' = Entry(i)
      BY <1>18 DEF Before, First, Entry
    <3>2. \A k : Log(k)' = Log(k)
      BY <3>1 DEF Log
    <3>3. \A i \in 1 .. 6 - 1 : OfClient(reqQ[i], 1 - 1 + i)'
      <4>1. \A rec, i : OfClient(rec, i)' <=> OfClient(rec, i)
        BY <3>1, <3>2 DEF OfClient
      <4>2. \A i \in 1 .. 6 - 1 : i \in 1 .. 5 /\ 1 - 1 + i = i
        OBVIOUS
      <4>3. \A i \in 1 .. 5 : OfClient(reqQ[i], i)'
        BY <2>14, <2>15, <3>1, <3>2 DEF OfClient
      <4>4. QED
        BY <4>2, <4>3
    <3>4. Keyed("waitChangeCipherSpec", Old)'
      BY <1>0, <1>4, <1>5, <2>11, <3>1, <3>2 DEF Keyed, Old, sid
    <3>5. Taken(1) = 6 /\ 6 - 1 = 5
      BY DEF Taken
    <3>6. QED
      BY <1>0, <1>1, <1>5, <1>18, <2>11, <2>14, <3>1, <3>2, <3>3, <3>4, <3>5 DEF ClientSaid
  <2>17. QED
    BY <2>16
<1>19. QED
  BY <1>1, <1>3, <1>9, <1>18

-----------------------------------------------------------------------------
(* From stage to stage: the device                                         *)

\* The flight of the device, and the transcript that it gives both sides.
Flies(rs, t) ==
  /\ rs \in Seq({rs[i] : i \in 1 .. 5}) /\ Len(rs) = 5
  /\ \A i \in 1 .. 5 : OfServer(rs[i], i)
  /\ <<t>> \o Tokens(rs) = Log(6)

LEMMA FlightSaid ==
  ASSUME srv.cookies \in BOOLEAN, NEW s, s.sid = 1, s.n = Before, NEW t, t = <<First, Before, 0>>,
         NEW seq, seq = Before
  PROVE  Flies(Said(s, ServerFlight, seq), t)
<1> DEFINE rs == Said(s, ServerFlight, seq)
           S == {Entry(i) : i \in 1 .. 6}
<1>1. Before \in Nat /\ DOMAIN ServerFlight = 1 .. 5
  BY DEF Before, ServerFlight
<1>2. \A i \in 1 .. 5 : rs[i] = Record("handshake", [epoch |-> 0, key |-> 0, n |-> Before + i - 1],
                                     Msg(ServerFlight[i], Before + i - 1, 1, <<>>))
  BY <1>1 DEF Said
<1>3. rs = [i \in 1 .. 5 |-> rs[i]]
  BY <1>1 DEF Said
<1> HIDE DEF rs
<1>4. rs \in Seq({rs[i] : i \in 1 .. 5}) /\ Len(rs) = 5 /\ DOMAIN rs = 1 .. 5
  BY <1>3
<1>5. \A i \in 1 .. 5 : OfServer(rs[i], i)
  <2> TAKE i \in 1 .. 5
  <2> DEFINE m == Msg(ServerFlight[i], Before + i - 1, 1, <<>>)
  <2>1. rs[i] = Record("handshake", [epoch |-> 0, key |-> 0, n |-> Before + i - 1], m)
    BY <1>2
  <2> HIDE DEF m
  <2>2. QED
    BY <2>1 DEF Record, OfServer, m
<1>6. \A i \in 1 .. 5 : Token(rs[i].msg) = Entry(i + 1)
  <2> TAKE i \in 1 .. 5
  <2>1. rs[i].msg = Msg(ServerFlight[i], Before + i - 1, 1, <<>>)
    BY <1>5 DEF OfServer
  <2>2. Token(rs[i].msg) = <<ServerFlight[i], Before + i - 1, 1>>
    BY <2>1 DEF Token, Msg
  <2>3. ~(i + 1 = 1) /\ i + 1 <= 6 /\ (i + 1) - 1 = i /\ Before + (i + 1) - 2 = Before + i - 1
    BY <1>1
  <2>4. Entry(i + 1) = <<ServerFlight[(i + 1) - 1], Before + (i + 1) - 2, 1>>
    BY <2>3 DEF Entry
  <2>5. QED
    BY <2>2, <2>3, <2>4
<1>7. <<t>> \o Tokens(rs) = Log(6)
  <2> DEFINE p == <<t>>
             q == Tokens(rs)
             z == p \o q
  <2>1. Entry(1) = t
    BY DEF Entry
  <2>2. t \in S /\ \A i \in 1 .. 5 : Entry(i + 1) \in S
    BY <2>1
  <2>3. q = [i \in 1 .. 5 |-> Entry(i + 1)]
    BY <1>4, <1>6 DEF Tokens
  <2> HIDE DEF S, q
  <2>4. /\ p \in Seq(S) /\ Len(p) = 1 /\ p[1] = t
        /\ q \in Seq(S) /\ Len(q) = 5 /\ \A i \in 1 .. 5 : q[i] = Entry(i + 1)
    BY <2>2, <2>3
  <2> HIDE DEF p
  <2>5. /\ z \in Seq(S) /\ Len(z) = Len(p) + Len(q)
        /\ \A i \in 1 .. Len(p) + Len(q) : z[i] = IF i <= Len(p) THEN p[i] ELSE q[i - Len(p)]
    BY <2>4, ConcatProperties
  <2> HIDE DEF z
  <2>6. /\ z \in Seq(S) /\ Len(z) = 6
        /\ \A i \in 1 .. 6 : z[i] = IF i <= 1 THEN p[i] ELSE q[i - 1]
    BY <2>4, <2>5
  <2>7. \A i \in 1 .. 6 : z[i] = Entry(i)
    <3> TAKE i \in 1 .. 6
    <3>1. CASE i = 1
      <4>1. z[1] = t
        BY <2>4, <2>6
      <4>2. QED
        BY <2>1, <3>1, <4>1
    <3>2. CASE i # 1
      <4>1. i - 1 \in 1 .. 5 /\ (i - 1) + 1 = i /\ ~(i <= 1)
        BY <3>2
      <4>2. z[i] = q[i - 1]
        BY <2>6, <4>1
      <4>3. q[i - 1] = Entry((i - 1) + 1)
        BY <2>4, <4>1
      <4>4. Entry((i - 1) + 1) = Entry(i)
        BY <4>1
      <4>5. QED
        BY <4>2, <4>3, <4>4
    <3>3. QED
      BY <3>1, <3>2
  <2>8. z = [i \in 1 .. 6 |-> z[i]]
    BY <2>6
  <2>9. z = [i \in 1 .. 6 |-> Entry(i)]
    BY <2>7, <2>8
  <2>10. QED
    BY <2>9 DEF Log, z, p, q
<1>8. QED
  BY <1>4, <1>5, <1>7 DEF rs, Flies

\* What does not change with the device's counters.
LEMMA SameLogs ==
  ASSUME srv'.cookies = srv.cookies
  PROVE  /\ Before' = Before /\ First' = First /\ \A k : Entry(k)' = Entry(k) /\ Log(k)' = Log(k)
         /\ \A rec, k : OfServer(rec, k)' <=> OfServer(rec, k)
         /\ \A rec, k : OfClient(rec, k)' <=> OfClient(rec, k)
         /\ \A k : InStep(k)' = InStep(k)
<1>1. Before' = Before /\ First' = First
  BY DEF Before, First
<1>2. \A k : Entry(k)' = Entry(k)
  BY <1>1 DEF Entry
<1>3. \A k : Log(k)' = Log(k)
  BY <1>2 DEF Log
<1>4. QED
  BY <1>1, <1>2, <1>3 DEF OfServer, OfClient, InStep

\* The first record of a line is taken.
LEMMA TailIs ==
  ASSUME NEW q \in Seq(Rec), q # <<>>
  PROVE  /\ Head(q) = q[1] /\ Tail(q) \in Seq(Rec) /\ Len(Tail(q)) = Len(q) - 1 /\ Len(q) \in Nat /\ Len(q) > 0
         /\ \A i \in 1 .. Len(q) - 1 : Tail(q)[i] = q[i + 1]
OBVIOUS

LEMMA NoneIs ==
  ASSUME NEW q \in Seq(Rec)
  PROVE  Len(q) \in Nat /\ (q = <<>> <=> Len(q) = 0)
OBVIOUS

LEMMA OneIs ==
  ASSUME NEW q \in Seq(Rec), Len(q) = 1
  PROVE  q # <<>>
<1> SUFFICES ASSUME q = <<>>
             PROVE  FALSE
  OBVIOUS
<1>1. Len(<<>>) = 0
  OBVIOUS
<1>2. QED
  BY <1>1

\* A line of one record.
LEMMA OneRecord ==
  ASSUME NEW x
  PROVE  LET q == [i \in {1} |-> x] IN q \in Seq({x}) /\ Len(q) = 1 /\ q[1] = x
<1>1. {1} = 1 .. 1
  OBVIOUS
<1>2. QED
  BY <1>1

\* The device begins.
LEMMA BeginStage ==
  ASSUME IInv, HelloSent, Begin(Head(reqQ).msg), reqQ' = Tail(reqQ), c' = c
  PROVE  VerifyAsked' \/ ServerSaid(0)'
<1> DEFINE m == Head(reqQ).msg
           ts == IF srv.cookies THEN <<"verifyRequest">> ELSE ServerFlight
           s == [srv EXCEPT !.sid = @ + 1, !.n = 0]
           rs == Said(s, ts, 0)
<1>1. srv \in Server /\ reqQ \in Seq(Rec) /\ respQ = <<>> /\ srv.cookies \in BOOLEAN /\ Asleep
  BY DEF IInv, Queues, Server, HelloSent
<1>2. Len(reqQ) = 1 /\ m = Msg("hello", 0, 0, <<>>) /\ reqQ' = <<>>
  <2>1. Len(reqQ) = 1 /\ reqQ[1].msg = Msg("hello", 0, 0, <<>>)
    BY DEF HelloSent, Single
  <2>2. reqQ # <<>>
    BY <1>1, <2>1, OneIs
  <2>3. Head(reqQ) = reqQ[1] /\ Tail(reqQ) \in Seq(Rec) /\ Len(Tail(reqQ)) = 0
    BY <1>1, <2>1, <2>2, TailIs
  <2>4. QED
    BY <2>1, <2>3, NoneIs
<1>3. Token(m) = <<"hello", 0, 0>>
  BY <1>2 DEF Token, Msg
<1>4. srv.sid = 0 /\ srv.seq = 0 /\ srv.n = 0
  BY <1>1 DEF Asleep
<1>5. s \in Server /\ s.sid = 1 /\ s.n = 0 /\ s.cookies = srv.cookies
  <2>1. s = [srv EXCEPT !.sid = 1, !.n = 0]
    BY <1>4
  <2> HIDE DEF s
  <2>2. QED
    BY <1>1, <2>1 DEF Server
<1>6. /\ respQ' = <<>> \o rs
      /\ srv' = [s EXCEPT !.at = IF srv.cookies THEN 0 ELSE 1, !.n = Len(ts), !.seq = 0 + Len(ts),
                          !.log = <<Token(m)>> \o Tokens(rs)]
  BY <1>1, <1>4 DEF Begin
<1> HIDE DEF s, m
<1>7. CASE srv.cookies
  <2>1. ts = <<"verifyRequest">> /\ Len(ts) = 1 /\ ts[1] = "verifyRequest" /\ DOMAIN ts = {1}
    BY <1>7
  <2> HIDE DEF ts
  <2> DEFINE x == Record("handshake", [epoch |-> 0, key |-> 0, n |-> 0 + 1 - 1],
                         Msg("verifyRequest", 0 + 1 - 1, 1, <<>>))
  <2>2. rs = [i \in {1} |-> x]
    BY <1>5, <2>1 DEF Said
  <2>3. /\ x.ct = "handshake" /\ x.epoch = 0 /\ x.key = 0 /\ x.n = 0
        /\ x.msg = Msg("verifyRequest", 0, 1, <<>>)
    BY DEF Record
  <2> HIDE DEF x, rs
  <2>4. rs \in Seq({x}) /\ Len(rs) = 1 /\ rs[1] = x
    BY <2>2, OneRecord
  <2>5. respQ' = rs
    BY <1>6, <2>4, ConcatEmptySeq
  <2> DEFINE l == <<Token(m)>> \o Tokens(rs)
  <2>6. srv' = [s EXCEPT !.at = 0, !.n = 1, !.seq = 1, !.log = l]
    BY <1>6, <1>7, <2>1
  <2> HIDE DEF l
  <2>7. Asking'
    BY <1>5, <1>7, <2>6 DEF Asking, Server
  <2>8. VerifyAsked'
    BY <1>2, <2>3, <2>4, <2>5, <2>7 DEF HelloSent, VerifyAsked, Unkeyed, Single
  <2>9. QED
    BY <2>8
<1>8. CASE ~srv.cookies
  <2>1. ts = ServerFlight /\ Len(ts) = 5 /\ Before = 0 /\ First = "hello"
    BY <1>8 DEF ServerFlight, Before, First
  <2> HIDE DEF ts
  <2>2. /\ rs \in Seq({rs[i] : i \in 1 .. 5}) /\ Len(rs) = 5
        /\ \A i \in 1 .. 5 : OfServer(rs[i], i)
        /\ <<Token(m)>> \o Tokens(rs) = Log(6)
    <3>1. srv.cookies \in BOOLEAN /\ s.sid = 1 /\ s.n = Before /\ 0 = Before /\ Token(m) = <<First, Before, 0>>
      BY <1>1, <1>3, <1>5, <2>1
    <3>2. Flies(Said(s, ServerFlight, 0), Token(m))
      BY <3>1, FlightSaid
    <3>3. QED
      BY <2>1, <3>2 DEF Flies
  <2> HIDE DEF rs
  <2> DEFINE l == <<Token(m)>> \o Tokens(rs)
  <2>11. srv' = [s EXCEPT !.at = 1, !.n = Len(ts), !.seq = 0 + Len(ts), !.log = l]
    BY <1>6, <1>8
  <2>12. l = Log(6) /\ 0 + Len(ts) = 5
    BY <2>1, <2>2
  <2> HIDE DEF l
  <2>3. srv' = [s EXCEPT !.at = 1, !.n = 5, !.seq = 5, !.log = Log(6)]
    BY <2>1, <2>11, <2>12
  <2>4. /\ srv'.cookies = srv.cookies /\ srv'.sid = 1 /\ srv'.at = 1 /\ srv'.n = 5 /\ srv'.seq = 5
        /\ srv'.log = Log(6)
    BY <1>5, <2>3
  <2>5. respQ' = rs
    BY <1>6, <2>2, ConcatEmptySeq
  <2>6. c.log = Log(1)
    <3>1. Entry(1) = <<"hello", 0, 0>>
      BY <2>1 DEF Entry
    <3>2. Log(1) = <<<<"hello", 0, 0>>>>
      BY <3>1 DEF Log
    <3>3. QED
      BY <3>2 DEF HelloSent
  <2>7. \A i \in 1 .. 5 - 0 : OfServer(respQ[i], 0 + i)'
    <3>1. \A i \in 1 .. 5 : OfServer(respQ[i], i)'
      BY <2>2, <2>4, <2>5, SameLogs DEF OfServer
    <3>2. QED
      BY <3>1
  <2>8. Unkeyed(InStep(0), Before + 0, Before + 1)'
    BY <1>8, <2>1, <2>4, SameLogs DEF HelloSent, Unkeyed, InStep
  <2>9. ServerSaid(0)'
    BY <1>2, <2>1, <2>2, <2>4, <2>5, <2>6, <2>7, <2>8, SameLogs DEF ServerSaid
  <2>10. QED
    BY <2>9
<1>9. QED
  BY <1>1, <1>7, <1>8

\* The device has the cookie.
LEMMA ContinueStage ==
  ASSUME IInv, CookieSent, Continue(Head(reqQ).msg), reqQ' = Tail(reqQ), c' = c
  PROVE  ServerSaid(0)'
<1> DEFINE m == Head(reqQ).msg
           rs == Said(srv, ServerFlight, srv.seq)
<1>1. srv \in Server /\ reqQ \in Seq(Rec) /\ respQ = <<>> /\ srv.cookies /\ srv.sid = 1 /\ srv.n = 1 /\ srv.seq = 1
  BY DEF IInv, Queues, CookieSent, Asking
<1>2. m = Msg("cookieHello", 1, 0, <<>>) /\ reqQ' = <<>>
  <2>1. Len(reqQ) = 1 /\ reqQ[1].msg = Msg("cookieHello", 1, 0, <<>>)
    BY DEF CookieSent, Single
  <2>2. reqQ # <<>>
    BY <1>1, <2>1, OneIs
  <2>3. Head(reqQ) = reqQ[1] /\ Tail(reqQ) \in Seq(Rec) /\ Len(Tail(reqQ)) = 0
    BY <1>1, <2>1, <2>2, TailIs
  <2>4. QED
    BY <2>1, <2>3, NoneIs
<1>3. Token(m) = <<"cookieHello", 1, 0>>
  BY <1>2 DEF Token, Msg
<1>4. Before = 1 /\ First = "cookieHello"
  BY <1>1 DEF Before, First
<1>5. /\ respQ' = <<>> \o rs
      /\ srv' = [srv EXCEPT !.at = 1, !.n = @ + 5, !.seq = @ + 5, !.log = <<Token(m)>> \o Tokens(rs)]
  BY <1>1 DEF Continue
<1> HIDE DEF m
<1>6. /\ rs \in Seq({rs[i] : i \in 1 .. 5}) /\ Len(rs) = 5
      /\ \A i \in 1 .. 5 : OfServer(rs[i], i)
      /\ <<Token(m)>> \o Tokens(rs) = Log(6)
  <2>1. srv.cookies \in BOOLEAN /\ srv.n = Before /\ srv.seq = Before /\ Token(m) = <<First, Before, 0>>
    BY <1>1, <1>3, <1>4
  <2>2. Flies(Said(srv, ServerFlight, srv.seq), Token(m))
    BY <1>1, <2>1, FlightSaid
  <2>3. QED
    BY <2>2 DEF Flies
<1> HIDE DEF rs
<1> DEFINE l == <<Token(m)>> \o Tokens(rs)
           n == srv.n + 5
           k == srv.seq + 5
<1>14. srv' = [srv EXCEPT !.at = 1, !.n = n, !.seq = k, !.log = l]
  BY <1>1, <1>5 DEF Server
<1>15. l = Log(6) /\ n = 6 /\ k = 6
  BY <1>1, <1>6
<1> HIDE DEF l, n, k
<1>7. srv' = [srv EXCEPT !.at = 1, !.n = 6, !.seq = 6, !.log = Log(6)]
  BY <1>14, <1>15
<1>8. /\ srv'.cookies = srv.cookies /\ srv'.sid = 1 /\ srv'.at = 1 /\ srv'.n = 6 /\ srv'.seq = 6
      /\ srv'.log = Log(6)
  BY <1>1, <1>7 DEF Server
<1>9. respQ' = rs
  BY <1>5, <1>6, ConcatEmptySeq
<1>10. c.log = Log(1)
  <2>1. Entry(1) = <<"cookieHello", 1, 0>>
    BY <1>4 DEF Entry
  <2>2. Log(1) = <<<<"cookieHello", 1, 0>>>>
    BY <2>1 DEF Log
  <2>3. QED
    BY <2>2 DEF CookieSent
<1>11. \A i \in 1 .. 5 - 0 : OfServer(respQ[i], 0 + i)'
  <2>1. \A i \in 1 .. 5 : OfServer(respQ[i], i)'
    BY <1>6, <1>8, <1>9, SameLogs DEF OfServer
  <2>2. QED
    BY <2>1
<1>12. Unkeyed(InStep(0), Before + 0, Before + 1)'
  BY <1>1, <1>4, <1>8, SameLogs DEF CookieSent, Unkeyed, InStep
<1>13. QED
  BY <1>2, <1>4, <1>6, <1>8, <1>9, <1>10, <1>11, <1>12, SameLogs DEF ServerSaid

\* The device takes the next record of the client's flight.
LEMMA AcceptStage ==
  ASSUME IInv, NEW j \in 1 .. 5, ClientSaid(j), Accept(Head(reqQ)), reqQ' = Tail(reqQ), c' = c
  PROVE  IF j < 5 THEN ClientSaid(j + 1)' ELSE ServerDone'
<1> DEFINE rec == Head(reqQ)
           m == rec.msg
           log == IF m.t = "ccs" THEN srv.log ELSE Append(srv.log, Token(m))
           at == j + 1
           seq == IF j = 5 THEN srv.seq + 1 ELSE srv.seq
           n == IF j = 5 THEN 1 ELSE srv.n
           p == [epoch |-> 1, key |-> srv.sid, n |-> 0]
           fin == Msg("finished", srv.seq, srv.sid, log)
           x == Record("ccs", [NoSec EXCEPT !.n = srv.n], Plain("ccs"))
           y == Record("handshake", p, fin)
<1>1. /\ srv \in Server /\ reqQ \in Seq(Rec) /\ respQ \in Seq(Rec) /\ srv.cookies \in BOOLEAN
      /\ Before \in Nat
  BY DEF IInv, Queues, Server, Before
<1>2. /\ srv.sid = 1 /\ srv.at = j /\ srv.n = Before + 5 /\ srv.seq = Before + 5 /\ srv.log = Log(Taken(j))
      /\ Len(reqQ) = 6 - j /\ (\A i \in 1 .. 6 - j : OfClient(reqQ[i], j - 1 + i))
      /\ Keyed("waitChangeCipherSpec", Old) /\ c.pr = New /\ respQ = <<>>
  BY DEF ClientSaid
<1>3. reqQ # <<>>
  BY <1>1, <1>2, NoneIs
<1>4. /\ rec = reqQ[1] /\ Tail(reqQ) \in Seq(Rec) /\ Len(Tail(reqQ)) = 5 - j
      /\ \A i \in 1 .. 5 - j : Tail(reqQ)[i] = reqQ[i + 1]
  <2>1. /\ rec = reqQ[1] /\ Tail(reqQ) \in Seq(Rec) /\ Len(Tail(reqQ)) = Len(reqQ) - 1
        /\ \A i \in 1 .. Len(reqQ) - 1 : Tail(reqQ)[i] = reqQ[i + 1]
    BY <1>1, <1>3, TailIs
  <2>2. Len(reqQ) - 1 = 5 - j
    BY <1>2
  <2>3. QED
    BY <2>1, <2>2
<1>5. OfClient(rec, j)
  <2>1. 1 \in 1 .. 6 - j /\ j - 1 + 1 = j
    OBVIOUS
  <2>2. QED
    BY <1>2, <1>4, <2>1
<1>6. log = Log(Taken(j + 1))
  <2>1. m.t = Rest[j]
    BY <1>5 DEF OfClient
  <2>2. CASE j = 4
    <3>1. Rest[j] = "ccs" /\ Taken(j + 1) = Taken(j)
      BY <2>2 DEF Rest, Taken
    <3>2. QED
      BY <1>2, <2>1, <3>1
  <2>3. CASE j # 4
    <3>1. Rest[j] # "ccs" /\ Taken(j + 1) = Taken(j) + 1 /\ Taken(j) \in Nat
      BY <2>3 DEF Rest, Taken
    <3>2. Token(m) = Entry(Taken(j) + 1)
      BY <1>5, <2>3, <3>1 DEF OfClient
    <3>3. Append(Log(Taken(j)), Entry(Taken(j) + 1)) = Log(Taken(j) + 1)
      BY <3>1, LogGrows
    <3>4. QED
      BY <1>2, <2>1, <3>1, <3>2, <3>3
  <2>4. QED
    BY <2>2, <2>3
<1>7. srv' = [srv EXCEPT !.at = at, !.log = log, !.seq = seq, !.n = n]
  BY <1>2 DEF Accept
<1>8. respQ' = IF j = 5 THEN respQ \o <<x, y>> ELSE respQ
  BY <1>2 DEF Accept
<1> HIDE DEF log, at, seq, n, rec, m, x, y
<1>9. /\ srv'.cookies = srv.cookies /\ srv'.sid = srv.sid /\ srv'.at = at /\ srv'.log = log
      /\ srv'.seq = seq /\ srv'.n = n
  BY <1>1, <1>7 DEF Server
<1>10. Keyed("waitChangeCipherSpec", Old)' /\ c'.pr = New
  BY <1>2, <1>9, SameLogs DEF Keyed, Old
<1>11. CASE j < 5
  <2>1. \A i \in 1 .. 6 - (j + 1) : OfClient(reqQ[i], (j + 1) - 1 + i)'
    <3> TAKE i \in 1 .. 6 - (j + 1)
    <3>1. i \in 1 .. 5 - j /\ i + 1 \in 1 .. 6 - j /\ j - 1 + (i + 1) = (j + 1) - 1 + i
      OBVIOUS
    <3>2. reqQ'[i] = reqQ[i + 1]
      BY <1>4, <3>1
    <3>3. OfClient(reqQ[i + 1], j - 1 + (i + 1))
      BY <1>2, <3>1
    <3>4. OfClient(reqQ[i + 1], (j + 1) - 1 + i)
      BY <3>1, <3>3
    <3> DEFINE k == (j + 1) - 1 + i
    <3>5. OfClient(reqQ[i + 1], k)
      BY <3>4
    <3> HIDE DEF k
    <3>6. OfClient(reqQ[i], k)'
      BY <1>9, <3>2, <3>5, SameLogs DEF OfClient
    <3>7. QED
      BY <3>6 DEF k
  <2>2. Len(reqQ') = 6 - (j + 1)
    BY <1>4
  <2>3. srv'.at = j + 1 /\ srv'.n = Before + 5 /\ srv'.seq = Before + 5 /\ respQ' = <<>> /\ srv'.sid = 1
    BY <1>2, <1>8, <1>9, <1>11 DEF at, n, seq
  <2>4. ClientSaid(j + 1)'
    BY <1>6, <1>9, <1>10, <2>1, <2>2, <2>3, SameLogs DEF ClientSaid
  <2>5. QED
    BY <1>11, <2>4
<1>12. CASE ~(j < 5)
  <2>1. j = 5 /\ Taken(j + 1) = 10
    BY <1>12 DEF Taken
  <2>2. reqQ' = <<>>
    BY <1>4, <2>1, NoneIs
  <2>3. IsCipherChange(x)
    BY <1>1, <1>2 DEF x, Record, NoSec, IsCipherChange
  <2>4. IsFinished(y)
    BY <1>2, <1>6, <2>1 DEF y, Record, IsFinished
  <2>5. Len(<<x, y>>) = 2 /\ <<x, y>>[1] = x /\ <<x, y>>[2] = y /\ <<x, y>> \in Seq({x, y})
    OBVIOUS
  <2>6. respQ' = <<x, y>>
    BY <1>2, <1>8, <2>1, <2>5, ConcatEmptySeq
  <2>7. Done'
    BY <1>2, <1>9, <2>1 DEF Done, at, n
  <2>8. IsCipherChange(respQ[1])' /\ IsFinished(respQ[2])'
    BY <1>9, <2>3, <2>4, <2>5, <2>6, SameLogs DEF IsCipherChange, IsFinished
  <2>9. ServerDone'
    BY <1>10, <2>2, <2>5, <2>6, <2>7, <2>8 DEF ServerDone
  <2>10. QED
    BY <1>12, <2>9
<1>13. QED
  BY <1>11, <1>12

\* The device answers over the channel.
LEMMA AnswerStage ==
  ASSUME IInv, Open, reqQ # <<>>, Answer(Head(reqQ)), reqQ' = Tail(reqQ), c' = c
  PROVE  Open'
<1> DEFINE x == Record("app", [epoch |-> 1, key |-> srv.sid, n |-> srv.n], Head(reqQ).msg)
           n == srv.n + 1
<1>1. srv \in Server /\ reqQ \in Seq(Rec) /\ respQ \in Seq(Rec) /\ c.r.n \in Nat
  BY DEF IInv, Queues, Base, Handlers, SecOf
<1>2. /\ srv.sid = 1 /\ srv.at = 6 /\ srv.n = c.r.n + Len(respQ)
      /\ c.secure /\ c.hs = "idle" /\ c.r.epoch = 1 /\ c.r.key = 1 /\ c.w.key = 1
      /\ \A i \in 1 .. Len(reqQ) : reqQ[i].ct = "app" /\ reqQ[i].key = 1 /\ reqQ[i].msg.t = "app"
      /\ \A i \in 1 .. Len(respQ) : /\ respQ[i].ct = "app" /\ respQ[i].epoch = 1 /\ respQ[i].key = 1
                                    /\ respQ[i].n = c.r.n + i - 1
  BY DEF Open
<1>3. srv' = [srv EXCEPT !.n = n] /\ respQ' = Append(respQ, x)
  BY DEF Answer
<1>4. x.ct = "app" /\ x.epoch = 1 /\ x.key = 1 /\ x.n = srv.n
  BY <1>2 DEF Record
<1> HIDE DEF x, n
<1>5. srv'.sid = 1 /\ srv'.at = 6 /\ srv'.n = n
  BY <1>1, <1>2, <1>3 DEF Server
<1>6. /\ Len(respQ') = Len(respQ) + 1 /\ Len(respQ) \in Nat
      /\ \A i \in 1 .. Len(respQ) : respQ'[i] = respQ[i]
      /\ respQ'[Len(respQ) + 1] = x
  <2>1. /\ Append(respQ, x)[Len(respQ) + 1] = x /\ Len(Append(respQ, x)) = Len(respQ) + 1
        /\ \A i \in 1 .. Len(respQ) : Append(respQ, x)[i] = respQ[i]
    <3>1. respQ \in Seq(Rec \cup {x}) /\ x \in Rec \cup {x}
      BY <1>1
    <3>2. QED
      BY <3>1, AppendProperties
  <2>2. QED
    BY <1>1, <1>3, <2>1
<1>7. \A i \in 1 .. Len(respQ') : /\ respQ'[i].ct = "app" /\ respQ'[i].epoch = 1 /\ respQ'[i].key = 1
                                  /\ respQ'[i].n = c.r.n + i - 1
  <2> TAKE i \in 1 .. Len(respQ')
  <2>1. CASE i \in 1 .. Len(respQ)
    BY <1>2, <1>6, <2>1
  <2>2. CASE i = Len(respQ) + 1
    <3>1. c.r.n + i - 1 = srv.n
      BY <1>1, <1>2, <1>6, <2>2
    <3>2. QED
      BY <1>4, <1>6, <2>2, <3>1
  <2>3. QED
    BY <1>6, <2>1, <2>2
<1>8. \A i \in 1 .. Len(reqQ') : reqQ'[i].ct = "app" /\ reqQ'[i].key = 1 /\ reqQ'[i].msg.t = "app"
  <2>1. /\ Len(Tail(reqQ)) = Len(reqQ) - 1 /\ Len(reqQ) \in Nat /\ Len(reqQ) > 0
        /\ \A i \in 1 .. Len(reqQ) - 1 : Tail(reqQ)[i] = reqQ[i + 1]
    BY <1>1, TailIs
  <2> TAKE i \in 1 .. Len(reqQ')
  <2>2. i \in 1 .. Len(reqQ) - 1 /\ i + 1 \in 1 .. Len(reqQ)
    BY <2>1
  <2>3. reqQ'[i] = reqQ[i + 1]
    BY <2>1, <2>2
  <2>4. QED
    BY <1>2, <2>2, <2>3
<1>9. n = c.r.n + Len(respQ')
  <2>1. n = (c.r.n + Len(respQ)) + 1
    BY <1>2 DEF n
  <2>4. \A a, b \in Nat : (a + b) + 1 = a + (b + 1)
    OBVIOUS
  <2>2. (c.r.n + Len(respQ)) + 1 = c.r.n + (Len(respQ) + 1)
    BY <1>1, <1>6, <2>4
  <2>3. QED
    BY <1>6, <2>1, <2>2
<1>10. QED
  BY <1>2, <1>5, <1>7, <1>8, <1>9 DEF Open

\* What is on the line fits the device, in one way only.
OneFit(rec, b, k, a, d) ==
  (Begins(rec.msg) <=> b) /\ (Continues(rec.msg) <=> k) /\ (Accepts(rec) <=> a) /\ (Answers(rec) <=> d)

LEMMA StageServed ==
  ASSUME IInv, Stage, reqQ # <<>>
  PROVE  \/ HelloSent /\ OneFit(Head(reqQ), TRUE, FALSE, FALSE, FALSE)
         \/ CookieSent /\ OneFit(Head(reqQ), FALSE, TRUE, FALSE, FALSE)
         \/ \E j \in 1 .. 5 : ClientSaid(j) /\ OneFit(Head(reqQ), FALSE, FALSE, TRUE, FALSE)
         \/ Open /\ OneFit(Head(reqQ), FALSE, FALSE, FALSE, TRUE)
<1> DEFINE rec == Head(reqQ)
<1>1. reqQ \in Seq(Rec) /\ rec = reqQ[1] /\ Len(reqQ) \in Nat /\ Len(reqQ) > 0
  <2>1. reqQ \in Seq(Rec)
    BY DEF IInv, Queues
  <2>2. QED
    BY <2>1, TailIs
<1> HIDE DEF rec
<1>2. CASE HelloSent
  <2>1. srv.sid = 0 /\ srv.at = 0 /\ rec.msg.t = "hello" /\ rec.ct = "handshake"
    BY <1>1, <1>2 DEF HelloSent, Asleep, Single, Msg
  <2>2. OneFit(rec, TRUE, FALSE, FALSE, FALSE)
    BY <2>1, DtlsAssumption DEF OneFit, Begins, Continues, Accepts, Answers
  <2>3. QED
    BY <1>2, <2>2 DEF rec
<1>3. CASE CookieSent
  <2>1. srv.at = 0 /\ rec.msg.t = "cookieHello" /\ rec.ct = "handshake"
    BY <1>1, <1>3 DEF CookieSent, Asking, Single, Msg
  <2>2. OneFit(rec, FALSE, TRUE, FALSE, FALSE)
    BY <2>1 DEF OneFit, Begins, Continues, Accepts, Answers
  <2>3. QED
    BY <1>3, <2>2 DEF rec
<1>4. ASSUME NEW j \in 1 .. 5, ClientSaid(j)
      PROVE  OneFit(rec, FALSE, FALSE, TRUE, FALSE)
  <2>1. OfClient(rec, j)
    <3>1. 1 \in 1 .. 6 - j /\ j - 1 + 1 = j
      OBVIOUS
    <3>2. OfClient(reqQ[1], j - 1 + 1)
      BY <1>4, <3>1 DEF ClientSaid
    <3>3. QED
      BY <1>1, <3>1, <3>2
  <2>2. srv.sid = 1 /\ srv.at = j /\ srv.log = Log(Taken(j))
    BY <1>4 DEF ClientSaid
  <2>3. /\ rec.key = (IF j = 5 THEN 1 ELSE 0) /\ rec.ct # "app" /\ rec.msg.t = Rest[j]
        /\ j \in {3, 5} => rec.msg.over = Log(Taken(j))
    BY <2>1 DEF OfClient
  <2>4. Rest[j] \notin {"hello", "cookieHello"} /\ (Rest[j] \in {"certVerify", "finished"} => j \in {3, 5})
    BY DEF Rest
  <2>5. QED
    BY <2>2, <2>3, <2>4 DEF OneFit, Begins, Continues, Accepts, Answers
<1>5. CASE Open
  <2>1. srv.sid = 1 /\ srv.at = 6 /\ rec.ct = "app" /\ rec.key = 1 /\ rec.msg.t = "app"
    BY <1>1, <1>5 DEF Open
  <2>2. OneFit(rec, FALSE, FALSE, FALSE, TRUE)
    BY <2>1 DEF OneFit, Begins, Continues, Accepts, Answers
  <2>3. QED
    BY <1>5, <2>2 DEF rec
<1>6. CASE Start \/ VerifyAsked \/ VerifyTaken \/ (\E k \in 0 .. 5 : ServerSaid(k)) \/ ServerDone \/ CipherChanged
  BY <1>6 DEF Start, VerifyAsked, VerifyTaken, ServerSaid, ServerDone, CipherChanged
<1>7. QED
  BY <1>2, <1>3, <1>4, <1>5, <1>6 DEF Stage, rec

LEMMA ServeCalm == IInv /\ CalmInv /\ Serve => CalmInv'
<1> SUFFICES ASSUME IInv, CalmInv, Serve, ~trouble'
             PROVE  Stage' /\ Calls'
  BY DEF CalmInv
<1> DEFINE rec == Head(reqQ)
<1>1. /\ reqQ # <<>> /\ reqQ' = Tail(reqQ)
      /\ c' = c /\ pc' = pc /\ stack' = stack /\ timer' = timer
  BY DEF Serve, coap
<1>2. Begin(rec.msg) \/ Continue(rec.msg) \/ Accept(rec) \/ Answer(rec) \/ Ignore(rec)
  BY DEF Serve, Refuse
<1>3. /\ Begin(rec.msg) => Begins(rec.msg)
      /\ Continue(rec.msg) => Continues(rec.msg)
      /\ Accept(rec) => Accepts(rec)
      /\ Answer(rec) => Answers(rec)
      /\ Ignore(rec) => ~(Begins(rec.msg) \/ Continues(rec.msg) \/ Accepts(rec) \/ Answers(rec))
  BY DEF Begin, Continue, Accept, Answer, Ignore, Fits
<1>4. ~trouble
  BY <1>2 DEF Begin, Continue, Accept, Answer, Ignore
<1>5. Stage /\ Calls
  BY <1>4 DEF CalmInv
<1>6. Stage'
  <2>1. CASE HelloSent /\ OneFit(rec, TRUE, FALSE, FALSE, FALSE)
    <3>1. Begin(rec.msg)
      BY <1>2, <1>3, <2>1 DEF OneFit
    <3>2. VerifyAsked' \/ ServerSaid(0)'
      BY <1>1, <2>1, <3>1, BeginStage
    <3>3. QED
      BY <3>2 DEF Stage
  <2>2. CASE CookieSent /\ OneFit(rec, FALSE, TRUE, FALSE, FALSE)
    <3>1. Continue(rec.msg)
      BY <1>2, <1>3, <2>2 DEF OneFit
    <3>2. ServerSaid(0)'
      BY <1>1, <2>2, <3>1, ContinueStage
    <3>3. QED
      BY <3>2 DEF Stage
  <2>3. ASSUME NEW j \in 1 .. 5, ClientSaid(j), OneFit(rec, FALSE, FALSE, TRUE, FALSE)
        PROVE  Stage'
    <3>1. Accept(rec)
      BY <1>2, <1>3, <2>3 DEF OneFit
    <3>2. IF j < 5 THEN ClientSaid(j + 1)' ELSE ServerDone'
      BY <1>1, <2>3, <3>1, AcceptStage
    <3>3. j < 5 => j + 1 \in 1 .. 5
      OBVIOUS
    <3>4. QED
      BY <3>2, <3>3 DEF Stage
  <2>4. CASE Open /\ OneFit(rec, FALSE, FALSE, FALSE, TRUE)
    <3>1. Answer(rec)
      BY <1>2, <1>3, <2>4 DEF OneFit
    <3>2. Open'
      BY <1>1, <2>4, <3>1, AnswerStage
    <3>3. QED
      BY <3>2 DEF Stage
  <2>5. QED
    BY <1>1, <1>5, <2>1, <2>2, <2>3, <2>4, StageServed
<1>7. Calls'
  <2>1. ~timer => c.secure
    BY <1>1, <1>5 DEF Calls, Start
  <2>2. ~(stack # <<>> /\ c.secure)
    BY <1>1, <1>5 DEF Calls
  <2>3. QED
    BY <1>1, <1>5, <2>1, <2>2 DEF Calls
<1>8. QED
  BY <1>6, <1>7

-----------------------------------------------------------------------------
(* From stage to stage: the device's messages                              *)

\* The step that reads a record and leaves d.
Reads(d) == Put(d) /\ respQ' = Tail(respQ) /\ srv' = srv

LEMMA ReadsIs ==
  ASSUME IInv, NEW d \in Handlers, d.out = <<>>, Reads(d), respQ # <<>>
  PROVE  /\ Same(c', d) /\ reqQ' = reqQ /\ srv' = srv
         /\ Len(respQ') = Len(respQ) - 1 /\ Len(respQ) \in Nat /\ respQ' \in Seq(Rec)
         /\ \A i \in 1 .. Len(respQ) - 1 : respQ'[i] = respQ[i + 1]
<1>1. reqQ \in Seq(Rec) /\ respQ \in Seq(Rec) /\ Put(d) /\ respQ' = Tail(respQ) /\ srv' = srv
  BY DEF IInv, Queues, Reads
<1>2. Same(c', d) /\ reqQ' = reqQ
  BY <1>1, PutQuiet
<1>3. QED
  BY <1>1, <1>2, TailIs

\* The messages of the device's flight come in the order that the client wants.
LEMMA InOrder ==
  ASSUME NEW k \in 0 .. 4, srv.cookies \in BOOLEAN
  PROVE  LET t == ServerFlight[k + 1]
         IN  /\ t \in DOMAIN Expected /\ t # "finished" /\ InStep(k) \in Expected[t]
             /\ Then[t] = InStep(k + 1)
             /\ t = "serverHello" <=> k = 0
             /\ t = "keyExchange" => k > 0
<1>1. k = 0 \/ k = 1 \/ k = 2 \/ k = 3 \/ k = 4
  OBVIOUS
<1>2. CASE k = 0
  BY <1>2 DEF ServerFlight, Expected, Then, InStep, Step
<1>3. CASE k = 1
  BY <1>3 DEF ServerFlight, Expected, Then, InStep, Step
<1>4. CASE k = 2
  BY <1>4 DEF ServerFlight, Expected, Then, InStep, Step
<1>5. CASE k = 3
  BY <1>5 DEF ServerFlight, Expected, Then, InStep, Step
<1>6. CASE k = 4
  BY <1>6 DEF ServerFlight, Expected, Then, InStep, Step
<1>7. QED
  BY <1>1, <1>2, <1>3, <1>4, <1>5, <1>6

LEMMA VerifyStage ==
  ASSUME IInv, VerifyAsked, NEW d \in Handlers, d = RecordRx(c, Head(respQ))
  PROVE  ~d.raised /\ (Reads(d) => VerifyTaken')
<1> DEFINE rec == respQ[1]
<1>1. /\ respQ \in Seq(Rec) /\ Len(respQ) = 1 /\ c \in Handlers /\ ~c.raised /\ c.out = <<>>
      /\ rec.ct = "handshake" /\ rec.msg = Msg("verifyRequest", 0, 1, <<>>)
      /\ rec.epoch = 0 /\ rec.key = 0 /\ rec.n = 0
  BY DEF IInv, Queues, Base, VerifyAsked, Single
<1>2. respQ # <<>>
  BY <1>1, OneIs
<1>3. Head(respQ) = rec
  BY <1>1, <1>2, TailIs
<1>4. /\ c.hs = "waitVerifyRequest" /\ c.rx = 0 /\ c.tx = 1 /\ c.ekey /\ ~c.secure
      /\ c.r = [epoch |-> 0, key |-> 0, n |-> 0]
      /\ c.w.key = 0 /\ c.pr = None /\ c.pw = None /\ Asking /\ reqQ = <<>>
  BY DEF VerifyAsked, Unkeyed
<1>5. rec.msg.t = "verifyRequest" /\ rec.msg.seq = 0
  BY <1>1 DEF Msg
<1>6. /\ "verifyRequest" \in DOMAIN Expected /\ "waitVerifyRequest" \in Expected["verifyRequest"]
      /\ Then["verifyRequest"] = "sendCookieHello"
  BY DEF Expected, Then
<1> HIDE DEF rec
<1>7. d = RecordRx(c, rec)
  BY <1>3
<1>8. /\ d.hs = Then[rec.msg.t] /\ d.rx = c.rx + 1 /\ d.tx = c.tx /\ d.ekey = c.ekey
      /\ d.secure = c.secure /\ d.w = c.w /\ d.pr = c.pr /\ d.pw = c.pw
      /\ d.r = [epoch |-> c.r.epoch, key |-> c.r.key, n |-> c.r.n + 1]
      /\ ~d.raised /\ d.out = c.out
  <2>1. rec.epoch = c.r.epoch /\ rec.key = c.r.key /\ rec.n = c.r.n /\ rec.msg.seq = c.rx
    BY <1>1, <1>4, <1>5
  <2>2. /\ rec.msg.t \in DOMAIN Expected /\ rec.msg.t # "finished" /\ c.hs \in Expected[rec.msg.t]
        /\ rec.msg.t # "keyExchange"
    BY <1>4, <1>5, <1>6
  <2>3. QED
    BY <1>1, <1>7, <2>1, <2>2, Received
<1>9. ASSUME Reads(d)
      PROVE  VerifyTaken'
  <2>1. Same(c', d) /\ reqQ' = reqQ /\ srv' = srv /\ Len(respQ') = 0 /\ respQ' \in Seq(Rec)
    BY <1>1, <1>2, <1>8, <1>9, ReadsIs
  <2>2. respQ' = <<>>
    BY <2>1, NoneIs
  <2>3. Unkeyed("sendCookieHello", 1, 1)'
    BY <1>4, <1>5, <1>6, <1>8, <2>1 DEF Unkeyed, Same
  <2>4. QED
    BY <1>4, <2>1, <2>2, <2>3 DEF VerifyTaken, Asking
<1>10. QED
  BY <1>8, <1>9

LEMMA SaidStage ==
  ASSUME IInv, NEW k \in 0 .. 4, ServerSaid(k), NEW d \in Handlers, d = RecordRx(c, Head(respQ))
  PROVE  ~d.raised /\ (Reads(d) => ServerSaid(k + 1)')
<1> DEFINE rec == respQ[1]
<1>1. /\ respQ \in Seq(Rec) /\ c \in Handlers /\ ~c.raised /\ c.out = <<>> /\ srv.cookies \in BOOLEAN
      /\ Before \in Nat
  BY DEF IInv, Queues, Base, Server, Before
<1>2. /\ c.hs = InStep(k) /\ c.rx = Before + k /\ c.tx = Before + 1 /\ c.ekey /\ ~c.secure
      /\ c.r = [epoch |-> 0, key |-> 0, n |-> Before + k]
      /\ c.w.key = 0 /\ c.pr = None /\ c.pw = None
      /\ (k > 0 => c.sid = 1) /\ c.log = Log(k + 1)
      /\ srv.sid = 1 /\ srv.at = 1 /\ srv.n = Before + 5 /\ srv.seq = Before + 5 /\ srv.log = Log(6)
      /\ reqQ = <<>>
      /\ Len(respQ) = 5 - k /\ (\A i \in 1 .. 5 - k : OfServer(respQ[i], k + i))
  BY DEF ServerSaid, Unkeyed
<1>3. respQ # <<>>
  BY <1>1, <1>2, NoneIs
<1>4. Head(respQ) = rec
  BY <1>1, <1>3, TailIs
<1>5. OfServer(rec, k + 1)
  <2>1. 1 \in 1 .. 5 - k
    OBVIOUS
  <2>2. QED
    BY <1>2, <2>1
<1> HIDE DEF rec
<1>6. /\ rec.ct = "handshake" /\ rec.epoch = 0 /\ rec.key = 0 /\ rec.n = Before + k
      /\ rec.msg = Msg(ServerFlight[k + 1], Before + k, 1, <<>>)
  <2>1. Before + (k + 1) - 1 = Before + k
    BY <1>1
  <2>2. QED
    BY <1>5, <2>1 DEF OfServer
<1>7. /\ rec.msg.t = ServerFlight[k + 1] /\ rec.msg.seq = Before + k /\ rec.msg.sid = 1
      /\ Token(rec.msg) = <<ServerFlight[k + 1], Before + k, 1>>
  BY <1>6 DEF Msg, Token
<1> DEFINE t == ServerFlight[k + 1]
<1>8. /\ t \in DOMAIN Expected /\ t # "finished" /\ InStep(k) \in Expected[t]
      /\ Then[t] = InStep(k + 1)
      /\ t = "serverHello" <=> k = 0
      /\ t = "keyExchange" => k > 0
  BY <1>1, InOrder
<1> HIDE DEF t
<1>9. rec.msg.t = t
  BY <1>7 DEF t
<1>10. d = RecordRx(c, rec)
  BY <1>4
<1>11. /\ d.hs = Then[rec.msg.t] /\ d.rx = c.rx + 1 /\ d.tx = c.tx /\ d.ekey = c.ekey
       /\ d.secure = c.secure /\ d.w = c.w /\ d.pr = c.pr /\ d.pw = c.pw
       /\ d.r = [epoch |-> c.r.epoch, key |-> c.r.key, n |-> c.r.n + 1]
       /\ d.sid = (IF rec.msg.t = "serverHello" THEN rec.msg.sid ELSE c.sid)
       /\ d.log = Append(c.log, Token(rec.msg))
       /\ ~d.raised /\ d.out = c.out
  <2>1. rec.epoch = c.r.epoch /\ rec.key = c.r.key /\ rec.n = c.r.n /\ rec.msg.seq = c.rx
    BY <1>2, <1>6, <1>7
  <2>2. rec.msg.t = "keyExchange" => rec.msg.sid = c.sid
    BY <1>2, <1>7, <1>8, <1>9
  <2>3. rec.msg.t \in DOMAIN Expected /\ rec.msg.t # "finished" /\ c.hs \in Expected[rec.msg.t]
    BY <1>2, <1>8, <1>9
  <2>4. QED
    BY <1>1, <1>6, <1>10, <2>1, <2>2, <2>3, Received
<1>12. d.sid = 1
  BY <1>2, <1>7, <1>8, <1>9, <1>11
<1>13. d.log = Log((k + 1) + 1)
  <2>1. ~((k + 1) + 1 = 1) /\ (k + 1) + 1 <= 6 /\ ((k + 1) + 1) - 1 = k + 1
        /\ Before + ((k + 1) + 1) - 2 = Before + k /\ k + 1 \in Nat
    BY <1>1
  <2>2. Entry((k + 1) + 1) = <<ServerFlight[((k + 1) + 1) - 1], Before + ((k + 1) + 1) - 2, 1>>
    BY <2>1 DEF Entry
  <2>3. Token(rec.msg) = Entry((k + 1) + 1)
    BY <1>7, <2>1, <2>2
  <2>4. Append(Log(k + 1), Entry((k + 1) + 1)) = Log((k + 1) + 1)
    BY <2>1, LogGrows
  <2>5. QED
    BY <1>2, <1>11, <2>3, <2>4
<1>14. ASSUME Reads(d)
       PROVE  ServerSaid(k + 1)'
  <2>1. /\ Same(c', d) /\ reqQ' = reqQ /\ srv' = srv /\ Len(respQ') = Len(respQ) - 1
        /\ \A i \in 1 .. Len(respQ) - 1 : respQ'[i] = respQ[i + 1]
    BY <1>1, <1>3, <1>11, <1>14, ReadsIs
  <2>2. /\ Before' = Before /\ Log((k + 1) + 1)' = Log((k + 1) + 1) /\ Log(6)' = Log(6)
        /\ InStep(k + 1)' = InStep(k + 1)
        /\ \A x, i : OfServer(x, i)' <=> OfServer(x, i)
    BY <2>1, SameLogs
  <2>3. Unkeyed(InStep(k + 1), Before + (k + 1), Before + 1)'
    <3>1. (Before + k) + 1 = Before + (k + 1)
      BY <1>1
    <3>2. /\ c'.rx = Before + (k + 1) /\ c'.hs = InStep(k + 1) /\ c'.tx = Before + 1
          /\ c'.r = [epoch |-> 0, key |-> 0, n |-> Before + (k + 1)]
          /\ c'.ekey /\ ~c'.secure /\ c'.w.key = 0 /\ c'.pr = None /\ c'.pw = None
      BY <1>2, <1>8, <1>9, <1>11, <2>1, <3>1 DEF Same
    <3>3. QED
      BY <2>2, <3>2 DEF Unkeyed
  <2>4. Len(respQ') = 5 - (k + 1)
    BY <1>2, <2>1
  <2>5. \A i \in 1 .. 5 - (k + 1) : OfServer(respQ[i], (k + 1) + i)'
    <3> TAKE i \in 1 .. 5 - (k + 1)
    <3>1. i \in 1 .. Len(respQ) - 1 /\ i + 1 \in 1 .. 5 - k /\ k + (i + 1) = (k + 1) + i
      BY <1>2
    <3>2. respQ'[i] = respQ[i + 1]
      BY <2>1, <3>1
    <3> DEFINE j == (k + 1) + i
    <3>3. OfServer(respQ[i + 1], j)
      BY <1>2, <3>1
    <3> HIDE DEF j
    <3>4. OfServer(respQ[i], j)'
      BY <2>2, <3>2, <3>3 DEF OfServer
    <3>5. QED
      BY <3>4 DEF j
  <2>6. c'.sid = 1 /\ c'.log = Log((k + 1) + 1)
    BY <1>12, <1>13, <2>1 DEF Same
  <2>7. QED
    BY <1>2, <2>1, <2>2, <2>3, <2>4, <2>5, <2>6 DEF ServerSaid
<1>15. QED
  BY <1>11, <1>14

LEMMA CipherStage ==
  ASSUME IInv, ServerDone, NEW d \in Handlers, d = RecordRx(c, Head(respQ))
  PROVE  ~d.raised /\ (Reads(d) => CipherChanged')
<1> DEFINE rec == respQ[1]
<1>1. respQ \in Seq(Rec) /\ c \in Handlers /\ ~c.raised /\ c.out = <<>> /\ Before \in Nat
  BY DEF IInv, Queues, Base, Before
<1>2. /\ Done /\ reqQ = <<>> /\ Keyed("waitChangeCipherSpec", Old) /\ c.pr = New
      /\ Len(respQ) = 2 /\ IsCipherChange(rec) /\ IsFinished(respQ[2])
  BY DEF ServerDone
<1>3. respQ # <<>>
  BY <1>1, <1>2, NoneIs
<1>4. Head(respQ) = rec
  BY <1>1, <1>3, TailIs
<1> HIDE DEF rec
<1>5. /\ c.hs = "waitChangeCipherSpec" /\ c.rx = Before + 5 /\ ~c.secure
      /\ c.key = 1 /\ c.w.key = 1 /\ c.r = Old /\ c.log = Log(10)
  BY <1>2 DEF Keyed
<1>6. rec.ct = "ccs" /\ rec.epoch = c.r.epoch /\ rec.key = c.r.key /\ rec.n = c.r.n
  BY <1>2, <1>5 DEF IsCipherChange, Old
<1>7. New # None
  <2>1. New.epoch = 1 /\ None.epoch = -1 /\ 1 # -1
    BY DEF New, None
  <2>2. QED
    BY <2>1
<1>8. d = [c EXCEPT !.r = c.pr, !.pr = None, !.hs = "waitFinished"]
  BY <1>1, <1>2, <1>4, <1>5, <1>6, <1>7, CipherTaken
<1>9. /\ d.hs = "waitFinished" /\ d.r = New /\ d.pr = None /\ d.rx = c.rx /\ d.secure = c.secure
      /\ d.key = c.key /\ d.w = c.w /\ d.log = c.log /\ ~d.raised /\ d.out = <<>>
  BY <1>1, <1>2, <1>8 DEF Handlers
<1>10. ASSUME Reads(d)
       PROVE  CipherChanged'
  <2>1. /\ Same(c', d) /\ reqQ' = reqQ /\ srv' = srv /\ Len(respQ') = Len(respQ) - 1
        /\ \A i \in 1 .. Len(respQ) - 1 : respQ'[i] = respQ[i + 1]
    BY <1>3, <1>9, <1>10, ReadsIs
  <2>2. Len(respQ') = 1 /\ respQ'[1] = respQ[2]
    BY <1>2, <2>1
  <2>3. Before' = Before /\ Log(10)' = Log(10)
    BY <2>1, SameLogs
  <2>4. IsFinished(respQ[1])'
    BY <1>2, <2>2, <2>3 DEF IsFinished
  <2>5. Keyed("waitFinished", New)' /\ c'.pr = None
    BY <1>5, <1>9, <2>1, <2>3 DEF Keyed, Same, New
  <2>6. QED
    BY <1>2, <2>1, <2>2, <2>4, <2>5 DEF CipherChanged, Done
<1>11. QED
  BY <1>9, <1>10

LEMMA FinishedStage ==
  ASSUME IInv, CipherChanged, NEW d \in Handlers, d = RecordRx(c, Head(respQ))
  PROVE  ~d.raised /\ (Reads(d) => Open' /\ reqQ' = <<>> /\ respQ' = <<>>)
<1> DEFINE rec == respQ[1]
<1>1. respQ \in Seq(Rec) /\ c \in Handlers /\ ~c.raised /\ c.out = <<>> /\ Before \in Nat
  BY DEF IInv, Queues, Base, Before
<1>2. /\ srv.sid = 1 /\ srv.at = 6 /\ srv.n = 1 /\ reqQ = <<>> /\ Keyed("waitFinished", New) /\ c.pr = None
      /\ Len(respQ) = 1 /\ IsFinished(rec)
  BY DEF CipherChanged, Done
<1>3. respQ # <<>>
  BY <1>1, <1>2, OneIs
<1>4. Head(respQ) = rec
  BY <1>1, <1>3, TailIs
<1> HIDE DEF rec
<1>5. /\ c.hs = "waitFinished" /\ c.rx = Before + 5 /\ ~c.secure
      /\ c.key = 1 /\ c.w.key = 1 /\ c.r = New /\ c.log = Log(10)
  BY <1>2 DEF Keyed
<1>6. c.r.epoch = 1 /\ c.r.key = 1 /\ c.r.n = 0
  BY <1>5 DEF New
<1>7. /\ rec.ct = "handshake" /\ rec.epoch = c.r.epoch /\ rec.key = c.r.key /\ rec.n = c.r.n
      /\ rec.msg = Msg("finished", Before + 5, 1, Log(10))
  BY <1>2, <1>6 DEF IsFinished
<1>8. /\ rec.msg.seq = c.rx /\ rec.msg.t = "finished" /\ rec.msg.sid = c.key /\ rec.msg.over = c.log
  BY <1>5, <1>7 DEF Msg
<1>9. /\ d.hs = "idle" /\ d.secure /\ d.w = c.w /\ d.pr = c.pr /\ d.pw = c.pw
      /\ d.r = [epoch |-> c.r.epoch, key |-> c.r.key, n |-> c.r.n + 1]
      /\ ~d.raised /\ d.out = <<>>
  <2>1. d = RecordRx(c, rec)
    BY <1>4
  <2>2. rec.ct = "handshake" /\ rec.epoch = c.r.epoch /\ rec.key = c.r.key /\ rec.n = c.r.n
    BY <1>7
  <2>3. QED
    BY <1>1, <1>5, <1>8, <2>1, <2>2, FinishedTaken
<1>10. ASSUME Reads(d)
       PROVE  Open' /\ reqQ' = <<>> /\ respQ' = <<>>
  <2>1. Same(c', d) /\ reqQ' = reqQ /\ srv' = srv /\ Len(respQ') = Len(respQ) - 1 /\ respQ' \in Seq(Rec)
    BY <1>3, <1>9, <1>10, ReadsIs
  <2>2. Len(respQ') = 0
    BY <1>2, <2>1
  <2>3. respQ' = <<>> /\ reqQ' = <<>> /\ Len(reqQ') = 0
    BY <1>2, <2>1, <2>2, NoneIs
  <2>4. /\ c'.secure /\ c'.hs = "idle" /\ c'.r.epoch = 1 /\ c'.r.key = 1 /\ c'.r.n = 1 /\ c'.w.key = 1
    BY <1>5, <1>6, <1>9, <2>1 DEF Same
  <2>5. Open'
    BY <1>2, <2>1, <2>2, <2>3, <2>4 DEF Open
  <2>6. QED
    BY <2>3, <2>5
<1>11. QED
  BY <1>9, <1>10

LEMMA OpenStage ==
  ASSUME IInv, Open, respQ # <<>>, NEW d \in Handlers, d = RecordRx(c, Head(respQ))
  PROVE  ~d.raised /\ (Reads(d) => Open')
<1> DEFINE rec == respQ[1]
<1>1. respQ \in Seq(Rec) /\ c \in Handlers /\ ~c.raised /\ c.out = <<>> /\ c.r.n \in Nat
  BY DEF IInv, Queues, Base, Handlers, SecOf
<1>2. /\ srv.sid = 1 /\ srv.at = 6 /\ srv.n = c.r.n + Len(respQ)
      /\ c.secure /\ c.hs = "idle" /\ c.r.epoch = 1 /\ c.r.key = 1 /\ c.w.key = 1
      /\ (\A i \in 1 .. Len(reqQ) : reqQ[i].ct = "app" /\ reqQ[i].key = 1 /\ reqQ[i].msg.t = "app")
      /\ (\A i \in 1 .. Len(respQ) : /\ respQ[i].ct = "app" /\ respQ[i].epoch = 1 /\ respQ[i].key = 1
                                     /\ respQ[i].n = c.r.n + i - 1)
  BY DEF Open
<1>3. Head(respQ) = rec /\ Len(respQ) \in Nat /\ Len(respQ) > 0
  BY <1>1, TailIs
<1>4. rec.ct = "app" /\ rec.epoch = 1 /\ rec.key = 1 /\ rec.n = c.r.n
  <2>1. 1 \in 1 .. Len(respQ) /\ c.r.n + 1 - 1 = c.r.n
    BY <1>1, <1>3
  <2>2. QED
    BY <1>2, <2>1
<1> HIDE DEF rec
<1>5. /\ d.hs = c.hs /\ d.secure = c.secure /\ d.w = c.w /\ d.pr = c.pr
      /\ d.r = [epoch |-> c.r.epoch, key |-> c.r.key, n |-> c.r.n + 1]
      /\ d.raised = c.raised /\ d.out = c.out
  <2>1. d = RecordRx(c, rec)
    BY <1>3
  <2>2. rec.ct = "app" /\ rec.epoch = c.r.epoch /\ rec.key = c.r.key /\ rec.n = c.r.n
    BY <1>2, <1>4
  <2>3. QED
    BY <1>1, <2>1, <2>2, DataTaken
<1>6. ASSUME Reads(d)
      PROVE  Open'
  <2>1. /\ Same(c', d) /\ reqQ' = reqQ /\ srv' = srv /\ Len(respQ') = Len(respQ) - 1
        /\ \A i \in 1 .. Len(respQ) - 1 : respQ'[i] = respQ[i + 1]
    BY <1>1, <1>5, <1>6, ReadsIs
  <2>2. c'.secure /\ c'.hs = "idle" /\ c'.r.epoch = 1 /\ c'.r.key = 1 /\ c'.r.n = c.r.n + 1 /\ c'.w.key = 1
    BY <1>2, <1>5, <2>1 DEF Same
  <2>3. c.r.n + Len(respQ) = (c.r.n + 1) + (Len(respQ) - 1)
    <3>1. \A a, b \in Nat : a + b = (a + 1) + (b - 1)
      OBVIOUS
    <3>2. QED
      BY <1>1, <1>3, <3>1
  <2>4. \A i \in 1 .. Len(respQ') : /\ respQ'[i].ct = "app" /\ respQ'[i].epoch = 1 /\ respQ'[i].key = 1
                                    /\ respQ'[i].n = c'.r.n + i - 1
    <3> TAKE i \in 1 .. Len(respQ')
    <3>1. i \in 1 .. Len(respQ) - 1 /\ i + 1 \in 1 .. Len(respQ)
      BY <1>3, <2>1
    <3>2. respQ'[i] = respQ[i + 1]
      BY <2>1, <3>1
    <3>3. c.r.n + (i + 1) - 1 = (c.r.n + 1) + i - 1
      BY <1>1, <3>1
    <3>4. /\ respQ[i + 1].ct = "app" /\ respQ[i + 1].epoch = 1 /\ respQ[i + 1].key = 1
          /\ respQ[i + 1].n = c.r.n + (i + 1) - 1
      BY <1>2, <3>1
    <3>5. QED
      BY <2>2, <3>2, <3>3, <3>4
  <2>5. QED
    BY <1>2, <2>1, <2>2, <2>3, <2>4 DEF Open
<1>7. QED
  BY <1>1, <1>5, <1>6

-----------------------------------------------------------------------------
(* The steps of the undisturbed handshake *)

\* What the handlers' state tells of the stage.
LEMMA StageIs ==
  ASSUME Stage
  PROVE  /\ c.hs # "failed"
         /\ c.secure => Open
         /\ c.hs = "idle" => Start \/ Open
         /\ c.hs = "sendCookieHello" => VerifyTaken
         /\ c.hs = "sendCertificate" => ServerSaid(5) /\ c.ekey
<1>1. CASE Start \/ HelloSent \/ VerifyAsked \/ VerifyTaken \/ CookieSent
  BY <1>1 DEF Start, HelloSent, VerifyAsked, VerifyTaken, CookieSent, Unkeyed
<1>2. ASSUME NEW k \in 0 .. 5, ServerSaid(k)
      PROVE  /\ ~c.secure /\ c.hs \notin {"failed", "idle", "sendCookieHello"}
             /\ c.hs = "sendCertificate" => k = 5 /\ c.ekey
  <2>1. c.hs = InStep(k) /\ ~c.secure /\ c.ekey
    BY <1>2 DEF ServerSaid, Unkeyed
  <2>2. k = 0 \/ k = 1 \/ k = 2 \/ k = 3 \/ k = 4 \/ k = 5
    OBVIOUS
  <2>3. InStep(k) \notin {"failed", "idle", "sendCookieHello"} /\ (InStep(k) = "sendCertificate" => k = 5)
    BY <2>2 DEF InStep, Step
  <2>4. QED
    BY <2>1, <2>3
<1>3. CASE (\E j \in 1 .. 5 : ClientSaid(j)) \/ ServerDone \/ CipherChanged
  BY <1>3 DEF ClientSaid, ServerDone, CipherChanged, Keyed
<1>4. CASE Open
  BY <1>4 DEF Open
<1>5. QED
  BY <1>1, <1>2, <1>3, <1>4 DEF Stage

\* The stage is one of the handlers, the device and the lines.
LEMMA StageKept ==
  ASSUME Stage, UNCHANGED <<c, reqQ, respQ, srv>>
  PROVE  Stage' /\ (Start => Start')
<1>0. /\ Before' = Before /\ (\A k : Log(k)' = Log(k)) /\ (\A k : InStep(k)' = InStep(k))
      /\ \A rec, k : OfServer(rec, k)' <=> OfServer(rec, k)
      /\ \A rec, k : OfClient(rec, k)' <=> OfClient(rec, k)
  BY SameLogs
<1>1. Start => Start'
  BY DEF Start, Unkeyed, Asleep
<1>2. HelloSent => HelloSent'
  BY DEF HelloSent, Unkeyed, Asleep, Single
<1>3. VerifyAsked => VerifyAsked'
  BY DEF VerifyAsked, Unkeyed, Asking, Single
<1>4. VerifyTaken => VerifyTaken'
  BY DEF VerifyTaken, Unkeyed, Asking
<1>5. CookieSent => CookieSent'
  BY DEF CookieSent, Unkeyed, Asking, Single
<1>6. ASSUME NEW k \in 0 .. 5, ServerSaid(k)
      PROVE  ServerSaid(k)'
  <2>1. \A i \in 1 .. 5 - k : OfServer(respQ[i], k + i)'
    BY <1>0, <1>6 DEF ServerSaid, OfServer
  <2>2. QED
    BY <1>0, <1>6, <2>1 DEF ServerSaid, Unkeyed
<1>7. ASSUME NEW j \in 1 .. 5, ClientSaid(j)
      PROVE  ClientSaid(j)'
  <2>1. \A i \in 1 .. 6 - j : OfClient(reqQ[i], j - 1 + i)'
    <3> TAKE i \in 1 .. 6 - j
    <3> DEFINE k == j - 1 + i
    <3>1. OfClient(reqQ[i], k)
      BY <1>7 DEF ClientSaid
    <3> HIDE DEF k
    <3>2. OfClient(reqQ[i], k)'
      BY <3>1, SameLogs DEF OfClient
    <3>3. QED
      BY <3>2 DEF k
  <2>2. QED
    BY <1>0, <1>7, <2>1 DEF ClientSaid, Keyed, Old
<1>8. ServerDone => ServerDone'
  BY <1>0 DEF ServerDone, Done, Keyed, Old, IsCipherChange, IsFinished
<1>9. CipherChanged => CipherChanged'
  BY <1>0 DEF CipherChanged, Done, Keyed, IsFinished
<1>10. Open => Open'
  BY DEF Open
<1>11. QED
  BY <1>1, <1>2, <1>3, <1>4, <1>5, <1>6, <1>7, <1>8, <1>9, <1>10 DEF Stage

\* Data goes out.
LEMMA SendStage ==
  ASSUME IInv, Open, Put(AppSend(c)), UNCHANGED <<respQ, srv>>
  PROVE  Open'
<1> DEFINE m == Msg("app", requests, 0, <<>>)
           x == Record("app", c.w, m)
           w == [c.w EXCEPT !.n = @ + 1]
           q == <<x>>
           d == AppSend(c)
<1>1. c \in Handlers /\ c.w \in SecOf /\ c.out = <<>> /\ reqQ \in Seq(Rec)
  BY DEF IInv, Base, Handlers, Queues
<1>2. /\ c.secure /\ c.hs = "idle" /\ c.r.epoch = 1 /\ c.r.key = 1 /\ c.w.key = 1
      /\ \A i \in 1 .. Len(reqQ) : reqQ[i].ct = "app" /\ reqQ[i].key = 1 /\ reqQ[i].msg.t = "app"
  BY DEF Open
<1>3. x.ct = "app" /\ x.key = 1 /\ x.msg.t = "app"
  BY <1>2 DEF Record, Msg
<1>4. w.key = 1
  BY <1>1, <1>2 DEF SecOf
<1>5. d = Tx(c, "app", m)
  BY <1>2 DEF AppSend
<1> HIDE DEF m
<1>6. Append(c.out, x) = q
  BY <1>1
<1>7. d = [c EXCEPT !.out = Append(c.out, x), !.w = w]
  BY <1>1, <1>5 DEF Tx, Handlers
<1> HIDE DEF d, w, x, q
<1>8. d = [c EXCEPT !.out = q, !.w = w]
  BY <1>6, <1>7
<1>9. c' = [d EXCEPT !.out = <<>>] /\ reqQ' = reqQ \o d.out
  BY DEF Put, d
<1>10. /\ c'.secure = c.secure /\ c'.hs = c.hs /\ c'.r = c.r /\ c'.w = w /\ reqQ' = reqQ \o q
  BY <1>1, <1>8, <1>9 DEF Handlers
<1>11. \A i \in 1 .. Len(reqQ') : reqQ'[i].ct = "app" /\ reqQ'[i].key = 1 /\ reqQ'[i].msg.t = "app"
  <2> DEFINE S == Rec \cup {x}
             z == reqQ \o q
  <2>1. reqQ \in Seq(S) /\ q \in Seq(S) /\ Len(q) = 1 /\ q[1] = x
    BY <1>1 DEF q
  <2> HIDE DEF S
  <2>2. /\ Len(z) = Len(reqQ) + Len(q)
        /\ \A i \in 1 .. Len(reqQ) + Len(q) : z[i] = IF i <= Len(reqQ) THEN reqQ[i] ELSE q[i - Len(reqQ)]
    BY <2>1, ConcatProperties
  <2>3. z = reqQ'
    BY <1>10
  <2> HIDE DEF z
  <2>4. Len(reqQ) \in Nat
    BY <1>1
  <2>5. \A i \in 1 .. Len(reqQ') : \/ i \in 1 .. Len(reqQ) /\ reqQ'[i] = reqQ[i]
                                  \/ reqQ'[i] = x
    <3> TAKE i \in 1 .. Len(reqQ')
    <3>1. i \in 1 .. Len(reqQ) + 1
      BY <2>1, <2>2, <2>3
    <3>2. CASE i <= Len(reqQ)
      <4>1. reqQ'[i] = reqQ[i]
        BY <2>1, <2>2, <2>3, <3>1, <3>2
      <4>2. i \in 1 .. Len(reqQ)
        BY <2>4, <3>1, <3>2
      <4>3. QED
        BY <4>1, <4>2
    <3>3. CASE ~(i <= Len(reqQ))
      <4>1. i = Len(reqQ) + 1 /\ i - Len(reqQ) = 1
        BY <2>4, <3>1, <3>3
      <4>2. reqQ'[i] = q[i - Len(reqQ)]
        BY <2>1, <2>2, <2>3, <3>1, <3>3
      <4>3. QED
        BY <2>1, <4>1, <4>2
    <3>4. QED
      BY <3>2, <3>3
  <2>6. QED
    BY <1>2, <1>3, <2>5
<1>12. QED
  BY <1>2, <1>4, <1>10, <1>11 DEF Open

\* A channel that is not secure gets nothing.
LEMMA NotSent ==
  ASSUME IInv, ~c.secure, Put(AppSend(c))
  PROVE  UNCHANGED <<c, reqQ>>
<1>1. c \in Handlers /\ c.out = <<>> /\ reqQ \in Seq(Rec)
  BY DEF IInv, Base, Queues
<1>2. c' = [c EXCEPT !.out = <<>>] /\ reqQ' = reqQ \o <<>>
  BY <1>1 DEF AppSend, Put
<1>3. c' = c
  BY <1>1, <1>2 DEF Handlers
<1>4. QED
  BY <1>1, <1>2, <1>3, ConcatEmptySeq

\* The calls of do_handshake.
LEMMA SpentIs ==
  ASSUME stack = <<>> \/ stack = <<stack[1]>>
  PROVE  /\ Spent = <<>> \/ Spent = <<Spent[1]>>
         /\ Spent # <<>> => stack # <<>>
<1>1. CASE stack = <<>>
  BY <1>1 DEF Spent
<1>2. CASE stack # <<>>
  <2>1. stack = <<stack[1]>>
    BY <1>2
  <2> DEFINE x == stack[1]
             y == [x EXCEPT !.polls = @ - 1]
  <2>2. <<x>> = [i \in 1 .. 1 |-> x] /\ Len(<<x>>) = 1
    OBVIOUS
  <2>3. Spent = [<<x>> EXCEPT ![1] = y]
    BY <1>2, <2>1, <2>2 DEF Spent
  <2> HIDE DEF y
  <2>4. Spent = <<y>>
    BY <2>2, <2>3
  <2>5. QED
    BY <1>2, <2>4
<1>3. QED
  BY <1>1, <1>2

LEMMA RequestCalm == IInv /\ CalmInv /\ Request => CalmInv'
<1> SUFFICES ASSUME IInv, CalmInv, Request, ~trouble'
             PROVE  Stage' /\ Calls'
  BY DEF CalmInv
<1>1. /\ pc = "idle" /\ timer' /\ pc' = "busy" /\ AppTx(stack)
      /\ UNCHANGED <<respQ, srv, trouble>>
  BY DEF Request, device
<1>2. Stage /\ Calls
  BY <1>1 DEF CalmInv
<1>3. stack = <<>> /\ (Start \/ c.secure)
  BY <1>1, <1>2 DEF Calls
<1>4. CASE c.secure
  <2>1. Put(AppSend(c)) /\ stack' = stack
    BY <1>1, <1>4 DEF AppTx
  <2>2. Open'
    BY <1>1, <1>2, <1>4, <2>1, StageIs, SendStage
  <2>3. QED
    BY <1>1, <1>3, <2>1, <2>2 DEF Stage, Calls
<1>5. CASE ~c.secure
  <2>1. Start /\ c.hs = "idle"
    BY <1>3, <1>5 DEF Start, Unkeyed
  <2>2. Put(Hello(c, "hello", "waitVerifyRequest")) /\ stack' = Append(<<>>, Phase("verify"))
    BY <1>1, <1>3, <1>5, <2>1 DEF AppTx
  <2>3. HelloSent'
    BY <1>1, <2>1, <2>2, HelloStage
  <2>4. ~c'.secure
    BY <2>3 DEF HelloSent, Unkeyed
  <2>5. stack' = <<stack'[1]>>
    <3> DEFINE x == Phase("verify")
    <3>1. stack' = Append(<<>>, x)
      BY <2>2
    <3> HIDE DEF x
    <3>2. stack' = <<x>>
      BY <3>1
    <3>3. QED
      BY <3>2
  <2>6. QED
    BY <1>1, <2>3, <2>4, <2>5 DEF Stage, Calls
<1>6. QED
  BY <1>4, <1>5

LEMMA ProceedCalm == IInv /\ CalmInv /\ Proceed => CalmInv'
<1> SUFFICES ASSUME IInv, CalmInv, Proceed, ~trouble'
             PROVE  Stage' /\ Calls'
  BY DEF CalmInv
<1>1. /\ pc = "busy" /\ stack # <<>>
      /\ UNCHANGED <<timer, respQ, srv, trouble>>
  BY DEF Proceed, device, coap
<1>2. Stage /\ Calls
  BY <1>1 DEF CalmInv
<1>3. /\ stack = <<stack[1]>> /\ timer
      /\ c.secure => reqQ = <<>> /\ respQ = <<>>
  BY <1>1, <1>2 DEF Calls
<1>4. Front(stack) = <<>> /\ \A f : Append(Front(stack), f) = <<f>>
  <2> DEFINE x == stack[1]
  <2>1. stack = <<x>>
    BY <1>3
  <2> HIDE DEF x
  <2>2. Len(<<x>>) = 1
    OBVIOUS
  <2>3. Front(<<x>>) = SubSeq(<<x>>, 1, 0)
    BY <2>2 DEF Front
  <2>4. SubSeq(<<x>>, 1, 0) = <<>>
    OBVIOUS
  <2>5. \A f : Append(<<>>, f) = <<f>>
    OBVIOUS
  <2>6. QED
    BY <2>1, <2>3, <2>4, <2>5
<1>5. CASE Top.phase = "verify" /\ c.hs = "sendCookieHello"
  <2>1. Put(Hello(c, "cookieHello", "waitServerHello")) /\ Turn(Phase("hello")) /\ pc' = pc
    BY <1>5 DEF Proceed
  <2>2. CookieSent'
    BY <1>1, <1>2, <1>5, <2>1, CookieStage, StageIs
  <2>3. ~c'.secure
    BY <2>2 DEF CookieSent, Unkeyed
  <2>4. stack' = <<stack'[1]>>
    BY <1>4, <2>1 DEF Turn
  <2>5. QED
    BY <1>1, <1>3, <2>1, <2>2, <2>3, <2>4 DEF Stage, Calls
<1>6. CASE Top.phase # "finish" /\ c.hs = "sendCertificate"
  <2>1. ServerSaid(5) /\ c.ekey
    BY <1>2, <1>6, StageIs
  <2> DEFINE d == Flight(c)
  <2>2. IF d.raised THEN Put(AppSend(Rescue(d))) /\ Pop ELSE Put(d) /\ Turn(Phase("finish"))
    BY <1>6, <2>1 DEF Proceed
  <2>3. pc' = pc
    BY <1>6, <2>1 DEF Proceed
  <2>7. ~d.raised
    BY <2>1, FlightStage
  <2>4. Put(Flight(c)) /\ Turn(Phase("finish"))
    BY <2>2, <2>7
  <2>5. ClientSaid(1)'
    BY <1>1, <2>1, <2>4, FlightStage
  <2>6. ~c'.secure
    BY <2>5 DEF ClientSaid, Keyed
  <2>8. stack' = <<stack'[1]>>
    BY <1>4, <2>4 DEF Turn
  <2>9. QED
    BY <1>1, <1>3, <2>3, <2>5, <2>6, <2>8 DEF Stage, Calls
<1>7. CASE ~(Top.phase = "verify" /\ c.hs = "sendCookieHello")
           /\ ~(Top.phase # "finish" /\ c.hs = "sendCertificate")
  <2>1. Put(AppSend(c)) /\ Pop /\ pc' = pc
    BY <1>7 DEF Proceed
  <2>2. stack' = <<>>
    BY <1>4, <2>1 DEF Pop
  <2>3. Stage'
    <3>1. CASE c.secure
      <4>1. Open'
        BY <1>1, <1>2, <2>1, <3>1, StageIs, SendStage
      <4>2. QED
        BY <4>1 DEF Stage
    <3>2. CASE ~c.secure
      BY <1>1, <1>2, <2>1, <3>2, NotSent, StageKept
    <3>3. QED
      BY <3>1, <3>2
  <2>4. QED
    BY <1>1, <1>3, <2>1, <2>2, <2>3 DEF Calls
<1>8. QED
  BY <1>5, <1>6, <1>7

\* A record is read.
LEMMA RxCalm == IInv /\ CalmInv /\ Rx => CalmInv'
<1> SUFFICES ASSUME IInv, CalmInv, Rx, ~trouble'
             PROVE  Stage' /\ Calls'
  BY DEF CalmInv
<1> DEFINE d == RecordRx(c, Head(respQ))
<1>1. respQ # <<>> /\ UNCHANGED <<srv, trouble>>
  BY DEF Rx, device
<1>2. Stage /\ Calls
  BY <1>1 DEF CalmInv
<1>3. d \in Handlers
  <2>1. Head(respQ) \in Rec /\ FromDevice(Head(respQ), agreed)
    BY <1>1, Later DEF IInv, Queues
  <2>2. Base(c, agreed) /\ Awaits(c) /\ ~c.raised
    BY DEF IInv, Rx, Waits, Polls
  <2>3. QED
    BY <2>1, <2>2, RecordRxIs DEF Base
<1>4. IF d.raised THEN Thrown(d) ELSE Handled(d)
  BY DEF Rx
<1> HIDE DEF d
<1>5. Handled(d) => /\ Reads(d) /\ pc' = pc
                    /\ stack' = (IF polling THEN stack ELSE Spent)
                    /\ Head(respQ).ct # "app" => timer' = timer
                    /\ timer' = FALSE \/ timer' = timer
  BY <1>1 DEF Handled, Reads
<1>6. Handled(d) => /\ stack' = <<>> \/ stack' = <<stack'[1]>>
                    /\ stack' # <<>> => stack # <<>>
  BY <1>2, <1>5, SpentIs DEF Calls
<1>7. ASSUME ~c.secure, ~Start, Head(respQ).ct # "app", Handled(d),
             Stage' /\ (c'.secure => reqQ' = <<>> /\ respQ' = <<>>)
      PROVE  Stage' /\ Calls'
  BY <1>2, <1>5, <1>6, <1>7 DEF Calls
<1>8. respQ[1] = Head(respQ)
  BY <1>1, TailIs DEF IInv, Queues
<1>9. CASE VerifyAsked
  <2>1. ~d.raised /\ (Reads(d) => VerifyTaken')
    BY <1>3, <1>9, VerifyStage DEF d
  <2>2. Handled(d) /\ VerifyTaken'
    BY <1>4, <1>5, <2>1
  <2>3. ~c.secure /\ ~Start /\ Head(respQ).ct # "app"
    BY <1>1, <1>8, <1>9 DEF VerifyAsked, Unkeyed, Single, Start
  <2>4. ~c'.secure
    BY <2>2 DEF VerifyTaken, Unkeyed
  <2>5. QED
    BY <1>7, <2>2, <2>3, <2>4 DEF Stage
<1>10. ASSUME NEW k \in 0 .. 5, ServerSaid(k)
       PROVE  Stage' /\ Calls'
  <2>1. Len(respQ) = 5 - k /\ ~c.secure /\ (\A i \in 1 .. 5 - k : OfServer(respQ[i], k + i))
    BY <1>10 DEF ServerSaid, Unkeyed
  <2>2. k \in 0 .. 4
    <3>1. Len(respQ) > 0
      BY <1>1, TailIs DEF IInv, Queues
    <3>2. QED
      BY <2>1, <3>1
  <2>3. ~d.raised /\ (Reads(d) => ServerSaid(k + 1)')
    BY <1>3, <1>10, <2>2, SaidStage DEF d
  <2>4. Handled(d) /\ ServerSaid(k + 1)'
    BY <1>4, <1>5, <2>3
  <2>5. Head(respQ).ct # "app" /\ ~Start
    <3>1. 1 \in 1 .. 5 - k
      BY <2>2
    <3>2. OfServer(respQ[1], k + 1)
      BY <2>1, <3>1
    <3>3. QED
      BY <1>1, <1>8, <3>2 DEF OfServer, Start
  <2>6. ~c'.secure /\ k + 1 \in 0 .. 5
    BY <2>2, <2>4 DEF ServerSaid, Unkeyed
  <2>7. QED
    BY <1>7, <2>1, <2>4, <2>5, <2>6 DEF Stage
<1>11. CASE ServerDone
  <2>1. ~d.raised /\ (Reads(d) => CipherChanged')
    BY <1>3, <1>11, CipherStage DEF d
  <2>2. Handled(d) /\ CipherChanged'
    BY <1>4, <1>5, <2>1
  <2>3. ~c.secure /\ ~Start /\ Head(respQ).ct # "app"
    BY <1>1, <1>8, <1>11 DEF ServerDone, Keyed, IsCipherChange, Start
  <2>4. ~c'.secure
    BY <2>2 DEF CipherChanged, Keyed
  <2>5. QED
    BY <1>7, <2>2, <2>3, <2>4 DEF Stage
<1>12. CASE CipherChanged
  <2>1. ~d.raised /\ (Reads(d) => Open' /\ reqQ' = <<>> /\ respQ' = <<>>)
    BY <1>3, <1>12, FinishedStage DEF d
  <2>2. Handled(d) /\ Open' /\ reqQ' = <<>> /\ respQ' = <<>>
    BY <1>4, <1>5, <2>1
  <2>3. ~c.secure /\ ~Start /\ Head(respQ).ct # "app"
    BY <1>1, <1>8, <1>12 DEF CipherChanged, Keyed, IsFinished, Start
  <2>4. QED
    BY <1>7, <2>2, <2>3 DEF Stage
<1>13. CASE Open
  <2>1. ~d.raised /\ (Reads(d) => Open')
    BY <1>1, <1>3, <1>13, OpenStage DEF d
  <2>2. Handled(d) /\ Open'
    BY <1>4, <1>5, <2>1
  <2>3. c.secure /\ c'.secure
    BY <1>13, <2>2 DEF Open
  <2>4. stack = <<>>
    BY <1>1, <1>2, <2>3 DEF Calls
  <2>5. stack' = <<>>
    BY <1>6, <2>2, <2>4
  <2>6. QED
    BY <1>2, <1>5, <2>2, <2>3, <2>5 DEF Calls, Stage
<1>14. CASE Start \/ HelloSent \/ VerifyTaken \/ CookieSent \/ \E j \in 1 .. 5 : ClientSaid(j)
  BY <1>1, <1>14 DEF Start, HelloSent, VerifyTaken, CookieSent, ClientSaid
<1>15. QED
  BY <1>2, <1>9, <1>10, <1>11, <1>12, <1>13, <1>14 DEF Stage

\* The steps that leave the handlers and the lines alone.
LEMMA OtherCalm ==
  ASSUME IInv, CalmInv, Return \/ EndPoll \/ OtherPoll \/ NoTimer \/ UNCHANGED vars
  PROVE  CalmInv'
<1> SUFFICES ASSUME ~trouble'
             PROVE  Stage' /\ Calls'
  BY DEF CalmInv
<1>1. ~trouble
  BY DEF Return, EndPoll, OtherPoll, NoTimer, vars, device
<1>2. Stage /\ Calls
  BY <1>1 DEF CalmInv
<1>3. ~NoTimer
  BY <1>2 DEF NoTimer, Polls, Waits, Calls
<1>4. UNCHANGED <<c, reqQ, respQ, srv, timer>>
  BY <1>3 DEF Return, EndPoll, OtherPoll, vars, device, coap
<1>5. Stage' /\ (Start => Start')
  BY <1>2, <1>4, StageKept
<1>6. CASE Return
  <2>1. pc' = "idle" /\ stack = <<>> /\ stack' = <<>> /\ ~timer'
    BY <1>6 DEF Return
  <2>2. QED
    BY <1>2, <1>4, <1>5, <2>1 DEF Calls
<1>7. CASE EndPoll \/ UNCHANGED vars
  <2>1. UNCHANGED <<pc, stack>>
    BY <1>7 DEF EndPoll, vars
  <2>2. QED
    BY <1>2, <1>4, <1>5, <2>1 DEF Calls
<1>8. CASE OtherPoll
  <2>1. stack' = Spent /\ pc' = pc /\ pc = "busy"
    BY <1>8 DEF OtherPoll, Waits, Polls
  <2>2. (stack' = <<>> \/ stack' = <<stack'[1]>>) /\ (stack' # <<>> => stack # <<>>)
    BY <1>2, <2>1, SpentIs DEF Calls
  <2>3. QED
    BY <1>2, <1>4, <1>5, <2>1, <2>2 DEF Calls
<1>9. QED
  BY <1>3, <1>6, <1>7, <1>8

LEMMA InitCalm == Init => CalmInv
<1> SUFFICES ASSUME Init
             PROVE  Start /\ Calls
  BY DEF CalmInv, Stage
<1>1. c = Fresh /\ reqQ = <<>> /\ respQ = <<>> /\ stack = <<>> /\ ~timer /\ pc = "idle"
  BY DEF Init
<1>2. Asleep
  BY DEF Init, Asleep
<1>3. Unkeyed("idle", 0, 0)
  BY <1>1 DEF Fresh, NoSec, Unkeyed
<1>4. QED
  BY <1>1, <1>2, <1>3 DEF Start, Calls

LEMMA NextCalm == IInv /\ CalmInv /\ [Next]_vars => CalmInv'
<1> SUFFICES ASSUME IInv, CalmInv, [Next]_vars PROVE CalmInv'
  OBVIOUS
<1>1. CASE Timeout \/ Lose
  BY <1>1 DEF Timeout, Lose, CalmInv
<1>2. QED
  BY <1>1, RequestCalm, ProceedCalm, RxCalm, OtherCalm, ServeCalm DEF Next, Tool

LEMMA AlwaysCalm == Spec => []CalmInv
<1>1. Spec => []IInv
  BY AlwaysIInv
<1>2. QED
  BY <1>1, InitCalm, NextCalm, PTL DEF Spec

\* On a line that loses nothing, with a device that neither refuses nor starts anew
\* and a Coap that does not time out, every handshake of any number of requests,
\* with or without a cookie, at any pace of the device, goes through: no exception, no failure, and
\* each record the client sends fits what the device waits for, transcript and keys included.
THEOREM UndisturbedHandshake == Spec => []UndisturbedFits
<1>1. IInv /\ CalmInv => UndisturbedFits
  <2> SUFFICES ASSUME IInv, CalmInv, ~trouble
               PROVE  /\ pc # "died" /\ c.hs # "failed"
                      /\ reqQ # <<>> => Fits(Head(reqQ))
    BY DEF UndisturbedFits
  <2>1. Stage /\ Calls
    BY DEF CalmInv
  <2>2. reqQ # <<>> => Fits(Head(reqQ))
    BY <2>1, StageServed DEF OneFit, Fits
  <2>3. QED
    BY <2>1, <2>2, StageIs DEF Calls
<1>2. QED
  BY <1>1, AlwaysIInv, AlwaysCalm, PTL
=============================================================================
