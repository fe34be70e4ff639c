-------------------------------- MODULE Dtls --------------------------------
(***************************************************************************)
(* The DTLS client of support/libeasy/handler/dtls.rb between Coap and     *)
(* Mup1: the handshake (Dtls_Handshake, Dtls_ChangeCipherSpec), alerts,    *)
(* the record layer with its epochs and sequence numbers, and              *)
(* Dtls_Application, which starts a handshake in the middle of tx.         *)
(*                                                                         *)
(* do_handshake polls the device while it waits.  A poll runs whatever is  *)
(* due, also Coap's retransmission, whose tx starts do_handshake again     *)
(* inside the first: the calls form a stack.                               *)
(*                                                                         *)
(* Ciphers are a library: a record is readable to who has its key, and a   *)
(* signature or a Finished is the messages it covers.  The DTLS server is  *)
(* the device, not part of the repository: it answers in the order the     *)
(* client expects, with or without a cookie, and may give up with an       *)
(* alert.  The line is FIFO and loses records.                             *)
(***************************************************************************)
EXTENDS Integers, Sequences, FiniteSets, SequencesExt

CONSTANTS
  MaxPoll,    \* polls of one wait of the handshake; 20 in the code
  MaxRetry,   \* retransmissions of Coap; 5 in the code
  MaxReq,     \* bound: requests the user makes
  MaxTrouble, \* bound: records the line loses and fatal alerts the device sends
  MaxSession  \* bound: handshakes the device answers

ASSUME DtlsAssumption ==
  /\ {MaxPoll, MaxRetry, MaxReq, MaxTrouble, MaxSession} \subseteq Nat
  /\ MaxPoll > 0 /\ MaxSession > 0

VARIABLES
  pc,        \* the caller of Coap#req: "idle", "busy", "died" (an exception ended it)
  polling,   \* inside Dut#poll, between two records of the chunk it read
  stack,     \* the calls of do_handshake, each with its phase and its polls left
  c,         \* the handlers, see Fresh
  timer,     \* Coap waits for an answer
  armed,     \* the timer of Mup1 runs
  requests, retry, \* the requests made, the number of the current one; @retry
  reqQ,      \* the line to the device
  respQ,     \* the line from the device
  srv,       \* the device
  agreed,    \* history: sessions in which the device took our Finished
  trouble    \* history: a loss, an alert, a time-out or a device that starts anew

device == <<srv, agreed>>
coap == <<timer, requests, retry>>
vars == <<pc, polling, stack, c, coap, armed, reqQ, respQ, device, trouble>>

----------------------------------------------------------------------------
(* Records                                                                 *)

\* A handshake message: type, message_seq, the server's random (0 in the
\* client's), and the messages its signature or its hash covers.
Msg(t, seq, sid, over) == [t |-> t, seq |-> seq, sid |-> sid, over |-> over]
Token(m) == <<m.t, m.seq, m.sid>>
Plain(t) == Msg(t, 0, 0, <<>>)

Record(ct, p, m) == [ct |-> ct, epoch |-> p.epoch, key |-> p.key, n |-> p.n, msg |-> m]

\* Dtls_Security_Parameters of one direction; key 0 is the null cipher.
NoSec == [epoch |-> 0, key |-> 0, n |-> 0]
None == [epoch |-> -1, key |-> 0, n |-> 0]

\* hs: @hs_state; ekey: @client_ephemeral_ec_key # nil; rx, tx: the message sequence numbers; log: @hs_data; sid:
\* @server_random; key: @master_secret; secure: @is_secure; r, w, pr, pw: the
\* current and pending security parameters.  out: what a handler has sent;
\* raised: it has raised an exception; both are dealt with in the same step.
Fresh == [hs |-> "idle", ekey |-> TRUE, rx |-> 0, tx |-> 0,
          log |-> <<>>, sid |-> 0, key |-> 0, secure |-> FALSE,
          r |-> NoSec, w |-> NoSec, pr |-> None, pw |-> None,
          out |-> <<>>, raised |-> FALSE]

Raise(d) == [d EXCEPT !.raised = TRUE]

\* security_parameters_clear
Clear(d) == [d EXCEPT !.secure = FALSE, !.r = NoSec, !.w = NoSec, !.pr = None, !.pw = None]

\* Dtls_Record#tx
Tx(d, ct, m) ==
  [d EXCEPT !.out = Append(@, Record(ct, d.w, m)), !.w.n = @ + 1]

\* send_fatal_alert and hs_check
Alert(d) == Tx(d, "alert", Plain("alert"))
HsFail(d) == Raise([Alert(d) EXCEPT !.hs = "failed"])

\* hs_send
HsSend(d, t, over) ==
  LET m == Msg(t, d.tx, 0, over)
  IN  Tx([d EXCEPT !.tx = @ + 1, !.log = Append(@, Token(m))], "handshake", m)

----------------------------------------------------------------------------
(* Receiving                                                               *)

\* The states in which each message is processed, and the one it leads to.
Expected ==
  [verifyRequest |-> {"waitVerifyRequest"},
   serverHello   |-> {"waitServerHello", "waitVerifyRequest"},
   certificate   |-> {"waitCertificate"},
   keyExchange   |-> {"waitKeyExchange"},
   certRequest   |-> {"waitCertRequest"},
   helloDone     |-> {"waitHelloDone"},
   finished      |-> {"waitFinished"}]
Then ==
  [verifyRequest |-> "sendCookieHello",
   serverHello   |-> "waitCertificate",
   certificate   |-> "waitKeyExchange",
   keyExchange   |-> "waitCertRequest",
   certRequest   |-> "waitHelloDone",
   helloDone     |-> "sendCertificate",
   finished      |-> "idle"]

\* The process_... methods.  The signature of the key exchange covers the
\* server's random; a Finished that does not match clears and does not raise.
Process(d, m) ==
  LET e == [d EXCEPT !.hs = Then[m.t]]
  IN  IF d.hs \notin Expected[m.t] THEN HsFail(d)
      ELSE CASE m.t = "serverHello" -> [e EXCEPT !.sid = m.sid]
             [] m.t = "keyExchange" /\ m.sid # d.sid -> HsFail(d)
             [] m.t = "finished" /\ m.sid = d.key /\ m.over = d.log -> [e EXCEPT !.secure = TRUE]
             [] m.t = "finished" /\ (m.sid # d.key \/ m.over # d.log) ->
                  [Clear(Alert(d)) EXCEPT !.hs = "failed"]
             [] OTHER -> e

\* Mutant: received messages are left out of the transcript.
HandshakeRx_NoLog(d, m) ==
  IF m.seq # d.rx THEN Raise(d) ELSE Process([d EXCEPT !.rx = @ + 1], m)

\* Dtls_Handshake#rx
HandshakeRx(d, m) ==
  IF m.seq # d.rx THEN Raise(d)
  ELSE LET e == Process([d EXCEPT !.rx = @ + 1], m)
       IN  IF e.raised THEN e ELSE [e EXCEPT !.log = Append(@, Token(m))]

\* Dtls_ChangeCipherSpec#rx
ChangeCipherSpecRx(d) ==
  IF d.hs # "waitChangeCipherSpec" THEN HsFail(d)
  ELSE IF d.pr = None THEN Raise(d)
  ELSE [d EXCEPT !.r = d.pr, !.pr = None, !.hs = "waitFinished"]

\* Dtls_Record#rx and what it calls.  The counter goes on also when the number
\* is not the one expected.  Application data is Coap's (see Rx).
RecordRx(d, rec) ==
  LET e == [d EXCEPT !.r.n = @ + 1]
  IN  CASE rec.epoch # d.r.epoch -> Raise(d)
        [] rec.epoch = d.r.epoch /\ (rec.n # d.r.n \/ rec.key # d.r.key) -> Raise(e)
        [] OTHER ->
             CASE rec.ct = "handshake" -> HandshakeRx(e, rec.msg)
               [] rec.ct = "ccs" -> ChangeCipherSpecRx(e)
               [] rec.ct = "alert" -> Raise(Clear(e))
               [] rec.ct = "app" -> e

----------------------------------------------------------------------------
(* The handshake                                                           *)

\* send_client_hello, which starts the transcript.
Hello(d, t, next) == [HsSend([d EXCEPT !.log = <<>>], t, <<>>) EXCEPT !.hs = next]

\* The messages of the flight that follows the server's, in their order.
Rest == <<"certificate", "keyExchange", "certVerify", "ccs", "finished">>

\* From send_client_certificate to send_client_finished, without a poll: two
\* messages; calc_master_secret, which discards the ephemeral key, and
\* calc_security_params; the signature; the change of the cipher; Finished under
\* the new one.  Without the ephemeral key see Proceed.
SendFlight(d) ==
  LET p == [epoch |-> d.r.epoch + 1, key |-> d.sid, n |-> 0]
      log(k) == d.log \o [i \in 1 .. k |-> <<Rest[i], d.tx + i - 1, 0>>]
      two == [d EXCEPT !.tx = @ + 2, !.log = log(2), !.w.n = @ + 2, !.ekey = FALSE, !.key = d.sid,
                !.out = @ \o [i \in 1 .. 2 |-> Record("handshake", [d.w EXCEPT !.n = @ + i - 1],
                                                     Msg(Rest[i], d.tx + i - 1, 0, <<>>))]]
      verify == Record("handshake", [d.w EXCEPT !.n = @ + 2], Msg("certVerify", d.tx + 2, 0, log(2)))
      ccs == Record("ccs", [d.w EXCEPT !.n = @ + 3], Plain("ccs"))
      fin == Record("handshake", p, Msg("finished", d.tx + 3, 0, log(3)))
  IN  IF d.pr # None \/ d.pw # None THEN Raise(two)
      ELSE [two EXCEPT !.tx = d.tx + 4, !.log = Append(log(3), <<"finished", d.tx + 3, 0>>),
              !.pr = p, !.w = [p EXCEPT !.n = 1], !.out = @ \o <<verify, ccs, fin>>,
              !.hs = "waitChangeCipherSpec"]

\* Mutant: the channel counts as secure once our Finished is sent.
Flight_Early(d) ==
  LET e == SendFlight(d) IN IF e.raised THEN e ELSE [e EXCEPT !.secure = TRUE]

Flight(d) == SendFlight(d)

\* The rescue of do_handshake.
Rescue(d) == [Clear(d) EXCEPT !.hs = "failed", !.raised = FALSE]

\* Mutant: data goes out whether or not the handshake succeeded.
AppSend_Always(d) == Tx(d, "app", Msg("app", requests, 0, <<>>))

\* The second half of Dtls_Application#tx: data is sent or dropped.
AppSend(d) == IF d.secure THEN Tx(d, "app", Msg("app", requests, 0, <<>>)) ELSE d

\* What a step leaves behind: the handlers, and what they sent.
Put(d) ==
  /\ c' = [d EXCEPT !.out = <<>>]
  /\ reqQ' = reqQ \o d.out

Phase(name) == [phase |-> name, polls |-> MaxPoll]
Pop == stack' = Front(stack)
Turn(f) == stack' = Append(Front(stack), f)

\* Dtls_Application#tx: over a secure channel the data goes out at once; else
\* do_handshake starts, with its check of the state, and sends a ClientHello.
AppTx(calls) ==
  IF c.secure THEN Put(AppSend(c)) /\ stack' = calls
  ELSE IF c.hs \in {"idle", "failed"}
  THEN /\ Put(Hello(c, "hello", "waitVerifyRequest"))
       /\ stack' = Append(calls, Phase("verify"))
  ELSE /\ Put(AppSend(Rescue(HsFail(c))))
       /\ stack' = calls

Top == Last(stack)

\* The conditions of the three poll_until.
Reached ==
  CASE Top.phase = "verify" -> c.hs \in {"sendCookieHello", "sendCertificate"}
    [] Top.phase = "hello"  -> c.hs = "sendCertificate"
    [] Top.phase = "finish" -> c.secure

\* A poll_until is over: do_handshake goes on to the next message to send, or
\* ends, and Dtls_Application#tx with it.
Proceed ==
  /\ pc = "busy" /\ stack # <<>> /\ ~polling
  /\ Reached \/ Top.polls = 0
  /\ CASE Top.phase = "verify" /\ c.hs = "sendCookieHello" ->
            /\ Put(Hello(c, "cookieHello", "waitServerHello"))
            /\ Turn(Phase("hello"))
            /\ UNCHANGED pc
       [] Top.phase # "finish" /\ c.hs = "sendCertificate" /\ ~c.ekey ->
            /\ Put(HsSend(c, "certificate", <<>>))
            /\ pc' = "died"
            /\ UNCHANGED stack
       [] Top.phase # "finish" /\ c.hs = "sendCertificate" /\ c.ekey ->
            /\ \E d \in {Flight(c)} :
                 IF d.raised THEN Put(AppSend(Rescue(d))) /\ Pop
                 ELSE Put(d) /\ Turn(Phase("finish"))
            /\ UNCHANGED pc
       [] OTHER -> Put(AppSend(c)) /\ Pop /\ UNCHANGED pc
  /\ UNCHANGED <<polling, coap, armed, respQ, device, trouble>>

----------------------------------------------------------------------------
(* Coap above, and the polls                                               *)

\* Coap#coap_req
Request ==
  /\ pc = "idle"
  /\ requests < MaxReq
  /\ retry' = 0
  /\ timer' = TRUE
  /\ pc' = "busy"
  /\ AppTx(stack)
  /\ UNCHANGED <<polling, requests, armed, respQ, device, trouble>>

Return ==
  /\ pc = "busy" /\ stack = <<>> /\ ~polling
  /\ ~timer
  /\ pc' = "idle"
  /\ requests' = requests + 1
  /\ UNCHANGED <<polling, stack, c, timer, retry, armed, reqQ, respQ, device, trouble>>

\* A poll is made by the last call of do_handshake, or by the loop of Coap#req.
Polls ==
  /\ pc = "busy"
  /\ IF stack # <<>> THEN ~Reached /\ Top.polls > 0 ELSE timer
  /\ ~polling

\* Dut#poll waits only when a timer runs.
Waits == Polls /\ (timer \/ armed)

\* Mutant: polls are not counted.
Spent_Not == stack

Spent == IF stack = <<>> THEN stack ELSE [stack EXCEPT ![Len(stack)].polls = @ - 1]

\* An exception ends the innermost do_handshake, without which it ends the tool.
\* What is left of the chunk is lost with it.
Thrown(d) ==
  /\ \E k \in 1 .. Len(respQ) : respQ' = SubSeq(respQ, k + 1, Len(respQ))
  /\ IF stack = <<>>
     THEN Put([d EXCEPT !.raised = FALSE]) /\ pc' = "died" /\ UNCHANGED stack
     ELSE Put(AppSend(Rescue(d))) /\ Pop /\ UNCHANGED pc
  /\ polling' = FALSE
  /\ UNCHANGED timer

\* The answer to the current request ends it; Coap ignores one to an earlier
\* request (a retransmission that is due just then is the next poll's Timeout).
Handled(d) ==
  /\ respQ' = Tail(respQ)
  /\ Put(d)
  /\ stack' = IF polling THEN stack ELSE Spent
  /\ polling' = TRUE
  /\ UNCHANGED pc
  /\ IF Head(respQ).ct = "app" /\ Head(respQ).msg.seq = requests
     THEN timer' = FALSE
     ELSE UNCHANGED timer

\* A record is read, in the chunk of this poll or of a new one.
Rx ==
  /\ respQ # <<>>
  /\ polling \/ Waits
  /\ \E d \in {RecordRx(c, Head(respQ))} : IF d.raised THEN Thrown(d) ELSE Handled(d)
  /\ UNCHANGED <<requests, retry, armed, device, trouble>>

\* The chunk is used up; Mup1 sets its timer.
EndPoll ==
  /\ polling
  /\ polling' = FALSE
  /\ armed' = TRUE
  /\ UNCHANGED <<pc, stack, c, coap, reqQ, respQ, device, trouble>>

\* A poll that reads console text or frames for others, or serves Mup1's timer.
OtherPoll ==
  /\ Waits
  /\ stack' = Spent
  /\ armed' \in IF armed THEN BOOLEAN ELSE {TRUE}
  /\ UNCHANGED <<pc, polling, c, coap, reqQ, respQ, device, trouble>>

\* ReqBlockWise#next_step retransmits or gives up.
MayRetransmit == retry < MaxRetry

\* Coap#timeout_work inside a poll: a retransmission, or "Giving up!".
Timeout ==
  /\ Waits
  /\ timer
  /\ IF MayRetransmit
     THEN AppTx(Spent) /\ retry' = retry + 1 /\ UNCHANGED timer
     ELSE /\ timer' = FALSE
          /\ stack' = Spent
          /\ UNCHANGED <<c, reqQ, retry>>
  /\ trouble' = TRUE
  /\ UNCHANGED <<pc, polling, requests, armed, respQ, device>>

\* Without one it raises (only inside do_handshake: Coap#req polls with its own).
NoTimer ==
  /\ Polls /\ ~Waits
  /\ Put(AppSend(Rescue(c)))
  /\ Pop
  /\ UNCHANGED <<pc, polling, coap, armed, respQ, device, trouble>>

----------------------------------------------------------------------------
(* The line and the device                                                 *)

Lose ==
  /\ pc # "died"
  /\ srv.troubles < MaxTrouble
  /\ \/ reqQ # <<>> /\ reqQ' = Tail(reqQ) /\ UNCHANGED respQ
     \/ respQ # <<>> /\ respQ' = Tail(respQ) /\ UNCHANGED reqQ
  /\ srv' = [srv EXCEPT !.troubles = @ + 1]
  /\ trouble' = TRUE
  /\ UNCHANGED <<pc, polling, stack, c, coap, armed, agreed>>

\* The device sends handshake messages, numbered from seq on.
Said(s, ts, seq) ==
  [i \in DOMAIN ts |-> Record("handshake", [epoch |-> 0, key |-> 0, n |-> s.n + i - 1],
                              Msg(ts[i], seq + i - 1, s.sid, <<>>))]
Tokens(rs) == [i \in DOMAIN rs |-> Token(rs[i].msg)]
ServerFlight == <<"serverHello", "certificate", "keyExchange", "certRequest", "helloDone">>

\* What fits the device's state: a ClientHello without a cookie always does (up
\* to the bound).
Begins(m) == m.t = "hello" /\ srv.sid < MaxSession
Continues(m) == m.t = "cookieHello" /\ srv.at = 0
Accepts(rec) ==
  /\ srv.at \in 1 .. 5
  /\ rec.msg.t = Rest[srv.at]
  /\ rec.key = IF srv.at = 5 THEN srv.sid ELSE 0
  /\ rec.msg.t \in {"certVerify", "finished"} => rec.msg.over = srv.log
Answers(rec) == rec.ct = "app" /\ rec.key = srv.sid /\ srv.at = 6
Fits(rec) == Begins(rec.msg) \/ Continues(rec.msg) \/ Accepts(rec) \/ Answers(rec)

\* A ClientHello without a cookie starts a session; whether the device goes on
\* counting its messages or starts again is its own affair.  It asks for a cookie
\* or never does.
Begin(m) ==
  /\ Begins(m)
  /\ \E seq \in {0, srv.seq} :
       LET ts == IF srv.cookies THEN <<"verifyRequest">> ELSE ServerFlight
           s == [srv EXCEPT !.sid = @ + 1, !.n = 0]
           rs == Said(s, ts, seq)
       IN  /\ respQ' = respQ \o rs
           /\ srv' = [s EXCEPT !.at = IF srv.cookies THEN 0 ELSE 1,
                               !.n = Len(ts), !.seq = seq + Len(ts),
                               !.log = <<Token(m)>> \o Tokens(rs)]
  /\ trouble' = (trouble \/ srv.sid > 0)
  /\ UNCHANGED agreed

Continue(m) ==
  /\ Continues(m)
  /\ LET rs == Said(srv, ServerFlight, srv.seq)
     IN  /\ respQ' = respQ \o rs
         /\ srv' = [srv EXCEPT !.at = 1, !.n = @ + 5, !.seq = @ + 5,
                               !.log = <<Token(m)>> \o Tokens(rs)]
  /\ UNCHANGED <<agreed, trouble>>

\* The next message of the client's flight; after the last one the device
\* changes its cipher and sends its Finished.
Accept(rec) ==
  LET m == rec.msg
      log == IF m.t = "ccs" THEN srv.log ELSE Append(srv.log, Token(m))
      p == [epoch |-> 1, key |-> srv.sid, n |-> 0]
      fin == Msg("finished", srv.seq, srv.sid, log)
  IN  /\ Accepts(rec)
      /\ srv' = [srv EXCEPT !.at = @ + 1, !.log = log,
                            !.seq = IF srv.at = 5 THEN @ + 1 ELSE @,
                            !.n = IF srv.at = 5 THEN 1 ELSE @]
      /\ IF srv.at = 5
         THEN /\ agreed' = agreed \cup {srv.sid}
              /\ respQ' = respQ \o <<Record("ccs", [NoSec EXCEPT !.n = srv.n], Plain("ccs")),
                                     Record("handshake", p, fin)>>
         ELSE UNCHANGED <<agreed, respQ>>
      /\ UNCHANGED trouble

Answer(rec) ==
  /\ Answers(rec)
  /\ respQ' = Append(respQ, Record("app", [epoch |-> 1, key |-> srv.sid, n |-> srv.n], rec.msg))
  /\ srv' = [srv EXCEPT !.n = @ + 1]
  /\ UNCHANGED <<agreed, trouble>>

\* What does not fit is dropped.
Ignore(rec) ==
  /\ ~Fits(rec)
  /\ UNCHANGED <<respQ, srv, agreed, trouble>>

Refuse ==
  /\ srv.troubles < MaxTrouble
  /\ srv' = [srv EXCEPT !.troubles = @ + 1, !.n = @ + 1]
  /\ respQ' = Append(respQ,
                Record("alert", [epoch |-> IF srv.at = 6 THEN 1 ELSE 0,
                                 key |-> IF srv.at = 6 THEN srv.sid ELSE 0, n |-> srv.n],
                       Plain("alert")))
  /\ trouble' = TRUE
  /\ UNCHANGED agreed

Serve ==
  /\ pc # "died"
  /\ reqQ # <<>>
  /\ LET rec == Head(reqQ)
     IN  Begin(rec.msg) \/ Continue(rec.msg) \/ Accept(rec) \/ Answer(rec) \/ Ignore(rec) \/ Refuse
  /\ reqQ' = Tail(reqQ)
  /\ UNCHANGED <<pc, polling, stack, c, coap, armed>>

----------------------------------------------------------------------------
Init ==
  /\ pc = "idle"
  /\ polling = FALSE
  /\ stack = <<>>
  /\ c = Fresh
  /\ timer = FALSE
  /\ armed = FALSE
  /\ requests = 0
  /\ retry = 0
  /\ reqQ = <<>>
  /\ respQ = <<>>
  /\ srv \in [cookies : BOOLEAN, sid : {0}, at : {0}, n : {0}, seq : {0}, log : {<<>>}, troubles : {0}]
  /\ agreed = {}
  /\ trouble = FALSE

Tool == Proceed \/ Return \/ Rx \/ EndPoll \/ OtherPoll \/ Timeout \/ NoTimer

Next == Request \/ Tool \/ Lose \/ Serve

Spec == Init /\ [][Next]_vars

\* The thread of the tool runs on; a poll ends when its chunk is used up.
FairSpec == Spec /\ WF_vars(Tool) /\ WF_vars(EndPoll)

----------------------------------------------------------------------------
(* Properties                                                              *)

\* Application data leaves the tool only under the keys of a session in which
\* the device has taken our Finished, also when a handshake failed, was cut off
\* by the next one, or came to its end inside another.
DataOnlyAgreed ==
  \A i \in DOMAIN reqQ : reqQ[i].ct = "app" => reqQ[i].key \in agreed

\* When the channel counts as secure both directions use the keys of one agreed
\* session, and no handshake is under way.
SecureIsAgreed ==
  c.secure => /\ c.r.key = c.w.key /\ c.w.key \in agreed
              /\ c.hs = "idle"
              /\ c.pr = None /\ c.pw = None

\* On a line that loses nothing, with a device that neither refuses nor starts
\* anew, and as long as Coap does not time out, no handshake fails and whatever
\* the client sends fits the device's state: its order, its transcript, its keys.
\* The device may be slow: do_handshake may have run out of polls.
UndisturbedFits ==
  ~trouble => /\ pc # "died" /\ c.hs # "failed"
              /\ reqQ # <<>> => Fits(Head(reqQ))

\* do_handshake returns, however much other traffic its polls meet and however
\* often it is called again from within.
HandshakeEnds == (stack # <<>>) ~> (stack = <<>> \/ pc = "died")

\* dtls.rb:571 checks that do_handshake is called when no handshake is under way:
\* hs_check((@hs_state == DTLS_HS_STATE_IDLE) || (@hs_state == DTLS_HS_STATE_FAILED)).
HandshakeNotReentered ==
  [][retry' = retry + 1 => c.secure \/ c.hs \in {"idle", "failed"}]_vars
=============================================================================
