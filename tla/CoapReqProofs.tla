--------------------------- MODULE CoapReqProofs ---------------------------
(***************************************************************************)
(* Proofs about CoapReq, for every block size, body, response, number of   *)
(* retransmissions and link capacity: the types, and that the payload a    *)
(* request collects is in order.                                           *)
(*                                                                         *)
(* PayloadInOrder is not inductive.  It rests on the message id: every     *)
(* frame in flight that carries the id waited for is a copy of the frame   *)
(* last sent (Current), so that every response with this id answers that   *)
(* frame and no other; and on the block number asked for being the number  *)
(* of blocks collected (Progress), which needs to know when the answer to  *)
(* a piece of the request body can carry payload at all (Shape).           *)
(***************************************************************************)
EXTENDS CoapReq, TLAPS

\* r is what the device may answer to f.
Fits(r, f) ==
  /\ r.rid = f.rid
  /\ r.class = 2 =>
       /\ r.ack
       /\ r.num = f.b2
       /\ r.data \in {<<>>, <<BodyBlock(f.rid, f.b2)>>}
       /\ r.more => r.data # <<>>
       /\ r.data # <<>> => ~f.more

\* What carries the id waited for belongs to the frame last sent.
Current ==
  /\ req.timer => req.mid # NoMid
  /\ req.mid # NoMid =>
       /\ req.frame \in Request
       /\ req.frame.mid = req.mid
       /\ req.frame.rid = req.rid
       /\ \A i \in 1 .. Len(reqQ) : reqQ[i].mid = req.mid => reqQ[i] = req.frame
       /\ \A i \in 1 .. Len(respQ) : respQ[i].mid = req.mid => Fits(respQ[i], req.frame)
       /\ srv.mid = req.mid => Fits(srv.resp, req.frame)

\* The frame last sent is the piece of body that ends at req.tx, or asks for a
\* further block of the response once the whole body is acknowledged.
Shape ==
  req.mid # NoMid =>
    /\ req.tx # Nil
    /\ req.frame.b2 = 0 => (req.frame.more <=> Blockwise(req) /\ req.tx < req.size)
    /\ req.frame.b2 = 0 => (req.size # Nil /\ ~Blockwise(req) => req.tx = req.size)
    /\ req.frame.b2 > 0 => ~req.frame.more /\ ~ReqNotDone(req)

InOrder(q) ==
  /\ \A i \in 1 .. Len(q.rx) : q.rx[i] = BodyBlock(q.rid, i - 1)
  /\ q.more => q.rx # <<>>

\* What next_step finds when it is to build a frame.
Ready(q) ==
  /\ InOrder(q)
  /\ ReqNotDone(q) => q.rx = <<>> \/ SliceLen(q) = Nil
  /\ ~ReqNotDone(q) /\ q.more => q.num + 1 = Len(q.rx)

Progress ==
  ~refused =>
    /\ InOrder(req)
    /\ req.mid # NoMid => Len(req.rx) = req.frame.b2
    /\ pc = "wait" => Ready(req)
    /\ pc = "wait" /\ req.mid = NoMid => ~ReqNotDone(req) /\ ~req.more

IInv == TypeOK /\ Current /\ Shape /\ Progress

----------------------------------------------------------------------------
(* Queues, fresh ids and the frames built                                  *)

LEMMA HeadTail ==
  ASSUME NEW S, NEW q \in Seq(S), q # <<>>
  PROVE  /\ Head(q) \in S /\ Head(q) = q[1] /\ 1 \in 1 .. Len(q)
         /\ Tail(q) \in Seq(S) /\ Len(Tail(q)) = Len(q) - 1
         /\ \A i \in 1 .. Len(Tail(q)) : i + 1 \in 1 .. Len(q) /\ Tail(q)[i] = q[i + 1]
  OBVIOUS

LEMMA AppendOne ==
  ASSUME NEW S, NEW q \in Seq(S), NEW x \in S
  PROVE  /\ q \o <<x>> \in Seq(S) /\ Len(q \o <<x>>) = Len(q) + 1
         /\ Append(q, x) \in Seq(S) /\ Len(Append(q, x)) = Len(q) + 1
         /\ \A i \in 1 .. Len(q) + 1 :
              /\ (q \o <<x>>)[i] = (IF i = Len(q) + 1 THEN x ELSE q[i])
              /\ Append(q, x)[i] = (IF i = Len(q) + 1 THEN x ELSE q[i])
  OBVIOUS

\* What Transmit leaves in the queue is what was there and, perhaps, the frame.
LEMMA TransmitOne ==
  ASSUME NEW f \in Request, reqQ \in Seq(Request), Len(reqQ) <= LinkCap, Transmit(<<f>>)
  PROVE  /\ reqQ' \in Seq(Request) /\ Len(reqQ') <= LinkCap
         /\ \A i \in 1 .. Len(reqQ') :
              reqQ'[i] = f \/ (i \in 1 .. Len(reqQ) /\ reqQ'[i] = reqQ[i])
<1>1. Len(<<f>>) = 1
  OBVIOUS
<1>2. CASE Len(reqQ) + 1 <= LinkCap
  <2>1. reqQ' = reqQ \o <<f>>
    BY <1>1, <1>2 DEF Transmit
  <2>2. QED
    BY <2>1, <1>2, AppendOne, ConstantsAssumption
<1>3. CASE ~(Len(reqQ) + 1 <= LinkCap)
  BY <1>1, <1>3 DEF Transmit
<1>4. QED
  BY <1>2, <1>3

LEMMA FreshFacts ==
  ASSUME TypeOK, NEW m \in FreshMid
  PROVE  /\ m \in Mid /\ m # NoMid /\ m # srv.mid
         /\ \A i \in 1 .. Len(reqQ) : reqQ[i].mid # m
         /\ \A i \in 1 .. Len(respQ) : respQ[i].mid # m
<1>1. DOMAIN reqQ = 1 .. Len(reqQ) /\ DOMAIN respQ = 1 .. Len(respQ)
  BY DEF TypeOK
<1>2. m \in Mid /\ m \notin MidInUse
  BY DEF FreshMid, Unused
<1>3. QED
  BY <1>1, <1>2, ConstantsAssumption DEF MidInUse, Elements

LEMMA BodyFrameType ==
  ASSUME NEW q \in ReqType, q.rid \in Rid, SliceLen(q) # Nil, NEW m \in Mid
  PROVE  /\ BodyFrame(q, m) \in Request
         /\ SentAfter(q) \in Nat
<1> USE ConstantsAssumption
<1>1. Sent(q) \in Nat /\ Start(q) \in Nat
  BY DEF Sent, Start, ReqType, Nil
<1>2. SliceLen(q) \in Nat /\ SentAfter(q) \in Nat
  <2>1. SliceLen(q) \in Nat
    BY <1>1 DEF SliceLen, BodySize, ReqType, Nil
  <2>2. SentAfter(q) \in Nat
    <3>1. q.size = Nil \/ q.size \in Nat
      BY DEF ReqType
    <3>2. QED
      BY <1>1, <2>1, <3>1 DEF SentAfter
  <2>3. QED
    BY <2>1, <2>2
<1>3. Block1Num(q) \in Nat \cup {Nil}
  BY <1>1 DEF Block1Num
<1>4. QED
  BY <1>1, <1>2, <1>3 DEF BodyFrame, Request, ReqType

LEMMA ReadFrameType ==
  ASSUME NEW q \in ReqType, q.rid \in Rid, NEW m \in Mid
  PROVE  ReadFrame(q, m) \in Request
<1>1. q.num + 1 \in Nat /\ q.size \in Nat \cup {Nil}
  BY DEF ReqType, Nil
<1>2. QED
  BY <1>1 DEF ReadFrame, Request

----------------------------------------------------------------------------
(* Types                                                                   *)

LEMMA InitType == Init => TypeOK
<1> SUFFICES ASSUME Init PROVE TypeOK
  OBVIOUS
<1> USE ConstantsAssumption
<1>1. req \in ReqType /\ ~req.timer
  BY DEF Init, NewReq, ReqType, Nil
<1>2. srv \in SrvType /\ srv.mid = NoMid
  BY DEF Init, SrvType
<1>3. again \in [Rid -> 0 .. MaxAgain] /\ runs \in [Rid -> Nat]
  BY DEF Init
<1>4. /\ reqQ \in Seq(Request) /\ Len(reqQ) <= LinkCap
      /\ respQ \in Seq(Response) /\ Len(respQ) <= LinkCap
  BY DEF Init
<1>5. /\ pc = "idle" /\ polling = FALSE /\ over = FALSE /\ gaveUp = FALSE
      /\ refused = FALSE /\ corrupt = {}
  BY DEF Init
<1>6. QED
  BY <1>1, <1>2, <1>3, <1>4, <1>5 DEF TypeOK

\* Changing one field of a request object keeps its type: the solvers do not see
\* it through several changes at once.
LEMMA ReqField ==
  ASSUME NEW q \in ReqType
  PROVE  /\ \A v \in Mid \cup {NoMid} : [q EXCEPT !.mid = v] \in ReqType
         /\ \A v \in Nat \cup {Nil} : /\ [q EXCEPT !.tx = v] \in ReqType
                                    /\ [q EXCEPT !.ack = v] \in ReqType
                                    /\ [q EXCEPT !.num = v] \in ReqType
         /\ \A v \in BOOLEAN : /\ [q EXCEPT !.more = v] \in ReqType
                             /\ [q EXCEPT !.timer = v] \in ReqType
         /\ \A v \in 0 .. MaxRetry : [q EXCEPT !.retry = v] \in ReqType
         /\ \A v \in Request \cup {NoFrame} : [q EXCEPT !.frame = v] \in ReqType
         /\ \A v \in {Nil, 0, 2, 4} : [q EXCEPT !.class = v] \in ReqType
         /\ \A v \in Seq(Block) : [q EXCEPT !.rx = v] \in ReqType
<1>1. \A v \in Mid \cup {NoMid} : [q EXCEPT !.mid = v] \in ReqType
  BY DEF ReqType
<1>2. \A v \in Nat \cup {Nil} : [q EXCEPT !.tx = v] \in ReqType
  BY DEF ReqType
<1>3. \A v \in Nat \cup {Nil} : [q EXCEPT !.ack = v] \in ReqType
  BY DEF ReqType
<1>4. \A v \in Nat \cup {Nil} : [q EXCEPT !.num = v] \in ReqType
  BY DEF ReqType
<1>5. \A v \in BOOLEAN : [q EXCEPT !.more = v] \in ReqType
  BY DEF ReqType
<1>6. \A v \in BOOLEAN : [q EXCEPT !.timer = v] \in ReqType
  BY DEF ReqType
<1>7. \A v \in 0 .. MaxRetry : [q EXCEPT !.retry = v] \in ReqType
  BY DEF ReqType
<1>8. \A v \in Request \cup {NoFrame} : [q EXCEPT !.frame = v] \in ReqType
  BY DEF ReqType
<1>9. \A v \in {Nil, 0, 2, 4} : [q EXCEPT !.class = v] \in ReqType
  BY DEF ReqType
<1>10. \A v \in Seq(Block) : [q EXCEPT !.rx = v] \in ReqType
  BY DEF ReqType
<1>11. QED
  BY <1>1, <1>2, <1>3, <1>4, <1>5, <1>6, <1>7, <1>8, <1>9, <1>10

LEMMA ArmedType ==
  ASSUME NEW q \in ReqType, NEW m \in Mid \cup {NoMid}, NEW f \in Request \cup {NoFrame},
         NEW t \in BOOLEAN
  PROVE  [q EXCEPT !.mid = m, !.frame = f, !.timer = t, !.retry = 0] \in ReqType
<1> DEFINE a == [q EXCEPT !.mid = m]
           b == [a EXCEPT !.frame = f]
           c == [b EXCEPT !.timer = t]
           d == [c EXCEPT !.retry = 0]
<1>1. [q EXCEPT !.mid = m, !.frame = f, !.timer = t, !.retry = 0] = d
  OBVIOUS
<1>2. a \in ReqType
  BY ReqField
<1>3. b \in ReqType
  BY <1>2, ReqField
<1>4. c \in ReqType
  BY <1>3, ReqField
<1>5. d \in ReqType
  <2>1. 0 \in 0 .. MaxRetry
    BY ConstantsAssumption
  <2> HIDE DEF c
  <2>2. QED
    BY <1>4, <2>1, ReqField
<1>6. QED
  BY <1>1, <1>5

LEMMA TakeType ==
  ASSUME NEW q \in ReqType, NEW r \in Response
  PROVE  Take(q, r) \in ReqType
<1> DEFINE a == [q EXCEPT !.ack = IF r.ack /\ r.class = 2 THEN q.tx ELSE q.ack]
           b == [a EXCEPT !.mid = NoMid]
           c == [b EXCEPT !.timer = FALSE]
           d == [c EXCEPT !.class = r.class]
           e == [d EXCEPT !.rx = q.rx \o r.data]
           f == [e EXCEPT !.more = r.more]
           g == [f EXCEPT !.num = IF r.more THEN r.num ELSE q.num]
<1>0. /\ q.tx \in Nat \cup {Nil} /\ q.ack \in Nat \cup {Nil} /\ q.num \in Nat \cup {Nil}
      /\ q.rx \o r.data \in Seq(Block) /\ r.class \in {Nil, 0, 2, 4}
      /\ r.more \in BOOLEAN /\ r.num \in Nat
  BY DEF ReqType, Response
<1>1. Take(q, r) = g
  BY DEF Take, ReqType
<1>2. a \in ReqType
  BY <1>0, ReqField
<1>3. b \in ReqType
  <2> HIDE DEF a
  <2>1. QED
    BY <1>2, ReqField
<1>4. c \in ReqType
  <2> HIDE DEF b
  <2>1. QED
    BY <1>3, ReqField
<1>5. d \in ReqType
  <2> HIDE DEF c
  <2>1. QED
    BY <1>0, <1>4, ReqField
<1>6. e \in ReqType
  <2> HIDE DEF d
  <2>1. QED
    BY <1>0, <1>5, ReqField
<1>7. f \in ReqType
  <2> HIDE DEF e
  <2>1. QED
    BY <1>0, <1>6, ReqField
<1>8. g \in ReqType
  <2> HIDE DEF f
  <2>1. QED
    BY <1>0, <1>7, ReqField
<1>9. QED
  BY <1>1, <1>8

\* A frame built by next_step, whatever object q it starts from.
LEMMA SendNewType ==
  ASSUME TypeOK, NEW q \in ReqType, q.rid = req.rid, pc = "wait", NEW f \in Request,
         SendNew(q, f)
  PROVE  /\ req' = [q EXCEPT !.mid = f.mid, !.frame = f, !.timer = TRUE, !.retry = 0]
         /\ req' \in ReqType /\ req'.frame \in Request
         /\ req'.rid = req.rid /\ again' \in [Rid -> 0 .. MaxAgain]
         /\ reqQ' \in Seq(Request) /\ Len(reqQ') <= LinkCap
         /\ UNCHANGED <<pc, over, gaveUp>>
<1> USE ConstantsAssumption
<1>1. f.mid \in Mid
  BY DEF Request
<1>2. req' \in ReqType /\ req'.frame = f /\ req'.rid = req.rid
  <2>1. req' = [q EXCEPT !.mid = f.mid, !.frame = f, !.timer = TRUE, !.retry = 0]
    BY DEF SendNew
  <2>2. req' \in ReqType
    BY <1>1, <2>1, ArmedType
  <2>3. QED
    BY <2>1, <2>2 DEF ReqType
<1>3. reqQ' \in Seq(Request) /\ Len(reqQ') <= LinkCap
  BY TransmitOne DEF SendNew, TypeOK
<1>4. again' \in [Rid -> 0 .. MaxAgain]
  <2>1. CASE over
    BY <2>1 DEF SendNew, TypeOK
  <2>2. CASE ~over
    BY <2>2 DEF SendNew, TypeOK
  <2>3. QED
    BY <2>1, <2>2
<1>5. QED
  BY <1>2, <1>3, <1>4 DEF SendNew

\* What next_step leaves, in all its alternatives.
StepType ==
  /\ pc' \in {"wait", "crashed"}
  /\ req' \in ReqType /\ req'.rid = req.rid
  /\ req'.timer => req'.frame \in Request
  /\ over' \in BOOLEAN /\ gaveUp' \in BOOLEAN
  /\ again' \in [Rid -> 0 .. MaxAgain]
  /\ reqQ' \in Seq(Request) /\ Len(reqQ') <= LinkCap

LEMMA ProceedType ==
  ASSUME TypeOK, NEW q \in ReqType, q.rid = req.rid, pc = "wait", Proceed(q)
  PROVE  StepType
<1> USE ConstantsAssumption
<1>0. q.rid \in Rid
  BY DEF TypeOK
<1>1. CASE SendBody(q)
  <2>1. PICK m \in FreshMid : SendNew([q EXCEPT !.tx = SentAfter(q)], BodyFrame(q, m))
    BY <1>1 DEF SendBody
  <2>2. SliceLen(q) # Nil
    BY <1>1 DEF SendBody
  <2>3. BodyFrame(q, m) \in Request /\ SentAfter(q) \in Nat
    BY <1>0, <2>2, FreshFacts, BodyFrameType
  <2> DEFINE p == [q EXCEPT !.tx = SentAfter(q)]
  <2>4. p \in ReqType /\ p.rid = req.rid
    BY <2>3 DEF ReqType
  <2>5. SendNew(p, BodyFrame(q, m))
    BY <2>1
  <2> HIDE DEF p
  <2>6. QED
    BY <2>3, <2>4, <2>5, SendNewType DEF StepType, TypeOK
<1>2. CASE Crash(q)
  BY <1>2 DEF Crash, StepType, TypeOK
<1>3. CASE ReadOn(q)
  <2>1. PICK m \in FreshMid : SendNew(q, ReadFrame(q, m))
    BY <1>3 DEF ReadOn
  <2>2. ReadFrame(q, m) \in Request
    BY <1>0, FreshFacts, ReadFrameType
  <2>3. QED
    BY <2>1, <2>2, SendNewType DEF StepType, TypeOK
<1>4. CASE Done(q)
  <2>1. /\ req' = [q EXCEPT !.mid = NoMid, !.frame = NoFrame, !.retry = 0]
        /\ ~q.timer /\ q.timer \in BOOLEAN
    BY <1>4 DEF Done, ReqType
  <2>2. [q EXCEPT !.mid = NoMid, !.frame = NoFrame, !.retry = 0] =
          [q EXCEPT !.mid = NoMid, !.frame = NoFrame, !.timer = FALSE, !.retry = 0]
    BY <2>1 DEF ReqType
  <2>3. req' \in ReqType
    BY <2>1, <2>2, ArmedType
  <2>4. req'.rid = q.rid /\ ~req'.timer
    BY <2>1 DEF ReqType
  <2>5. QED
    BY <1>4, <2>3, <2>4 DEF Done, StepType, TypeOK
<1>5. QED
  BY <1>1, <1>2, <1>3, <1>4 DEF Proceed

LEMMA ExpiredType ==
  ASSUME TypeOK, pc = "wait", Expired(req)
  PROVE  StepType
<1> USE ConstantsAssumption
<1>1. CASE Retransmit(req)
  <2>1. reqQ' \in Seq(Request) /\ Len(reqQ') <= LinkCap
    BY <1>1, TransmitOne DEF Retransmit, TypeOK
  <2>2. req' \in ReqType /\ req'.rid = req.rid /\ req'.frame = req.frame
    <3>1. req' = [req EXCEPT !.retry = req.retry + 1]
      BY <1>1 DEF Retransmit
    <3>2. req \in ReqType /\ req.retry + 1 \in 0 .. MaxRetry
      BY <1>1 DEF Retransmit, TypeOK, ReqType
    <3>3. req' \in ReqType
      BY <3>1, <3>2, ReqField
    <3>4. QED
      BY <3>1, <3>2, <3>3 DEF ReqType
  <2>3. QED
    BY <1>1, <2>1, <2>2 DEF Retransmit, StepType, TypeOK
<1>2. CASE GiveUp(req)
  BY <1>2 DEF GiveUp, StepType, TypeOK, ReqType
<1>3. QED
  BY <1>1, <1>2 DEF Expired

LEMMA TakeFields ==
  ASSUME NEW q \in ReqType, NEW r \in Response
  PROVE  /\ Take(q, r).rid = q.rid /\ Take(q, r).size = q.size /\ Take(q, r).tx = q.tx
         /\ Take(q, r).ack = (IF r.ack /\ r.class = 2 THEN q.tx ELSE q.ack)
         /\ Take(q, r).mid = NoMid /\ Take(q, r).timer = FALSE
         /\ Take(q, r).more = r.more /\ Take(q, r).rx = q.rx \o r.data
         /\ Take(q, r).num = (IF r.more THEN r.num ELSE q.num)
  BY DEF Take, ReqType

LEMMA RxType ==
  ASSUME TypeOK, Rx
  PROVE  /\ StepType
         /\ refused' \in BOOLEAN
         /\ respQ' = Tail(respQ) /\ respQ' \in Seq(Response) /\ Len(respQ') <= LinkCap
<1> USE ConstantsAssumption
<1> DEFINE r == Head(respQ)
<1>1. respQ \in Seq(Response) /\ respQ # <<>> /\ pc = "wait" /\ respQ' = Tail(respQ)
  BY DEF Rx, TypeOK
<1>2. r \in Response /\ Tail(respQ) \in Seq(Response) /\ Len(Tail(respQ)) <= LinkCap
  BY <1>1, HeadTail DEF TypeOK
<1>3. req \in ReqType /\ Take(req, r) \in ReqType /\ Take(req, r).rid = req.rid
      /\ Take(req, r).timer = FALSE
  BY <1>2, TakeType, TakeFields DEF TypeOK
<1> HIDE DEF r
<1>4. CASE RxOther(r)
  <2>1. StepType
    <3>1. CASE KeepWaiting(req)
      BY <1>1, <3>1 DEF KeepWaiting, StepType, TypeOK
    <3>2. CASE Expired(req)
      BY <1>1, <3>2, ExpiredType
    <3>3. CASE Proceed(req)
      BY <1>1, <1>3, <3>3, ProceedType
    <3>4. QED
      BY <1>4, <3>1, <3>2, <3>3 DEF RxOther
  <2>2. refused' \in BOOLEAN
    BY <1>4 DEF RxOther, TypeOK
  <2>3. QED
    BY <1>1, <1>2, <2>1, <2>2 DEF r
<1>5. CASE RxAnswer(r)
  <2>1. Proceed(Take(req, r)) /\ refused' = (refused \/ r.class # 2)
    BY <1>5 DEF RxAnswer
  <2>2. StepType
    BY <1>1, <1>3, <2>1, ProceedType
  <2>3. refused' \in BOOLEAN
    BY <2>1
  <2>4. QED
    BY <1>1, <1>2, <2>2, <2>3 DEF r
<1>6. CASE RxError(r)
  <2>1. /\ req' = Take(req, r) /\ over' = TRUE /\ refused' = TRUE
        /\ UNCHANGED <<pc, gaveUp, again, reqQ>>
    BY <1>6 DEF RxError
  <2>2. StepType
    BY <1>1, <1>3, <2>1 DEF StepType, TypeOK
  <2>3. QED
    BY <1>1, <1>2, <2>1, <2>2 DEF r
<1>7. QED
  BY <1>4, <1>5, <1>6 DEF Rx, r

(* The device *)

LEMMA AssembledType ==
  ASSUME TypeOK, NEW f \in Request
  PROVE  Assembled(f) \in SrvType
<1> DEFINE at == IF f.b1 \in {Nil, 0} THEN 0 ELSE srv.len
           ok == (at = 0 \/ srv.intact) /\ f.from = at
           a == [srv EXCEPT !.rid = f.rid]
           b == [a EXCEPT !.len = at + f.len]
           c == [b EXCEPT !.intact = ok]
           d == [c EXCEPT !.blocks = 0]
<1>0. srv \in SrvType /\ ok \in BOOLEAN
  BY DEF TypeOK
<1>1. f.rid \in 0 .. MaxReq /\ at + f.len \in Nat
  BY <1>0, ConstantsAssumption DEF Request, Rid, SrvType
<1>2. Assembled(f) = d
  BY DEF Assembled
<1> HIDE DEF at, ok
<1>3. a \in SrvType
  BY <1>0, <1>1 DEF SrvType
<1>4. b \in SrvType
  BY <1>1, <1>3 DEF SrvType
<1> HIDE DEF b
<1>5. c \in SrvType
  BY <1>0, <1>4 DEF SrvType
<1> HIDE DEF c
<1>6. d \in SrvType
  BY <1>5 DEF SrvType
<1>7. QED
  BY <1>2, <1>6

\* Every alternative of Serve replies with a response to the frame.
LEMMA ReplyType ==
  ASSUME TypeOK, NEW s \in SrvType, NEW r \in Response, r.mid \in Mid, Reply(s, r)
  PROVE  /\ srv' \in SrvType /\ srv'.mid = r.mid /\ srv'.resp = r
         /\ respQ' \in Seq(Response) /\ Len(respQ') <= LinkCap
         /\ \A i \in 1 .. Len(respQ') :
              respQ'[i] = r \/ (i \in 1 .. Len(respQ) /\ respQ'[i] = respQ[i])
<1>1. srv' \in SrvType /\ srv'.mid = r.mid /\ srv'.resp = r
  <2> DEFINE a == [s EXCEPT !.mid = r.mid]
             b == [a EXCEPT !.resp = r]
  <2>1. srv' = b
    BY DEF Reply
  <2>2. a \in SrvType /\ a.mid = r.mid
    BY DEF SrvType
  <2> HIDE DEF a
  <2>3. b \in SrvType /\ b.mid = r.mid /\ b.resp = r
    BY <2>2 DEF SrvType
  <2>4. QED
    BY <2>1, <2>3
<1>2. CASE Len(respQ) < LinkCap
  <2>1. respQ' = Append(respQ, r)
    BY <1>2 DEF Reply
  <2>2. QED
    BY <1>1, <1>2, <2>1, AppendOne, ConstantsAssumption DEF TypeOK
<1>3. CASE ~(Len(respQ) < LinkCap)
  BY <1>1, <1>3 DEF Reply, TypeOK
<1>4. QED
  BY <1>2, <1>3

LEMMA AnswerType ==
  ASSUME NEW f \in Request, NEW class \in {0, 2, 4}, NEW data \in Seq(Block),
         NEW more \in BOOLEAN
  PROVE  Answer(f, class, data, more) \in Response
  BY DEF Answer, Response, Request

\* The request at the head of the link is answered, whatever the alternative.
ReplyFrom(f) ==
  /\ srv' \in SrvType /\ srv'.mid = f.mid
  /\ srv'.resp \in Response /\ srv'.resp.mid = f.mid
  /\ respQ' \in Seq(Response) /\ Len(respQ') <= LinkCap
  /\ \A i \in 1 .. Len(respQ') :
       respQ'[i] = srv'.resp \/ (i \in 1 .. Len(respQ) /\ respQ'[i] = respQ[i])

LEMMA AnswerFrom ==
  ASSUME TypeOK, NEW f \in Request, NEW s \in SrvType, NEW class \in {0, 2, 4},
         NEW data \in Seq(Block), NEW more \in BOOLEAN,
         Reply(s, Answer(f, class, data, more))
  PROVE  ReplyFrom(f) /\ srv'.resp = Answer(f, class, data, more)
<1> DEFINE r == Answer(f, class, data, more)
<1>1. r \in Response /\ r.mid = f.mid /\ f.mid \in Mid
  BY AnswerType DEF Answer, Request
<1>2. Reply(s, r)
  OBVIOUS
<1> HIDE DEF r
<1>3. QED
  BY <1>1, <1>2, ReplyType DEF ReplyFrom, r

LEMMA BlockType ==
  ASSUME NEW f \in Request, NEW n \in Nat
  PROVE  <<BodyBlock(f.rid, n)>> \in Seq(Block) /\ <<ErrorText(f.rid)>> \in Seq(Block)
<1>1. BodyBlock(f.rid, n) \in Block /\ ErrorText(f.rid) \in Block
  BY DEF BodyBlock, ErrorText, Block, Request
<1>2. QED
  BY <1>1

LEMMA ServeType ==
  ASSUME TypeOK, Serve
  PROVE  /\ reqQ # <<>> /\ Head(reqQ) \in Request
         /\ ReplyFrom(Head(reqQ))
         /\ reqQ' \in Seq(Request) /\ Len(reqQ') <= LinkCap
         /\ runs' \in [Rid -> Nat] /\ corrupt' \subseteq Rid
<1> USE ConstantsAssumption
<1> DEFINE f == Head(reqQ)
<1>0. reqQ # <<>> /\ reqQ' = Tail(reqQ) /\ reqQ \in Seq(Request) /\ Len(reqQ) <= LinkCap
  BY DEF Serve, TypeOK
<1>1. f \in Request /\ f.rid \in Rid /\ f.mid \in Mid /\ f.b2 \in Nat /\ f.rid \in 0 .. MaxReq
  <2>1. f \in Request
    BY <1>0, HeadTail
  <2>2. QED
    BY <2>1 DEF Request, Rid
<1>2. reqQ' \in Seq(Request) /\ Len(reqQ') <= LinkCap
  BY <1>0, HeadTail
<1>3. \/ Duplicate(f) \/ Continue(f) \/ Execute(f) \/ NextBlock(f) \/ Refuse(f) \/ Reset(f)
  BY DEF Serve
<1> HIDE DEF f
<1>4. srv \in SrvType /\ Assembled(f) \in SrvType
  BY <1>1, AssembledType DEF TypeOK
<1>5. ReplyFrom(f)
  <2>1. CASE Duplicate(f)
    <3>1. srv.mid = f.mid /\ srv.mid # NoMid /\ Reply(srv, srv.resp)
      BY <1>1, <2>1 DEF Duplicate, NewRequest
    <3>2. srv.resp \in Response /\ srv.resp.mid = f.mid
      BY <3>1 DEF TypeOK
    <3>3. QED
      BY <1>1, <1>4, <3>1, <3>2, ReplyType DEF ReplyFrom
  <2>2. CASE Continue(f)
    <3>1. Reply(Assembled(f), Answer(f, 2, <<>>, FALSE))
      BY <2>2 DEF Continue
    <3>2. <<>> \in Seq(Block)
      OBVIOUS
    <3>3. QED
      BY <1>1, <1>4, <3>1, <3>2, AnswerFrom
  <2>3. CASE Execute(f)
    <3>1. PICK n \in RespBlocks :
            Reply([Assembled(f) EXCEPT !.blocks = n],
                  Answer(f, 2, IF n = 0 THEN <<>> ELSE <<BodyBlock(f.rid, 0)>>, n > 1))
      BY <2>3 DEF Execute
    <3> DEFINE s == [Assembled(f) EXCEPT !.blocks = n]
               d == IF n = 0 THEN <<>> ELSE <<BodyBlock(f.rid, 0)>>
               more == n > 1
    <3>2. n \in Nat
      BY ConstantsAssumption
    <3>3. s \in SrvType
      BY <1>4, <3>2 DEF SrvType
    <3>4. <<BodyBlock(f.rid, 0)>> \in Seq(Block)
      BY <1>1, BlockType
    <3>5. d \in Seq(Block) /\ more \in BOOLEAN
      BY <3>4
    <3>6. Reply(s, Answer(f, 2, d, more))
      BY <3>1
    <3> HIDE DEF s, d, more
    <3>7. QED
      BY <1>1, <3>3, <3>5, <3>6, AnswerFrom
  <2>4. CASE NextBlock(f)
    <3> DEFINE d == <<BodyBlock(f.rid, f.b2)>>
               more == f.b2 + 1 < srv.blocks
    <3>1. d \in Seq(Block) /\ more \in BOOLEAN
      BY <1>1, BlockType
    <3>2. Reply(srv, Answer(f, 2, d, more))
      BY <2>4 DEF NextBlock
    <3> HIDE DEF d, more
    <3>3. QED
      BY <1>1, <1>4, <3>1, <3>2, AnswerFrom
  <2>5. CASE Refuse(f)
    <3>1. PICK more \in BOOLEAN : Reply(srv, Answer(f, 4, <<ErrorText(f.rid)>>, more))
      BY <2>5 DEF Refuse
    <3>2. QED
      BY <1>1, <1>4, <3>1, AnswerFrom, BlockType
  <2>6. CASE Reset(f)
    <3> DEFINE s == [srv EXCEPT !.resets = srv.resets + 1]
    <3>1. s \in SrvType /\ <<>> \in Seq(Block)
      BY <1>4 DEF SrvType
    <3>2. Reply(s, Answer(f, 0, <<>>, FALSE))
      BY <2>6 DEF Reset
    <3> HIDE DEF s
    <3>3. QED
      BY <1>1, <3>1, <3>2, AnswerFrom
  <2>7. QED
    BY <1>3, <2>1, <2>2, <2>3, <2>4, <2>5, <2>6
<1>6. runs' \in [Rid -> Nat] /\ corrupt' \subseteq Rid
  <2>1. CASE Execute(f)
    BY <1>1, <2>1, SMTT(30) DEF Execute, TypeOK
  <2>2. CASE ~Execute(f)
    BY <1>3, <2>2 DEF Duplicate, Continue, NextBlock, Refuse, Reset, TypeOK
  <2>3. QED
    BY <2>1, <2>2
<1>7. QED
  BY <1>0, <1>1, <1>2, <1>5, <1>6 DEF f

\* What Coap#coap_req puts into a new request object.
NewFacts(q, r, size) ==
  /\ q.rid = r /\ q.size = size /\ q.tx = Nil /\ q.ack = Nil /\ q.rx = <<>>
  /\ q.more = FALSE /\ q.mid = NoMid /\ q.timer = FALSE

LEMMA NewReqFacts ==
  ASSUME NEW r \in 0 .. MaxReq, NEW size \in Nat \cup {Nil}
  PROVE  /\ NewReq(r, size) \in ReqType
         /\ NewFacts(NewReq(r, size), r, size)
         /\ SliceLen(NewReq(r, size)) \in Nat
<1>1. NewReq(r, size) \in ReqType
  BY ConstantsAssumption DEF NewReq, ReqType, Nil
<1>2. NewFacts(NewReq(r, size), r, size)
  BY DEF NewReq, NewFacts
<1>3. SliceLen(NewReq(r, size)) \in Nat
  BY <1>2, ConstantsAssumption DEF NewFacts, SliceLen, Start, BodySize, Blockwise, Nil
<1>4. QED
  BY <1>1, <1>2, <1>3

\* Submit starts from a new object n and sends its first frame under the id m.
LEMMA SubmitType ==
  ASSUME TypeOK, Submit
  PROVE  \E n \in ReqType, m \in FreshMid :
           /\ NewFacts(n, req.rid + 1, n.size)
           /\ SliceLen(n) \in Nat /\ SentAfter(n) \in Nat /\ BodyFrame(n, m) \in Request
           /\ req' = [n EXCEPT !.tx = SentAfter(n), !.mid = m, !.frame = BodyFrame(n, m),
                               !.timer = TRUE]
           /\ req' \in ReqType
           /\ Transmit(<<BodyFrame(n, m)>>)
<1> USE ConstantsAssumption
<1>1. req.rid + 1 \in Rid /\ req.rid + 1 \in 0 .. MaxReq
  BY DEF Submit, TypeOK, ReqType, Rid
<1>2. PICK size \in BodySizes, m \in FreshMid :
        LET n == NewReq(req.rid + 1, size)
            f == BodyFrame(n, m)
        IN  /\ req' = [n EXCEPT !.tx = SentAfter(n), !.mid = m, !.frame = f,
                                !.timer = TRUE]
            /\ Transmit(<<f>>)
  BY DEF Submit
<1> DEFINE n == NewReq(req.rid + 1, size)
           f == BodyFrame(n, m)
           q == [n EXCEPT !.tx = SentAfter(n)]
<1>3. n \in ReqType /\ NewFacts(n, req.rid + 1, size) /\ SliceLen(n) \in Nat
  BY <1>1, NewReqFacts
<1>4. m \in Mid
  BY FreshFacts
<1>5. f \in Request /\ SentAfter(n) \in Nat
  BY <1>1, <1>3, <1>4, BodyFrameType DEF NewFacts, Nil
<1>6. n.retry = 0
  BY DEF NewReq
<1>7. /\ req' = [n EXCEPT !.tx = SentAfter(n), !.mid = m, !.frame = f, !.timer = TRUE]
      /\ Transmit(<<f>>)
  BY <1>2
<1>8. req' = [q EXCEPT !.mid = m, !.frame = f, !.timer = TRUE, !.retry = 0]
  BY <1>3, <1>6, <1>7 DEF ReqType
<1>9. q \in ReqType
  BY <1>3, <1>5 DEF ReqType
<1>10. req' \in ReqType
  <2> HIDE DEF q, f
  <2>1. QED
    BY <1>4, <1>5, <1>8, <1>9, ArmedType
<1>11. n.size = size
  BY <1>3 DEF NewFacts
<1> HIDE DEF n
<1>12. QED
  BY <1>3, <1>5, <1>7, <1>10, <1>11

\* Types survive every step.
LEMMA TypeStep ==
  ASSUME TypeOK, [Next]_vars
  PROVE  TypeOK'
<1> USE ConstantsAssumption
<1>1. CASE Submit
  <2>1. req' \in ReqType /\ req'.timer /\ req'.frame \in Request /\ req'.rid \in Rid
    <3>1. PICK n \in ReqType, m \in FreshMid :
            /\ NewFacts(n, req.rid + 1, n.size)
            /\ BodyFrame(n, m) \in Request
            /\ req' = [n EXCEPT !.tx = SentAfter(n), !.mid = m, !.frame = BodyFrame(n, m),
                                !.timer = TRUE]
            /\ req' \in ReqType
      BY <1>1, SubmitType
    <3>2. req.rid + 1 \in Rid
      <4>1. req.rid \in Nat /\ req.rid < MaxReq
        BY <1>1 DEF Submit, TypeOK, ReqType
      <4>2. QED
        BY <4>1 DEF Rid
    <3>3. QED
      BY <3>1, <3>2 DEF NewFacts, ReqType
  <2>2. reqQ' \in Seq(Request) /\ Len(reqQ') <= LinkCap
    <3>1. PICK n \in ReqType, m \in FreshMid :
            BodyFrame(n, m) \in Request /\ Transmit(<<BodyFrame(n, m)>>)
      BY <1>1, SubmitType
    <3>2. QED
      BY <3>1, TransmitOne DEF TypeOK
  <2>3. QED
    BY <1>1, <2>1, <2>2 DEF Submit, device, TypeOK
<1>2. CASE Rx
  BY <1>2, RxType DEF Rx, device, StepType, TypeOK
<1>3. CASE EndPoll
  BY <1>3 DEF EndPoll, device, TypeOK
<1>4. CASE Timeout
  <2>1. StepType
    BY <1>4, ExpiredType DEF Timeout
  <2>2. QED
    BY <1>4, <2>1 DEF Timeout, device, StepType, TypeOK
<1>5. CASE Return
  BY <1>5 DEF Return, device, TypeOK
<1>6. CASE LoseRequest
  <2>1. reqQ \in Seq(Request) /\ reqQ # <<>> /\ reqQ' = Tail(reqQ)
    BY <1>6 DEF LoseRequest, TypeOK
  <2>2. reqQ' \in Seq(Request) /\ Len(reqQ') = Len(reqQ) - 1
    BY <2>1, HeadTail
  <2>3. QED
    BY <1>6, <2>1, <2>2 DEF LoseRequest, client, device, TypeOK
<1>7. CASE LoseResponse
  <2>1. respQ \in Seq(Response) /\ respQ # <<>> /\ respQ' = Tail(respQ)
    BY <1>7 DEF LoseResponse, TypeOK
  <2>2. respQ' \in Seq(Response) /\ Len(respQ') = Len(respQ) - 1
    BY <2>1, HeadTail
  <2>3. QED
    BY <1>7, <2>1, <2>2 DEF LoseResponse, client, device, TypeOK
<1>8. CASE Serve
  BY <1>8, ServeType DEF Serve, client, ReplyFrom, TypeOK
<1>9. CASE UNCHANGED vars
  BY <1>9 DEF vars, client, device, TypeOK
<1>10. QED
  BY <1>1, <1>2, <1>3, <1>4, <1>5, <1>6, <1>7, <1>8, <1>9 DEF Next

\* Every variable stays in its type: the queues of the link within its capacity,
\* and the retransmissions of a request within max_req_retry (coap.rb:107).
THEOREM TypeCorrect == Spec => []TypeOK
<1>1. Init => TypeOK
  BY InitType
<1>2. TypeOK /\ [Next]_vars => TypeOK'
  BY TypeStep
<1>3. QED
  BY <1>1, <1>2, PTL DEF Spec

----------------------------------------------------------------------------
(* What carries the id waited for belongs to the frame last sent           *)

Subqueue(p, q) == \A i \in 1 .. Len(p) : \E k \in 1 .. Len(q) : p[i] = q[k]

LEMMA TailSubqueue ==
  ASSUME NEW S, NEW q \in Seq(S)
  PROVE  Subqueue(q, q) /\ (q # <<>> => Subqueue(Tail(q), q))
<1>1. Subqueue(q, q)
  BY DEF Subqueue
<1>2. ASSUME q # <<>> PROVE Subqueue(Tail(q), q)
  BY <1>2, HeadTail DEF Subqueue
<1>3. QED
  BY <1>1, <1>2

\* The request waits on, and sends nothing but copies of its last frame.
LEMMA KeepCurrent ==
  ASSUME TypeOK, Current, UNCHANGED srv,
         req'.mid = req.mid, req'.frame = req.frame, req'.rid = req.rid,
         req'.timer => req.timer,
         \A i \in 1 .. Len(reqQ') :
           reqQ'[i] = req.frame \/ \E k \in 1 .. Len(reqQ) : reqQ'[i] = reqQ[k],
         Subqueue(respQ', respQ)
  PROVE  Current'
<1>1. req'.timer => req'.mid # NoMid
  BY DEF Current
<1>2. ASSUME req'.mid # NoMid
      PROVE  /\ req'.frame \in Request
             /\ req'.frame.mid = req'.mid
             /\ req'.frame.rid = req'.rid
             /\ \A i \in 1 .. Len(reqQ') : reqQ'[i].mid = req'.mid => reqQ'[i] = req'.frame
             /\ \A i \in 1 .. Len(respQ') : respQ'[i].mid = req'.mid => Fits(respQ'[i], req'.frame)
             /\ srv'.mid = req'.mid => Fits(srv'.resp, req'.frame)
  <2>1. req'.frame \in Request /\ req'.frame.mid = req'.mid /\ req'.frame.rid = req'.rid
    BY <1>2 DEF Current
  <2>2. \A i \in 1 .. Len(reqQ') : reqQ'[i].mid = req'.mid => reqQ'[i] = req'.frame
    BY <1>2 DEF Current
  <2>3. \A i \in 1 .. Len(respQ') : respQ'[i].mid = req'.mid => Fits(respQ'[i], req'.frame)
    BY <1>2 DEF Current, Subqueue
  <2>4. srv'.mid = req'.mid => Fits(srv'.resp, req'.frame)
    BY <1>2 DEF Current
  <2>5. QED
    BY <2>1, <2>2, <2>3, <2>4
<1>3. QED
  BY <1>1, <1>2 DEF Current

\* A new id: nothing but the new frame carries it.
LEMMA FreshCurrent ==
  ASSUME TypeOK, NEW f \in Request, f.mid \in FreshMid, Transmit(<<f>>), UNCHANGED srv,
         req'.mid = f.mid, req'.frame = f, req'.rid = f.rid, Subqueue(respQ', respQ)
  PROVE  Current'
<1>1. /\ f.mid # NoMid /\ f.mid # srv.mid
      /\ \A i \in 1 .. Len(reqQ) : reqQ[i].mid # f.mid
      /\ \A i \in 1 .. Len(respQ) : respQ[i].mid # f.mid
  BY FreshFacts
<1>2. \A i \in 1 .. Len(reqQ') : reqQ'[i].mid = f.mid => reqQ'[i] = f
  BY <1>1, TransmitOne DEF TypeOK
<1>3. \A i \in 1 .. Len(respQ') : respQ'[i].mid # f.mid
  BY <1>1 DEF Subqueue
<1>4. QED
  BY <1>1, <1>2, <1>3 DEF Current

\* Nothing is waited for.
LEMMA NoCurrent ==
  ASSUME req'.mid = NoMid, ~req'.timer
  PROVE  Current'
  BY DEF Current

LEMMA SentFields ==
  ASSUME NEW q \in ReqType, NEW f, SendNew(q, f)
  PROVE  /\ req'.rid = q.rid /\ req'.size = q.size /\ req'.tx = q.tx /\ req'.ack = q.ack
         /\ req'.more = q.more /\ req'.num = q.num /\ req'.rx = q.rx
         /\ req'.mid = f.mid /\ req'.frame = f
         /\ Transmit(<<f>>) /\ UNCHANGED <<pc, over, gaveUp>>
<1>1. req' = [q EXCEPT !.mid = f.mid, !.frame = f, !.timer = TRUE, !.retry = 0]
  BY DEF SendNew
<1>2. QED
  BY <1>1 DEF SendNew, ReqType

LEMMA DoneFields ==
  ASSUME NEW q \in ReqType, Done(q)
  PROVE  /\ req'.rid = q.rid /\ req'.size = q.size /\ req'.tx = q.tx /\ req'.ack = q.ack
         /\ req'.more = q.more /\ req'.num = q.num /\ req'.rx = q.rx
         /\ req'.mid = NoMid /\ req'.timer = q.timer
         /\ ~q.timer /\ ~ReqNotDone(q) /\ ~q.more /\ UNCHANGED <<pc, reqQ>>
  BY DEF Done, ReqType

\* SendBody with its choices named.
LEMMA BodySent ==
  ASSUME TypeOK, pc = "wait", NEW q \in ReqType, q.rid = req.rid, SendBody(q)
  PROVE  \E m \in FreshMid, p \in ReqType :
           /\ ~q.timer /\ ReqNotDone(q) /\ SliceLen(q) # Nil
           /\ p = [q EXCEPT !.tx = SentAfter(q)]
           /\ SentAfter(q) \in Nat
           /\ BodyFrame(q, m) \in Request
           /\ SendNew(p, BodyFrame(q, m))
<1>1. PICK m \in FreshMid : SendNew([q EXCEPT !.tx = SentAfter(q)], BodyFrame(q, m))
  BY DEF SendBody
<1>2. ~q.timer /\ ReqNotDone(q) /\ SliceLen(q) # Nil
  BY DEF SendBody
<1>3. BodyFrame(q, m) \in Request /\ SentAfter(q) \in Nat
  BY <1>2, FreshFacts, BodyFrameType DEF TypeOK
<1>4. [q EXCEPT !.tx = SentAfter(q)] \in ReqType
  BY <1>3 DEF ReqType
<1>5. QED
  BY <1>1, <1>2, <1>3, <1>4

LEMMA ReadSent ==
  ASSUME TypeOK, pc = "wait", NEW q \in ReqType, q.rid = req.rid, ReadOn(q)
  PROVE  \E m \in FreshMid :
           /\ ~q.timer /\ ~ReqNotDone(q) /\ q.more
           /\ ReadFrame(q, m) \in Request
           /\ SendNew(q, ReadFrame(q, m))
<1>1. PICK m \in FreshMid : SendNew(q, ReadFrame(q, m))
  BY DEF ReadOn
<1>2. QED
  BY <1>1, FreshFacts, ReadFrameType DEF ReadOn, TypeOK

LEMMA ProceedCurrent ==
  ASSUME TypeOK, Current, pc = "wait", NEW q \in ReqType, q.rid = req.rid,
         q = req \/ q.mid = NoMid,
         Proceed(q), UNCHANGED srv, Subqueue(respQ', respQ)
  PROVE  Current'
<1>1. CASE SendBody(q)
  <2>1. PICK m \in FreshMid, p \in ReqType :
          /\ p = [q EXCEPT !.tx = SentAfter(q)]
          /\ BodyFrame(q, m) \in Request
          /\ SendNew(p, BodyFrame(q, m))
    BY <1>1, BodySent
  <2>2. p.rid = q.rid /\ BodyFrame(q, m).rid = q.rid /\ BodyFrame(q, m).mid = m
    BY <2>1 DEF BodyFrame, ReqType
  <2>3. QED
    BY <2>1, <2>2, SentFields, FreshCurrent
<1>2. CASE Crash(q)
  <2>1. req' = q /\ ~q.timer /\ UNCHANGED reqQ
    BY <1>2 DEF Crash
  <2>2. CASE q = req
    BY <2>1, <2>2, KeepCurrent
  <2>3. CASE q.mid = NoMid
    BY <2>1, <2>3, NoCurrent
  <2>4. QED
    BY <2>2, <2>3
<1>3. CASE ReadOn(q)
  <2>1. PICK m \in FreshMid : ReadFrame(q, m) \in Request /\ SendNew(q, ReadFrame(q, m))
    BY <1>3, ReadSent
  <2>2. ReadFrame(q, m).rid = q.rid /\ ReadFrame(q, m).mid = m
    BY DEF ReadFrame
  <2>3. QED
    BY <2>1, <2>2, SentFields, FreshCurrent
<1>4. CASE Done(q)
  BY <1>4, DoneFields, NoCurrent
<1>5. QED
  BY <1>1, <1>2, <1>3, <1>4 DEF Proceed

\* A retransmission or giving up changes nothing but the timer and its count.
LEMMA ExpiredFields ==
  ASSUME TypeOK, Expired(req)
  PROVE  /\ req'.rid = req.rid /\ req'.size = req.size /\ req'.tx = req.tx
         /\ req'.ack = req.ack /\ req'.more = req.more /\ req'.num = req.num
         /\ req'.rx = req.rx /\ req'.mid = req.mid /\ req'.frame = req.frame
         /\ req.timer /\ UNCHANGED pc
         /\ \A i \in 1 .. Len(reqQ') :
              reqQ'[i] = req.frame \/ \E k \in 1 .. Len(reqQ) : reqQ'[i] = reqQ[k]
<1>1. req \in ReqType
  BY DEF TypeOK
<1>2. CASE Retransmit(req)
  <2>1. req.frame \in Request /\ reqQ \in Seq(Request) /\ Len(reqQ) <= LinkCap
    BY <1>2 DEF Retransmit, TypeOK
  <2>2. \A i \in 1 .. Len(reqQ') :
          reqQ'[i] = req.frame \/ \E k \in 1 .. Len(reqQ) : reqQ'[i] = reqQ[k]
    BY <1>2, <2>1, TransmitOne DEF Retransmit
  <2>3. QED
    BY <1>1, <1>2, <2>2 DEF Retransmit, ReqType
<1>3. CASE GiveUp(req)
  BY <1>1, <1>3 DEF GiveUp, ReqType
<1>4. QED
  BY <1>2, <1>3 DEF Expired

LEMMA RxCurrent ==
  ASSUME TypeOK, Current, Rx
  PROVE  Current'
<1> DEFINE r == Head(respQ)
<1>1. respQ \in Seq(Response) /\ respQ # <<>> /\ respQ' = Tail(respQ) /\ pc = "wait"
      /\ UNCHANGED srv
  BY DEF Rx, TypeOK, device
<1>2. r \in Response /\ Subqueue(respQ', respQ)
  BY <1>1, HeadTail, TailSubqueue
<1> DEFINE t == Take(req, r)
<1>3. req \in ReqType /\ t \in ReqType /\ t.rid = req.rid /\ t.mid = NoMid /\ ~t.timer
  BY <1>2, TakeType, TakeFields DEF TypeOK
<1>4. RxOther(r) \/ RxAnswer(r) \/ RxError(r)
  BY DEF Rx
<1>5. CASE RxOther(r)
  <2>1. CASE KeepWaiting(req)
    BY <1>1, <1>2, <2>1, KeepCurrent DEF KeepWaiting
  <2>2. CASE Expired(req)
    BY <1>1, <1>2, <2>2, ExpiredFields, KeepCurrent
  <2>3. CASE Proceed(req)
    BY <1>1, <1>2, <1>3, <2>3, ProceedCurrent
  <2>4. QED
    BY <1>5, <2>1, <2>2, <2>3 DEF RxOther
<1>6. CASE RxAnswer(r)
  <2>1. Proceed(t)
    BY <1>6 DEF RxAnswer
  <2> HIDE DEF t
  <2>2. QED
    BY <1>1, <1>2, <1>3, <2>1, ProceedCurrent
<1>7. CASE RxError(r)
  <2>1. req' = t
    BY <1>7 DEF RxError
  <2> HIDE DEF t
  <2>2. QED
    BY <1>3, <2>1, NoCurrent
<1>8. QED
  BY <1>4, <1>5, <1>6, <1>7

LEMMA FitsAnswer ==
  ASSUME NEW f \in Request, NEW class \in {0, 2, 4}, NEW data, NEW more \in BOOLEAN,
         class = 2 => /\ data \in {<<>>, <<BodyBlock(f.rid, f.b2)>>}
                      /\ more => data # <<>>
                      /\ data # <<>> => ~f.more
  PROVE  Fits(Answer(f, class, data, more), f)
<1> DEFINE r == Answer(f, class, data, more)
<1>1. /\ r.rid = f.rid /\ r.class = class /\ (class # 0 => r.ack) /\ r.num = f.b2
      /\ r.data = data /\ r.more = more
  BY DEF Answer
<1> HIDE DEF r
<1>2. ASSUME class = 2
      PROVE  r.ack /\ r.data \in {<<>>, <<BodyBlock(f.rid, f.b2)>>}
             /\ (r.more => r.data # <<>>) /\ (r.data # <<>> => ~f.more)
  <2>0. class # 0
    BY <1>2
  <2>1. r.ack
    BY <1>1, <2>0
  <2>2. r.data = data /\ r.more = more
    BY <1>1
  <2>3. QED
    BY <1>2, <2>1, <2>2
<1>3. Fits(r, f)
  BY <1>1, <1>2 DEF Fits
<1>4. QED
  BY <1>3 DEF r

\* What the device answers to the frame waited for, in each of its alternatives.
LEMMA AnswerFits ==
  ASSUME TypeOK, Current, Shape, req.mid # NoMid, NEW f \in Request, f = req.frame,
         Duplicate(f) \/ Continue(f) \/ Execute(f) \/ NextBlock(f) \/ Refuse(f) \/ Reset(f)
  PROVE  Fits(srv'.resp, f)
<1> USE ConstantsAssumption
<1>1. f.rid \in Rid /\ f.b2 \in Nat /\ srv \in SrvType /\ f.mid = req.mid
  BY DEF Request, TypeOK, Current
<1>2. Assembled(f) \in SrvType
  BY AssembledType
<1>3. CASE Duplicate(f)
  <2>1. srv.mid = f.mid /\ srv.resp \in Response
    BY <1>1, <1>3 DEF Duplicate, NewRequest, TypeOK
  <2>2. Reply(srv, srv.resp) /\ srv.resp.mid \in Mid
    BY <1>3, <2>1 DEF Duplicate, Response
  <2>3. srv'.resp = srv.resp
    BY <1>1, <2>1, <2>2, ReplyType
  <2>4. QED
    BY <1>1, <2>1, <2>3 DEF Current
<1>4. CASE Continue(f)
  <2>1. Reply(Assembled(f), Answer(f, 2, <<>>, FALSE))
    BY <1>4 DEF Continue
  <2>2. <<>> \in Seq(Block)
    OBVIOUS
  <2>3. srv'.resp = Answer(f, 2, <<>>, FALSE)
    BY <1>2, <2>1, <2>2, AnswerFrom
  <2>4. QED
    BY <2>3, FitsAnswer
<1>5. CASE Execute(f)
  <2>1. PICK n \in RespBlocks :
          Reply([Assembled(f) EXCEPT !.blocks = n],
                Answer(f, 2, IF n = 0 THEN <<>> ELSE <<BodyBlock(f.rid, 0)>>, n > 1))
    BY <1>5 DEF Execute
  <2> DEFINE s == [Assembled(f) EXCEPT !.blocks = n]
             d == IF n = 0 THEN <<>> ELSE <<BodyBlock(f.rid, 0)>>
             more == n > 1
  <2>2. s \in SrvType /\ more \in BOOLEAN
    BY <1>2 DEF SrvType
  <2>3. d \in Seq(Block) /\ d \in {<<>>, <<BodyBlock(f.rid, 0)>>} /\ (more => d # <<>>)
    BY BlockType
  <2>4. Reply(s, Answer(f, 2, d, more))
    BY <2>1
  <2> HIDE DEF s, d, more
  <2>5. srv'.resp = Answer(f, 2, d, more)
    BY <2>2, <2>3, <2>4, AnswerFrom
  <2>6. f.b2 = 0 /\ ~f.more
    BY <1>5 DEF Execute
  <2>7. QED
    BY <2>2, <2>3, <2>5, <2>6, FitsAnswer
<1>6. CASE NextBlock(f)
  <2> DEFINE d == <<BodyBlock(f.rid, f.b2)>>
             more == f.b2 + 1 < srv.blocks
  <2>0. d # <<>> /\ d = <<BodyBlock(f.rid, f.b2)>>
    OBVIOUS
  <2>1. d \in Seq(Block) /\ more \in BOOLEAN
    BY <1>1, BlockType
  <2>2. Reply(srv, Answer(f, 2, d, more))
    BY <1>6 DEF NextBlock
  <2> HIDE DEF d, more
  <2>3. srv'.resp = Answer(f, 2, d, more)
    BY <1>1, <2>1, <2>2, AnswerFrom
  <2>4. ~f.more
    BY <1>6 DEF NextBlock, Shape
  <2>5. QED
    BY <2>0, <2>1, <2>3, <2>4, FitsAnswer
<1>7. CASE Refuse(f)
  <2>1. PICK more \in BOOLEAN : Reply(srv, Answer(f, 4, <<ErrorText(f.rid)>>, more))
    BY <1>7 DEF Refuse
  <2>2. srv'.resp = Answer(f, 4, <<ErrorText(f.rid)>>, more)
    BY <1>1, <2>1, AnswerFrom, BlockType
  <2>3. QED
    BY <2>2, FitsAnswer
<1>8. CASE Reset(f)
  <2> DEFINE s == [srv EXCEPT !.resets = srv.resets + 1]
  <2>1. s \in SrvType /\ <<>> \in Seq(Block)
    BY <1>1 DEF SrvType
  <2>2. Reply(s, Answer(f, 0, <<>>, FALSE))
    BY <1>8 DEF Reset
  <2> HIDE DEF s
  <2>3. srv'.resp = Answer(f, 0, <<>>, FALSE)
    BY <2>1, <2>2, AnswerFrom
  <2>4. QED
    BY <2>3, FitsAnswer
<1>9. QED
  BY <1>3, <1>4, <1>5, <1>6, <1>7, <1>8

LEMMA ServeCurrent ==
  ASSUME TypeOK, Current, Shape, Serve
  PROVE  Current'
<1> DEFINE f == Head(reqQ)
<1>1. reqQ \in Seq(Request) /\ reqQ # <<>> /\ reqQ' = Tail(reqQ)
  BY DEF Serve, TypeOK
<1>2. f \in Request /\ f = reqQ[1] /\ 1 \in 1 .. Len(reqQ) /\ Subqueue(reqQ', reqQ)
  BY <1>1, HeadTail, TailSubqueue
<1>3. UNCHANGED <<req, pc>>
  BY DEF Serve, client
<1>4. Duplicate(f) \/ Continue(f) \/ Execute(f) \/ NextBlock(f) \/ Refuse(f) \/ Reset(f)
  BY DEF Serve
<1>5. ReplyFrom(f)
  BY ServeType
<1> HIDE DEF f
<1>6. req.timer => req.mid # NoMid
  BY DEF Current
<1>7. ASSUME req.mid # NoMid
      PROVE  /\ \A i \in 1 .. Len(reqQ') : reqQ'[i].mid = req.mid => reqQ'[i] = req.frame
             /\ \A i \in 1 .. Len(respQ') : respQ'[i].mid = req.mid => Fits(respQ'[i], req.frame)
             /\ srv'.mid = req.mid => Fits(srv'.resp, req.frame)
  <2>1. \A i \in 1 .. Len(reqQ') : reqQ'[i].mid = req.mid => reqQ'[i] = req.frame
    BY <1>2, <1>7 DEF Current, Subqueue
  <2>2. f.mid = req.mid => Fits(srv'.resp, req.frame)
    <3>1. ASSUME f.mid = req.mid PROVE f = req.frame
      BY <1>2, <1>7, <3>1 DEF Current
    <3>2. QED
      <4> SUFFICES ASSUME f.mid = req.mid PROVE Fits(srv'.resp, req.frame)
        OBVIOUS
      <4>1. f = req.frame
        BY <3>1
      <4>2. Fits(srv'.resp, f)
        BY <1>2, <1>4, <1>7, <4>1, AnswerFits
      <4>3. QED
        BY <4>1, <4>2
  <2>3. srv'.mid = f.mid /\ srv'.resp.mid = f.mid
    BY <1>5 DEF ReplyFrom
  <2>4. \A i \in 1 .. Len(respQ') : respQ'[i].mid = req.mid => Fits(respQ'[i], req.frame)
    <3> SUFFICES ASSUME NEW i \in 1 .. Len(respQ'), respQ'[i].mid = req.mid
                 PROVE  Fits(respQ'[i], req.frame)
      OBVIOUS
    <3>1. CASE respQ'[i] = srv'.resp
      BY <2>2, <2>3, <3>1
    <3>2. CASE i \in 1 .. Len(respQ) /\ respQ'[i] = respQ[i]
      BY <1>7, <3>2 DEF Current
    <3>3. QED
      BY <1>5, <3>1, <3>2 DEF ReplyFrom
  <2>5. QED
    BY <2>1, <2>2, <2>3, <2>4
<1>8. QED
  BY <1>3, <1>6, <1>7 DEF Current

LEMMA SubmitCurrent ==
  ASSUME TypeOK, Submit
  PROVE  Current'
<1>1. PICK n \in ReqType, m \in FreshMid :
        /\ BodyFrame(n, m) \in Request
        /\ req' = [n EXCEPT !.tx = SentAfter(n), !.mid = m, !.frame = BodyFrame(n, m),
                            !.timer = TRUE]
        /\ Transmit(<<BodyFrame(n, m)>>)
  BY SubmitType
<1>2. /\ req'.mid = m /\ req'.frame = BodyFrame(n, m) /\ req'.rid = n.rid
      /\ BodyFrame(n, m).mid = m /\ BodyFrame(n, m).rid = n.rid
  BY <1>1 DEF BodyFrame, ReqType
<1>3. UNCHANGED <<respQ, srv>>
  BY DEF Submit, device
<1>4. Subqueue(respQ', respQ)
  BY <1>3, TailSubqueue DEF TypeOK
<1>5. QED
  BY <1>1, <1>2, <1>3, <1>4, FreshCurrent

LEMMA CurrentStep ==
  ASSUME TypeOK, Current, Shape, [Next]_vars
  PROVE  Current'
<1>0. Subqueue(respQ, respQ) /\ Subqueue(reqQ, reqQ)
  BY TailSubqueue DEF TypeOK
<1>1. CASE Submit
  BY <1>1, SubmitCurrent
<1>2. CASE Rx
  BY <1>2, RxCurrent
<1>3. CASE EndPoll
  BY <1>3 DEF EndPoll, device, Current
<1>4. CASE Timeout
  <2>1. UNCHANGED <<respQ, srv>> /\ Expired(req)
    BY <1>4 DEF Timeout, device
  <2>2. QED
    BY <1>0, <2>1, ExpiredFields, KeepCurrent
<1>5. CASE Return
  BY <1>5 DEF Return, device, Current
<1>6. CASE LoseRequest
  <2>1. UNCHANGED <<req, respQ, srv>> /\ Subqueue(reqQ', reqQ)
    BY <1>6, TailSubqueue DEF LoseRequest, client, device, TypeOK
  <2>2. QED
    BY <1>0, <2>1, KeepCurrent DEF Subqueue
<1>7. CASE LoseResponse
  <2>1. UNCHANGED <<req, reqQ, srv>> /\ Subqueue(respQ', respQ)
    BY <1>7, TailSubqueue DEF LoseResponse, client, device, TypeOK
  <2>2. QED
    BY <2>1, KeepCurrent
<1>8. CASE Serve
  BY <1>8, ServeCurrent
<1>9. CASE UNCHANGED vars
  BY <1>9 DEF vars, client, device, Current
<1>10. QED
  BY <1>1, <1>2, <1>3, <1>4, <1>5, <1>6, <1>7, <1>8, <1>9 DEF Next

----------------------------------------------------------------------------
(* The frame last sent                                                     *)

\* The part of Shape that speaks of one request object.
ShapeOf(q) ==
  q.mid # NoMid =>
    /\ q.tx # Nil
    /\ q.frame.b2 = 0 => (q.frame.more <=> Blockwise(q) /\ q.tx < q.size)
    /\ q.frame.b2 = 0 => (q.size # Nil /\ ~Blockwise(q) => q.tx = q.size)
    /\ q.frame.b2 > 0 => ~q.frame.more /\ ~ReqNotDone(q)

\* A piece of the body, sent by an object that is q but for tx.
LEMMA BodyShape ==
  ASSUME NEW q \in ReqType, NEW m, SentAfter(q) \in Nat, NEW p,
         p.size = q.size, p.tx = SentAfter(q), p.frame = BodyFrame(q, m)
  PROVE  ShapeOf(p)
<1>1. /\ p.frame.b2 = 0
      /\ p.frame.more = (Blockwise(q) /\ SentAfter(q) < q.size)
  BY DEF BodyFrame
<1>2. p.tx # Nil
  BY DEF Nil
<1>3. q.size # Nil /\ ~Blockwise(q) => p.tx = q.size
  BY DEF SentAfter
<1>4. Blockwise(p) = Blockwise(q)
  BY DEF Blockwise
<1>5. p.frame.more <=> Blockwise(p) /\ p.tx < p.size
  BY <1>1, <1>4
<1>6. QED
  BY <1>1, <1>2, <1>3, <1>4, <1>5 DEF ShapeOf

\* A frame that reads on, sent by a request that is through.
LEMMA ReadShape ==
  ASSUME NEW q \in ReqType, NEW m, ~ReqNotDone(q), NEW p,
         p.size = q.size, p.tx = q.tx, p.ack = q.ack, p.frame = ReadFrame(q, m)
  PROVE  ShapeOf(p)
<1>1. ~p.frame.more
  BY DEF ReadFrame
<1>2. p.tx # Nil /\ ~ReqNotDone(p) /\ (p.size # Nil => p.tx = p.size)
  BY DEF ReqNotDone
<1>3. ~(Blockwise(p) /\ p.tx < p.size)
  BY <1>2, ConstantsAssumption DEF Blockwise, ReqType, Nil
<1>4. QED
  BY <1>1, <1>2, <1>3 DEF ShapeOf

LEMMA SameShape ==
  ASSUME NEW q, NEW p, ShapeOf(q), p.mid = q.mid, p.tx = q.tx, p.ack = q.ack,
         p.size = q.size, p.frame = q.frame
  PROVE  ShapeOf(p)
  BY DEF ShapeOf, Blockwise, ReqNotDone

LEMMA ProceedShape ==
  ASSUME TypeOK, pc = "wait", NEW q \in ReqType, q.rid = req.rid, ShapeOf(q), Proceed(q)
  PROVE  ShapeOf(req')
<1>1. CASE SendBody(q)
  <2>1. PICK m \in FreshMid, p \in ReqType :
          /\ p = [q EXCEPT !.tx = SentAfter(q)]
          /\ SentAfter(q) \in Nat
          /\ SendNew(p, BodyFrame(q, m))
    BY <1>1, BodySent
  <2>2. p.size = q.size /\ p.tx = SentAfter(q)
    BY <2>1 DEF ReqType
  <2>3. req'.size = q.size /\ req'.tx = SentAfter(q) /\ req'.frame = BodyFrame(q, m)
    BY <2>1, <2>2, SentFields
  <2>4. QED
    BY <2>1, <2>3, BodyShape
<1>2. CASE Crash(q)
  BY <1>2 DEF Crash
<1>3. CASE ReadOn(q)
  <2>1. PICK m \in FreshMid : ~ReqNotDone(q) /\ SendNew(q, ReadFrame(q, m))
    BY <1>3, ReadSent
  <2>2. /\ req'.size = q.size /\ req'.tx = q.tx /\ req'.ack = q.ack
        /\ req'.frame = ReadFrame(q, m)
    BY <2>1, SentFields
  <2>3. QED
    BY <2>1, <2>2, ReadShape
<1>4. CASE Done(q)
  BY <1>4, DoneFields DEF ShapeOf
<1>5. QED
  BY <1>1, <1>2, <1>3, <1>4 DEF Proceed

LEMMA ShapeStep ==
  ASSUME TypeOK, Shape, [Next]_vars
  PROVE  Shape'
<1>0. ShapeOf(req) /\ (ShapeOf(req') => Shape')
  BY DEF Shape, ShapeOf, Blockwise, ReqNotDone
<1>1. CASE Submit
  <2>1. PICK n \in ReqType, m \in FreshMid :
          /\ SentAfter(n) \in Nat
          /\ req' = [n EXCEPT !.tx = SentAfter(n), !.mid = m, !.frame = BodyFrame(n, m),
                              !.timer = TRUE]
    BY <1>1, SubmitType
  <2>2. req'.size = n.size /\ req'.tx = SentAfter(n) /\ req'.frame = BodyFrame(n, m)
    BY <2>1 DEF ReqType
  <2>3. QED
    BY <1>0, <2>1, <2>2, BodyShape
<1>2. CASE Rx
  <2> DEFINE r == Head(respQ)
             t == Take(req, r)
  <2>1. pc = "wait" /\ respQ \in Seq(Response) /\ respQ # <<>>
    BY <1>2 DEF Rx, TypeOK
  <2>2. r \in Response /\ req \in ReqType
    BY <2>1, HeadTail DEF TypeOK
  <2>3. t \in ReqType /\ t.rid = req.rid /\ t.mid = NoMid
    BY <2>2, TakeType, TakeFields
  <2>4. ShapeOf(t)
    BY <2>3 DEF ShapeOf
  <2>5. RxOther(r) \/ RxAnswer(r) \/ RxError(r)
    BY <1>2 DEF Rx
  <2>6. CASE RxOther(r)
    <3>1. CASE KeepWaiting(req)
      BY <1>0, <3>1 DEF KeepWaiting
    <3>2. CASE Expired(req)
      BY <1>0, <3>2, ExpiredFields, SameShape
    <3>3. CASE Proceed(req)
      BY <1>0, <2>1, <2>2, <3>3, ProceedShape
    <3>4. QED
      BY <2>6, <3>1, <3>2, <3>3 DEF RxOther
  <2>7. CASE RxAnswer(r)
    <3>1. Proceed(t)
      BY <2>7 DEF RxAnswer
    <3> HIDE DEF t
    <3>2. QED
      BY <1>0, <2>1, <2>3, <2>4, <3>1, ProceedShape
  <2>8. CASE RxError(r)
    <3>1. req' = t
      BY <2>8 DEF RxError
    <3> HIDE DEF t
    <3>2. QED
      BY <1>0, <2>4, <3>1
  <2>9. QED
    BY <2>5, <2>6, <2>7, <2>8
<1>3. CASE Timeout
  BY <1>0, <1>3, ExpiredFields, SameShape DEF Timeout
<1>4. CASE UNCHANGED req
  BY <1>0, <1>4
<1>5. QED
  BY <1>1, <1>2, <1>3, <1>4
     DEF Next, EndPoll, Return, LoseRequest, LoseResponse, Serve, client, vars

----------------------------------------------------------------------------
(* The payload collected                                                   *)

\* The part of Progress that speaks of one request object.
Counted(q) == InOrder(q) /\ (q.mid # NoMid => Len(q.rx) = q.frame.b2)
Resting(q) == q.mid = NoMid => ~ReqNotDone(q) /\ ~q.more

LEMMA ProgressParts ==
  /\ Progress <=> (~refused => /\ Counted(req)
                               /\ pc = "wait" => Ready(req) /\ Resting(req))
  /\ Progress' <=> (~refused' => /\ Counted(req')
                                 /\ pc' = "wait" => Ready(req') /\ Resting(req'))
  BY DEF Progress, Counted, Resting, Ready, InOrder, ReqNotDone, SliceLen, BodySize,
         Blockwise, Start

\* These are about the fields that a retransmission or a timer leaves alone.
LEMMA SameCounted ==
  ASSUME NEW q, NEW p, p.rid = q.rid, p.size = q.size, p.tx = q.tx, p.ack = q.ack,
         p.more = q.more, p.num = q.num, p.rx = q.rx
  PROVE  /\ InOrder(p) <=> InOrder(q)
         /\ Ready(p) <=> Ready(q)
         /\ p.mid = q.mid /\ p.frame = q.frame =>
              (Counted(p) <=> Counted(q)) /\ (Resting(p) <=> Resting(q))
<1>1. InOrder(p) <=> InOrder(q)
  BY DEF InOrder
<1>2. ReqNotDone(p) <=> ReqNotDone(q)
  BY DEF ReqNotDone
<1>3. SliceLen(p) = SliceLen(q)
  BY DEF SliceLen, BodySize, Blockwise, Start
<1>4. QED
  BY <1>1, <1>2, <1>3 DEF Ready, Counted, Resting

\* A request object that is ready stays so when it sends its next frame.
LEMMA ProceedProgress ==
  ASSUME TypeOK, pc = "wait", NEW q \in ReqType, q.rid = req.rid,
         Counted(q), Ready(q), Proceed(q)
  PROVE  /\ Counted(req')
         /\ pc' = "wait" => Ready(req') /\ Resting(req')
<1>1. CASE SendBody(q)
  <2>1. PICK m \in FreshMid, p \in ReqType :
          /\ ReqNotDone(q) /\ SliceLen(q) # Nil
          /\ p = [q EXCEPT !.tx = SentAfter(q)]
          /\ BodyFrame(q, m) \in Request
          /\ SendNew(p, BodyFrame(q, m))
    BY <1>1, BodySent
  <2>2. /\ p.rid = q.rid /\ p.rx = q.rx /\ p.more = q.more
        /\ BodyFrame(q, m).b2 = 0 /\ BodyFrame(q, m).mid = m
    BY <2>1 DEF BodyFrame, ReqType
  <2>3. /\ req'.rid = q.rid /\ req'.rx = q.rx /\ req'.more = q.more
        /\ req'.frame.b2 = 0 /\ req'.mid = m
    BY <2>1, <2>2, SentFields
  <2>4. q.rx = <<>> /\ ~q.more
    BY <2>1 DEF Ready, InOrder
  <2>5. Counted(req') /\ Ready(req')
    BY <2>3, <2>4 DEF Counted, InOrder, Ready
  <2>6. Resting(req')
    BY <2>3, FreshFacts DEF Resting
  <2>7. QED
    BY <2>5, <2>6
<1>2. CASE Crash(q)
  BY <1>2 DEF Crash
<1>3. CASE ReadOn(q)
  <2>1. PICK m \in FreshMid :
          ~ReqNotDone(q) /\ q.more /\ SendNew(q, ReadFrame(q, m))
    BY <1>3, ReadSent
  <2>2. ReadFrame(q, m).b2 = q.num + 1 /\ ReadFrame(q, m).mid = m
    BY DEF ReadFrame
  <2>3. /\ req'.rid = q.rid /\ req'.size = q.size /\ req'.tx = q.tx /\ req'.ack = q.ack
        /\ req'.more = q.more /\ req'.num = q.num /\ req'.rx = q.rx
        /\ req'.mid = m /\ req'.frame.b2 = q.num + 1
    BY <2>1, <2>2, SentFields
  <2>4. InOrder(req') /\ Ready(req')
    BY <2>3, SameCounted DEF Ready
  <2>5. Len(req'.rx) = req'.frame.b2
    BY <2>1, <2>3 DEF Ready
  <2>6. Resting(req')
    BY <2>3, FreshFacts DEF Resting
  <2>7. QED
    BY <2>4, <2>5, <2>6 DEF Counted
<1>4. CASE Done(q)
  <2>1. /\ req'.rid = q.rid /\ req'.size = q.size /\ req'.tx = q.tx /\ req'.ack = q.ack
        /\ req'.more = q.more /\ req'.num = q.num /\ req'.rx = q.rx
        /\ req'.mid = NoMid /\ ~ReqNotDone(q) /\ ~q.more
    BY <1>4, DoneFields
  <2>2. InOrder(req') /\ Ready(req')
    BY <2>1, SameCounted DEF Ready
  <2>3. Resting(req')
    BY <2>1 DEF Resting, ReqNotDone
  <2>4. QED
    BY <2>1, <2>2, <2>3 DEF Counted
<1>5. QED
  BY <1>1, <1>2, <1>3, <1>4 DEF Proceed

\* Taking the answer to the frame last sent makes a request object ready.
LEMMA TakeProgress ==
  ASSUME TypeOK, Current, Shape, Progress, ~refused, req.mid # NoMid,
         NEW r \in Response, r.class = 2, Fits(r, req.frame)
  PROVE  Counted(Take(req, r)) /\ Ready(Take(req, r))
<1> DEFINE t == Take(req, r)
<1>0. req \in ReqType /\ req.rx \in Seq(Block) /\ req.frame \in Request
      /\ req.tx \in Nat \cup {Nil} /\ req.size \in Nat \cup {Nil}
  BY DEF TypeOK, ReqType, Current
<1>1. /\ t.rid = req.rid /\ t.size = req.size /\ t.tx = req.tx /\ t.mid = NoMid
      /\ t.more = r.more /\ t.rx = req.rx \o r.data
      /\ t.ack = (IF r.ack /\ r.class = 2 THEN req.tx ELSE req.ack)
      /\ t.num = (IF r.more THEN r.num ELSE req.num)
  BY <1>0, TakeFields
<1> HIDE DEF t
<1>2. /\ r.ack /\ r.num = req.frame.b2 /\ req.frame.rid = req.rid
      /\ r.data \in {<<>>, <<BodyBlock(req.rid, req.frame.b2)>>}
      /\ r.more => r.data # <<>>
      /\ r.data # <<>> => ~req.frame.more
  BY DEF Fits, Current
<1>3. t.ack = req.tx
  BY <1>1, <1>2
<1>4. InOrder(req) /\ Len(req.rx) = req.frame.b2
  BY DEF Progress
<1>5. r.data = <<>> => t.rx = req.rx
  BY <1>0, <1>1
<1>6. r.data # <<>> => /\ t.rx = req.rx \o <<BodyBlock(req.rid, req.frame.b2)>>
                       /\ t.rx # <<>> /\ Len(t.rx) = req.frame.b2 + 1
  <2> DEFINE x == BodyBlock(req.rid, req.frame.b2)
  <2> SUFFICES ASSUME r.data # <<>>
               PROVE  t.rx = req.rx \o <<x>> /\ t.rx # <<>> /\ Len(t.rx) = req.frame.b2 + 1
    OBVIOUS
  <2>1. r.data = <<x>> /\ t.rx = req.rx \o <<x>>
    BY <1>1, <1>2
  <2>2. x \in Block
    BY <1>0, <1>2 DEF BodyBlock, Block, Request
  <2> HIDE DEF x
  <2>3. Len(t.rx) = Len(req.rx) + 1
    BY <1>0, <2>1, <2>2, AppendOne
  <2>4. t.rx # <<>>
    BY <1>0, <2>1, <2>2
  <2>5. QED
    BY <1>4, <2>1, <2>3, <2>4
<1>7. InOrder(t)
  <2>1. t.more => t.rx # <<>>
    BY <1>1, <1>2, <1>6
  <2>2. \A i \in 1 .. Len(t.rx) : t.rx[i] = BodyBlock(t.rid, i - 1)
    <3>1. CASE r.data = <<>>
      BY <1>1, <1>4, <1>5, <3>1 DEF InOrder
    <3>2. CASE r.data # <<>>
      <4> SUFFICES ASSUME NEW i \in 1 .. Len(t.rx) PROVE t.rx[i] = BodyBlock(req.rid, i - 1)
        BY <1>1
      <4>1. CASE i = Len(req.rx) + 1
        BY <1>0, <1>4, <1>6, <3>2, <4>1
      <4>2. CASE i \in 1 .. Len(req.rx)
        BY <1>0, <1>4, <1>6, <3>2, <4>2 DEF InOrder
      <4>3. QED
        BY <1>0, <1>4, <1>6, <3>2, <4>1, <4>2
    <3>3. QED
      BY <3>1, <3>2
  <2>3. QED
    BY <2>1, <2>2 DEF InOrder
<1>8. ASSUME ReqNotDone(t)
      PROVE  t.rx = <<>> \/ SliceLen(t) = Nil
  <2>1. req.size # Nil /\ req.tx # req.size /\ req.tx # Nil
    BY <1>1, <1>3, <1>8 DEF ReqNotDone, Shape
  <2>2. req.frame.b2 = 0
    <3>1. ~(req.frame.b2 > 0)
      BY <2>1 DEF Shape, ReqNotDone
    <3>2. QED
      BY <1>0, <3>1 DEF Request
  <2>3. Blockwise(req) /\ (req.frame.more <=> req.tx < req.size)
    BY <2>1, <2>2 DEF Shape
  <2>4. CASE req.tx < req.size
    <3>1. r.data = <<>>
      BY <1>2, <2>3, <2>4
    <3>2. QED
      BY <1>0, <1>4, <1>5, <2>2, <3>1
  <2>5. CASE ~(req.tx < req.size)
    <3>1. Start(t) = req.tx /\ BodySize(t) = req.size
      BY <1>1, <1>3, <2>1, <2>3 DEF Start, BodySize, Blockwise
    <3>2. QED
      BY <1>0, <2>1, <2>5, <3>1 DEF SliceLen, Nil
  <2>6. QED
    BY <2>4, <2>5
<1>9. ASSUME t.more
      PROVE  t.num + 1 = Len(t.rx)
  <2>1. r.more /\ t.num = r.num
    BY <1>1, <1>9
  <2>2. r.data # <<>>
    BY <1>2, <2>1
  <2>3. QED
    BY <1>2, <1>6, <2>1, <2>2
<1>10. QED
  BY <1>1, <1>7, <1>8, <1>9 DEF Counted, Ready, t

LEMMA RxProgress ==
  ASSUME TypeOK, Current, Shape, Progress, Rx
  PROVE  Progress'
<1> DEFINE r == Head(respQ)
           t == Take(req, r)
<1>1. pc = "wait" /\ respQ \in Seq(Response) /\ respQ # <<>>
  BY DEF Rx, TypeOK
<1>2. /\ r \in Response /\ r = respQ[1] /\ 1 \in 1 .. Len(respQ)
      /\ req \in ReqType
  BY <1>1, HeadTail DEF TypeOK
<1>3. t \in ReqType /\ t.rid = req.rid
  BY <1>2, TakeType, TakeFields
<1>4. RxOther(r) \/ RxAnswer(r) \/ RxError(r)
  BY DEF Rx
<1> HIDE DEF r
<1> SUFFICES ASSUME ~refused'
             PROVE  Counted(req') /\ (pc' = "wait" => Ready(req') /\ Resting(req'))
  BY ProgressParts
<1>5. CASE RxOther(r)
  <2>1. ~refused
    BY <1>5 DEF RxOther
  <2>2. Counted(req) /\ Ready(req) /\ Resting(req)
    BY <1>1, <2>1, ProgressParts
  <2>3. CASE KeepWaiting(req)
    BY <2>2, <2>3 DEF KeepWaiting
  <2>4. CASE Expired(req)
    BY <2>2, <2>4, ExpiredFields, SameCounted
  <2>5. CASE Proceed(req)
    BY <1>1, <1>2, <2>2, <2>5, ProceedProgress
  <2>6. QED
    BY <1>5, <2>3, <2>4, <2>5 DEF RxOther
<1>6. CASE RxAnswer(r)
  <2>1. ~refused /\ r.class = 2 /\ Proceed(t)
    BY <1>6 DEF RxAnswer
  <2>2. req.mid # NoMid /\ r.mid = req.mid
    BY <1>6 DEF RxAnswer, Matches
  <2>3. Fits(r, req.frame)
    BY <1>2, <2>2 DEF Current
  <2>4. Counted(t) /\ Ready(t)
    BY <1>2, <2>1, <2>2, <2>3, TakeProgress
  <2> HIDE DEF t
  <2>5. QED
    BY <1>1, <1>3, <2>1, <2>4, ProceedProgress
<1>7. CASE RxError(r)
  BY <1>7 DEF RxError
<1>8. QED
  BY <1>4, <1>5, <1>6, <1>7

LEMMA ProgressStep ==
  ASSUME TypeOK, Current, Shape, Progress, [Next]_vars
  PROVE  Progress'
<1>1. CASE Submit
  <2>1. PICK n \in ReqType, m \in FreshMid :
          /\ NewFacts(n, req.rid + 1, n.size)
          /\ SentAfter(n) \in Nat
          /\ req' = [n EXCEPT !.tx = SentAfter(n), !.mid = m, !.frame = BodyFrame(n, m),
                              !.timer = TRUE]
    BY <1>1, SubmitType
  <2>2. /\ req'.rx = <<>> /\ req'.more = FALSE /\ req'.mid = m
        /\ req'.frame = BodyFrame(n, m) /\ BodyFrame(n, m).b2 = 0
    BY <2>1 DEF NewFacts, BodyFrame, ReqType
  <2>3. Counted(req') /\ Ready(req')
    BY <2>2 DEF Counted, InOrder, Ready
  <2>4. Resting(req')
    BY <2>2, FreshFacts DEF Resting
  <2>5. QED
    BY <2>3, <2>4, ProgressParts
<1>2. CASE Rx
  BY <1>2, RxProgress
<1>3. CASE Timeout
  <2>1. UNCHANGED <<pc, refused>> /\ Expired(req)
    BY <1>3, ExpiredFields DEF Timeout
  <2>2. QED
    BY <2>1, ExpiredFields, SameCounted, ProgressParts
<1>4. CASE Return
  BY <1>4 DEF Return, Progress
<1>5. CASE UNCHANGED <<req, pc, refused>>
  BY <1>5 DEF Progress
<1>6. QED
  BY <1>1, <1>2, <1>3, <1>4, <1>5
     DEF Next, EndPoll, LoseRequest, LoseResponse, Serve, client, vars

LEMMA IInvInit == Init => IInv
<1> SUFFICES ASSUME Init PROVE IInv
  OBVIOUS
<1>1. TypeOK
  BY InitType
<1>2. /\ req.mid = NoMid /\ req.timer = FALSE /\ req.rx = <<>> /\ req.more = FALSE
      /\ pc = "idle"
  BY DEF Init, NewReq
<1>3. Current /\ Shape /\ Progress
  BY <1>2 DEF Current, Shape, Progress, InOrder
<1>4. QED
  BY <1>1, <1>3 DEF IInv

LEMMA IInvStep ==
  ASSUME IInv, [Next]_vars
  PROVE  IInv'
BY TypeStep, CurrentStep, ShapeStep, ProgressStep DEF IInv

\* The inductive invariant.
LEMMA IInvCorrect == Spec => []IInv
<1>1. Init => IInv
  BY IInvInit
<1>2. IInv /\ [Next]_vars => IInv'
  BY IInvStep
<1>3. QED
  BY <1>1, <1>2, PTL DEF Spec

\* For every size of block, body and response, and whatever is lost, late or
\* sent again: the payload a request has collected in payload_rx (coap.rb:77)
\* is its response, in order, from the first block on.
THEOREM PayloadOrdered == Spec => []PayloadInOrder
<1>1. IInv => PayloadInOrder
  BY DEF IInv, Progress, InOrder, PayloadInOrder
<1>2. QED
  BY <1>1, IInvCorrect, PTL
=============================================================================
