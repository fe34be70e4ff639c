-------------------------- MODULE CoapDeviceProofs --------------------------
(***************************************************************************)
(* Further proofs about CoapReq: what a request that succeeded has done at *)
(* the device (SuccessIsWhole), that the device executes the user's body   *)
(* and no other (BodyIntact), and that client, link and device together    *)
(* implement ConfirmableCall (CallImplemented).                            *)
(*                                                                         *)
(* Both rest on the link being FIFO: copies of a frame are together, and   *)
(* when the device meets a new frame none of an earlier one is behind it   *)
(* (InTurn), so that the answer the request waits for is the last thing    *)
(* the device did (Latest).  Then what the client has counted of the body  *)
(* is what the device has collected of it (Counts, AtDevice).              *)
(***************************************************************************)
EXTENDS CoapReqProofs, FiniteSetTheorems

\* A request that has not come to an end, in one way or another.
Live == pc = "wait" /\ ~over

Aligned(n) == \E k \in Nat : n = k * BlockSize

\* Where the request stands: it has a timer until it ends, and again when it was
\* started over.
Standing ==
  /\ req.timer => pc = "wait" /\ (over => again[req.rid] > 0)
  /\ Live => req.timer /\ again[req.rid] = 0 /\ ~gaveUp
  /\ pc = "idle" /\ req.rid > 0 => over
  /\ \A r \in Rid : r > req.rid => again[r] = 0
  /\ \A i \in 1 .. Len(reqQ) : reqQ[i].rid <= req.rid
  /\ srv.rid <= req.rid

\* Frames that are served come first, copies of a frame are together, and a
\* request that is not started over has at most one frame that is not served.
InTurn ==
  \A i, j \in 1 .. Len(reqQ) : i < j =>
    /\ reqQ[j].mid = srv.mid => reqQ[i].mid = srv.mid
    /\ \A k \in 1 .. Len(reqQ) :
         i < k /\ k < j /\ reqQ[i].mid = reqQ[j].mid => reqQ[k].mid = reqQ[i].mid
    /\ reqQ[i].rid = reqQ[j].rid /\ again[reqQ[i].rid] = 0 /\ reqQ[i].mid # srv.mid =>
         reqQ[i] = reqQ[j]

\* The frame last sent is the last that the device will meet or has met.
Latest ==
  req.mid # NoMid =>
    /\ \A i \in 1 .. Len(respQ) :
         respQ[i].mid = req.mid => srv.mid = req.mid /\ respQ[i] = srv.resp
    /\ srv.mid = req.mid => \A i \in 1 .. Len(reqQ) : reqQ[i].mid = req.mid
    /\ \A i, j \in 1 .. Len(reqQ) : i < j /\ reqQ[i].mid = req.mid => reqQ[j].mid = req.mid
    /\ Live => \A i \in 1 .. Len(reqQ) :
                 reqQ[i].rid = req.rid /\ reqQ[i].mid # srv.mid => reqQ[i].mid = req.mid

\* A frame carries the piece of body that its block number says, or one before it,
\* which the device does not take.
Piece(f) ==
  f.b2 = 0 =>
    /\ f.b1 = Nil => f.from = 0 /\ f.len = BodySize(f) /\ ~f.more
    /\ f.b1 # Nil => /\ f.from <= f.b1 * BlockSize
                     /\ f.from = f.b1 * BlockSize /\ ~f.more => f.from + f.len = BodySize(f)

Ahead(f) == f.b2 = 0 /\ f.rid = srv.rid => srv.len <= f.from

Bodies ==
  /\ \A i \in 1 .. Len(reqQ) : again[reqQ[i].rid] = 0 =>
       Piece(reqQ[i]) /\ (reqQ[i].mid # srv.mid => Ahead(reqQ[i]))
  /\ Live => Piece(req.frame)
  /\ srv.rid \in Rid /\ again[srv.rid] = 0 => srv.intact
  /\ \A r \in corrupt : again[r] > 0

\* The numbers of a request object that sends its body in blocks.
Numbers(q, f) ==
  /\ Aligned(f.from)
  /\ f.from < q.size /\ f.from <= q.tx
  /\ f.len = BlockSize \/ f.from + f.len = q.size
  /\ f.from + f.len <= q.size
  /\ Aligned(q.tx) \/ q.tx >= q.size
  /\ q.tx <= q.size => q.tx = f.b1 * BlockSize + f.len

\* Body and counters of the client.
Counts ==
  /\ Live /\ req.frame.b2 = 0 =>
       /\ req.frame.from = Start(req)
       /\ req.frame.b1 # Nil <=> Blockwise(req)
       /\ Blockwise(req) => Numbers(req, req.frame)
  /\ ~refused /\ pc = "wait" /\ again[req.rid] = 0 /\ Blockwise(req) =>
       req.tx <= req.size /\ Start(req) <= req.size
  /\ pc = "crashed" => refused \/ again[req.rid] > 0

Answered == srv.mid = req.mid /\ srv.resp.class = 2

\* What the device has of the request that is under way, and of one that ended well.
BodyAtDevice ==
  Live /\ req.frame.b2 = 0 =>
    /\ ~Answered => Ahead(req.frame)
    /\ Answered =>
         /\ srv.rid = req.rid
         /\ srv.len = req.frame.from + req.frame.len
         /\ req.frame.b1 # Nil => req.frame.from = req.frame.b1 * BlockSize
         /\ ~req.frame.more => /\ runs[req.rid] > 0
                               /\ srv.resp.more <=> srv.blocks > 1
                               /\ Len(srv.resp.data) = IF srv.blocks = 0 THEN 0 ELSE 1

ResultAtDevice ==
  Live /\ req.frame.b2 > 0 =>
    /\ srv.rid = req.rid /\ runs[req.rid] > 0 /\ req.frame.b2 < srv.blocks
    /\ \A i \in 1 .. Len(reqQ) : reqQ[i].mid \in {srv.mid, req.mid}
    /\ Answered => /\ Len(srv.resp.data) = 1
                   /\ srv.resp.more <=> req.frame.b2 + 1 < srv.blocks

Succeeded ==
  over /\ ~refused /\ ~gaveUp =>
    /\ req.class = 2 /\ runs[req.rid] > 0 /\ srv.rid = req.rid /\ Len(req.rx) = srv.blocks
    /\ \A i \in 1 .. Len(reqQ) : reqQ[i].mid = srv.mid
    /\ ~ReqNotDone(req) /\ ~req.more /\ req.mid = NoMid

ResetIsBare == srv.resp.class = 0 => ~srv.resp.more

AtDevice == BodyAtDevice /\ ResultAtDevice /\ Succeeded /\ ResetIsBare

DInv == IInv /\ Standing /\ InTurn /\ Latest /\ Bodies /\ Counts /\ AtDevice

----------------------------------------------------------------------------
(* The kinds of steps                                                      *)

\* The queue q loses its head, or nothing.
Shorter(p, q) == p = q \/ (q # <<>> /\ p = Tail(q))

\* The frame f joins the link, or is lost.
Joins(f) ==
  \/ reqQ' = reqQ
  \/ /\ Len(reqQ') = Len(reqQ) + 1
     /\ reqQ'[Len(reqQ) + 1] = f
     /\ \A i \in 1 .. Len(reqQ) : reqQ'[i] = reqQ[i]

\* Retransmission and waiting leave a request object as it is in all but its
\* timer and its count.
Alike(p, q) ==
  /\ p.rid = q.rid /\ p.size = q.size /\ p.tx = q.tx /\ p.ack = q.ack /\ p.mid = q.mid
  /\ p.frame = q.frame /\ p.class = q.class /\ p.more = q.more /\ p.rx = q.rx

Quiet ==
  /\ UNCHANGED <<over, gaveUp, refused, again, device>>
  /\ Alike(req', req) /\ req'.timer = req.timer
  /\ Shorter(reqQ', reqQ) /\ Shorter(respQ', respQ)
  /\ pc' = pc \/ (pc = "wait" /\ pc' = "idle" /\ ~req.timer)

Resends ==
  /\ pc = "wait" /\ req.timer
  /\ UNCHANGED <<pc, over, gaveUp, refused, again, device>>
  /\ Alike(req', req) /\ req'.timer
  /\ Joins(req.frame) /\ Shorter(respQ', respQ)

Stops ==
  /\ pc = "wait" /\ req.timer
  /\ UNCHANGED <<pc, refused, again, device, reqQ>>
  /\ Alike(req', req) /\ ~req'.timer
  /\ over' /\ gaveUp'
  /\ Shorter(respQ', respQ)

\* r is the answer waited for, at the head of the link.
Arrives(r) ==
  /\ r \in Response
  /\ req.mid # NoMid /\ r.mid = req.mid
  /\ 1 \in 1 .. Len(respQ) /\ r = respQ[1]

\* The request object with which next_step builds a frame.
Origin(q) ==
  \/ q = req /\ ~req.timer /\ refused' = refused
  \/ \E r : /\ Arrives(r) /\ r.class # 4 /\ q = Take(req, r)
            /\ refused' = (refused \/ r.class # 2)

Moves(q) ==
  /\ pc = "wait" /\ Origin(q) /\ Proceed(q)
  /\ UNCHANGED device /\ Shorter(respQ', respQ)

Fails ==
  /\ pc = "wait" /\ UNCHANGED <<pc, gaveUp, again, reqQ, device>>
  /\ over' /\ refused' /\ Shorter(respQ', respQ)
  /\ req'.rid = req.rid /\ req'.mid = NoMid /\ ~req'.timer

LEMMA AlikeSelf == Alike(req, req)
  BY DEF Alike

LEMMA TransmitJoins ==
  ASSUME NEW f \in Request, reqQ \in Seq(Request), Len(reqQ) <= LinkCap, Transmit(<<f>>)
  PROVE  Joins(f)
<1>1. Len(<<f>>) = 1
  OBVIOUS
<1>2. CASE Len(reqQ) + 1 <= LinkCap
  <2>1. reqQ' = reqQ \o <<f>>
    BY <1>1, <1>2 DEF Transmit
  <2>2. QED
    BY <2>1, AppendOne DEF Joins
<1>3. CASE ~(Len(reqQ) + 1 <= LinkCap)
  BY <1>1, <1>3 DEF Transmit, Joins
<1>4. QED
  BY <1>2, <1>3

LEMMA ExpiredKinds ==
  ASSUME TypeOK, pc = "wait", Expired(req), UNCHANGED <<refused, device>>,
         Shorter(respQ', respQ)
  PROVE  Resends \/ Stops
<1>0. req \in ReqType
  BY DEF TypeOK
<1>1. CASE Retransmit(req)
  <2>1. req' = [req EXCEPT !.retry = @ + 1] /\ req.timer /\ Transmit(<<req.frame>>)
        /\ UNCHANGED <<pc, over, gaveUp, again>>
    BY <1>1 DEF Retransmit
  <2>2. Alike(req', req) /\ req'.timer
    BY <1>0, <2>1 DEF Alike, ReqType
  <2>3. Joins(req.frame)
    BY <2>1, TransmitJoins DEF TypeOK
  <2>4. QED
    BY <2>1, <2>2, <2>3 DEF Resends
<1>2. CASE GiveUp(req)
  <2>1. req' = [req EXCEPT !.timer = FALSE] /\ req.timer /\ over' /\ gaveUp'
        /\ UNCHANGED <<pc, again, reqQ>>
    BY <1>2 DEF GiveUp
  <2>2. Alike(req', req) /\ ~req'.timer
    BY <1>0, <2>1 DEF Alike, ReqType
  <2>3. QED
    BY <2>1, <2>2 DEF Stops
<1>3. QED
  BY <1>1, <1>2 DEF Expired

LEMMA RxKinds ==
  ASSUME TypeOK, Rx
  PROVE  Quiet \/ Resends \/ Stops \/ Fails \/ \E q \in ReqType : q.rid = req.rid /\ Moves(q)
<1> DEFINE r == Head(respQ)
           t == Take(req, r)
<1>1. /\ respQ \in Seq(Response) /\ respQ # <<>> /\ respQ' = Tail(respQ) /\ pc = "wait"
      /\ UNCHANGED device /\ Shorter(respQ', respQ)
  BY DEF Rx, TypeOK, Shorter
<1>2. r \in Response /\ 1 \in 1 .. Len(respQ) /\ r = respQ[1]
  BY <1>1, HeadTail
<1>3. req \in ReqType /\ t \in ReqType /\ t.rid = req.rid /\ t.mid = NoMid /\ ~t.timer
  BY <1>2, TakeType, TakeFields DEF TypeOK
<1>4. RxOther(r) \/ RxAnswer(r) \/ RxError(r)
  BY DEF Rx
<1>5. Matches(req, r) => Arrives(r)
  BY <1>2 DEF Matches, Arrives
<1> HIDE DEF r
<1>6. CASE RxOther(r)
  <2>0. UNCHANGED refused
    BY <1>6 DEF RxOther
  <2>1. CASE KeepWaiting(req)
    <3>1. UNCHANGED <<req, pc, over, gaveUp, again, reqQ>>
      BY <2>1 DEF KeepWaiting
    <3>2. Alike(req', req) /\ req'.timer = req.timer /\ Shorter(reqQ', reqQ)
      BY <3>1 DEF Alike, Shorter
    <3>3. QED
      BY <1>1, <2>0, <3>1, <3>2 DEF Quiet
  <2>2. CASE Expired(req)
    BY <1>1, <2>0, <2>2, ExpiredKinds
  <2>3. CASE Proceed(req)
    <3>1. ~req.timer
      BY <2>3 DEF Proceed, SendBody, Crash, ReadOn, Done
    <3>2. Moves(req)
      BY <1>1, <2>0, <2>3, <3>1 DEF Moves, Origin
    <3>3. QED
      BY <1>3, <3>2
  <2>4. QED
    BY <1>6, <2>1, <2>2, <2>3 DEF RxOther
<1>7. CASE RxAnswer(r)
  <2>1. Proceed(t) /\ refused' = (refused \/ r.class # 2) /\ Arrives(r) /\ r.class # 4
    BY <1>5, <1>7 DEF RxAnswer
  <2>2. Origin(t)
    BY <2>1 DEF Origin
  <2> HIDE DEF t
  <2>3. QED
    BY <1>1, <1>3, <2>1, <2>2 DEF Moves
<1>8. CASE RxError(r)
  <2>1. req' = t /\ over' /\ refused' /\ UNCHANGED <<pc, gaveUp, again, reqQ>>
    BY <1>8 DEF RxError
  <2> HIDE DEF t
  <2>2. QED
    BY <1>1, <1>3, <2>1 DEF Fails
<1>9. QED
  BY <1>4, <1>6, <1>7, <1>8

LEMMA Kinds ==
  ASSUME TypeOK, [Next]_vars
  PROVE  \/ Submit \/ Quiet \/ Resends \/ Stops \/ Fails \/ Serve
         \/ \E q \in ReqType : q.rid = req.rid /\ Moves(q)
<1>0. Alike(req, req) /\ Shorter(reqQ, reqQ) /\ Shorter(respQ, respQ)
  BY AlikeSelf DEF Shorter
<1>1. CASE Rx
  BY <1>1, RxKinds
<1>2. CASE Timeout
  BY <1>0, <1>2, ExpiredKinds DEF Timeout
<1>3. CASE EndPoll
  BY <1>0, <1>3 DEF EndPoll, Quiet
<1>4. CASE Return
  BY <1>0, <1>4 DEF Return, Quiet
<1>5. CASE LoseRequest
  BY <1>0, <1>5 DEF LoseRequest, Quiet, client, Shorter
<1>6. CASE LoseResponse
  BY <1>0, <1>6 DEF LoseResponse, Quiet, client, Shorter
<1>7. CASE UNCHANGED vars
  BY <1>0, <1>7 DEF vars, client, Quiet
<1>8. QED
  BY <1>1, <1>2, <1>3, <1>4, <1>5, <1>6, <1>7 DEF Next

----------------------------------------------------------------------------
(* What a step sends                                                       *)

\* next_step, with the request object q, builds the frame f.
NewFrame(q, f) ==
  /\ f \in Request /\ f.mid \in FreshMid /\ f.rid = q.rid /\ Joins(f)
  /\ req'.rid = q.rid /\ req'.size = q.size /\ req'.ack = q.ack
  /\ req'.mid = f.mid /\ req'.frame = f /\ req'.timer
  /\ again' = (IF over THEN [again EXCEPT ![q.rid] = @ + 1] ELSE again)
  /\ UNCHANGED <<pc, over, gaveUp>>
SendsBody(q, f) ==
  /\ ReqNotDone(q) /\ SliceLen(q) # Nil /\ SentAfter(q) \in Nat
  /\ f = BodyFrame(q, f.mid) /\ req'.tx = SentAfter(q)
SendsRead(q, f) ==
  ~ReqNotDone(q) /\ q.more /\ f = ReadFrame(q, f.mid) /\ req'.tx = q.tx
Crashes(q) ==
  /\ ReqNotDone(q) /\ SliceLen(q) = Nil /\ req' = q /\ ~q.timer /\ pc' = "crashed"
  /\ UNCHANGED <<over, gaveUp, again, reqQ>>
Ends(q) ==
  /\ ~ReqNotDone(q) /\ ~q.more /\ ~req'.timer /\ over'
  /\ req'.rid = q.rid /\ req'.size = q.size /\ req'.tx = q.tx /\ req'.ack = q.ack
  /\ req'.more = q.more /\ req'.rx = q.rx /\ req'.class = q.class /\ req'.mid = NoMid
  /\ UNCHANGED <<pc, gaveUp, again, reqQ>>

LEMMA Builds ==
  ASSUME TypeOK, NEW q \in ReqType, q.rid = req.rid, Moves(q)
  PROVE  \/ \E f \in Request : NewFrame(q, f) /\ (SendsBody(q, f) \/ SendsRead(q, f))
         \/ Crashes(q)
         \/ Ends(q)
<1>0. Proceed(q) /\ pc = "wait" /\ reqQ \in Seq(Request) /\ Len(reqQ) <= LinkCap
  BY DEF Moves, TypeOK
<1>1. CASE SendBody(q)
  <2>1. PICK m \in FreshMid, p \in ReqType :
          /\ ReqNotDone(q) /\ SliceLen(q) # Nil
          /\ p = [q EXCEPT !.tx = SentAfter(q)]
          /\ SentAfter(q) \in Nat
          /\ BodyFrame(q, m) \in Request
          /\ SendNew(p, BodyFrame(q, m))
    BY <1>0, <1>1, BodySent
  <2> DEFINE f == BodyFrame(q, m)
  <2>2. f.mid = m /\ f.rid = q.rid
    BY DEF BodyFrame
  <2>3. p.rid = q.rid /\ p.size = q.size /\ p.ack = q.ack /\ p.tx = SentAfter(q)
    BY <2>1 DEF ReqType
  <2> HIDE DEF f
  <2>4. /\ req' = [p EXCEPT !.mid = f.mid, !.frame = f, !.timer = TRUE, !.retry = 0]
        /\ again' = (IF over THEN [again EXCEPT ![q.rid] = @ + 1] ELSE again)
        /\ UNCHANGED <<pc, over, gaveUp>> /\ Transmit(<<f>>)
    <3>1. SendNew(p, f)
      BY <2>1 DEF f
    <3>2. /\ req' = [p EXCEPT !.mid = f.mid, !.frame = f, !.timer = TRUE, !.retry = 0]
          /\ again' = (IF over THEN [again EXCEPT ![p.rid] = @ + 1] ELSE again)
          /\ UNCHANGED <<pc, over, gaveUp>> /\ Transmit(<<f>>)
      BY <3>1 DEF SendNew
    <3>3. QED
      BY <2>3, <3>2
  <2>5. /\ req'.rid = q.rid /\ req'.size = q.size /\ req'.ack = q.ack
        /\ req'.mid = f.mid /\ req'.frame = f /\ req'.timer /\ req'.tx = SentAfter(q)
    BY <2>1, <2>3, <2>4 DEF ReqType
  <2>6. Joins(f) /\ f \in Request
    BY <1>0, <2>1, <2>4, TransmitJoins DEF f
  <2>7. NewFrame(q, f)
    BY <2>2, <2>4, <2>5, <2>6 DEF NewFrame
  <2>8. f = BodyFrame(q, f.mid)
    BY <2>2 DEF f
  <2>9. SendsBody(q, f)
    BY <2>1, <2>5, <2>8 DEF SendsBody
  <2>10. QED
    BY <2>6, <2>7, <2>9
<1>2. CASE Crash(q)
  BY <1>2 DEF Crash, Crashes
<1>3. CASE ReadOn(q)
  <2>1. PICK m \in FreshMid :
          /\ ~ReqNotDone(q) /\ q.more
          /\ ReadFrame(q, m) \in Request
          /\ SendNew(q, ReadFrame(q, m))
    BY <1>0, <1>3, ReadSent
  <2> DEFINE f == ReadFrame(q, m)
  <2>2. f.mid = m /\ f.rid = q.rid
    BY DEF ReadFrame
  <2> HIDE DEF f
  <2>3. /\ req' = [q EXCEPT !.mid = f.mid, !.frame = f, !.timer = TRUE, !.retry = 0]
        /\ again' = (IF over THEN [again EXCEPT ![q.rid] = @ + 1] ELSE again)
        /\ UNCHANGED <<pc, over, gaveUp>> /\ Transmit(<<f>>)
    BY <2>1 DEF SendNew, f
  <2>4. /\ req'.rid = q.rid /\ req'.size = q.size /\ req'.ack = q.ack
        /\ req'.mid = f.mid /\ req'.frame = f /\ req'.timer /\ req'.tx = q.tx
    BY <2>3 DEF ReqType
  <2>5. Joins(f) /\ f \in Request
    BY <1>0, <2>1, <2>3, TransmitJoins DEF f
  <2>6. NewFrame(q, f)
    BY <2>2, <2>3, <2>4, <2>5 DEF NewFrame
  <2>7. f = ReadFrame(q, f.mid)
    BY <2>2 DEF f
  <2>8. SendsRead(q, f)
    BY <2>1, <2>4, <2>7 DEF SendsRead
  <2>9. QED
    BY <2>5, <2>6, <2>8
<1>4. CASE Done(q)
  <2>1. req' = [q EXCEPT !.mid = NoMid, !.frame = NoFrame, !.retry = 0]
    BY <1>4 DEF Done
  <2>2. req'.timer = q.timer /\ req'.class = q.class
    BY <2>1 DEF ReqType
  <2>3. QED
    BY <1>4, <2>2, DoneFields DEF Done, Ends
<1>5. QED
  BY <1>0, <1>1, <1>2, <1>3, <1>4 DEF Proceed

\* The first frame f of a new request object n.
Opens(n, f) ==
  /\ NewFacts(n, req.rid + 1, n.size) /\ SliceLen(n) \in Nat /\ SentAfter(n) \in Nat
  /\ f \in Request /\ f.mid \in FreshMid /\ f = BodyFrame(n, f.mid) /\ Joins(f)
  /\ req'.rid = req.rid + 1 /\ req'.size = n.size /\ req'.tx = SentAfter(n) /\ req'.ack = Nil
  /\ req'.mid = f.mid /\ req'.frame = f /\ req'.timer
  /\ pc = "idle" /\ req.rid + 1 \in Rid
  /\ pc' = "wait" /\ ~over' /\ ~gaveUp' /\ ~refused'
  /\ UNCHANGED <<again, respQ, device>>

LEMMA SubmitOpens ==
  ASSUME TypeOK, Submit
  PROVE  \E n \in ReqType, f \in Request : Opens(n, f)
<1>1. PICK n \in ReqType, m \in FreshMid :
        /\ NewFacts(n, req.rid + 1, n.size)
        /\ SliceLen(n) \in Nat /\ SentAfter(n) \in Nat /\ BodyFrame(n, m) \in Request
        /\ req' = [n EXCEPT !.tx = SentAfter(n), !.mid = m, !.frame = BodyFrame(n, m),
                            !.timer = TRUE]
        /\ Transmit(<<BodyFrame(n, m)>>)
  BY SubmitType
<1> DEFINE f == BodyFrame(n, m)
<1>2. f.mid = m
  BY DEF BodyFrame
<1>3. f = BodyFrame(n, f.mid)
  BY <1>2
<1> HIDE DEF f
<1>4. f \in Request /\ f.mid \in FreshMid /\ Joins(f)
        /\ req' = [n EXCEPT !.tx = SentAfter(n), !.mid = m, !.frame = f, !.timer = TRUE]
  BY <1>1, <1>2, TransmitJoins DEF f, TypeOK
<1>5. /\ req'.rid = n.rid /\ req'.size = n.size /\ req'.tx = SentAfter(n) /\ req'.ack = n.ack
      /\ req'.mid = f.mid /\ req'.frame = f /\ req'.timer
  BY <1>2, <1>4 DEF ReqType
<1>6. n.rid = req.rid + 1 /\ n.ack = Nil
  BY <1>1 DEF NewFacts
<1>7. /\ pc = "idle" /\ req.rid + 1 \in Rid /\ pc' = "wait" /\ ~over' /\ ~gaveUp' /\ ~refused'
      /\ UNCHANGED <<again, respQ, device>>
  <2>1. pc = "idle" /\ req.rid < MaxReq /\ req.rid \in Nat
    BY DEF Submit, TypeOK, ReqType
  <2>2. req.rid + 1 \in Rid
    BY <2>1, ConstantsAssumption DEF Rid
  <2>3. pc' = "wait" /\ ~over' /\ ~gaveUp' /\ ~refused' /\ UNCHANGED <<again, respQ, device>>
    BY DEF Submit
  <2>4. QED
    BY <2>1, <2>2, <2>3
<1>8. Opens(n, f)
  BY <1>1, <1>3, <1>4, <1>5, <1>6, <1>7 DEF Opens
<1>9. QED
  BY <1>4, <1>8

LEMMA ShorterFacts ==
  ASSUME NEW S, NEW q \in Seq(S), NEW p, Shorter(p, q)
  PROVE  \E d \in {0, 1} : /\ Len(p) = Len(q) - d
                           /\ \A i \in 1 .. Len(p) : i + d \in 1 .. Len(q) /\ p[i] = q[i + d]
<1>1. CASE p = q
  <2>1. Len(p) = Len(q) - 0 /\ \A i \in 1 .. Len(p) : i + 0 \in 1 .. Len(q) /\ p[i] = q[i + 0]
    BY <1>1
  <2>2. QED
    BY <2>1
<1>2. CASE q # <<>> /\ p = Tail(q)
  BY <1>2, HeadTail
<1>3. QED
  BY <1>1, <1>2 DEF Shorter

LEMMA ShorterQueues ==
  ASSUME TypeOK
  PROVE  /\ Shorter(reqQ', reqQ) => \E d \in {0, 1} :
              /\ Len(reqQ') = Len(reqQ) - d
              /\ \A i \in 1 .. Len(reqQ') : i + d \in 1 .. Len(reqQ) /\ reqQ'[i] = reqQ[i + d]
         /\ Shorter(respQ', respQ) => \A i \in 1 .. Len(respQ') :
              \E k \in 1 .. Len(respQ) : respQ'[i] = respQ[k]
<1>1. reqQ \in Seq(Request) /\ respQ \in Seq(Response)
  BY DEF TypeOK
<1>2. QED
  BY <1>1, ShorterFacts

\* A frame that joins is last, and all else is where it was.
LEMMA JoinsFacts ==
  ASSUME NEW f, Joins(f), reqQ \in Seq(Request)
  PROVE  /\ Len(reqQ) \in Nat /\ Len(reqQ') \in Nat
         /\ \A i \in 1 .. Len(reqQ') :
              \/ i \in 1 .. Len(reqQ) /\ reqQ'[i] = reqQ[i]
              \/ i = Len(reqQ) + 1 /\ i = Len(reqQ') /\ reqQ'[i] = f
  BY DEF Joins


\* What the device does with the head of the link.
Serves(f, r) ==
  /\ f = reqQ[1] /\ 1 \in 1 .. Len(reqQ) /\ f \in Request /\ f.rid \in Rid
  /\ Len(reqQ') = Len(reqQ) - 1
  /\ \A i \in 1 .. Len(reqQ') : i + 1 \in 1 .. Len(reqQ) /\ reqQ'[i] = reqQ[i + 1]
  /\ UNCHANGED client
  /\ r = srv'.resp /\ r.mid = f.mid /\ srv'.mid = f.mid
  /\ \A i \in 1 .. Len(respQ') : (i \in 1 .. Len(respQ) /\ respQ'[i] = respQ[i]) \/ respQ'[i] = r
Holds ==
  /\ srv'.rid = srv.rid /\ srv'.len = srv.len /\ srv'.intact = srv.intact
  /\ srv'.blocks = srv.blocks
  /\ UNCHANGED <<runs, corrupt>>
Repeats(f, r) == f.mid = srv.mid /\ r = srv.resp /\ Holds
Takes(f, r) ==
  /\ f.mid # srv.mid /\ f.b2 = 0 /\ InSequence(f) /\ r.class = 2
  /\ srv'.rid = f.rid /\ srv'.len = Assembled(f).len /\ srv'.intact = Assembled(f).intact
  /\ \/ f.more /\ UNCHANGED <<runs, corrupt>>
     \/ /\ ~f.more
        /\ runs' = [runs EXCEPT ![f.rid] = @ + 1]
        /\ corrupt' = (IF Assembled(f).intact /\ Assembled(f).len = BodySize(f)
                       THEN corrupt ELSE corrupt \cup {f.rid})
        /\ r.more <=> srv'.blocks > 1
        /\ Len(r.data) = IF srv'.blocks = 0 THEN 0 ELSE 1
Keeps(f, r) ==
  /\ f.mid # srv.mid /\ Holds
  /\ r.class = 0 => ~r.more
  /\ r.class = 2 => f.b2 > 0 /\ Len(r.data) = 1 /\ (r.more <=> f.b2 + 1 < srv.blocks)

LEMMA ReplyFacts ==
  ASSUME TypeOK, NEW s \in SrvType, NEW r, Reply(s, r), r \in Response
  PROVE  /\ srv'.mid = r.mid /\ srv'.resp = r
         /\ srv'.rid = s.rid /\ srv'.len = s.len /\ srv'.intact = s.intact
         /\ srv'.blocks = s.blocks
         /\ \A i \in 1 .. Len(respQ') :
              (i \in 1 .. Len(respQ) /\ respQ'[i] = respQ[i]) \/ respQ'[i] = r
<1>1. srv' = [s EXCEPT !.mid = r.mid, !.resp = r]
  BY DEF Reply
<1>2. /\ srv'.mid = r.mid /\ srv'.resp = r
      /\ srv'.rid = s.rid /\ srv'.len = s.len /\ srv'.intact = s.intact
      /\ srv'.blocks = s.blocks
  BY <1>1 DEF SrvType
<1>3. respQ \in Seq(Response) /\ (respQ' = respQ \/ respQ' = Append(respQ, r))
  BY DEF Reply, TypeOK
<1>4. \A i \in 1 .. Len(respQ') :
        (i \in 1 .. Len(respQ) /\ respQ'[i] = respQ[i]) \/ respQ'[i] = r
  BY <1>3, AppendOne
<1>5. QED
  BY <1>2, <1>4

LEMMA Answered2 ==
  ASSUME NEW f \in Request, NEW class \in {0, 2, 4}, NEW data \in Seq(Block),
         NEW more \in BOOLEAN, NEW r, r = Answer(f, class, data, more)
  PROVE  r \in Response /\ r.mid = f.mid /\ r.class = class /\ r.data = data /\ r.more = more
<1>1. r \in Response
  BY AnswerType
<1>2. QED
  BY <1>1 DEF Answer

LEMMA Bare ==
  ASSUME NEW f \in Request, NEW class \in {0, 2, 4}, NEW r, r = Answer(f, class, <<>>, FALSE)
  PROVE  r \in Response /\ r.mid = f.mid /\ r.class = class /\ ~r.more
<1>1. <<>> \in Seq(Block) /\ FALSE \in BOOLEAN
  OBVIOUS
<1>2. \A more \in BOOLEAN : Answer(f, class, <<>>, more) \in Response
  BY <1>1, AnswerType
<1>3. r \in Response
  BY <1>1, <1>2
<1>4. r.mid = f.mid /\ r.class = class /\ ~r.more
  BY DEF Answer
<1>5. QED
  BY <1>3, <1>4

LEMMA ServeKinds ==
  ASSUME TypeOK, Serve
  PROVE  \E f \in Request, r \in Response :
           Serves(f, r) /\ (Repeats(f, r) \/ Takes(f, r) \/ Keeps(f, r))
<1> USE ConstantsAssumption
<1> DEFINE f == Head(reqQ)
<1>0. reqQ # <<>> /\ reqQ' = Tail(reqQ) /\ reqQ \in Seq(Request) /\ UNCHANGED client
  BY DEF Serve, TypeOK
<1>1. /\ f = reqQ[1] /\ 1 \in 1 .. Len(reqQ) /\ f \in Request
      /\ Len(reqQ') = Len(reqQ) - 1
      /\ \A i \in 1 .. Len(reqQ') : i + 1 \in 1 .. Len(reqQ) /\ reqQ'[i] = reqQ[i + 1]
  BY <1>0, HeadTail
<1>2. f.rid \in Rid /\ f.mid \in Mid /\ f.b2 \in Nat
  BY <1>1 DEF Request
<1>3. \/ Duplicate(f) \/ Continue(f) \/ Execute(f) \/ NextBlock(f) \/ Refuse(f) \/ Reset(f)
  BY DEF Serve
<1> HIDE DEF f
<1>4. srv \in SrvType /\ Assembled(f) \in SrvType
  BY <1>1, <1>2, AssembledType DEF TypeOK, Rid
<1>5. ASSUME NEW r \in Response, r.mid = f.mid, NEW s \in SrvType, Reply(s, r)
      PROVE  /\ Serves(f, r)
             /\ srv'.rid = s.rid /\ srv'.len = s.len /\ srv'.intact = s.intact
             /\ srv'.blocks = s.blocks
  BY <1>0, <1>1, <1>2, <1>5, ReplyFacts DEF Serves
<1>6. CASE Duplicate(f)
  <2>1. srv.mid = f.mid /\ srv.mid # NoMid /\ Reply(srv, srv.resp)
        /\ UNCHANGED <<runs, corrupt>>
    BY <1>2, <1>6 DEF Duplicate, NewRequest
  <2>2. srv.resp \in Response /\ srv.resp.mid = f.mid
    BY <2>1 DEF TypeOK
  <2>3. Serves(f, srv.resp) /\ Holds
    BY <1>4, <1>5, <2>1, <2>2 DEF Holds
  <2>4. QED
    BY <1>1, <2>1, <2>2, <2>3 DEF Repeats
<1>7. CASE Continue(f)
  <2> DEFINE r == Answer(f, 2, <<>>, FALSE)
  <2>1. r \in Response /\ r.mid = f.mid /\ r.class = 2
    BY <1>1, Bare
  <2>2. Reply(Assembled(f), r) /\ NewRequest(f) /\ f.b2 = 0 /\ f.more /\ InSequence(f)
        /\ UNCHANGED <<runs, corrupt>>
    BY <1>7 DEF Continue
  <2> HIDE DEF r
  <2>3. Serves(f, r) /\ Takes(f, r)
    <3>1. Assembled(f).rid = f.rid
      BY <1>4 DEF Assembled, SrvType, TypeOK
    <3>2. QED
      BY <1>4, <1>5, <2>1, <2>2, <3>1 DEF Takes, NewRequest
  <2>4. QED
    BY <1>1, <2>1, <2>3
<1>8. CASE Execute(f)
  <2>1. PICK n \in RespBlocks :
          Reply([Assembled(f) EXCEPT !.blocks = n],
                Answer(f, 2, IF n = 0 THEN <<>> ELSE <<BodyBlock(f.rid, 0)>>, n > 1))
    BY <1>8 DEF Execute
  <2> DEFINE s == [Assembled(f) EXCEPT !.blocks = n]
             d == IF n = 0 THEN <<>> ELSE <<BodyBlock(f.rid, 0)>>
             more == n > 1
             r == Answer(f, 2, d, more)
  <2>2. n \in Nat
    BY ConstantsAssumption
  <2>3. /\ s \in SrvType /\ s.blocks = n /\ s.len = Assembled(f).len
        /\ s.rid = f.rid /\ s.intact = Assembled(f).intact
    <3>1. Assembled(f).rid = f.rid
      BY <1>4 DEF Assembled, SrvType, TypeOK
    <3>2. QED
      BY <1>4, <2>2, <3>1 DEF SrvType
  <2>4. <<BodyBlock(f.rid, 0)>> \in Seq(Block)
    BY <1>1, BlockType
  <2>5. d \in Seq(Block) /\ more \in BOOLEAN /\ (more <=> n > 1)
        /\ Len(d) = IF n = 0 THEN 0 ELSE 1
    BY <2>4
  <2>6. r \in Response /\ r.mid = f.mid /\ r.class = 2 /\ r.data = d /\ (r.more <=> n > 1)
    <3> HIDE DEF d, more
    <3>1. QED
      BY <1>1, <2>5, Answered2
  <2>8. Reply(s, r)
    BY <2>1
  <2> HIDE DEF s, r, d, more
  <2>9. Serves(f, r) /\ srv'.rid = f.rid /\ srv'.len = Assembled(f).len
        /\ srv'.intact = Assembled(f).intact /\ srv'.blocks = n
    BY <1>5, <2>3, <2>6, <2>8
  <2>10. /\ NewRequest(f) /\ f.b2 = 0 /\ ~f.more /\ InSequence(f)
         /\ runs' = [runs EXCEPT ![f.rid] = @ + 1]
         /\ corrupt' = (IF Assembled(f).intact /\ Assembled(f).len = BodySize(f)
                        THEN corrupt ELSE corrupt \cup {f.rid})
    BY <1>8 DEF Execute
  <2>11. Takes(f, r)
    BY <2>5, <2>6, <2>9, <2>10 DEF Takes, NewRequest
  <2>12. QED
    BY <1>1, <2>6, <2>9, <2>11
<1>9. CASE NextBlock(f)
  <2> DEFINE d == <<BodyBlock(f.rid, f.b2)>>
             more == f.b2 + 1 < srv.blocks
             r == Answer(f, 2, d, more)
  <2>1. d \in Seq(Block) /\ Len(d) = 1 /\ more \in BOOLEAN
    BY <1>1, <1>2, BlockType
  <2>2. r \in Response /\ r.mid = f.mid /\ r.class = 2 /\ r.data = d
        /\ (r.more <=> f.b2 + 1 < srv.blocks)
    <3>1. more <=> f.b2 + 1 < srv.blocks
      OBVIOUS
    <3> HIDE DEF d, more
    <3>2. QED
      BY <1>1, <2>1, <3>1, Answered2
  <2>4. Reply(srv, r) /\ NewRequest(f) /\ f.b2 > 0 /\ UNCHANGED <<runs, corrupt>>
    BY <1>9 DEF NextBlock
  <2> HIDE DEF r, d, more
  <2>5. Serves(f, r) /\ Holds
    BY <1>4, <1>5, <2>2, <2>4 DEF Holds
  <2>6. Keeps(f, r)
    BY <2>1, <2>2, <2>4, <2>5 DEF Keeps, NewRequest
  <2>7. QED
    BY <1>1, <2>2, <2>5, <2>6
<1>10. CASE Refuse(f)
  <2>1. PICK more \in BOOLEAN : Reply(srv, Answer(f, 4, <<ErrorText(f.rid)>>, more))
    BY <1>10 DEF Refuse
  <2> DEFINE r == Answer(f, 4, <<ErrorText(f.rid)>>, more)
  <2>2. <<ErrorText(f.rid)>> \in Seq(Block)
    BY <1>1, <1>2, BlockType
  <2>3. r \in Response /\ r.mid = f.mid /\ r.class = 4 /\ Reply(srv, r)
    BY <1>1, <2>1, <2>2, AnswerType DEF Answer
  <2>4. NewRequest(f) /\ UNCHANGED <<runs, corrupt>>
    BY <1>10 DEF Refuse
  <2> HIDE DEF r
  <2>5. Serves(f, r) /\ Holds
    BY <1>4, <1>5, <2>3, <2>4 DEF Holds
  <2>6. QED
    BY <1>1, <2>3, <2>4, <2>5 DEF Keeps, NewRequest
<1>11. CASE Reset(f)
  <2> DEFINE s == [srv EXCEPT !.resets = @ + 1]
             r == Answer(f, 0, <<>>, FALSE)
  <2>1. /\ s \in SrvType /\ s.rid = srv.rid /\ s.len = srv.len /\ s.intact = srv.intact
        /\ s.blocks = srv.blocks
    BY <1>4 DEF SrvType
  <2>2. r \in Response /\ r.mid = f.mid /\ r.class = 0 /\ ~r.more
    BY <1>1, Bare
  <2>3. Reply(s, r) /\ NewRequest(f) /\ UNCHANGED <<runs, corrupt>>
    BY <1>11 DEF Reset
  <2> HIDE DEF r, s
  <2>4. Serves(f, r) /\ Holds
    BY <1>5, <2>1, <2>2, <2>3 DEF Holds
  <2>5. QED
    BY <1>1, <2>2, <2>3, <2>4 DEF Keeps, NewRequest
<1>12. QED
  BY <1>3, <1>6, <1>7, <1>8, <1>9, <1>10, <1>11

----------------------------------------------------------------------------
(* The answer that next_step is called with                                *)

LEMMA Basics ==
  ASSUME TypeOK
  PROVE  /\ req \in ReqType /\ req.rid \in Nat /\ srv.rid \in Nat
         /\ reqQ \in Seq(Request) /\ Len(reqQ) \in Nat /\ again \in [Rid -> Nat]
         /\ pc = "wait" => req.rid \in Rid
         /\ \A i \in 1 .. Len(reqQ) : /\ reqQ[i] \in Request /\ reqQ[i].rid \in Rid
                                      /\ reqQ[i].rid \in Nat
         /\ \A r \in Rid : r \in Nat
<1>1. req \in ReqType /\ srv \in SrvType /\ reqQ \in Seq(Request)
  BY DEF TypeOK
<1>2. \A r \in Rid : r \in Nat
  BY ConstantsAssumption DEF Rid
<1>3. req.rid \in Nat /\ srv.rid \in Nat
  BY <1>1, ConstantsAssumption DEF ReqType, SrvType
<1>4. again \in [Rid -> Nat] /\ (pc = "wait" => req.rid \in Rid)
  BY ConstantsAssumption DEF TypeOK
<1>5. Len(reqQ) \in Nat /\ \A i \in 1 .. Len(reqQ) : reqQ[i] \in Request
  BY <1>1
<1>6. \A i \in 1 .. Len(reqQ) : reqQ[i].rid \in Rid
  BY <1>5 DEF Request
<1>7. QED
  BY <1>1, <1>2, <1>3, <1>4, <1>5, <1>6

\* The request object q has taken the answer that the device remembers.
Replied(q) ==
  /\ req.mid # NoMid /\ srv.mid = req.mid /\ req.frame \in Request
  /\ srv.resp \in Response /\ srv.resp.class \in {0, 2} /\ Fits(srv.resp, req.frame)
  /\ \A i \in 1 .. Len(reqQ) : reqQ[i].mid = srv.mid
  /\ refused' = (refused \/ srv.resp.class # 2)
  /\ q.rid = req.rid /\ q.size = req.size /\ q.tx = req.tx /\ q.mid = NoMid
  /\ q.ack = (IF srv.resp.class = 2 THEN req.tx ELSE req.ack)
  /\ q.more = srv.resp.more /\ q.rx = req.rx \o srv.resp.data
  /\ q.more => q.num = srv.resp.num
  /\ q.class = srv.resp.class

LEMMA TakeClass ==
  ASSUME NEW q \in ReqType, NEW r \in Response
  PROVE  Take(q, r).class = r.class
  BY DEF Take, ReqType

\* A request that is not over builds its next frame only upon an answer.
LEMMA Replies ==
  ASSUME TypeOK, Current, Standing, Latest, NEW q, Moves(q)
  PROVE  /\ (q = req /\ ~req.timer /\ refused' = refused) \/ Replied(q)
         /\ Live => Replied(q)
<1>1. ASSUME NEW r, Arrives(r), r.class # 4, q = Take(req, r),
             refused' = (refused \/ r.class # 2)
      PROVE  Replied(q)
  <2>1. /\ r \in Response /\ req.mid # NoMid /\ r.mid = req.mid
        /\ 1 \in 1 .. Len(respQ) /\ r = respQ[1]
    BY <1>1 DEF Arrives
  <2>2. srv.mid = req.mid /\ r = srv.resp
    BY <2>1 DEF Latest
  <2>3. \A i \in 1 .. Len(reqQ) : reqQ[i].mid = srv.mid
    BY <2>1, <2>2 DEF Latest
  <2>4. req.frame \in Request /\ Fits(r, req.frame)
    BY <2>1, <2>2 DEF Current
  <2>5. req \in ReqType /\ r.class \in {0, 2}
    BY <1>1, <2>1 DEF TypeOK, Response
  <2>6. /\ q.rid = req.rid /\ q.size = req.size /\ q.tx = req.tx /\ q.mid = NoMid
        /\ q.more = r.more /\ q.rx = req.rx \o r.data
        /\ q.num = (IF r.more THEN r.num ELSE req.num)
        /\ q.class = r.class
    BY <1>1, <2>1, <2>5, TakeFields, TakeClass
  <2>7. q.ack = (IF r.class = 2 THEN req.tx ELSE req.ack)
    <3>1. q.ack = (IF r.ack /\ r.class = 2 THEN req.tx ELSE req.ack)
      BY <1>1, <2>1, <2>5, TakeFields
    <3>2. r.class = 2 => r.ack
      BY <2>4 DEF Fits
    <3>3. QED
      BY <3>1, <3>2
  <2>8. QED
    BY <1>1, <2>1, <2>2, <2>3, <2>4, <2>5, <2>6, <2>7 DEF Replied
<1>2. (q = req /\ ~req.timer /\ refused' = refused) \/ Replied(q)
  BY <1>1 DEF Moves, Origin
<1>3. Live => req.timer
  BY DEF Standing
<1>4. QED
  BY <1>2, <1>3

\* Restarts are only counted up.
Grown == \A r \in Rid : again'[r] \in Nat /\ (again'[r] = 0 => again[r] = 0)

LEMMA GrownFacts ==
  ASSUME TypeOK
  PROVE  /\ UNCHANGED again => Grown
         /\ \A q, f : NewFrame(q, f) /\ q.rid \in Rid =>
              /\ Grown
              /\ again'[q.rid] = 0 => ~over
              /\ over => again'[q.rid] > 0
              /\ \A r \in Rid : r # q.rid => again'[r] = again[r]
              /\ ~over => again' = again
<1>1. again \in [Rid -> Nat]
  BY ConstantsAssumption DEF TypeOK
<1>2. UNCHANGED again => Grown
  BY <1>1 DEF Grown
<1>3. ASSUME NEW q, NEW f, NewFrame(q, f), q.rid \in Rid
      PROVE  /\ Grown
             /\ again'[q.rid] = 0 => ~over
             /\ over => again'[q.rid] > 0
             /\ \A r \in Rid : r # q.rid => again'[r] = again[r]
             /\ ~over => again' = again
  <2>1. CASE over
    <3>1. again' = [again EXCEPT ![q.rid] = @ + 1]
      BY <1>3, <2>1 DEF NewFrame
    <3>2. QED
      BY <1>1, <1>3, <2>1, <3>1 DEF Grown
  <2>2. CASE ~over
    BY <1>2, <1>3, <2>2 DEF NewFrame
  <2>3. QED
    BY <2>1, <2>2
<1>4. QED
  BY <1>2, <1>3

----------------------------------------------------------------------------
(* Where the request stands                                                *)

LEMMA StandingStep ==
  ASSUME TypeOK, Current, Standing, [Next]_vars
  PROVE  Standing'
<1>0. /\ req \in ReqType /\ req.rid \in Nat /\ srv.rid \in Nat
      /\ reqQ \in Seq(Request) /\ Len(reqQ) \in Nat /\ again \in [Rid -> Nat]
      /\ pc = "wait" => req.rid \in Rid
      /\ \A i \in 1 .. Len(reqQ) : /\ reqQ[i] \in Request /\ reqQ[i].rid \in Rid
                                   /\ reqQ[i].rid \in Nat
      /\ \A r \in Rid : r \in Nat
  BY Basics
<1>1. CASE Submit
  <2>1. PICK n \in ReqType, f \in Request : Opens(n, f)
    BY <1>1, SubmitOpens
  <2>2. /\ req'.rid = req.rid + 1 /\ req'.timer /\ pc' = "wait" /\ ~over' /\ ~gaveUp'
        /\ again' = again /\ srv' = srv /\ req.rid + 1 \in Rid
    BY <2>1 DEF Opens, device
  <2>3. f.rid = req.rid + 1 /\ Joins(f)
    BY <2>1 DEF Opens, NewFacts, BodyFrame
  <2>4. \A i \in 1 .. Len(reqQ') : reqQ'[i].rid <= req'.rid
    BY <1>0, <2>2, <2>3, JoinsFacts DEF Standing
  <2>5. again'[req'.rid] = 0 /\ \A r \in Rid : r > req'.rid => again'[r] = 0
    BY <1>0, <2>2 DEF Standing
  <2>6. srv'.rid <= req'.rid
    BY <1>0, <2>2 DEF Standing
  <2>7. QED
    BY <2>2, <2>4, <2>5, <2>6 DEF Standing, Live
<1>2. CASE Quiet
  <2>1. /\ UNCHANGED <<over, gaveUp, again>> /\ req'.rid = req.rid /\ req'.timer = req.timer
        /\ pc' = pc \/ (pc = "wait" /\ pc' = "idle" /\ ~req.timer)
        /\ srv' = srv
    BY <1>2 DEF Quiet, Alike, device
  <2>2. \A i \in 1 .. Len(reqQ') : reqQ'[i].rid <= req'.rid
    BY <1>2, <2>1, ShorterQueues DEF Quiet, Standing
  <2>3. QED
    BY <2>1, <2>2 DEF Standing, Live
<1>3. CASE Resends
  <2>1. /\ UNCHANGED <<over, gaveUp, again, pc>> /\ req'.rid = req.rid /\ req'.timer
        /\ pc = "wait" /\ req.timer /\ srv' = srv
    BY <1>3 DEF Resends, Alike, device
  <2>2. req.frame.rid = req.rid /\ Joins(req.frame)
    BY <1>3, <2>1 DEF Resends, Current
  <2>3. \A i \in 1 .. Len(reqQ') : reqQ'[i].rid <= req'.rid
    BY <1>0, <2>1, <2>2, JoinsFacts DEF Standing
  <2>4. QED
    BY <2>1, <2>3 DEF Standing, Live
<1>4. CASE Stops
  BY <1>4 DEF Stops, Standing, Live, Alike, device
<1>5. CASE Fails
  BY <1>5 DEF Fails, Standing, Live, device
<1>6. CASE Serve
  <2>1. PICK f \in Request, r \in Response :
          Serves(f, r) /\ (Repeats(f, r) \/ Takes(f, r) \/ Keeps(f, r))
    BY <1>6, ServeKinds
  <2>2. srv'.rid = srv.rid \/ srv'.rid = f.rid
    BY <2>1 DEF Repeats, Takes, Keeps, Holds
  <2>3. UNCHANGED client /\ f = reqQ[1] /\ 1 \in 1 .. Len(reqQ)
        /\ \A i \in 1 .. Len(reqQ') : i + 1 \in 1 .. Len(reqQ) /\ reqQ'[i] = reqQ[i + 1]
    BY <2>1 DEF Serves
  <2>4. srv'.rid <= req.rid /\ \A i \in 1 .. Len(reqQ') : reqQ'[i].rid <= req.rid
    BY <2>2, <2>3 DEF Standing
  <2>5. QED
    BY <2>3, <2>4 DEF Standing, Live, client
<1>7. ASSUME NEW q \in ReqType, q.rid = req.rid, Moves(q)
      PROVE  Standing'
  <2>0. pc = "wait" /\ UNCHANGED device
    BY <1>7 DEF Moves
  <2>1. ASSUME NEW f \in Request, NewFrame(q, f)
        PROVE  Standing'
    <3>1. /\ UNCHANGED <<over, gaveUp, pc>> /\ req'.rid = req.rid /\ req'.timer
          /\ f.rid = req.rid /\ Joins(f)
      BY <1>7, <2>1 DEF NewFrame
    <3>2. /\ over => again'[req.rid] > 0
          /\ \A r \in Rid : r # req.rid => again'[r] = again[r]
          /\ ~over => again' = again
      BY <1>0, <1>7, <2>0, <2>1, GrownFacts
    <3>3. \A i \in 1 .. Len(reqQ') : reqQ'[i].rid <= req'.rid
      BY <1>0, <3>1, JoinsFacts DEF Standing
    <3>4. \A r \in Rid : r > req'.rid => again'[r] = 0
      BY <1>0, <3>1, <3>2 DEF Standing, Rid
    <3>5. QED
      BY <2>0, <3>1, <3>2, <3>3, <3>4 DEF Standing, Live, device
  <2>2. CASE Crashes(q)
    BY <1>7, <2>0, <2>2 DEF Crashes, Standing, Live, device
  <2>3. CASE Ends(q)
    BY <1>7, <2>0, <2>3 DEF Ends, Standing, Live, device
  <2>4. QED
    BY <1>7, <2>1, <2>2, <2>3, Builds
<1>8. QED
  BY <1>1, <1>2, <1>3, <1>4, <1>5, <1>6, <1>7, Kinds

----------------------------------------------------------------------------
(* Copies are together                                                     *)

LEMMA InTurnShorter ==
  ASSUME TypeOK, InTurn, Shorter(reqQ', reqQ), srv'.mid = srv.mid, again' = again
  PROVE  InTurn'
<1>1. PICK d \in {0, 1} :
        /\ Len(reqQ') = Len(reqQ) - d
        /\ \A i \in 1 .. Len(reqQ') : i + d \in 1 .. Len(reqQ) /\ reqQ'[i] = reqQ[i + d]
  BY ShorterQueues
<1>2. Len(reqQ) \in Nat /\ Len(reqQ') \in Nat
  BY <1>1, Basics
<1> SUFFICES ASSUME NEW i \in 1 .. Len(reqQ'), NEW j \in 1 .. Len(reqQ'), i < j
             PROVE  /\ reqQ'[j].mid = srv'.mid => reqQ'[i].mid = srv'.mid
                    /\ \A k \in 1 .. Len(reqQ') :
                         i < k /\ k < j /\ reqQ'[i].mid = reqQ'[j].mid =>
                           reqQ'[k].mid = reqQ'[i].mid
                    /\ reqQ'[i].rid = reqQ'[j].rid /\ again'[reqQ'[i].rid] = 0
                         /\ reqQ'[i].mid # srv'.mid => reqQ'[i] = reqQ'[j]
  BY DEF InTurn
<1> DEFINE a == i + d
           b == j + d
<1>3. /\ a \in 1 .. Len(reqQ) /\ b \in 1 .. Len(reqQ) /\ a < b
      /\ reqQ'[i] = reqQ[a] /\ reqQ'[j] = reqQ[b]
  BY <1>1, <1>2
<1>4. \A k \in 1 .. Len(reqQ') : i < k /\ k < j =>
        k + d \in 1 .. Len(reqQ) /\ reqQ'[k] = reqQ[k + d] /\ a < k + d /\ k + d < b
  BY <1>1, <1>2
<1> HIDE DEF a, b
<1>5. reqQ'[j].mid = srv'.mid => reqQ'[i].mid = srv'.mid
  BY <1>3 DEF InTurn
<1>6. \A k \in 1 .. Len(reqQ') : i < k /\ k < j /\ reqQ'[i].mid = reqQ'[j].mid =>
        reqQ'[k].mid = reqQ'[i].mid
  BY <1>3, <1>4 DEF InTurn
<1>7. reqQ'[i].rid = reqQ'[j].rid /\ again'[reqQ'[i].rid] = 0
        /\ reqQ'[i].mid # srv'.mid => reqQ'[i] = reqQ'[j]
  BY <1>3 DEF InTurn
<1>8. QED
  BY <1>5, <1>6, <1>7

\* What a frame must be to join.
LEMMA InTurnJoins ==
  ASSUME TypeOK, InTurn, NEW f, Joins(f), srv'.mid = srv.mid, Grown,
         f.mid = srv.mid => \A i \in 1 .. Len(reqQ) : reqQ[i].mid = srv.mid,
         \A i, k \in 1 .. Len(reqQ) : i < k /\ reqQ[i].mid = f.mid => reqQ[k].mid = f.mid,
         \A i \in 1 .. Len(reqQ) :
           reqQ[i].rid = f.rid /\ again'[f.rid] = 0 /\ reqQ[i].mid # srv.mid => reqQ[i] = f
  PROVE  InTurn'
<1>0. /\ Len(reqQ) \in Nat
      /\ \A i \in 1 .. Len(reqQ) : again'[reqQ[i].rid] = 0 => again[reqQ[i].rid] = 0
  BY Basics DEF Grown
<1>1. /\ Len(reqQ') \in Nat
      /\ \A i \in 1 .. Len(reqQ') :
           \/ i \in 1 .. Len(reqQ) /\ reqQ'[i] = reqQ[i]
           \/ i = Len(reqQ) + 1 /\ i = Len(reqQ') /\ reqQ'[i] = f
  BY JoinsFacts, Basics
<1> SUFFICES ASSUME NEW i \in 1 .. Len(reqQ'), NEW j \in 1 .. Len(reqQ'), i < j
             PROVE  /\ reqQ'[j].mid = srv'.mid => reqQ'[i].mid = srv'.mid
                    /\ \A k \in 1 .. Len(reqQ') :
                         i < k /\ k < j /\ reqQ'[i].mid = reqQ'[j].mid =>
                           reqQ'[k].mid = reqQ'[i].mid
                    /\ reqQ'[i].rid = reqQ'[j].rid /\ again'[reqQ'[i].rid] = 0
                         /\ reqQ'[i].mid # srv'.mid => reqQ'[i] = reqQ'[j]
  BY DEF InTurn
<1>2. i \in 1 .. Len(reqQ) /\ reqQ'[i] = reqQ[i]
  BY <1>0, <1>1
<1>3. \A k \in 1 .. Len(reqQ') : k < j => k \in 1 .. Len(reqQ) /\ reqQ'[k] = reqQ[k]
  BY <1>0, <1>1
<1>4. CASE j \in 1 .. Len(reqQ) /\ reqQ'[j] = reqQ[j]
  <2>1. reqQ'[j].mid = srv'.mid => reqQ'[i].mid = srv'.mid
    BY <1>2, <1>4 DEF InTurn
  <2>2. \A k \in 1 .. Len(reqQ') : i < k /\ k < j /\ reqQ'[i].mid = reqQ'[j].mid =>
          reqQ'[k].mid = reqQ'[i].mid
    BY <1>2, <1>3, <1>4 DEF InTurn
  <2>3. reqQ'[i].rid = reqQ'[j].rid /\ again'[reqQ'[i].rid] = 0
          /\ reqQ'[i].mid # srv'.mid => reqQ'[i] = reqQ'[j]
    BY <1>0, <1>2, <1>4 DEF InTurn
  <2>4. QED
    BY <2>1, <2>2, <2>3
<1>5. CASE reqQ'[j] = f
  <2>1. reqQ'[j].mid = srv'.mid => reqQ'[i].mid = srv'.mid
    BY <1>2, <1>5
  <2>2. \A k \in 1 .. Len(reqQ') : i < k /\ k < j /\ reqQ'[i].mid = reqQ'[j].mid =>
          reqQ'[k].mid = reqQ'[i].mid
    BY <1>2, <1>3, <1>5
  <2>3. reqQ'[i].rid = reqQ'[j].rid /\ again'[reqQ'[i].rid] = 0
          /\ reqQ'[i].mid # srv'.mid => reqQ'[i] = reqQ'[j]
    BY <1>2, <1>5
  <2>4. QED
    BY <2>1, <2>2, <2>3
<1>6. QED
  BY <1>1, <1>4, <1>5

LEMMA InTurnServe ==
  ASSUME TypeOK, InTurn, NEW f, NEW r, Serves(f, r)
  PROVE  InTurn'
<1>1. /\ f = reqQ[1] /\ 1 \in 1 .. Len(reqQ) /\ srv'.mid = f.mid /\ again' = again
      /\ Len(reqQ') = Len(reqQ) - 1
      /\ \A i \in 1 .. Len(reqQ') : i + 1 \in 1 .. Len(reqQ) /\ reqQ'[i] = reqQ[i + 1]
  BY DEF Serves, client
<1>2. Len(reqQ) \in Nat /\ Len(reqQ') \in Nat
  BY <1>1, Basics
<1> SUFFICES ASSUME NEW i \in 1 .. Len(reqQ'), NEW j \in 1 .. Len(reqQ'), i < j
             PROVE  /\ reqQ'[j].mid = f.mid => reqQ'[i].mid = f.mid
                    /\ \A k \in 1 .. Len(reqQ') :
                         i < k /\ k < j /\ reqQ'[i].mid = reqQ'[j].mid =>
                           reqQ'[k].mid = reqQ'[i].mid
                    /\ reqQ'[i].rid = reqQ'[j].rid /\ again'[reqQ'[i].rid] = 0
                         /\ reqQ'[i].mid # f.mid => reqQ'[i] = reqQ'[j]
  BY <1>1 DEF InTurn
<1> DEFINE a == i + 1
           b == j + 1
<1>3. /\ a \in 1 .. Len(reqQ) /\ b \in 1 .. Len(reqQ) /\ a < b /\ 1 < a
      /\ reqQ'[i] = reqQ[a] /\ reqQ'[j] = reqQ[b]
  BY <1>1, <1>2
<1>4. \A k \in 1 .. Len(reqQ') : i < k /\ k < j =>
        k + 1 \in 1 .. Len(reqQ) /\ reqQ'[k] = reqQ[k + 1] /\ a < k + 1 /\ k + 1 < b
  BY <1>1, <1>2
<1> HIDE DEF a, b
<1>5. reqQ'[j].mid = f.mid => reqQ'[i].mid = f.mid
  <2>1. 1 < b
    BY <1>3
  <2>2. QED
    BY <1>1, <1>3, <2>1 DEF InTurn
<1>6. \A k \in 1 .. Len(reqQ') : i < k /\ k < j /\ reqQ'[i].mid = reqQ'[j].mid =>
        reqQ'[k].mid = reqQ'[i].mid
  <2> TAKE k \in 1 .. Len(reqQ')
  <2>1. SUFFICES ASSUME i < k, k < j, reqQ'[i].mid = reqQ'[j].mid
                 PROVE  reqQ'[k].mid = reqQ'[i].mid
    OBVIOUS
  <2>2. /\ k + 1 \in 1 .. Len(reqQ) /\ reqQ'[k] = reqQ[k + 1] /\ a < k + 1 /\ k + 1 < b
        /\ a < b
    BY <1>3, <1>4, <2>1
  <2>3. reqQ[a].mid = reqQ[b].mid
    BY <1>3, <2>1
  <2>4. reqQ[k + 1].mid = reqQ[a].mid
    BY <1>3, <2>2, <2>3 DEF InTurn
  <2>5. QED
    BY <1>3, <2>2, <2>4
<1>7. ASSUME reqQ'[i].rid = reqQ'[j].rid, again'[reqQ'[i].rid] = 0, reqQ'[i].mid # f.mid
      PROVE  reqQ'[i] = reqQ'[j]
  <2>1. reqQ[a].mid # srv.mid
    BY <1>1, <1>3, <1>7 DEF InTurn
  <2>2. QED
    BY <1>1, <1>3, <1>7, <2>1 DEF InTurn
<1>8. QED
  BY <1>5, <1>6, <1>7

\* A new frame meets, of its own request, only what the device has served.
LEMMA NewFrameLast ==
  ASSUME TypeOK, Current, Standing, Latest, NEW q \in ReqType, q.rid = req.rid, Moves(q),
         NEW f \in Request, NewFrame(q, f)
  PROVE  /\ Grown /\ f.mid # srv.mid /\ f.mid # NoMid
         /\ \A i \in 1 .. Len(reqQ) : reqQ[i].mid # f.mid
         /\ \A i \in 1 .. Len(respQ) : respQ[i].mid # f.mid
         /\ again'[req.rid] = 0 => Live /\ Replied(q)
<1>1. pc = "wait" /\ req.rid \in Rid
  BY Basics DEF Moves
<1>2. Grown /\ (again'[q.rid] = 0 => ~over)
  BY <1>1, GrownFacts
<1>3. Live => Replied(q)
  BY Replies
<1>4. f.mid \in FreshMid
  BY DEF NewFrame
<1>5. QED
  BY <1>1, <1>2, <1>3, <1>4, FreshFacts DEF Live

LEMMA InTurnStep ==
  ASSUME TypeOK, Current, Standing, InTurn, Latest, [Next]_vars
  PROVE  InTurn'
<1>1. CASE Submit
  <2>1. PICK n \in ReqType, f \in Request : Opens(n, f)
    BY <1>1, SubmitOpens
  <2>2. f.mid \in FreshMid /\ Joins(f) /\ UNCHANGED <<again, srv>> /\ f.rid = req.rid + 1
    BY <2>1 DEF Opens, NewFacts, BodyFrame, device
  <2>3. \A i \in 1 .. Len(reqQ) : reqQ[i].rid # f.rid
    BY <2>2, Basics DEF Standing
  <2>4. Grown
    BY <2>2, GrownFacts
  <2>5. f.mid # srv.mid /\ \A i \in 1 .. Len(reqQ) : reqQ[i].mid # f.mid
    BY <2>2, FreshFacts
  <2>6. QED
    BY <2>2, <2>3, <2>4, <2>5, InTurnJoins
<1>2. CASE Quiet
  BY <1>2, InTurnShorter DEF Quiet, device
<1>3. CASE Resends
  <2>1. /\ req.mid # NoMid /\ req.frame.mid = req.mid /\ req.frame.rid = req.rid
        /\ Joins(req.frame) /\ UNCHANGED <<again, srv>>
        /\ pc = "wait" /\ (again[req.rid] = 0 => Live)
    BY <1>3 DEF Resends, Current, device, Standing, Live
  <2>2. Grown
    BY <2>1, GrownFacts
  <2>3. \A i, k \in 1 .. Len(reqQ) :
          i < k /\ reqQ[i].mid = req.mid => reqQ[k].mid = req.mid
    BY <2>1 DEF Latest
  <2>4. req.mid = srv.mid => \A i \in 1 .. Len(reqQ) : reqQ[i].mid = srv.mid
    BY <2>1 DEF Latest
  <2>5. \A i \in 1 .. Len(reqQ) :
          reqQ[i].rid = req.rid /\ again'[req.rid] = 0 /\ reqQ[i].mid # srv.mid =>
            reqQ[i] = req.frame
    BY <2>1 DEF Latest, Current
  <2>6. QED
    BY <2>1, <2>2, <2>3, <2>4, <2>5, InTurnJoins
<1>4. CASE UNCHANGED <<reqQ, srv, again>>
  BY <1>4 DEF InTurn
<1>5. CASE Serve
  <2>1. PICK f \in Request, r \in Response : Serves(f, r)
    BY <1>5, ServeKinds
  <2>2. QED
    BY <2>1, InTurnServe
<1>6. ASSUME NEW q \in ReqType, q.rid = req.rid, Moves(q)
      PROVE  InTurn'
  <2>1. ASSUME NEW f \in Request, NewFrame(q, f)
        PROVE  InTurn'
    <3>1. f.rid = req.rid /\ Joins(f) /\ srv' = srv
      BY <1>6, <2>1 DEF NewFrame, Moves, device
    <3>2. /\ Grown /\ f.mid # srv.mid /\ f.mid # NoMid
          /\ \A i \in 1 .. Len(reqQ) : reqQ[i].mid # f.mid
          /\ again'[req.rid] = 0 => Live /\ Replied(q)
      BY <1>6, <2>1, NewFrameLast
    <3>3. \A i \in 1 .. Len(reqQ) :
            reqQ[i].rid = f.rid /\ again'[f.rid] = 0 /\ reqQ[i].mid # srv.mid => reqQ[i] = f
      BY <3>1, <3>2 DEF Replied
    <3>4. QED
      BY <3>1, <3>2, <3>3, InTurnJoins
  <2>2. CASE Crashes(q)
    BY <1>4, <1>6, <2>2 DEF Crashes, Moves, device
  <2>3. CASE Ends(q)
    BY <1>4, <1>6, <2>3 DEF Ends, Moves, device
  <2>4. QED
    BY <1>6, <2>1, <2>2, <2>3, Builds
<1>7. QED
  BY <1>1, <1>2, <1>3, <1>4, <1>5, <1>6, Kinds DEF Stops, Fails, device

----------------------------------------------------------------------------
(* What was sent last is met last                                          *)

\* The request object stays, no frame joins but a copy of the last one.
LEMMA LatestKept ==
  ASSUME TypeOK, Latest, req'.mid = req.mid, req'.rid = req.rid, srv' = srv, Live' => Live,
         \A i \in 1 .. Len(respQ') : \E k \in 1 .. Len(respQ) : respQ'[i] = respQ[k],
         \/ Shorter(reqQ', reqQ)
         \/ \E f : Joins(f) /\ f.mid = req.mid /\ req.mid # NoMid
  PROVE  Latest'
<1> SUFFICES ASSUME req.mid # NoMid
             PROVE  /\ \A i \in 1 .. Len(respQ') :
                         respQ'[i].mid = req.mid => srv.mid = req.mid /\ respQ'[i] = srv.resp
                    /\ srv.mid = req.mid => \A i \in 1 .. Len(reqQ') : reqQ'[i].mid = req.mid
                    /\ \A i, j \in 1 .. Len(reqQ') :
                         i < j /\ reqQ'[i].mid = req.mid => reqQ'[j].mid = req.mid
                    /\ Live => \A i \in 1 .. Len(reqQ') :
                         reqQ'[i].rid = req.rid /\ reqQ'[i].mid # srv.mid =>
                           reqQ'[i].mid = req.mid
  BY DEF Latest
<1>1. \A i \in 1 .. Len(respQ') :
        respQ'[i].mid = req.mid => srv.mid = req.mid /\ respQ'[i] = srv.resp
  BY DEF Latest
<1>2. CASE Shorter(reqQ', reqQ)
  <2>1. PICK d \in {0, 1} :
          /\ Len(reqQ') = Len(reqQ) - d
          /\ \A i \in 1 .. Len(reqQ') : i + d \in 1 .. Len(reqQ) /\ reqQ'[i] = reqQ[i + d]
    BY <1>2, ShorterQueues
  <2>2. \A i, j \in 1 .. Len(reqQ') : i < j => i + d < j + d
    BY <2>1, Basics
  <2>3. \A i, j \in 1 .. Len(reqQ') :
          i < j /\ reqQ'[i].mid = req.mid => reqQ'[j].mid = req.mid
    BY <2>1, <2>2 DEF Latest
  <2>4. QED
    BY <1>1, <2>1, <2>3 DEF Latest
<1>3. ASSUME NEW f, Joins(f), f.mid = req.mid
      PROVE  /\ srv.mid = req.mid => \A i \in 1 .. Len(reqQ') : reqQ'[i].mid = req.mid
             /\ \A i, j \in 1 .. Len(reqQ') :
                  i < j /\ reqQ'[i].mid = req.mid => reqQ'[j].mid = req.mid
             /\ Live => \A i \in 1 .. Len(reqQ') :
                  reqQ'[i].rid = req.rid /\ reqQ'[i].mid # srv.mid => reqQ'[i].mid = req.mid
  <2>1. /\ Len(reqQ') \in Nat /\ Len(reqQ) \in Nat
        /\ \A i \in 1 .. Len(reqQ') :
             \/ i \in 1 .. Len(reqQ) /\ reqQ'[i] = reqQ[i]
             \/ i = Len(reqQ) + 1 /\ i = Len(reqQ') /\ reqQ'[i] = f
    BY <1>3, JoinsFacts, Basics
  <2>2. ASSUME NEW i \in 1 .. Len(reqQ'), NEW j \in 1 .. Len(reqQ'), i < j,
               reqQ'[i].mid = req.mid
        PROVE  reqQ'[j].mid = req.mid
    <3>1. i \in 1 .. Len(reqQ) /\ reqQ'[i] = reqQ[i]
      BY <2>1, <2>2
    <3>2. QED
      BY <1>3, <2>1, <2>2, <3>1 DEF Latest
  <2>3. QED
    BY <1>3, <2>1, <2>2 DEF Latest
<1>4. QED
  BY <1>1, <1>2, <1>3

\* A fresh frame is known nowhere else.
LEMMA LatestFresh ==
  ASSUME TypeOK, NEW f, Joins(f), req'.mid = f.mid, srv' = srv, f.mid # srv.mid,
         \A i \in 1 .. Len(reqQ) : reqQ[i].mid # f.mid,
         \A i \in 1 .. Len(respQ) : respQ[i].mid # f.mid,
         \A i \in 1 .. Len(respQ') : \E k \in 1 .. Len(respQ) : respQ'[i] = respQ[k],
         Live' => \A i \in 1 .. Len(reqQ) : reqQ[i].rid = req'.rid => reqQ[i].mid = srv.mid
  PROVE  Latest'
<1>1. /\ Len(reqQ') \in Nat /\ Len(reqQ) \in Nat
      /\ \A i \in 1 .. Len(reqQ') :
           \/ i \in 1 .. Len(reqQ) /\ reqQ'[i] = reqQ[i]
           \/ i = Len(reqQ) + 1 /\ i = Len(reqQ') /\ reqQ'[i] = f
  BY JoinsFacts, Basics
<1>2. \A i \in 1 .. Len(respQ') : respQ'[i].mid # req'.mid
  OBVIOUS
<1>3. srv'.mid # req'.mid
  OBVIOUS
<1>4. \A i \in 1 .. Len(reqQ') : reqQ'[i].mid = req'.mid => i = Len(reqQ')
  BY <1>1
<1>5. Live' => \A i \in 1 .. Len(reqQ') :
        reqQ'[i].rid = req'.rid /\ reqQ'[i].mid # srv'.mid => reqQ'[i].mid = req'.mid
  BY <1>1
<1>6. \A i, j \in 1 .. Len(reqQ') : i < j => i # Len(reqQ')
  BY <1>1
<1>7. QED
  BY <1>2, <1>3, <1>4, <1>5, <1>6 DEF Latest

LEMMA LatestServe ==
  ASSUME TypeOK, InTurn, Latest, NEW f, NEW r, Serves(f, r),
         Repeats(f, r) \/ Takes(f, r) \/ Keeps(f, r)
  PROVE  Latest'
<1>1. /\ f = reqQ[1] /\ 1 \in 1 .. Len(reqQ) /\ srv'.mid = f.mid
      /\ req' = req /\ (Live' <=> Live) /\ Len(reqQ') = Len(reqQ) - 1
      /\ \A i \in 1 .. Len(reqQ') : i + 1 \in 1 .. Len(reqQ) /\ reqQ'[i] = reqQ[i + 1]
      /\ r = srv'.resp /\ r.mid = f.mid
      /\ \A i \in 1 .. Len(respQ') : (i \in 1 .. Len(respQ) /\ respQ'[i] = respQ[i])
                                      \/ respQ'[i] = r
  BY DEF Serves, client, Live
<1>2. Len(reqQ) \in Nat /\ Len(reqQ') \in Nat
  BY <1>1, Basics
<1>3. f.mid = srv.mid => r = srv.resp
  BY DEF Repeats, Takes, Keeps
<1> SUFFICES ASSUME req.mid # NoMid
             PROVE  /\ \A i \in 1 .. Len(respQ') :
                         respQ'[i].mid = req.mid => f.mid = req.mid /\ respQ'[i] = r
                    /\ f.mid = req.mid => \A i \in 1 .. Len(reqQ') : reqQ'[i].mid = req.mid
                    /\ \A i, j \in 1 .. Len(reqQ') :
                         i < j /\ reqQ'[i].mid = req.mid => reqQ'[j].mid = req.mid
                    /\ Live => \A i \in 1 .. Len(reqQ') :
                         reqQ'[i].rid = req.rid /\ reqQ'[i].mid # f.mid =>
                           reqQ'[i].mid = req.mid
  BY <1>1 DEF Latest
<1>4. ASSUME NEW i \in 1 .. Len(respQ'), respQ'[i].mid = req.mid
      PROVE  f.mid = req.mid /\ respQ'[i] = r
  <2>1. CASE respQ'[i] = r
    BY <1>1, <1>4, <2>1
  <2>2. CASE i \in 1 .. Len(respQ) /\ respQ'[i] = respQ[i]
    <3>1. srv.mid = req.mid /\ respQ[i] = srv.resp
      BY <1>4, <2>2 DEF Latest
    <3>2. f.mid = req.mid
      BY <1>1, <3>1 DEF Latest
    <3>3. QED
      BY <1>3, <2>2, <3>1, <3>2
  <2>3. QED
    BY <1>1, <2>1, <2>2
<1>5. \A i \in 1 .. Len(reqQ') : 1 < i + 1 /\ i + 1 \in 1 .. Len(reqQ)
  BY <1>1, <1>2
<1>6. f.mid = req.mid => \A i \in 1 .. Len(reqQ') : reqQ'[i].mid = req.mid
  BY <1>1, <1>5 DEF Latest
<1>7. \A i, j \in 1 .. Len(reqQ') : i < j => i + 1 < j + 1
  BY <1>2
<1>8. \A i, j \in 1 .. Len(reqQ') :
        i < j /\ reqQ'[i].mid = req.mid => reqQ'[j].mid = req.mid
  BY <1>1, <1>7 DEF Latest
<1>9. ASSUME Live, NEW i \in 1 .. Len(reqQ'), reqQ'[i].rid = req.rid, reqQ'[i].mid # f.mid
      PROVE  reqQ'[i].mid = req.mid
  <2>1. reqQ[i + 1].mid # srv.mid
    BY <1>1, <1>5, <1>9 DEF InTurn
  <2>2. QED
    BY <1>1, <1>9, <2>1 DEF Latest
<1>10. QED
  BY <1>4, <1>6, <1>8, <1>9

LEMMA LatestStep ==
  ASSUME TypeOK, Current, Standing, InTurn, Latest, [Next]_vars
  PROVE  Latest'
<1>0. Shorter(respQ', respQ) => \A i \in 1 .. Len(respQ') :
        \E k \in 1 .. Len(respQ) : respQ'[i] = respQ[k]
  BY ShorterQueues
<1>1. CASE Submit
  <2>1. PICK n \in ReqType, f \in Request : Opens(n, f)
    BY <1>1, SubmitOpens
  <2>2. /\ f.mid \in FreshMid /\ Joins(f) /\ srv' = srv /\ respQ' = respQ
        /\ req'.mid = f.mid /\ req'.rid = req.rid + 1
    BY <2>1 DEF Opens, device
  <2>3. \A i \in 1 .. Len(reqQ) : reqQ[i].rid # req'.rid
    BY <2>2, Basics DEF Standing
  <2>4. /\ f.mid # srv.mid /\ \A i \in 1 .. Len(reqQ) : reqQ[i].mid # f.mid
        /\ \A i \in 1 .. Len(respQ) : respQ[i].mid # f.mid
    BY <2>2, FreshFacts
  <2>5. QED
    BY <2>2, <2>3, <2>4, LatestFresh
<1>2. CASE Quiet
  <2>1. /\ req'.mid = req.mid /\ req'.rid = req.rid /\ srv' = srv /\ (Live' => Live)
        /\ Shorter(reqQ', reqQ) /\ Shorter(respQ', respQ)
    BY <1>2 DEF Quiet, Alike, device, Live
  <2>2. QED
    BY <1>0, <2>1, LatestKept
<1>3. CASE Resends
  <2>1. /\ req'.mid = req.mid /\ req'.rid = req.rid /\ srv' = srv /\ (Live' => Live)
        /\ Joins(req.frame) /\ req.frame.mid = req.mid /\ req.mid # NoMid
        /\ Shorter(respQ', respQ)
    BY <1>3 DEF Resends, Alike, device, Live, Current
  <2>2. QED
    BY <1>0, <2>1, LatestKept
<1>4. CASE Stops
  <2>1. /\ req'.mid = req.mid /\ req'.rid = req.rid /\ srv' = srv /\ ~Live'
        /\ Shorter(reqQ', reqQ) /\ Shorter(respQ', respQ)
    BY <1>4 DEF Stops, Alike, device, Live, Shorter
  <2>2. QED
    BY <1>0, <2>1, LatestKept
<1>5. CASE req'.mid = NoMid
  BY <1>5 DEF Latest
<1>6. CASE Serve
  <2>1. PICK f \in Request, r \in Response :
          Serves(f, r) /\ (Repeats(f, r) \/ Takes(f, r) \/ Keeps(f, r))
    BY <1>6, ServeKinds
  <2>2. QED
    BY <2>1, LatestServe
<1>7. ASSUME NEW q \in ReqType, q.rid = req.rid, Moves(q)
      PROVE  Latest'
  <2>0. srv' = srv /\ Shorter(respQ', respQ)
    BY <1>7 DEF Moves, device
  <2>1. ASSUME NEW f \in Request, NewFrame(q, f)
        PROVE  Latest'
    <3>1. f.rid = req.rid /\ Joins(f) /\ req'.mid = f.mid /\ req'.rid = req.rid
      BY <1>7, <2>1 DEF NewFrame
    <3>2. Live' => Live
      BY <2>1 DEF NewFrame, Live
    <3>3. Live' => \A i \in 1 .. Len(reqQ) : reqQ[i].mid = srv.mid
      BY <1>7, <3>2, Replies DEF Replied
    <3>4. /\ f.mid # srv.mid
          /\ \A i \in 1 .. Len(reqQ) : reqQ[i].mid # f.mid
          /\ \A i \in 1 .. Len(respQ) : respQ[i].mid # f.mid
      BY <1>7, <2>1, NewFrameLast
    <3>5. QED
      BY <1>0, <2>0, <3>1, <3>3, <3>4, LatestFresh
  <2>2. CASE Crashes(q)
    <3>1. req' = q /\ ~Live' /\ Shorter(reqQ', reqQ)
      BY <2>2 DEF Crashes, Live, Shorter
    <3>2. q = req \/ q.mid = NoMid
      BY <1>7, Replies DEF Replied
    <3>3. QED
      BY <1>0, <1>5, <2>0, <3>1, <3>2, LatestKept
  <2>3. CASE Ends(q)
    BY <1>5, <2>3 DEF Ends
  <2>4. QED
    BY <1>7, <2>1, <2>2, <2>3, Builds
<1>8. QED
  BY <1>1, <1>2, <1>3, <1>4, <1>5, <1>6, <1>7, Kinds DEF Fails

----------------------------------------------------------------------------
(* Numbers of a piece of body                                              *)

LEMMA Multiples ==
  ASSUME NEW a \in Nat, NEW b \in Nat, NEW d \in Nat \ {0}, a < b
  PROVE  a * d + d <= b * d
  OBVIOUS

LEMMA Quotient ==
  ASSUME NEW n \in Nat, NEW d \in Nat \ {0}
  PROVE  n \div d \in Nat /\ (n \div d) * d <= n /\ n < (n \div d) * d + d
  OBVIOUS

\* The block number counts whole blocks.
LEMMA BlockNumber ==
  ASSUME NEW n \in Nat
  PROVE  /\ n \div BlockSize \in Nat
         /\ (n \div BlockSize) * BlockSize \in Nat
         /\ n < (n \div BlockSize) * BlockSize + BlockSize
         /\ Aligned(n) => (n \div BlockSize) * BlockSize = n
         /\ \A m \in Nat : Aligned(m) /\ m <= n => m <= (n \div BlockSize) * BlockSize
<1> DEFINE b == n \div BlockSize
<1>0. BlockSize \in Nat \ {0}
  BY ConstantsAssumption
<1>1. b \in Nat /\ b * BlockSize <= n /\ n < b * BlockSize + BlockSize
  BY <1>0, Quotient
<1>2. b * BlockSize \in Nat
  BY <1>0, <1>1
<1> HIDE DEF b
<1>3. ASSUME NEW m \in Nat, Aligned(m), m <= n
      PROVE  m <= b * BlockSize
  <2>1. PICK k \in Nat : m = k * BlockSize
    BY <1>3 DEF Aligned
  <2>2. ~(b < k)
    <3>1. SUFFICES ASSUME b < k PROVE FALSE
      OBVIOUS
    <3>2. b * BlockSize + BlockSize <= k * BlockSize
      BY <1>0, <1>1, <3>1, Multiples
    <3>3. QED
      BY <1>0, <1>1, <1>2, <1>3, <2>1, <3>2
  <2>3. k = b \/ k < b
    BY <1>1, <2>2
  <2>4. CASE k = b
    BY <1>2, <2>1, <2>4
  <2>5. CASE k < b
    <3>1. k * BlockSize + BlockSize <= b * BlockSize
      BY <1>0, <1>1, <2>5, Multiples
    <3>2. QED
      BY <1>0, <1>2, <2>1, <3>1
  <2>6. QED
    BY <2>3, <2>4, <2>5
<1>4. Aligned(n) => b * BlockSize = n
  BY <1>1, <1>2, <1>3
<1>5. QED
  BY <1>1, <1>2, <1>3, <1>4 DEF b

LEMMA AlignedNext ==
  ASSUME NEW n \in Nat, Aligned(n)
  PROVE  Aligned(n + BlockSize)
<1>0. BlockSize \in Nat
  BY ConstantsAssumption
<1>1. PICK k \in Nat : n = k * BlockSize
  BY DEF Aligned
<1>2. n + BlockSize = (k + 1) * BlockSize
  BY <1>0, <1>1
<1>3. QED
  BY <1>2 DEF Aligned

LEMMA AlignedZero == Aligned(0)
<1>1. 0 = 0 * BlockSize
  BY ConstantsAssumption
<1>2. QED
  BY <1>1 DEF Aligned

\* The piece from .. from + len of a body, sent when tx bytes have been counted.
LEMMA PieceNumbers ==
  ASSUME NEW from \in Nat, NEW len \in Nat, NEW tx \in Nat, NEW size \in Nat, NEW at \in Nat,
         Aligned(from), from < size, from <= tx, Aligned(tx) \/ tx >= size,
         from + len <= size, len = BlockSize \/ from + len = size,
         tx < at + BlockSize, Aligned(tx) => at = tx
  PROVE  /\ from = at /\ ~(tx + len < size) => from + len = size
         /\ Aligned(tx + len) \/ tx + len >= size
         /\ tx + len <= size => tx + len = at + len
<1>0. BlockSize \in Nat \ {0}
  BY ConstantsAssumption
<1>1. Aligned(tx) => Aligned(tx + BlockSize)
  BY AlignedNext
<1>2. from = at /\ ~(tx + len < size) => from + len = size
  BY <1>0
<1>3. Aligned(tx + len) \/ tx + len >= size
  BY <1>0, <1>1
<1>4. tx + len <= size => tx + len = at + len
  BY <1>0
<1>5. QED
  BY <1>2, <1>3, <1>4

LEMMA SliceFacts ==
  ASSUME NEW q \in ReqType, SliceLen(q) # Nil
  PROVE  /\ Start(q) \in Nat /\ SliceLen(q) \in Nat /\ Sent(q) \in Nat
         /\ Start(q) + SliceLen(q) <= BodySize(q)
         /\ Blockwise(q) => /\ q.size \in Nat /\ BodySize(q) = q.size
                            /\ SliceLen(q) = BlockSize \/ Start(q) + SliceLen(q) = q.size
                            /\ SentAfter(q) = Sent(q) + SliceLen(q)
         /\ ~Blockwise(q) => Start(q) = 0 /\ SliceLen(q) = BodySize(q)
<1>0. /\ q.size \in Nat \cup {Nil} /\ q.tx \in Nat \cup {Nil} /\ q.ack \in Nat \cup {Nil}
      /\ BlockSize \in Nat
  BY ConstantsAssumption DEF ReqType
<1>1. Start(q) \in Nat /\ Sent(q) \in Nat
  BY <1>0 DEF Start, Sent
<1>2. BodySize(q) \in Nat /\ (Blockwise(q) => q.size \in Nat /\ BodySize(q) = q.size)
  BY <1>0 DEF BodySize, Blockwise, Nil
<1>3. ~(BodySize(q) - Start(q) < 0)
  BY <1>1, <1>2 DEF SliceLen
<1>4. SliceLen(q) = IF Blockwise(q) /\ BodySize(q) - Start(q) > BlockSize
                    THEN BlockSize ELSE BodySize(q) - Start(q)
  BY <1>3 DEF SliceLen
<1>5. ~Blockwise(q) => Start(q) = 0
  BY DEF Start
<1>6. Blockwise(q) => SentAfter(q) = Sent(q) + SliceLen(q)
  BY DEF SentAfter
<1>7. QED
  BY <1>0, <1>1, <1>2, <1>3, <1>4, <1>5, <1>6

\* Where the next piece starts, and how much has been counted by then.
Starts(q) ==
  /\ Aligned(Start(q)) /\ Start(q) < q.size /\ Start(q) <= Sent(q)
  /\ Aligned(Sent(q)) \/ Sent(q) >= q.size

LEMMA PieceSent ==
  ASSUME NEW q \in ReqType, SliceLen(q) # Nil, Blockwise(q) => Starts(q),
         NEW m, NEW f, f = BodyFrame(q, m),
         NEW p, p.size = q.size, p.ack = q.ack, p.tx = SentAfter(q)
  PROVE  /\ f.b2 = 0 /\ Piece(f)
         /\ f.from = Start(q) /\ f.from = Start(p)
         /\ f.b1 # Nil <=> Blockwise(p)
         /\ Blockwise(p) => Numbers(p, f)
<1>0. /\ Start(q) \in Nat /\ SliceLen(q) \in Nat /\ Sent(q) \in Nat
      /\ Start(q) + SliceLen(q) <= BodySize(q)
      /\ Blockwise(q) => /\ q.size \in Nat /\ BodySize(q) = q.size
                         /\ SliceLen(q) = BlockSize \/ Start(q) + SliceLen(q) = q.size
                         /\ SentAfter(q) = Sent(q) + SliceLen(q)
      /\ ~Blockwise(q) => Start(q) = 0 /\ SliceLen(q) = BodySize(q)
  BY SliceFacts
<1>1. /\ f.b2 = 0 /\ f.from = Start(q) /\ f.len = SliceLen(q) /\ f.size = q.size
      /\ f.b1 = Block1Num(q) /\ (f.more <=> Blockwise(q) /\ SentAfter(q) < q.size)
  BY DEF BodyFrame
<1>2. Blockwise(p) = Blockwise(q) /\ Start(p) = Start(q)
  BY DEF Blockwise, Start
<1>3. CASE Blockwise(q)
  <2> DEFINE b == Sent(q) \div BlockSize
  <2>1. f.b1 = b /\ b \in Nat
    BY <1>0, <1>1, <1>3, BlockNumber DEF Block1Num
  <2> DEFINE at == b * BlockSize
  <2>2. /\ at \in Nat /\ Sent(q) < at + BlockSize /\ (Aligned(Sent(q)) => at = Sent(q))
        /\ Start(q) <= at
    BY <1>0, <1>3, BlockNumber DEF Starts
  <2>3. f.b1 * BlockSize = at
    BY <2>1
  <2> HIDE DEF b, at
  <2>4. /\ Start(q) = at /\ ~(SentAfter(q) < q.size) => Start(q) + SliceLen(q) = q.size
        /\ Aligned(SentAfter(q)) \/ SentAfter(q) >= q.size
        /\ SentAfter(q) <= q.size => SentAfter(q) = at + SliceLen(q)
    <3>1. /\ Aligned(Start(q)) /\ Start(q) < q.size /\ Start(q) <= Sent(q)
          /\ Aligned(Sent(q)) \/ Sent(q) >= q.size
      BY <1>3 DEF Starts
    <3>2. QED
      BY <1>0, <1>3, <2>2, <3>1, PieceNumbers
  <2>5. f.b1 # Nil /\ BodySize(f) = q.size
    BY <1>0, <1>1, <1>3, <2>1 DEF BodySize, Nil
  <2>6. Piece(f)
    BY <1>0, <1>1, <1>3, <2>2, <2>3, <2>4, <2>5 DEF Piece
  <2>7. Numbers(p, f)
    BY <1>0, <1>1, <1>3, <2>2, <2>3, <2>4 DEF Numbers, Starts
  <2>8. QED
    BY <1>1, <1>2, <1>3, <2>5, <2>6, <2>7
<1>4. CASE ~Blockwise(q)
  <2>1. f.b1 = Nil /\ BodySize(f) = BodySize(q) /\ ~f.more
    BY <1>1, <1>4 DEF Block1Num, BodySize
  <2>2. Piece(f)
    BY <1>0, <1>1, <1>4, <2>1 DEF Piece
  <2>3. QED
    BY <1>1, <1>2, <1>4, <2>1, <2>2
<1>5. QED
  BY <1>3, <1>4

\* The answer to a piece of body: the next piece starts where the device has got to,
\* or where this one did.
LEMMA NextPiece ==
  ASSUME TypeOK, Current, Shape, Counts, BodyAtDevice, Live,
         NEW q \in ReqType, Replied(q), ReqNotDone(q), SliceLen(q) # Nil
  PROVE  /\ Blockwise(q) => Starts(q)
         /\ srv.rid = q.rid => srv.len <= Start(q)
<1>0. /\ req.mid # NoMid /\ srv.mid = req.mid /\ req.frame \in Request
      /\ req.frame.rid = req.rid /\ srv.resp.class \in {0, 2}
      /\ q.rid = req.rid /\ q.size = req.size /\ q.tx = req.tx
      /\ q.ack = (IF srv.resp.class = 2 THEN req.tx ELSE req.ack)
  BY DEF Replied, Current
<1>1. /\ req \in ReqType /\ req.tx \in Nat /\ req.tx # Nil /\ Sent(q) = req.tx
      /\ Blockwise(q) = Blockwise(req) /\ req.size \in Nat \cup {Nil}
  BY <1>0 DEF TypeOK, ReqType, Shape, Sent, Blockwise
<1>2. req.frame.b2 = 0
  <2>1. ~(req.frame.b2 > 0)
    BY <1>0 DEF Shape, ReqNotDone
  <2>2. QED
    BY <1>0, <2>1 DEF Request
<1>3. /\ req.frame.from = Start(req)
      /\ req.frame.b1 # Nil <=> Blockwise(req)
      /\ Blockwise(req) => Numbers(req, req.frame)
  BY <1>2 DEF Counts
<1>4. CASE srv.resp.class = 2
  <2>1. req.size # Nil /\ req.tx # req.size /\ q.ack = req.tx
    BY <1>0, <1>1, <1>4 DEF ReqNotDone
  <2>2. Blockwise(req)
    BY <1>0, <1>2, <2>1 DEF Shape
  <2>3. Start(q) = req.tx
    BY <1>1, <2>1, <2>2 DEF Start
  <2>4. req.tx < req.size
    BY <1>0, <1>1, <2>1, <2>2, <2>3, SliceFacts
  <2>5. Aligned(req.tx) /\ req.tx = req.frame.b1 * BlockSize + req.frame.len
    BY <1>1, <1>3, <2>1, <2>2, <2>4 DEF Numbers
  <2>6. Starts(q)
    BY <1>0, <1>1, <2>3, <2>4, <2>5 DEF Starts
  <2>7. srv.len = req.tx
    BY <1>0, <1>2, <1>3, <1>4, <2>2, <2>5 DEF BodyAtDevice, Answered
  <2>8. QED
    BY <1>1, <2>3, <2>6, <2>7
<1>5. CASE srv.resp.class = 0
  <2>1. q.ack = req.ack
    BY <1>0, <1>5
  <2>2. Start(q) = req.frame.from
    BY <1>0, <1>1, <1>3, <2>1 DEF Start
  <2>3. Blockwise(q) => Starts(q)
    BY <1>0, <1>1, <1>3, <2>2 DEF Starts, Numbers
  <2>4. srv.rid = req.rid => srv.len <= req.frame.from
    BY <1>0, <1>2, <1>5 DEF BodyAtDevice, Answered, Ahead
  <2>5. QED
    BY <1>0, <2>2, <2>3, <2>4
<1>6. QED
  BY <1>0, <1>4, <1>5

\* A frame that reads on asks for a block after the first.
LEMMA ReadAhead ==
  ASSUME NEW q, Replied(q), q.more, NEW m, NEW f, f = ReadFrame(q, m)
  PROVE  f.b2 = srv.resp.num + 1 /\ f.b2 \in Nat /\ f.b2 > 0 /\ ~f.more
<1>1. q.num = srv.resp.num /\ srv.resp.num \in Nat
  BY DEF Replied, Response
<1>2. QED
  BY <1>1 DEF ReadFrame

\* What the first frame of a request is, and one that is sent upon an answer.
SentWell(f) ==
  /\ Piece(f) /\ Ahead(f)
  /\ f.b2 = 0 => /\ f.from = Start(req')
                 /\ f.b1 # Nil <=> Blockwise(req')
                 /\ Blockwise(req') => Numbers(req', f)

LEMMA OpensWell ==
  ASSUME TypeOK, Standing, NEW n \in ReqType, NEW f \in Request, Opens(n, f)
  PROVE  SentWell(f)
<1>1. /\ n.tx = Nil /\ n.ack = Nil /\ SliceLen(n) \in Nat /\ f = BodyFrame(n, f.mid)
      /\ f.rid = req.rid + 1
      /\ req'.size = n.size /\ req'.tx = SentAfter(n) /\ req'.ack = n.ack
  BY DEF Opens, NewFacts, BodyFrame
<1>2. SliceLen(n) # Nil
  BY <1>1 DEF Nil
<1>3. Start(n) = 0 /\ Sent(n) = 0
  BY <1>1 DEF Start, Sent
<1>4. Blockwise(n) => Starts(n)
  BY <1>3, AlignedZero, ConstantsAssumption DEF Starts, Blockwise, ReqType, Nil
<1>5. /\ f.b2 = 0 /\ Piece(f) /\ f.from = Start(req')
      /\ f.b1 # Nil <=> Blockwise(req')
      /\ Blockwise(req') => Numbers(req', f)
  BY <1>1, <1>2, <1>4, PieceSent
<1>6. f.rid # srv.rid
  BY <1>1, Basics DEF Standing
<1>7. QED
  BY <1>5, <1>6 DEF SentWell, Ahead

LEMMA NextWell ==
  ASSUME TypeOK, Current, Shape, Counts, BodyAtDevice, Live,
         NEW q \in ReqType, Replied(q), NEW f \in Request, NewFrame(q, f),
         SendsBody(q, f) \/ SendsRead(q, f)
  PROVE  SentWell(f)
<1>1. CASE SendsBody(q, f)
  <2>1. /\ ReqNotDone(q) /\ SliceLen(q) # Nil /\ f = BodyFrame(q, f.mid)
        /\ req'.size = q.size /\ req'.tx = SentAfter(q) /\ req'.ack = q.ack
        /\ f.rid = q.rid
    BY <1>1 DEF SendsBody, NewFrame
  <2>2. /\ Blockwise(q) => Starts(q)
        /\ srv.rid = q.rid => srv.len <= Start(q)
    BY <2>1, NextPiece
  <2>3. /\ f.b2 = 0 /\ Piece(f) /\ f.from = Start(q) /\ f.from = Start(req')
        /\ f.b1 # Nil <=> Blockwise(req')
        /\ Blockwise(req') => Numbers(req', f)
    BY <2>1, <2>2, PieceSent
  <2>4. QED
    BY <2>1, <2>2, <2>3 DEF SentWell, Ahead
<1>2. CASE SendsRead(q, f)
  <2>1. f.b2 > 0 /\ f.b2 \in Nat
    BY <1>2, ReadAhead DEF SendsRead
  <2>2. f.b2 # 0
    BY <2>1
  <2>3. QED
    BY <2>2 DEF SentWell, Piece, Ahead
<1>3. QED
  BY <1>1, <1>2

----------------------------------------------------------------------------
(* The body at the device                                                  *)

LEMMA AssembledFields ==
  ASSUME TypeOK, NEW f \in Request, NEW at, at = IF f.b1 \in {Nil, 0} THEN 0 ELSE srv.len
  PROVE  /\ Assembled(f).len = at + f.len
         /\ Assembled(f).intact = ((at = 0 \/ srv.intact) /\ f.from = at)
<1>1. srv \in SrvType
  BY DEF TypeOK
<1>2. QED
  BY <1>1 DEF Assembled, SrvType

\* A piece that the device takes goes where it belongs.
LEMMA InPlace ==
  ASSUME TypeOK, Bodies, NEW f \in Request, NEW r, Serves(f, r), Takes(f, r),
         again[f.rid] = 0
  PROVE  /\ Assembled(f).intact
         /\ Assembled(f).len = f.from + f.len
         /\ f.b1 # Nil => f.from = f.b1 * BlockSize
         /\ ~f.more => Assembled(f).len = BodySize(f)
<1> DEFINE at == IF f.b1 \in {Nil, 0} THEN 0 ELSE srv.len
<1>0. /\ f.b2 = 0 /\ InSequence(f) /\ f.mid # srv.mid
      /\ f = reqQ[1] /\ 1 \in 1 .. Len(reqQ) /\ f.rid \in Rid
      /\ f.from \in Nat /\ f.len \in Nat /\ f.b1 \in Nat \cup {Nil} /\ srv.len \in Nat
      /\ BlockSize \in Nat
  BY ConstantsAssumption DEF Takes, Serves, Request, TypeOK, SrvType
<1>1. Piece(f) /\ Ahead(f)
  BY <1>0 DEF Bodies
<1>2. /\ Assembled(f).len = at + f.len
      /\ Assembled(f).intact = ((at = 0 \/ srv.intact) /\ f.from = at)
  BY AssembledFields
<1>3. CASE f.b1 = Nil
  <2>1. at = 0
    BY <1>3
  <2>2. f.from = 0 /\ f.len = BodySize(f)
    BY <1>0, <1>1, <1>3 DEF Piece
  <2> HIDE DEF at
  <2>3. Assembled(f).intact
    BY <1>2, <2>1, <2>2
  <2>4. Assembled(f).len = f.len /\ f.from + f.len = f.len
    BY <1>0, <1>2, <2>1, <2>2
  <2>5. QED
    BY <1>3, <2>2, <2>3, <2>4
<1>4. CASE f.b1 = 0
  <2>1. f.b1 # Nil /\ f.b1 * BlockSize = 0 /\ at = 0
    BY <1>0, <1>4 DEF Nil
  <2>2. f.from = 0 /\ f.from = f.b1 * BlockSize
    BY <1>0, <1>1, <2>1 DEF Piece
  <2>3. QED
    BY <1>0, <1>1, <1>2, <2>1, <2>2 DEF Piece
<1>5. CASE f.b1 \notin {Nil, 0}
  <2>1. at = srv.len /\ f.rid = srv.rid /\ f.b1 * BlockSize = srv.len
    BY <1>0, <1>5 DEF InSequence
  <2>2. f.from = f.b1 * BlockSize
    BY <1>0, <1>1, <1>5, <2>1 DEF Piece, Ahead
  <2>3. srv.intact
    BY <1>0, <2>1 DEF Bodies
  <2>4. ~f.more => f.from + f.len = BodySize(f)
    BY <1>0, <1>1, <1>5, <2>2 DEF Piece
  <2>5. QED
    BY <1>2, <2>1, <2>2, <2>3, <2>4
<1>6. QED
  BY <1>3, <1>4, <1>5

\* The device has got on without the frames behind: none is of the same request.
LEMMA StillAhead ==
  ASSUME TypeOK, InTurn, Bodies, NEW f \in Request, NEW r, Serves(f, r),
         Repeats(f, r) \/ Takes(f, r) \/ Keeps(f, r),
         NEW i \in 1 .. Len(reqQ'), again[reqQ'[i].rid] = 0, reqQ'[i].mid # f.mid
  PROVE  Ahead(reqQ[i])'
<1> DEFINE g == reqQ[i + 1]
<1>0. /\ f = reqQ[1] /\ 1 \in 1 .. Len(reqQ) /\ i + 1 \in 1 .. Len(reqQ) /\ 1 < i + 1
      /\ reqQ'[i] = g /\ Len(reqQ) \in Nat
  BY Basics DEF Serves
<1>1. g.mid # srv.mid /\ again[g.rid] = 0 /\ g.mid # f.mid
  BY <1>0 DEF InTurn
<1>2. Ahead(g)
  BY <1>0, <1>1 DEF Bodies
<1>3. (g.b2 = 0 /\ g.rid = srv'.rid => srv'.len <= g.from) => Ahead(reqQ[i])'
  BY <1>0 DEF Ahead
<1>4. CASE Holds
  BY <1>2, <1>3, <1>4 DEF Holds, Ahead
<1>5. CASE Takes(f, r)
  <2>1. f.mid # srv.mid /\ srv'.rid = f.rid
    BY <1>5 DEF Takes
  <2>2. g.rid # f.rid
    BY <1>0, <1>1, <2>1 DEF InTurn
  <2>3. QED
    BY <1>3, <2>1, <2>2
<1>6. QED
  BY <1>4, <1>5 DEF Repeats, Keeps

LEMMA BodiesServe ==
  ASSUME TypeOK, InTurn, Bodies, NEW f \in Request, NEW r, Serves(f, r),
         Repeats(f, r) \/ Takes(f, r) \/ Keeps(f, r)
  PROVE  Bodies'
<1>0. /\ UNCHANGED client /\ srv'.mid = f.mid /\ f.rid \in Rid
      /\ again' = again /\ req' = req /\ (Live' <=> Live)
      /\ \A i \in 1 .. Len(reqQ') : i + 1 \in 1 .. Len(reqQ) /\ reqQ'[i] = reqQ[i + 1]
  BY DEF Serves, client, Live
<1>1. \A i \in 1 .. Len(reqQ') : again'[reqQ'[i].rid] = 0 => Piece(reqQ[i + 1])
  BY <1>0 DEF Bodies
<1>2. \A i \in 1 .. Len(reqQ') : again'[reqQ'[i].rid] = 0 => Piece(reqQ[i])'
  BY <1>0, <1>1 DEF Piece, BodySize
<1>3. \A i \in 1 .. Len(reqQ') :
        again'[reqQ'[i].rid] = 0 /\ reqQ'[i].mid # srv'.mid => Ahead(reqQ[i])'
  BY <1>0, StillAhead
<1>4. Live' => Piece(req.frame)
  BY <1>0 DEF Bodies
<1>5. srv'.rid \in Rid /\ again'[srv'.rid] = 0 => srv'.intact
  <2>1. CASE Holds
    BY <1>0, <2>1 DEF Holds, Bodies
  <2>2. CASE Takes(f, r)
    BY <1>0, <2>2, InPlace DEF Takes
  <2>3. QED
    BY <2>1, <2>2 DEF Repeats, Keeps
<1>6. \A x \in corrupt' : again'[x] > 0
  <2>1. CASE corrupt' = corrupt
    BY <1>0, <2>1 DEF Bodies
  <2>2. CASE corrupt' # corrupt
    <3>1. Takes(f, r)
      BY <2>2 DEF Repeats, Keeps, Holds
    <3>2. /\ ~f.more /\ corrupt' = corrupt \cup {f.rid}
          /\ ~(Assembled(f).intact /\ Assembled(f).len = BodySize(f))
      BY <2>2, <3>1 DEF Takes
    <3>3. again[f.rid] # 0 /\ again[f.rid] \in Nat
      BY <1>0, <3>1, <3>2, InPlace, Basics
    <3>4. QED
      BY <1>0, <3>2, <3>3 DEF Bodies
  <2>3. QED
    BY <2>1, <2>2
<1>7. QED
  BY <1>0, <1>2, <1>3, <1>4, <1>5, <1>6 DEF Bodies, Piece, BodySize

\* Nothing changes at the device, and nothing new is sent but the frame f.
LEMMA BodiesSent ==
  ASSUME TypeOK, Bodies, UNCHANGED device, Grown, Live' => Piece(req'.frame),
         \/ Shorter(reqQ', reqQ)
         \/ \E f : /\ Joins(f)
                   /\ again'[f.rid] = 0 => Piece(f) /\ (f.mid # srv.mid => Ahead(f))
  PROVE  Bodies'
<1>0. srv' = srv /\ corrupt' = corrupt
  BY DEF device
<1>1. \A r \in Rid : again'[r] = 0 => again[r] = 0
  BY DEF Grown
<1>2. srv'.rid \in Rid /\ again'[srv'.rid] = 0 => srv'.intact
  BY <1>0, <1>1 DEF Bodies
<1>3. \A r \in corrupt' : again'[r] > 0
  <2>1. \A r \in Rid : again[r] \in Nat /\ again'[r] \in Nat
    BY Basics DEF Grown
  <2>2. corrupt \subseteq Rid
    BY DEF TypeOK
  <2>3. QED
    BY <1>0, <1>1, <2>1, <2>2 DEF Bodies
<1>4. \A i \in 1 .. Len(reqQ) : again'[reqQ[i].rid] = 0 =>
        Piece(reqQ[i]) /\ (reqQ[i].mid # srv.mid => Ahead(reqQ[i]))
  BY <1>1, Basics DEF Bodies
<1>5. \A i \in 1 .. Len(reqQ') : again'[reqQ'[i].rid] = 0 =>
        Piece(reqQ'[i]) /\ (reqQ'[i].mid # srv.mid =>
                              (reqQ'[i].b2 = 0 /\ reqQ'[i].rid = srv.rid =>
                                 srv.len <= reqQ'[i].from))
  <2>1. CASE Shorter(reqQ', reqQ)
    BY <1>4, <2>1, ShorterQueues DEF Ahead
  <2>2. ASSUME NEW f, Joins(f),
               again'[f.rid] = 0 => Piece(f) /\ (f.mid # srv.mid => Ahead(f))
        PROVE  \A i \in 1 .. Len(reqQ') : again'[reqQ'[i].rid] = 0 =>
                 Piece(reqQ'[i]) /\ (reqQ'[i].mid # srv.mid =>
                                       (reqQ'[i].b2 = 0 /\ reqQ'[i].rid = srv.rid =>
                                          srv.len <= reqQ'[i].from))
    BY <1>4, <2>2, JoinsFacts, Basics DEF Ahead
  <2>3. QED
    BY <2>1, <2>2
<1>6. QED
  BY <1>0, <1>2, <1>3, <1>5 DEF Bodies, Piece, BodySize, Ahead

LEMMA BodiesStep ==
  ASSUME TypeOK, Current, Shape, Standing, InTurn, Latest, Bodies, Counts, BodyAtDevice,
         [Next]_vars
  PROVE  Bodies'
<1>0. UNCHANGED again => Grown
  BY GrownFacts
<1>1. CASE Submit
  <2>1. PICK n \in ReqType, f \in Request : Opens(n, f)
    BY <1>1, SubmitOpens
  <2>2. Joins(f) /\ UNCHANGED <<again, device>> /\ req'.frame = f
    BY <2>1 DEF Opens
  <2>3. Piece(f) /\ Ahead(f)
    BY <2>1, OpensWell DEF SentWell
  <2>4. QED
    BY <1>0, <2>2, <2>3, BodiesSent
<1>2. CASE Quiet
  <2>1. UNCHANGED <<again, device>> /\ Shorter(reqQ', reqQ) /\ req'.frame = req.frame
        /\ (Live' => Live)
    BY <1>2 DEF Quiet, Alike, Live
  <2>2. Live' => Piece(req'.frame)
    BY <2>1 DEF Bodies
  <2>3. QED
    BY <1>0, <2>1, <2>2, BodiesSent
<1>3. CASE Resends
  <2>1. /\ UNCHANGED <<again, device>> /\ Joins(req.frame) /\ req'.frame = req.frame
        /\ (Live' => Live) /\ req.frame.rid = req.rid /\ req.frame.mid = req.mid
        /\ again[req.rid] = 0 => Live
    BY <1>3 DEF Resends, Alike, Live, Current, Standing
  <2>2. Live => Piece(req.frame)
    BY DEF Bodies
  <2>3. Live /\ req.mid # srv.mid => Ahead(req.frame)
    BY DEF BodyAtDevice, Answered, Ahead
  <2>4. QED
    BY <1>0, <2>1, <2>2, <2>3, BodiesSent
<1>4. ASSUME ~Live', UNCHANGED <<again, device, reqQ>>
      PROVE  Bodies'
  BY <1>0, <1>4, BodiesSent DEF Shorter
<1>5. CASE Stops
  BY <1>4, <1>5 DEF Stops, Live
<1>6. CASE Fails
  BY <1>4, <1>6 DEF Fails, Live
<1>7. CASE Serve
  <2>1. PICK f \in Request, r \in Response :
          Serves(f, r) /\ (Repeats(f, r) \/ Takes(f, r) \/ Keeps(f, r))
    BY <1>7, ServeKinds
  <2>2. QED
    BY <2>1, BodiesServe
<1>8. ASSUME NEW q \in ReqType, q.rid = req.rid, Moves(q)
      PROVE  Bodies'
  <2>0. UNCHANGED device
    BY <1>8 DEF Moves
  <2>1. ASSUME NEW f \in Request, NewFrame(q, f), SendsBody(q, f) \/ SendsRead(q, f)
        PROVE  Bodies'
    <3>1. f.rid = req.rid /\ Joins(f) /\ req'.frame = f /\ (Live' => Live)
      BY <1>8, <2>1 DEF NewFrame, Live
    <3>2. Live => SentWell(f)
      BY <1>8, <2>1, Replies, NextWell
    <3>3. Grown /\ (again'[req.rid] = 0 => Live)
      BY <1>8, <2>1, NewFrameLast
    <3>4. Live => Piece(f) /\ Ahead(f)
      BY <3>2 DEF SentWell
    <3>5. QED
      BY <2>0, <3>1, <3>3, <3>4, BodiesSent
  <2>2. CASE Crashes(q)
    BY <1>4, <2>0, <2>2 DEF Crashes, Live
  <2>3. CASE Ends(q)
    BY <1>4, <2>0, <2>3 DEF Ends, Live
  <2>4. QED
    BY <1>8, <2>1, <2>2, <2>3, Builds
<1>9. QED
  BY <1>1, <1>2, <1>3, <1>5, <1>6, <1>7, <1>8, Kinds

----------------------------------------------------------------------------
(* The counters of the client                                              *)

\* Neither counter is beyond the end of the body.
Bounded(q) == Blockwise(q) => q.tx <= q.size /\ Start(q) <= q.size

LEMMA CountsParts ==
  /\ Counts <=> /\ Live /\ req.frame.b2 = 0 =>
                     /\ req.frame.from = Start(req)
                     /\ req.frame.b1 # Nil <=> Blockwise(req)
                     /\ Blockwise(req) => Numbers(req, req.frame)
                /\ ~refused /\ pc = "wait" /\ again[req.rid] = 0 => Bounded(req)
                /\ pc = "crashed" => refused \/ again[req.rid] > 0
  /\ Counts' <=> /\ Live' /\ req'.frame.b2 = 0 =>
                      /\ req'.frame.from = Start(req')
                      /\ req'.frame.b1 # Nil <=> Blockwise(req')
                      /\ Blockwise(req') => Numbers(req', req'.frame)
                 /\ ~refused' /\ pc' = "wait" /\ again'[req'.rid] = 0 => Bounded(req')
                 /\ pc' = "crashed" => refused' \/ again'[req'.rid] > 0
  BY DEF Counts, Bounded, Start, Blockwise, Numbers, Aligned

LEMMA SameNumbers ==
  ASSUME NEW q, NEW p, p.size = q.size, p.tx = q.tx, p.ack = q.ack
  PROVE  /\ Start(p) = Start(q) /\ Blockwise(p) = Blockwise(q) /\ SliceLen(p) = SliceLen(q)
         /\ Bounded(p) <=> Bounded(q)
         /\ \A f : Numbers(p, f) <=> Numbers(q, f)
         /\ ReqNotDone(p) <=> ReqNotDone(q)
<1>1. Start(p) = Start(q) /\ Blockwise(p) = Blockwise(q)
  BY DEF Start, Blockwise
<1>2. SliceLen(p) = SliceLen(q)
  BY <1>1 DEF SliceLen, BodySize
<1>3. QED
  BY <1>1, <1>2 DEF Bounded, Numbers, ReqNotDone

\* An answer that is not a refusal moves the second counter up to the first.
LEMMA BoundedReply ==
  ASSUME TypeOK, Current, Standing, Latest, Counts, NEW q \in ReqType, Moves(q),
         ~refused', again[req.rid] = 0
  PROVE  Bounded(q)
<1>1. CASE q = req /\ ~refused
  BY <1>1, CountsParts DEF Moves
<1>2. CASE Replied(q) /\ ~refused
  <2>1. Bounded(req)
    BY <1>2, CountsParts DEF Moves
  <2>2. q.size = req.size /\ q.tx = req.tx /\ q.ack = req.tx
    BY <1>2 DEF Replied
  <2>3. Blockwise(q) => q.tx <= q.size /\ 0 <= q.size
    BY <2>1, <2>2, ConstantsAssumption DEF Bounded, Blockwise, ReqType, Nil
  <2>4. QED
    BY <2>2, <2>3 DEF Bounded, Start
<1>3. refused' = refused => ~refused
  OBVIOUS
<1>4. Replied(q) => ~refused
  BY DEF Replied
<1>5. QED
  BY <1>1, <1>2, <1>3, <1>4, Replies

LEMMA CountsMove ==
  ASSUME TypeOK, Current, Shape, Standing, Latest, Counts, BodyAtDevice,
         NEW q \in ReqType, q.rid = req.rid, Moves(q),
         NEW f \in Request, NewFrame(q, f), SendsBody(q, f) \/ SendsRead(q, f)
  PROVE  Counts'
<1>0. /\ f.rid = req.rid /\ req'.frame = f /\ req'.rid = req.rid
      /\ req'.size = q.size /\ req'.ack = q.ack
      /\ (Live' => Live) /\ pc = "wait" /\ pc' = "wait"
  BY DEF NewFrame, Live, Moves
<1>1. Live => Replied(q) /\ SentWell(f)
  BY Replies, NextWell
<1>2. again'[req.rid] = 0 => Live /\ again[req.rid] = 0
  <2>1. Grown /\ (again'[req.rid] = 0 => Live)
    BY NewFrameLast
  <2>2. QED
    BY <1>0, <2>1, Basics DEF Grown
<1>3. ASSUME ~refused', again'[req'.rid] = 0
      PROVE  Bounded(req')
  <2>1. Bounded(q) /\ Replied(q)
    BY <1>0, <1>1, <1>2, <1>3, BoundedReply
  <2>2. q.ack = q.tx
    BY <1>3, <2>1 DEF Replied
  <2>3. CASE SendsRead(q, f)
    BY <1>0, <2>1, <2>3, SameNumbers DEF SendsRead
  <2>4. CASE SendsBody(q, f)
    <3>1. req'.tx = SentAfter(q) /\ SliceLen(q) # Nil
      BY <2>4 DEF SendsBody
    <3>2. /\ Start(q) \in Nat /\ SliceLen(q) \in Nat /\ Sent(q) \in Nat
          /\ Start(q) + SliceLen(q) <= BodySize(q)
          /\ Blockwise(q) => /\ q.size \in Nat /\ BodySize(q) = q.size
                             /\ SentAfter(q) = Sent(q) + SliceLen(q)
      BY <3>1, SliceFacts
    <3>3. Blockwise(q) => Start(q) = Sent(q)
      BY <2>2 DEF Start, Sent
    <3>4. Start(req') = Start(q) /\ Blockwise(req') = Blockwise(q)
      BY <1>0 DEF Start, Blockwise
    <3>5. QED
      BY <1>0, <3>1, <3>2, <3>3, <3>4 DEF Bounded
  <2>5. QED
    BY <2>3, <2>4
<1>4. QED
  BY <1>0, <1>1, <1>3, CountsParts DEF SentWell

LEMMA CountsStep ==
  ASSUME TypeOK, Current, Shape, Standing, Latest, Counts, BodyAtDevice, [Next]_vars
  PROVE  Counts'
<1>1. CASE Submit
  <2>1. PICK n \in ReqType, f \in Request : Opens(n, f)
    BY <1>1, SubmitOpens
  <2>2. /\ req'.frame = f /\ pc' = "wait" /\ req'.size = n.size /\ req'.ack = Nil
        /\ req'.tx = SentAfter(n) /\ n.tx = Nil /\ n.ack = Nil /\ SliceLen(n) \in Nat
    BY <2>1 DEF Opens, NewFacts
  <2>3. SentWell(f)
    BY <2>1, OpensWell
  <2>4. SliceLen(n) # Nil
    BY <2>2 DEF Nil
  <2>5. Start(n) = 0 /\ Sent(n) = 0 /\ Start(req') = 0 /\ Blockwise(req') = Blockwise(n)
    BY <2>2 DEF Start, Sent, Blockwise
  <2>6. Bounded(req')
    <3>1. Blockwise(n) => SentAfter(n) <= n.size /\ 0 <= n.size
      BY <2>4, <2>5, SliceFacts
    <3>2. QED
      BY <2>2, <2>5, <3>1 DEF Bounded
  <2>7. QED
    BY <2>2, <2>3, <2>6, CountsParts DEF SentWell
<1>2. ASSUME UNCHANGED <<refused, again>>, Alike(req', req), Live' => Live,
             pc' = "wait" => pc = "wait", pc' = "crashed" => pc = "crashed"
      PROVE  Counts'
  BY <1>2, SameNumbers, CountsParts DEF Alike
<1>3. CASE Quiet
  BY <1>2, <1>3 DEF Quiet, Live
<1>4. CASE Resends
  BY <1>2, <1>4 DEF Resends, Live
<1>5. CASE Stops
  BY <1>2, <1>5 DEF Stops, Live
<1>6. CASE Fails
  BY <1>6, CountsParts DEF Fails, Live
<1>7. CASE UNCHANGED client
  BY <1>7 DEF client, Counts, Live, Start, Blockwise, Numbers
<1>8. ASSUME NEW q \in ReqType, q.rid = req.rid, Moves(q)
      PROVE  Counts'
  <2>0. pc = "wait" /\ again[req.rid] \in Nat
    BY <1>8, Basics DEF Moves
  <2>1. ASSUME NEW f \in Request, NewFrame(q, f), SendsBody(q, f) \/ SendsRead(q, f)
        PROVE  Counts'
    BY <1>8, <2>1, CountsMove
  <2>2. CASE Crashes(q)
    <3>1. /\ SliceLen(q) = Nil /\ pc' = "crashed" /\ again' = again /\ req' = q
      BY <2>2 DEF Crashes
    <3>2. ~Bounded(q)
      <4>1. q.size \in Nat \cup {Nil} /\ q.ack \in Nat \cup {Nil} /\ BlockSize \in Nat
        BY ConstantsAssumption DEF ReqType
      <4>2. BodySize(q) - Start(q) < 0
        BY <3>1, <4>1, ConstantsAssumption DEF SliceLen, BodySize, Start, Nil
      <4>3. Blockwise(q)
        BY <4>1, <4>2 DEF Start, BodySize, Nil
      <4>4. BodySize(q) = q.size
        BY <4>1, <4>3 DEF BodySize, Blockwise, Nil
      <4>5. Start(q) \in Nat
        BY <4>1 DEF Start
      <4>6. QED
        BY <4>1, <4>2, <4>3, <4>4, <4>5 DEF Bounded, Nil
    <3>3. refused' \/ again[req.rid] > 0
      BY <1>8, <2>0, <3>2, BoundedReply
    <3>4. ~Live' /\ pc' # "wait"
      BY <3>1 DEF Live
    <3>5. QED
      BY <1>8, <3>1, <3>3, <3>4, CountsParts
  <2>3. CASE Ends(q)
    <3>1. /\ req'.rid = req.rid /\ again' = again /\ ~Live' /\ pc' = "wait"
          /\ req'.size = q.size /\ req'.tx = q.tx /\ req'.ack = q.ack
      BY <1>8, <2>0, <2>3 DEF Ends, Live
    <3>2. ~refused' /\ again[req.rid] = 0 => Bounded(req')
      BY <1>8, <3>1, BoundedReply, SameNumbers
    <3>3. QED
      BY <3>1, <3>2, CountsParts
  <2>4. QED
    BY <1>8, <2>1, <2>2, <2>3, Builds
<1>9. QED
  BY <1>1, <1>3, <1>4, <1>5, <1>6, <1>7, <1>8, Kinds DEF Serve

----------------------------------------------------------------------------
(* What the device has of the request                                      *)

\* The answer to the last piece of body, or to a frame that reads on: what is read
\* of the result then, and whether there is more.
LEMMA ReadSoFar ==
  ASSUME TypeOK, Current, Shape, BodyAtDevice, ResultAtDevice, Live,
         NEW q, Replied(q), ~ReqNotDone(q), srv.resp.class = 2
  PROVE  /\ srv.rid = req.rid /\ runs[req.rid] > 0 /\ srv.blocks \in Nat
         /\ req.frame.b2 \in Nat /\ srv.resp.num = req.frame.b2
         /\ q.more <=> req.frame.b2 + 1 < srv.blocks
         /\ Len(srv.resp.data) = IF srv.blocks = 0 THEN 0 ELSE 1
         /\ req.frame.b2 > 0 => req.frame.b2 < srv.blocks
<1>0. /\ req.mid # NoMid /\ Answered /\ req.frame.b2 \in Nat /\ srv.blocks \in Nat
      /\ srv.resp.num = req.frame.b2 /\ q.more = srv.resp.more
  BY DEF Replied, Answered, Request, Fits, TypeOK, SrvType
<1>1. CASE req.frame.b2 = 0
  <2>1. ~req.frame.more
    <3>1. q.size = req.size /\ q.tx = req.tx /\ (q.size = Nil \/ q.tx = q.size)
      BY DEF Replied, ReqNotDone
    <3>2. req.size \in Nat \cup {Nil} /\ BlockSize \in Nat
      BY ConstantsAssumption DEF TypeOK, ReqType
    <3>3. ~(Blockwise(req) /\ req.tx < req.size)
      BY <3>1, <3>2 DEF Blockwise, Nil
    <3>4. QED
      BY <1>0, <1>1, <3>3 DEF Shape
  <2>2. /\ srv.rid = req.rid /\ runs[req.rid] > 0
        /\ srv.resp.more <=> srv.blocks > 1
        /\ Len(srv.resp.data) = IF srv.blocks = 0 THEN 0 ELSE 1
    BY <1>0, <1>1, <2>1 DEF BodyAtDevice
  <2>3. req.frame.b2 + 1 < srv.blocks <=> srv.blocks > 1
    BY <1>0, <1>1
  <2>4. QED
    BY <1>0, <1>1, <2>2, <2>3
<1>2. CASE req.frame.b2 > 0
  <2>1. /\ srv.rid = req.rid /\ runs[req.rid] > 0 /\ req.frame.b2 < srv.blocks
        /\ Len(srv.resp.data) = 1
        /\ srv.resp.more <=> req.frame.b2 + 1 < srv.blocks
    BY <1>0, <1>2 DEF ResultAtDevice
  <2>2. srv.blocks # 0
    BY <1>0, <1>2, <2>1
  <2>3. QED
    BY <1>0, <2>1, <2>2
<1>3. QED
  BY <1>0, <1>1, <1>2

\* Nothing but the timer and the links moves.
LEMMA AtDeviceKept ==
  ASSUME TypeOK, BodyAtDevice, ResultAtDevice, UNCHANGED device,
         req'.rid = req.rid, req'.mid = req.mid, req'.frame = req.frame, Live' => Live,
         \/ Shorter(reqQ', reqQ)
         \/ \E f : Joins(f) /\ f.mid = req.mid
  PROVE  BodyAtDevice' /\ ResultAtDevice'
<1>0. srv' = srv /\ runs' = runs
  BY DEF device
<1>1. BodyAtDevice'
  BY <1>0 DEF BodyAtDevice, Answered, Ahead
<1>2. (\A i \in 1 .. Len(reqQ) : reqQ[i].mid \in {srv.mid, req.mid}) =>
        \A i \in 1 .. Len(reqQ') : reqQ'[i].mid \in {srv.mid, req.mid}
  <2>1. CASE Shorter(reqQ', reqQ)
    BY <2>1, ShorterQueues
  <2>2. CASE \E f : Joins(f) /\ f.mid = req.mid
    BY <2>2, JoinsFacts, Basics
  <2>3. QED
    BY <2>1, <2>2
<1>3. ResultAtDevice'
  BY <1>0, <1>2 DEF ResultAtDevice, Answered
<1>4. QED
  BY <1>1, <1>3

LEMMA BodyAtDeviceServe ==
  ASSUME TypeOK, Current, Standing, Latest, Bodies, BodyAtDevice,
         NEW f \in Request, NEW r \in Response, Serves(f, r),
         Repeats(f, r) \/ Takes(f, r) \/ Keeps(f, r)
  PROVE  BodyAtDevice'
<1>0. /\ UNCHANGED client /\ (Live' <=> Live) /\ req' = req
      /\ srv'.mid = f.mid /\ srv'.resp = r /\ f.rid \in Rid
      /\ f = reqQ[1] /\ 1 \in 1 .. Len(reqQ) /\ runs \in [Rid -> Nat]
  BY DEF Serves, client, Live, TypeOK
<1> SUFFICES ASSUME Live, req.frame.b2 = 0
             PROVE  /\ ~Answered' => (req.frame.rid = srv'.rid => srv'.len <= req.frame.from)
                    /\ Answered' =>
                         /\ srv'.rid = req.rid
                         /\ srv'.len = req.frame.from + req.frame.len
                         /\ req.frame.b1 # Nil => req.frame.from = req.frame.b1 * BlockSize
                         /\ ~req.frame.more =>
                              /\ runs'[req.rid] > 0
                              /\ r.more <=> srv'.blocks > 1
                              /\ Len(r.data) = IF srv'.blocks = 0 THEN 0 ELSE 1
  BY <1>0 DEF BodyAtDevice, Ahead
<1>1. /\ req.mid # NoMid /\ again[req.rid] = 0 /\ req.frame.rid = req.rid
      /\ f.mid = req.mid => f = req.frame
  BY <1>0 DEF Standing, Current
<1>2. Answered' <=> f.mid = req.mid /\ r.class = 2
  BY <1>0 DEF Answered
<1>3. CASE Repeats(f, r)
  BY <1>0, <1>2, <1>3 DEF Repeats, Holds, BodyAtDevice, Answered, Ahead
<1>4. CASE f.mid # srv.mid /\ f.mid = req.mid
  <2>1. CASE Takes(f, r)
    <3>1. f = req.frame /\ srv'.rid = req.rid /\ srv'.len = Assembled(f).len /\ r.class = 2
      BY <1>1, <1>4, <2>1 DEF Takes
    <3>2. /\ srv'.len = f.from + f.len
          /\ f.b1 # Nil => f.from = f.b1 * BlockSize
      BY <1>1, <2>1, <3>1, InPlace
    <3>3. ~f.more => /\ runs'[req.rid] > 0
                     /\ r.more <=> srv'.blocks > 1
                     /\ Len(r.data) = IF srv'.blocks = 0 THEN 0 ELSE 1
      BY <1>0, <1>1, <2>1, <3>1 DEF Takes
    <3>4. QED
      BY <1>2, <1>4, <3>1, <3>2, <3>3
  <2>2. CASE Keeps(f, r)
    <3>1. r.class # 2 /\ srv'.rid = srv.rid /\ srv'.len = srv.len
      BY <1>1, <1>4, <2>2 DEF Keeps, Holds
    <3>2. QED
      BY <1>2, <1>4, <3>1 DEF BodyAtDevice, Answered, Ahead
  <2>3. QED
    BY <1>3, <2>1, <2>2
<1>5. CASE f.mid # srv.mid /\ f.mid # req.mid
  <2>1. srv.mid # req.mid
    BY <1>0, <1>1, <1>5 DEF Latest
  <2>2. f.rid # req.rid
    BY <1>0, <1>1, <1>5 DEF Latest
  <2>3. Ahead(req.frame)
    BY <2>1 DEF BodyAtDevice, Answered
  <2>4. CASE Takes(f, r)
    BY <1>1, <1>2, <1>5, <2>2, <2>4 DEF Takes
  <2>5. CASE Keeps(f, r)
    BY <1>2, <1>5, <2>3, <2>5 DEF Keeps, Holds, Ahead
  <2>6. QED
    BY <1>3, <2>4, <2>5
<1>6. QED
  BY <1>3, <1>4, <1>5 DEF Takes, Keeps

LEMMA ResultAtDeviceServe ==
  ASSUME TypeOK, Current, Standing, InTurn, Latest, ResultAtDevice,
         NEW f \in Request, NEW r \in Response, Serves(f, r),
         Repeats(f, r) \/ Takes(f, r) \/ Keeps(f, r)
  PROVE  ResultAtDevice'
<1>0. /\ UNCHANGED client /\ (Live' <=> Live) /\ req' = req
      /\ srv'.mid = f.mid /\ srv'.resp = r
      /\ f = reqQ[1] /\ 1 \in 1 .. Len(reqQ) /\ Len(reqQ) \in Nat
      /\ \A i \in 1 .. Len(reqQ') : i + 1 \in 1 .. Len(reqQ) /\ reqQ'[i] = reqQ[i + 1]
  BY Basics DEF Serves, client, Live
<1> SUFFICES ASSUME Live, req.frame.b2 > 0
             PROVE  /\ srv'.rid = req.rid /\ runs'[req.rid] > 0 /\ req.frame.b2 < srv'.blocks
                    /\ \A i \in 1 .. Len(reqQ') : reqQ'[i].mid \in {f.mid, req.mid}
                    /\ Answered' => /\ Len(r.data) = 1
                                    /\ r.more <=> req.frame.b2 + 1 < srv'.blocks
  BY <1>0 DEF ResultAtDevice
<1>1. req.mid # NoMid /\ (f.mid = req.mid => f = req.frame)
  BY <1>0 DEF Standing, Current
<1>2. Answered' <=> f.mid = req.mid /\ r.class = 2
  BY <1>0 DEF Answered
<1>3. f.mid = srv.mid \/ f.mid = req.mid
  BY <1>0 DEF ResultAtDevice
<1>4. CASE Repeats(f, r)
  BY <1>0, <1>2, <1>4 DEF Repeats, Holds, ResultAtDevice, Answered
<1>5. CASE f.mid # srv.mid
  <2>1. f = req.frame
    BY <1>1, <1>3, <1>5
  <2>2. Keeps(f, r)
    BY <1>5, <2>1 DEF Repeats, Takes
  <2>3. /\ srv'.rid = req.rid /\ runs'[req.rid] > 0 /\ req.frame.b2 < srv'.blocks
    BY <2>2 DEF Keeps, Holds, ResultAtDevice
  <2>4. Answered' => Len(r.data) = 1 /\ (r.more <=> req.frame.b2 + 1 < srv'.blocks)
    BY <1>2, <2>1, <2>2 DEF Keeps, Holds
  <2>5. \A i \in 1 .. Len(reqQ') : reqQ'[i].mid = req.mid
    <3>1. SUFFICES ASSUME NEW i \in 1 .. Len(reqQ') PROVE reqQ[i + 1].mid = req.mid
      BY <1>0
    <3>2. i + 1 \in 1 .. Len(reqQ) /\ 1 < i + 1
      BY <1>0
    <3>3. reqQ[i + 1].mid # srv.mid
      BY <1>0, <1>5, <3>2 DEF InTurn
    <3>4. QED
      BY <3>2, <3>3 DEF ResultAtDevice
  <2>6. QED
    BY <2>3, <2>4, <2>5
<1>6. QED
  BY <1>4, <1>5 DEF Takes, Keeps

LEMMA BodyAtDeviceStep ==
  ASSUME TypeOK, Current, Shape, Standing, Latest, Bodies, Counts,
         BodyAtDevice, ResultAtDevice, [Next]_vars
  PROVE  BodyAtDevice'
<1>0. Current /\ req.timer => req.frame.mid = req.mid
  BY DEF Current
<1>1. CASE Submit
  <2>1. PICK n \in ReqType, f \in Request : Opens(n, f)
    BY <1>1, SubmitOpens
  <2>2. /\ srv' = srv /\ req'.mid = f.mid /\ req'.frame = f /\ f.mid \in FreshMid
    BY <2>1 DEF Opens, device
  <2>3. Ahead(f) /\ f.mid # srv.mid
    BY <2>1, <2>2, OpensWell, FreshFacts DEF SentWell
  <2>4. QED
    BY <2>2, <2>3 DEF BodyAtDevice, Answered, Ahead
<1>2. CASE Quiet
  BY <1>2, AtDeviceKept DEF Quiet, Alike, Live
<1>3. CASE Resends
  <2>1. Joins(req.frame) /\ req.frame.mid = req.mid
    BY <1>0, <1>3 DEF Resends
  <2>2. QED
    BY <1>3, <2>1, AtDeviceKept DEF Resends, Alike, Live
<1>4. CASE ~Live'
  BY <1>4 DEF BodyAtDevice
<1>5. CASE Serve
  <2>1. PICK f \in Request, r \in Response :
          Serves(f, r) /\ (Repeats(f, r) \/ Takes(f, r) \/ Keeps(f, r))
    BY <1>5, ServeKinds
  <2>2. QED
    BY <2>1, BodyAtDeviceServe
<1>6. ASSUME NEW q \in ReqType, q.rid = req.rid, Moves(q)
      PROVE  BodyAtDevice'
  <2>1. ASSUME NEW f \in Request, NewFrame(q, f), SendsBody(q, f) \/ SendsRead(q, f)
        PROVE  BodyAtDevice'
    <3>1. srv' = srv /\ req'.mid = f.mid /\ req'.frame = f /\ (Live' => Live)
      BY <1>6, <2>1 DEF NewFrame, Live, Moves, device
    <3>2. f.mid # srv.mid
      BY <1>6, <2>1, NewFrameLast
    <3>3. Live => Ahead(f)
      BY <1>6, <2>1, Replies, NextWell DEF SentWell
    <3>4. QED
      BY <3>1, <3>2, <3>3 DEF BodyAtDevice, Answered, Ahead
  <2>2. QED
    BY <1>4, <1>6, <2>1, Builds DEF Crashes, Ends, Live
<1>7. QED
  BY <1>1, <1>2, <1>3, <1>4, <1>5, <1>6, Kinds DEF Stops, Fails, Live

LEMMA ResultAtDeviceStep ==
  ASSUME TypeOK, Current, Shape, Standing, InTurn, Latest,
         BodyAtDevice, ResultAtDevice, ResetIsBare, [Next]_vars
  PROVE  ResultAtDevice'
<1>0. Current /\ req.timer => req.frame.mid = req.mid
  BY DEF Current
<1>1. CASE Submit
  <2>1. PICK n \in ReqType, f \in Request : Opens(n, f)
    BY <1>1, SubmitOpens
  <2>2. req'.frame.b2 = 0
    BY <2>1 DEF Opens, BodyFrame
  <2>3. QED
    BY <2>2 DEF ResultAtDevice
<1>2. CASE Quiet
  BY <1>2, AtDeviceKept DEF Quiet, Alike, Live
<1>3. CASE Resends
  <2>1. Joins(req.frame) /\ req.frame.mid = req.mid
    BY <1>0, <1>3 DEF Resends
  <2>2. QED
    BY <1>3, <2>1, AtDeviceKept DEF Resends, Alike, Live
<1>4. CASE ~Live'
  BY <1>4 DEF ResultAtDevice
<1>5. CASE Serve
  <2>1. PICK f \in Request, r \in Response :
          Serves(f, r) /\ (Repeats(f, r) \/ Takes(f, r) \/ Keeps(f, r))
    BY <1>5, ServeKinds
  <2>2. QED
    BY <2>1, ResultAtDeviceServe
<1>6. ASSUME NEW q \in ReqType, q.rid = req.rid, Moves(q)
      PROVE  ResultAtDevice'
  <2>1. ASSUME NEW f \in Request, NewFrame(q, f), SendsBody(q, f)
        PROVE  ResultAtDevice'
    BY <2>1 DEF NewFrame, SendsBody, BodyFrame, ResultAtDevice
  <2>2. ASSUME NEW f \in Request, NewFrame(q, f), SendsRead(q, f), Live
        PROVE  ResultAtDevice'
    <3>1. /\ srv' = srv /\ runs' = runs /\ req'.mid = f.mid /\ req'.frame = f
          /\ req'.rid = req.rid /\ Joins(f)
      BY <1>6, <2>2 DEF NewFrame, Moves, device
    <3>2. Replied(q)
      BY <1>6, <2>2, Replies
    <3>3. ~ReqNotDone(q) /\ q.more /\ f.b2 = srv.resp.num + 1
      BY <2>2, <3>2, ReadAhead DEF SendsRead
    <3>4. srv.resp.class = 2
      BY <3>2, <3>3 DEF Replied, ResetIsBare
    <3>5. /\ srv.rid = req.rid /\ runs[req.rid] > 0
          /\ srv.resp.num = req.frame.b2
          /\ q.more <=> req.frame.b2 + 1 < srv.blocks
      BY <2>2, <3>2, <3>3, <3>4, ReadSoFar
    <3>6. \A i \in 1 .. Len(reqQ') : reqQ'[i].mid \in {srv.mid, f.mid}
      BY <3>1, <3>2, JoinsFacts, Basics DEF Replied
    <3>7. f.mid # srv.mid
      BY <1>6, <2>2, NewFrameLast
    <3>8. QED
      BY <3>1, <3>3, <3>5, <3>6, <3>7 DEF ResultAtDevice, Answered
  <2>3. QED
    BY <1>4, <1>6, <2>1, <2>2, Builds DEF NewFrame, Crashes, Ends, Live
<1>7. QED
  BY <1>1, <1>2, <1>3, <1>4, <1>5, <1>6, Kinds DEF Stops, Fails, Live

\* A request that ends well: its last answer tells how.
LEMMA EndsWell ==
  ASSUME TypeOK, Current, Shape, Progress, Standing, Latest,
         BodyAtDevice, ResultAtDevice, Live, NEW q \in ReqType, Moves(q), Ends(q), ~refused'
  PROVE  Succeeded'
<1>1. /\ UNCHANGED <<device, reqQ>> /\ ~ReqNotDone(q) /\ ~q.more
      /\ req'.rid = q.rid /\ req'.size = q.size /\ req'.tx = q.tx /\ req'.ack = q.ack
      /\ req'.more = q.more /\ req'.rx = q.rx /\ req'.class = q.class /\ req'.mid = NoMid
  BY DEF Moves, Ends
<1>2. Replied(q)
  BY Replies
<1>3. /\ srv.resp.class = 2 /\ ~refused /\ req.mid # NoMid /\ q.rid = req.rid
      /\ q.class = 2 /\ q.rx = req.rx \o srv.resp.data
      /\ srv.resp \in Response /\ \A i \in 1 .. Len(reqQ) : reqQ[i].mid = srv.mid
  BY <1>2 DEF Replied
<1>4. /\ srv.rid = req.rid /\ runs[req.rid] > 0 /\ srv.blocks \in Nat
      /\ req.frame.b2 \in Nat
      /\ ~(req.frame.b2 + 1 < srv.blocks)
      /\ Len(srv.resp.data) = IF srv.blocks = 0 THEN 0 ELSE 1
      /\ req.frame.b2 > 0 => req.frame.b2 < srv.blocks
  BY <1>1, <1>2, <1>3, ReadSoFar
<1>5. Len(req.rx) = req.frame.b2
  BY <1>3 DEF Progress
<1>6. Len(q.rx) = srv.blocks
  <2>1. req.rx \in Seq(Block) /\ srv.resp.data \in Seq(Block)
    BY <1>3 DEF TypeOK, ReqType, Response
  <2>2. Len(q.rx) = Len(req.rx) + Len(srv.resp.data)
    BY <1>3, <2>1
  <2>3. QED
    BY <1>4, <1>5, <2>2
<1>7. ~ReqNotDone(req')
  BY <1>1, SameNumbers
<1>8. srv' = srv /\ runs' = runs /\ reqQ' = reqQ
  BY <1>1 DEF device
<1>9. QED
  BY <1>1, <1>3, <1>4, <1>6, <1>7, <1>8 DEF Succeeded, ReqNotDone

LEMMA SucceededKept ==
  ASSUME TypeOK, Succeeded, UNCHANGED <<runs, srv>>,
         over' /\ ~refused' /\ ~gaveUp' => over /\ ~refused /\ ~gaveUp,
         req'.rid = req.rid, req'.class = req.class, req'.rx = req.rx, req'.tx = req.tx,
         req'.ack = req.ack, req'.size = req.size, req'.more = req.more, req'.mid = req.mid,
         Shorter(reqQ', reqQ)
  PROVE  Succeeded'
<1>1. ReqNotDone(req') <=> ReqNotDone(req)
  BY DEF ReqNotDone
<1>2. (\A i \in 1 .. Len(reqQ) : reqQ[i].mid = srv.mid) =>
        \A i \in 1 .. Len(reqQ') : reqQ'[i].mid = srv.mid
  BY ShorterQueues
<1>3. QED
  BY <1>1, <1>2 DEF Succeeded, ReqNotDone

LEMMA SucceededStep ==
  ASSUME TypeOK, Current, Shape, Progress, Standing, Latest,
         BodyAtDevice, ResultAtDevice, Succeeded, [Next]_vars
  PROVE  Succeeded'
<1>1. CASE ~over' \/ refused' \/ gaveUp'
  BY <1>1 DEF Succeeded
<1>2. CASE Submit
  <2>1. PICK n \in ReqType, f \in Request : Opens(n, f)
    BY <1>2, SubmitOpens
  <2>2. QED
    BY <1>1, <2>1 DEF Opens
<1>3. CASE Quiet
  BY <1>3, SucceededKept DEF Quiet, Alike, device
<1>4. CASE Resends
  <2>1. req.mid # NoMid /\ UNCHANGED <<over, gaveUp, refused>>
    BY <1>4 DEF Resends, Current
  <2>2. QED
    BY <1>1, <2>1 DEF Succeeded
<1>5. CASE Serve
  <2>1. PICK f \in Request, r \in Response :
          Serves(f, r) /\ (Repeats(f, r) \/ Takes(f, r) \/ Keeps(f, r))
    BY <1>5, ServeKinds
  <2>2. /\ UNCHANGED client /\ srv'.mid = f.mid
        /\ f = reqQ[1] /\ 1 \in 1 .. Len(reqQ)
        /\ \A i \in 1 .. Len(reqQ') : i + 1 \in 1 .. Len(reqQ) /\ reqQ'[i] = reqQ[i + 1]
    BY <2>1 DEF Serves
  <2>3. SUFFICES ASSUME over, ~refused, ~gaveUp
                 PROVE  Succeeded'
    BY <1>1, <2>2 DEF client
  <2>4. f.mid = srv.mid
    BY <2>2, <2>3 DEF Succeeded
  <2>5. Holds
    BY <2>1, <2>4 DEF Repeats, Takes, Keeps
  <2>6. QED
    BY <2>2, <2>3, <2>4, <2>5 DEF Succeeded, Holds, client, ReqNotDone
<1>6. ASSUME NEW q \in ReqType, q.rid = req.rid, Moves(q), ~refused', ~gaveUp', over'
      PROVE  Succeeded'
  <2>1. ~refused
    <3>1. refused' = refused \/ Replied(q)
      BY <1>6, Replies
    <3>2. Replied(q) => ~refused
      BY <1>6 DEF Replied
    <3>3. QED
      BY <1>6, <3>1, <3>2
  <2>2. ~gaveUp /\ UNCHANGED <<runs, srv>> /\ pc = "wait"
    BY <1>6, Builds DEF NewFrame, Crashes, Ends, Moves, device
  <2>3. CASE ~over
    <3>1. Live /\ Ends(q)
      BY <1>6, <2>2, <2>3, Builds DEF NewFrame, Crashes, Live
    <3>2. QED
      BY <1>6, <3>1, EndsWell
  <2>4. CASE over
    <3>1. ~ReqNotDone(req) /\ ~req.more /\ req.mid = NoMid
      BY <2>1, <2>2, <2>4 DEF Succeeded
    <3>2. q = req /\ refused' = refused
      BY <1>6, <3>1, Replies DEF Replied
    <3>3. Ends(req)
      BY <1>6, <3>1, <3>2, Builds DEF SendsBody, SendsRead, Crashes
    <3>4. QED
      BY <2>1, <2>2, <2>4, <3>1, <3>3, SucceededKept DEF Ends, Shorter
  <2>5. QED
    BY <2>3, <2>4
<1>7. QED
  BY <1>1, <1>2, <1>3, <1>4, <1>5, <1>6, Kinds DEF Stops, Fails

LEMMA ResetIsBareStep ==
  ASSUME TypeOK, ResetIsBare, [Next]_vars
  PROVE  ResetIsBare'
<1>1. CASE srv' = srv
  BY <1>1 DEF ResetIsBare
<1>2. CASE Serve
  BY <1>2, ServeKinds DEF Serves, Repeats, Takes, Keeps, ResetIsBare
<1>3. QED
  BY <1>1, <1>2, Kinds, SubmitOpens
     DEF Opens, Quiet, Resends, Stops, Fails, Moves, device

----------------------------------------------------------------------------
(* The theorems                                                            *)

LEMMA DInvInit == Init => DInv
<1> SUFFICES ASSUME Init PROVE DInv
  OBVIOUS
<1>1. /\ pc = "idle" /\ over = FALSE /\ gaveUp = FALSE /\ refused = FALSE
      /\ again = [r \in Rid |-> 0] /\ reqQ = <<>> /\ respQ = <<>> /\ corrupt = {}
  BY DEF Init
<1>2. req.rid = 0 /\ req.timer = FALSE /\ req.mid = NoMid
  BY DEF Init, NewReq
<1>3. srv.rid = 0 /\ srv.resp.more = FALSE
  BY DEF Init, NoResponse
<1>4. IInv
  BY IInvInit
<1>5. 0 \notin Rid
  BY ConstantsAssumption DEF Rid
<1>6. Standing
  BY <1>1, <1>2, <1>3 DEF Standing, Live
<1>7. InTurn /\ Latest
  BY <1>1, <1>2 DEF InTurn, Latest
<1>8. Bodies
  BY <1>1, <1>3, <1>5 DEF Bodies, Live
<1>9. Counts
  BY <1>1 DEF Counts, Live
<1>10. AtDevice
  BY <1>1, <1>3 DEF AtDevice, BodyAtDevice, ResultAtDevice, Succeeded, ResetIsBare, Live
<1>11. QED
  BY <1>4, <1>6, <1>7, <1>8, <1>9, <1>10 DEF DInv

LEMMA DInvStep ==
  ASSUME DInv, [Next]_vars
  PROVE  DInv'
<1>1. /\ TypeOK /\ Current /\ Shape /\ Progress /\ Standing /\ InTurn /\ Latest
      /\ Bodies /\ Counts /\ BodyAtDevice /\ ResultAtDevice /\ Succeeded /\ ResetIsBare
  BY DEF DInv, IInv, AtDevice
<1>2. IInv'
  BY <1>1, IInvStep DEF IInv
<1>3. Standing' /\ InTurn' /\ Latest'
  BY <1>1, StandingStep, InTurnStep, LatestStep
<1>4. Bodies' /\ Counts'
  BY <1>1, BodiesStep, CountsStep
<1>5. BodyAtDevice' /\ ResultAtDevice'
  BY <1>1, BodyAtDeviceStep, ResultAtDeviceStep
<1>6. Succeeded' /\ ResetIsBare'
  BY <1>1, SucceededStep, ResetIsBareStep
<1>7. QED
  BY <1>2, <1>3, <1>4, <1>5, <1>6 DEF DInv, AtDevice

LEMMA DInvCorrect == Spec => []DInv
<1>1. Init => DInv
  BY DInvInit
<1>2. DInv /\ [Next]_vars => DInv'
  BY DInvStep
<1>3. QED
  BY <1>1, <1>2, PTL DEF Spec

\* Whatever is lost, late or sent again, and for every size of body, block and
\* response: a request that Coap#req returns (coap.rb:269-274) neither refused nor
\* given up has been executed by the device, and its payload has as many blocks as
\* the device's response.
THEOREM SuccessWhole == Spec => []SuccessIsWhole
<1>1. DInv => SuccessIsWhole
  BY DEF DInv, Standing, AtDevice, Succeeded, SuccessIsWhole, Returned
<1>2. QED
  BY <1>1, DInvCorrect, PTL

\* For every size of body and block: the device executes no other body than the
\* user's but for a request started over after it had ended, and the exception of
\* next_step on a nil slice (coap.rb:149) needs such a request or a refusal.
THEOREM BodyWhole == Spec => []BodyIntact
<1>1. DInv => BodyIntact
  BY DEF DInv, Bodies, Counts, BodyIntact
<1>2. QED
  BY <1>1, DInvCorrect, PTL

----------------------------------------------------------------------------

----------------------------------------------------------------------------
(* CoapReq implements ConfirmableCall for every value of its constants:    *)
(* retransmissions and late frames never make the device execute an        *)
(* attempt twice, and success means that it was executed.                  *)
(*                                                                         *)
(* The count of executions alone is not inductive: a frame that the device *)
(* has not met, on the link or still to be sent again, is an execution to  *)
(* come.  Frames with one message id are one execution (Pending), for the  *)
(* device meets them together (InTurn, Latest) and executes the first.     *)

\* f is on the link, or the request may send it again.
Outstanding(f) ==
  \/ \E i \in 1 .. Len(reqQ) : f = reqQ[i]
  \/ req.mid # NoMid /\ f = req.frame

\* Message ids for which the device may still execute request r.
Pending(r) ==
  {m \in Mid : m # srv.mid /\ \E f \in Request :
     Outstanding(f) /\ f.mid = m /\ f.rid = r /\ f.b2 = 0 /\ ~f.more}

\* Attempts made of request r.
Tries(r) == IF r <= req.rid THEN 1 + again[r] ELSE 0

\* Executions made and to come are paid for by attempts.
PaidFor(r) == IsFiniteSet(Pending(r)) /\ runs[r] + Cardinality(Pending(r)) <= Tries(r)
Accounts == \A r \in Rid : PaidFor(r)

\* The device executes a request upon the last piece of its body, and no earlier.
Unrun ==
  Live => runs[req.rid] = 0 \/ req.frame.b2 > 0 \/ (Answered /\ ~req.frame.more)

CInv == DInv /\ Accounts /\ Unrun

----------------------------------------------------------------------------
(* Counting                                                                *)

LEMMA Tally ==
  ASSUME NEW P, NEW Q, NEW m, NEW k \in Nat, NEW t \in Nat, NEW u \in Nat, t <= u,
         IsFiniteSet(P), k + Cardinality(P) <= t
  PROVE  /\ k <= t
         /\ Q \subseteq P => IsFiniteSet(Q) /\ k + Cardinality(Q) <= u
         /\ Q \subseteq P \cup {m} /\ t + 1 <= u => IsFiniteSet(Q) /\ k + Cardinality(Q) <= u
         /\ Q \subseteq P \ {m} /\ m \in P => IsFiniteSet(Q) /\ k + 1 + Cardinality(Q) <= u
         /\ Q \subseteq {m} /\ k = 0 /\ 1 <= u => IsFiniteSet(Q) /\ k + Cardinality(Q) <= u
<1>0. Cardinality(P) \in Nat
  BY FS_CardinalityType
<1>1. ASSUME NEW R, IsFiniteSet(R), Q \subseteq R
      PROVE  IsFiniteSet(Q) /\ Cardinality(Q) \in Nat /\ Cardinality(R) \in Nat
             /\ Cardinality(Q) <= Cardinality(R)
  BY <1>1, FS_Subset, FS_CardinalityType
<1>2. Q \subseteq P => IsFiniteSet(Q) /\ k + Cardinality(Q) <= u
  BY <1>0, <1>1
<1>3. ASSUME Q \subseteq P \cup {m}, t + 1 <= u
      PROVE  IsFiniteSet(Q) /\ k + Cardinality(Q) <= u
  <2>1. IsFiniteSet(P \cup {m}) /\ Cardinality(P \cup {m}) <= Cardinality(P) + 1
    BY <1>0, FS_AddElement
  <2>2. QED
    BY <1>0, <1>1, <1>3, <2>1
<1>4. ASSUME Q \subseteq P \ {m}, m \in P
      PROVE  IsFiniteSet(Q) /\ k + 1 + Cardinality(Q) <= u
  <2>1. IsFiniteSet(P \ {m}) /\ Cardinality(P \ {m}) = Cardinality(P) - 1
    BY <1>4, FS_RemoveElement
  <2>2. QED
    BY <1>0, <1>1, <1>4, <2>1
<1>5. ASSUME Q \subseteq {m}, k = 0, 1 <= u
      PROVE  IsFiniteSet(Q) /\ k + Cardinality(Q) <= u
  <2>1. IsFiniteSet({m}) /\ Cardinality({m}) = 1
    BY FS_Singleton
  <2>2. QED
    BY <1>1, <1>5, <2>1
<1>6. QED
  BY <1>0, <1>2, <1>3, <1>4, <1>5

\* What a step may do to the count of one request.
LEMMA PaidForStep ==
  ASSUME TypeOK, NEW r \in Rid, PaidFor(r), NEW m, Tries(r)' \in Nat, Tries(r) <= Tries(r)'
  PROVE  /\ runs[r] \in Nat /\ runs[r] <= Tries(r)
         /\ runs'[r] = runs[r] /\ Pending(r)' \subseteq Pending(r) => PaidFor(r)'
         /\ runs'[r] = runs[r] /\ Pending(r)' \subseteq Pending(r) \cup {m}
              /\ Tries(r) + 1 <= Tries(r)' => PaidFor(r)'
         /\ runs'[r] = runs[r] + 1 /\ Pending(r)' \subseteq Pending(r) \ {m}
              /\ m \in Pending(r) => PaidFor(r)'
         /\ runs'[r] = runs[r] /\ Pending(r)' \subseteq {m} /\ runs[r] = 0
              /\ 1 <= Tries(r)' => PaidFor(r)'
<1>1. runs[r] \in Nat /\ Tries(r) \in Nat
  BY Basics DEF TypeOK, Tries
<1>2. IsFiniteSet(Pending(r)) /\ runs[r] + Cardinality(Pending(r)) <= Tries(r)
  BY DEF PaidFor
<1>3. PaidFor(r)' <=> /\ IsFiniteSet(Pending(r)')
                      /\ runs'[r] + Cardinality(Pending(r)') <= Tries(r)'
  BY DEF PaidFor
<1> DEFINE P == Pending(r)
           Q == Pending(r)'
           t == Tries(r)
           u == Tries(r)'
           k == runs[r]
           l == runs'[r]
<1>4. /\ k \in Nat /\ t \in Nat /\ u \in Nat /\ t <= u
      /\ IsFiniteSet(P) /\ k + Cardinality(P) <= t
      /\ PaidFor(r)' <=> IsFiniteSet(Q) /\ l + Cardinality(Q) <= u
  BY <1>1, <1>2, <1>3
<1> HIDE DEF P, Q, t, u, k, l
<1>5. /\ k <= t
      /\ Q \subseteq P => IsFiniteSet(Q) /\ k + Cardinality(Q) <= u
      /\ Q \subseteq P \cup {m} /\ t + 1 <= u => IsFiniteSet(Q) /\ k + Cardinality(Q) <= u
      /\ Q \subseteq P \ {m} /\ m \in P => IsFiniteSet(Q) /\ k + 1 + Cardinality(Q) <= u
      /\ Q \subseteq {m} /\ k = 0 /\ 1 <= u => IsFiniteSet(Q) /\ k + Cardinality(Q) <= u
  BY <1>4, Tally
<1>6. /\ k \in Nat /\ k <= t
      /\ l = k /\ Q \subseteq P => PaidFor(r)'
      /\ l = k /\ Q \subseteq P \cup {m} /\ t + 1 <= u => PaidFor(r)'
      /\ l = k + 1 /\ Q \subseteq P \ {m} /\ m \in P => PaidFor(r)'
      /\ l = k /\ Q \subseteq {m} /\ k = 0 /\ 1 <= u => PaidFor(r)'
  BY <1>4, <1>5
<1>7. QED
  BY <1>6 DEF P, Q, t, u, k, l

LEMMA Fewer ==
  ASSUME srv' = srv, NEW r, \A g \in Request : Outstanding(g)' => Outstanding(g)
  PROVE  Pending(r)' \subseteq Pending(r)
  BY DEF Pending

LEMMA OneMore ==
  ASSUME srv' = srv, NEW r, NEW f \in Request,
         \A g \in Request : Outstanding(g)' => Outstanding(g) \/ g = f
  PROVE  /\ Pending(r)' \subseteq Pending(r) \cup {f.mid}
         /\ f.rid # r \/ f.b2 # 0 => Pending(r)' \subseteq Pending(r)
  BY DEF Pending

LEMMA OutstandingShorter ==
  ASSUME TypeOK, Shorter(reqQ', reqQ),
         req'.mid = NoMid \/ (req'.mid = req.mid /\ req'.frame = req.frame)
  PROVE  \A g \in Request : Outstanding(g)' => Outstanding(g)
<1>1. \A i \in 1 .. Len(reqQ') : \E k \in 1 .. Len(reqQ) : reqQ'[i] = reqQ[k]
  BY ShorterQueues
<1>2. QED
  BY <1>1 DEF Outstanding

LEMMA OutstandingJoins ==
  ASSUME TypeOK, NEW f, Joins(f),
         req'.frame = f \/ (req'.mid = req.mid /\ req'.frame = req.frame)
  PROVE  \A g \in Request : Outstanding(g)' => Outstanding(g) \/ g = f
<1>1. \A i \in 1 .. Len(reqQ') :
        reqQ'[i] = f \/ \E k \in 1 .. Len(reqQ) : reqQ'[i] = reqQ[k]
  BY JoinsFacts DEF TypeOK
<1>2. QED
  BY <1>1 DEF Outstanding

----------------------------------------------------------------------------
(* The count is kept                                                       *)

LEMMA AccountsSame ==
  ASSUME TypeOK, Accounts, UNCHANGED <<srv, runs, again>>, req'.rid = req.rid,
         \A g \in Request : Outstanding(g)' => Outstanding(g)
  PROVE  Accounts'
<1> SUFFICES ASSUME NEW r \in Rid PROVE PaidFor(r)'
  BY DEF Accounts
<1>1. Tries(r)' = Tries(r) /\ Tries(r) \in Nat
  BY Basics DEF Tries
<1>2. Pending(r)' \subseteq Pending(r)
  BY Fewer
<1>3. QED
  BY <1>1, <1>2, PaidForStep DEF Accounts

LEMMA AccountsSubmit ==
  ASSUME TypeOK, Standing, Accounts, Submit
  PROVE  Accounts' /\ Unrun'
<1>1. PICK n \in ReqType, f \in Request : Opens(n, f)
  BY SubmitOpens
<1>2. /\ Joins(f) /\ req'.frame = f /\ f.rid = req.rid + 1 /\ req'.rid = req.rid + 1
      /\ UNCHANGED <<again, srv, runs>> /\ req.rid + 1 \in Rid
  BY <1>1 DEF Opens, NewFacts, BodyFrame, device
<1>3. \A g \in Request : Outstanding(g)' => Outstanding(g) \/ g = f
  BY <1>2, OutstandingJoins
<1>4. req.rid \in Nat /\ again \in [Rid -> Nat] /\ \A r \in Rid : r \in Nat
  BY Basics
<1>5. ASSUME NEW r \in Rid
      PROVE  PaidFor(r)' /\ (r = req.rid + 1 => runs'[r] = 0)
  <2>1. again[r] \in Nat /\ r \in Nat
    BY <1>4
  <2>2. Tries(r)' = IF r <= req.rid + 1 THEN 1 + again[r] ELSE 0
    BY <1>2 DEF Tries
  <2>3. Tries(r)' \in Nat /\ Tries(r) <= Tries(r)'
    BY <1>4, <2>1, <2>2 DEF Tries
  <2>4. CASE r = req.rid + 1
    <3>1. again[r] = 0
      BY <1>4, <2>4 DEF Standing
    <3>2. Tries(r) = 0 /\ Tries(r) + 1 <= Tries(r)'
      BY <1>4, <2>2, <2>4, <3>1 DEF Tries
    <3>3. Pending(r)' \subseteq Pending(r) \cup {f.mid}
      BY <1>2, <1>3, OneMore
    <3>4. PaidFor(r)' /\ runs[r] \in Nat /\ runs[r] <= Tries(r)
      BY <1>2, <2>3, <3>2, <3>3, PaidForStep DEF Accounts
    <3>5. QED
      BY <1>2, <3>2, <3>4
  <2>5. CASE r # req.rid + 1
    <3>1. Pending(r)' \subseteq Pending(r)
      BY <1>2, <1>3, <2>5, OneMore
    <3>2. QED
      BY <1>2, <2>3, <2>5, <3>1, PaidForStep DEF Accounts
  <2>6. QED
    BY <2>4, <2>5
<1>6. QED
  BY <1>2, <1>5 DEF Accounts, Unrun

\* A request that goes on builds a frame with body only if the device has not
\* executed it.
LEMMA StillUnrun ==
  ASSUME TypeOK, Current, Shape, Unrun, Live, NEW q \in ReqType, Replied(q),
         NEW f, SendsBody(q, f)
  PROVE  runs[req.rid] = 0
<1>1. /\ q.size = req.size /\ q.tx = req.tx /\ req.mid # NoMid
      /\ q.ack = (IF srv.resp.class = 2 THEN req.tx ELSE req.ack)
      /\ ReqNotDone(q) /\ SliceLen(q) # Nil
  BY DEF Replied, SendsBody
<1>2. /\ req.tx \in Nat \cup {Nil} /\ req.size \in Nat \cup {Nil} /\ req.tx # Nil
      /\ req.frame.b2 \in Nat /\ BlockSize \in Nat
  BY <1>1, ConstantsAssumption DEF Current, Shape, TypeOK, ReqType, Request
<1>3. ASSUME req.frame.b2 > 0 PROVE FALSE
  <2>1. ~ReqNotDone(req)
    BY <1>1, <1>3 DEF Shape
  <2>2. req.tx = req.ack /\ (req.size = Nil \/ req.tx = req.size)
    BY <2>1 DEF ReqNotDone
  <2>3. QED
    BY <1>1, <1>2, <2>2 DEF ReqNotDone
<1>4. ASSUME srv.resp.class = 2, ~req.frame.more, req.frame.b2 = 0 PROVE FALSE
  <2>1. q.tx = q.ack /\ q.tx # Nil /\ q.size # Nil /\ q.tx # q.size
    BY <1>1, <1>2, <1>4 DEF ReqNotDone
  <2>2. Blockwise(req) /\ ~(req.tx < req.size)
    BY <1>1, <1>4, <2>1 DEF Shape
  <2>3. q.tx > q.size /\ Blockwise(q) /\ q.tx \in Nat /\ q.size \in Nat
    BY <1>1, <1>2, <2>1, <2>2 DEF Blockwise
  <2>4. Start(q) = q.tx /\ BodySize(q) = q.size
    BY <2>1, <2>3 DEF Start, BodySize
  <2>5. SliceLen(q) = Nil
    BY <2>3, <2>4 DEF SliceLen
  <2>6. QED
    BY <1>1, <2>5
<1>5. QED
  BY <1>2, <1>3, <1>4 DEF Unrun, Answered

LEMMA AccountsNewFrame ==
  ASSUME TypeOK, Current, Shape, Standing, Latest, Accounts, Unrun,
         NEW q \in ReqType, q.rid = req.rid, Moves(q), NEW f \in Request, NewFrame(q, f),
         SendsBody(q, f) \/ SendsRead(q, f)
  PROVE  Accounts' /\ Unrun'
<1>1. /\ Joins(f) /\ req'.frame = f /\ f.rid = req.rid /\ req'.rid = req.rid
      /\ UNCHANGED <<over, pc, srv, runs>> /\ pc = "wait"
  BY DEF NewFrame, Moves, device
<1>2. \A g \in Request : Outstanding(g)' => Outstanding(g) \/ g = f
  BY <1>1, OutstandingJoins
<1>3. req.rid \in Nat /\ again \in [Rid -> Nat] /\ req.rid \in Rid
  BY <1>1, Basics
<1>4. \A r \in Rid : r # req.rid => again'[r] = again[r]
  BY <1>3, GrownFacts
<1>5. ASSUME NEW r \in Rid, r # req.rid PROVE PaidFor(r)'
  <2>1. Tries(r)' = Tries(r) /\ Tries(r) \in Nat
    BY <1>1, <1>3, <1>4, <1>5, Basics DEF Tries
  <2>2. Pending(r)' \subseteq Pending(r)
    BY <1>1, <1>2, <1>5, OneMore
  <2>3. QED
    BY <1>1, <2>1, <2>2, PaidForStep DEF Accounts
<1>6. CASE over
  <2>1. again' = [again EXCEPT ![req.rid] = @ + 1]
    BY <1>6 DEF NewFrame
  <2>2. PICK k \in Rid : k = req.rid
    BY <1>3
  <2>3. Tries(k) = 1 + again[k] /\ Tries(k)' = 1 + again'[k] /\ again'[k] = again[k] + 1
        /\ again[k] \in Nat
    BY <1>1, <1>3, <2>1, <2>2 DEF Tries
  <2>4. Pending(k)' \subseteq Pending(k) \cup {f.mid}
    BY <1>1, <1>2, OneMore
  <2>5. PaidFor(k)'
    BY <1>1, <2>3, <2>4, PaidForStep DEF Accounts
  <2>6. QED
    BY <1>1, <1>5, <1>6, <2>2, <2>5 DEF Accounts, Unrun, Live
<1>7. CASE ~over
  <2>1. Live /\ Replied(q) /\ again' = again
    BY <1>1, <1>3, <1>7, Replies, GrownFacts DEF Live
  <2>2. PICK k \in Rid : k = req.rid
    BY <1>3
  <2>3. Tries(k) = 1 + again[k] /\ Tries(k)' = Tries(k) /\ again[k] \in Nat
    BY <1>1, <1>3, <2>1, <2>2 DEF Tries
  <2>4. CASE SendsBody(q, f)
    <3>1. runs[req.rid] = 0
      BY <2>1, <2>4, StillUnrun
    <3>2. \A g \in Request : Outstanding(g)' => g.mid = srv.mid \/ g = f
      BY <1>2, <2>1 DEF Outstanding, Replied, Current
    <3>3. Pending(k)' \subseteq {f.mid}
      BY <1>1, <3>2 DEF Pending
    <3>4. PaidFor(k)'
      BY <1>1, <2>2, <2>3, <3>1, <3>3, PaidForStep DEF Accounts
    <3>5. QED
      BY <1>1, <1>5, <2>2, <3>1, <3>4 DEF Accounts, Unrun
  <2>5. CASE SendsRead(q, f)
    <3>1. f.b2 = q.num + 1 /\ q.more
      BY <2>5 DEF SendsRead, ReadFrame
    <3>2. q.num \in Nat
      BY <2>1, <3>1 DEF Replied, Response
    <3>3. f.b2 > 0 /\ f.b2 # 0
      BY <3>1, <3>2
    <3>4. Pending(k)' \subseteq Pending(k)
      BY <1>1, <1>2, <3>3, OneMore
    <3>5. PaidFor(k)'
      BY <1>1, <2>3, <3>4, PaidForStep DEF Accounts
    <3>6. QED
      BY <1>1, <1>5, <2>2, <3>3, <3>5 DEF Accounts, Unrun
  <2>6. QED
    BY <2>4, <2>5
<1>8. QED
  BY <1>6, <1>7

\* The device meets the copies of a frame together, so that once it has met one it
\* executes none.
LEMMA PendingServed ==
  ASSUME TypeOK, Current, InTurn, Latest, NEW f \in Request, NEW a, Serves(f, a), NEW r
  PROVE  Pending(r)' \subseteq Pending(r) \ {f.mid}
<1>1. /\ f = reqQ[1] /\ 1 \in 1 .. Len(reqQ) /\ srv'.mid = f.mid /\ req' = req
      /\ \A i \in 1 .. Len(reqQ') : i + 1 \in 1 .. Len(reqQ) /\ reqQ'[i] = reqQ[i + 1]
  BY DEF Serves, client
<1>2. ASSUME NEW g \in Request, Outstanding(g)', g.mid # f.mid
      PROVE  Outstanding(g) /\ g.mid # srv.mid
  <2>1. CASE \E i \in 1 .. Len(reqQ') : g = reqQ'[i]
    <3>1. PICK i \in 1 .. Len(reqQ') : g = reqQ'[i]
      BY <2>1
    <3>2. i + 1 \in 1 .. Len(reqQ) /\ g = reqQ[i + 1] /\ 1 < i + 1
      BY <1>1, <3>1
    <3>3. g.mid = srv.mid => f.mid = srv.mid
      BY <1>1, <3>2 DEF InTurn
    <3>4. QED
      BY <1>2, <3>2, <3>3 DEF Outstanding
  <2>2. CASE req.mid # NoMid /\ g = req.frame
    <3>1. Outstanding(g)
      BY <2>2 DEF Outstanding
    <3>2. g.mid = req.mid
      BY <2>2 DEF Current
    <3>3. g.mid = srv.mid => f.mid = req.mid
      BY <1>1, <2>2, <3>2 DEF Latest
    <3>4. QED
      BY <1>2, <3>1, <3>2, <3>3
  <2>3. QED
    BY <1>1, <1>2, <2>1, <2>2 DEF Outstanding
<1>3. QED
  BY <1>1, <1>2 DEF Pending

LEMMA AccountsServe ==
  ASSUME TypeOK, Current, InTurn, Latest, Standing, Accounts, Unrun, Serve
  PROVE  Accounts' /\ Unrun'
<1>1. PICK f \in Request, a \in Response :
        Serves(f, a) /\ (Repeats(f, a) \/ Takes(f, a) \/ Keeps(f, a))
  BY ServeKinds
<1>2. /\ UNCHANGED client /\ req' = req /\ again' = again /\ (Live' <=> Live)
      /\ f = reqQ[1] /\ 1 \in 1 .. Len(reqQ) /\ f.rid \in Rid /\ f.mid \in Mid
      /\ srv'.mid = f.mid /\ srv'.resp = a /\ runs \in [Rid -> Nat]
  BY <1>1 DEF Serves, client, Live, TypeOK, Request
<1>3. ASSUME NEW r \in Rid
      PROVE  /\ Tries(r)' = Tries(r) /\ Tries(r) \in Nat
             /\ Pending(r)' \subseteq Pending(r) \ {f.mid}
             /\ Pending(r)' \subseteq Pending(r)
             /\ PaidFor(r)
  BY <1>1, <1>2, PendingServed, Basics DEF Tries, Accounts
<1>4. CASE UNCHANGED runs
  <2>1. \A r \in Rid : PaidFor(r)'
    BY <1>3, <1>4, PaidForStep
  <2>2. ASSUME Live, Answered, ~req.frame.more PROVE Answered'
    <3>1. f.mid = req.mid /\ srv.mid = req.mid
      BY <1>2, <2>2 DEF Latest, Answered, Standing, Current
    <3>2. a = srv.resp
      BY <1>1, <3>1 DEF Repeats, Takes, Keeps
    <3>3. QED
      BY <1>2, <2>2, <3>1, <3>2 DEF Answered
  <2>3. Unrun'
    BY <1>2, <1>4, <2>2 DEF Unrun
  <2>4. QED
    BY <2>1, <2>3 DEF Accounts
<1>5. CASE /\ Takes(f, a) /\ ~f.more
           /\ runs' = [runs EXCEPT ![f.rid] = @ + 1]
  <2>1. f.mid \in Pending(f.rid)
    BY <1>2, <1>5 DEF Pending, Outstanding, Takes
  <2>2. ASSUME NEW r \in Rid PROVE PaidFor(r)'
    <3>1. CASE r = f.rid
      <4>1. runs'[r] = runs[r] + 1 /\ f.mid \in Pending(r)
        BY <1>2, <1>5, <2>1, <3>1
      <4>2. QED
        BY <1>3, <4>1, PaidForStep
    <3>2. CASE r # f.rid
      <4>1. runs'[r] = runs[r]
        BY <1>2, <1>5, <3>2
      <4>2. QED
        BY <1>3, <4>1, PaidForStep
    <3>3. QED
      BY <3>1, <3>2
  <2>3. ASSUME Live, f.rid = req.rid PROVE Answered' /\ ~req.frame.more
    <3>1. req.mid # NoMid /\ f.mid = req.mid
      BY <1>2, <1>5, <2>3 DEF Latest, Standing, Current, Takes
    <3>2. f = req.frame
      BY <1>2, <3>1 DEF Current
    <3>3. QED
      BY <1>2, <1>5, <3>1, <3>2 DEF Answered, Takes
  <2>4. ASSUME Live, f.rid # req.rid
        PROVE  runs'[req.rid] = runs[req.rid] /\ (Answered => FALSE)
    <3>1. req.rid \in Rid
      BY <2>4, Basics DEF Live
    <3>2. runs'[req.rid] = runs[req.rid]
      BY <1>2, <1>5, <2>4, <3>1
    <3>3. req.mid # NoMid
      BY <2>4 DEF Standing, Current
    <3>4. ~Answered
      BY <1>2, <1>5, <3>3 DEF Answered, Takes, Latest
    <3>5. QED
      BY <3>2, <3>4
  <2>5. Unrun'
    BY <1>2, <2>3, <2>4 DEF Unrun
  <2>6. QED
    BY <2>2, <2>5 DEF Accounts
<1>6. QED
  BY <1>1, <1>4, <1>5 DEF Repeats, Takes, Keeps, Holds

LEMMA CInvStep ==
  ASSUME CInv, [Next]_vars
  PROVE  CInv'
<1>1. /\ TypeOK /\ Current /\ Shape /\ Standing /\ InTurn /\ Latest /\ Accounts /\ Unrun
      /\ DInv
  BY DEF CInv, DInv, IInv
<1> SUFFICES Accounts' /\ Unrun'
  BY <1>1, DInvStep DEF CInv
<1>2. ASSUME UNCHANGED <<device, again>>, req'.rid = req.rid,
             Live' => Live /\ req'.mid = req.mid /\ req'.frame = req.frame,
             \A g \in Request : Outstanding(g)' => Outstanding(g)
      PROVE  Accounts' /\ Unrun'
  <2>1. Accounts'
    BY <1>1, <1>2, AccountsSame DEF device
  <2>2. Unrun'
    BY <1>1, <1>2 DEF Unrun, Answered, device
  <2>3. QED
    BY <2>1, <2>2
<1>3. CASE Submit
  BY <1>1, <1>3, AccountsSubmit
<1>4. CASE Serve
  BY <1>1, <1>4, AccountsServe
<1>5. CASE Quiet
  <2>1. /\ UNCHANGED <<device, again>> /\ req'.rid = req.rid /\ req'.mid = req.mid
        /\ req'.frame = req.frame /\ Shorter(reqQ', reqQ) /\ (Live' => Live)
    BY <1>5 DEF Quiet, Alike, Live
  <2>2. QED
    BY <1>1, <1>2, <2>1, OutstandingShorter
<1>6. CASE Resends
  <2>1. /\ UNCHANGED <<device, again>> /\ req'.rid = req.rid /\ req'.mid = req.mid
        /\ req'.frame = req.frame /\ Joins(req.frame) /\ (Live' => Live)
        /\ req.mid # NoMid
    BY <1>1, <1>6 DEF Resends, Alike, Live, Current
  <2>2. \A g \in Request : Outstanding(g)' => Outstanding(g) \/ g = req.frame
    BY <1>1, <2>1, OutstandingJoins
  <2>3. Outstanding(req.frame)
    BY <2>1 DEF Outstanding
  <2>4. QED
    BY <1>2, <2>1, <2>2, <2>3
<1>7. CASE Stops
  <2>1. /\ UNCHANGED <<device, again>> /\ req'.rid = req.rid /\ req'.mid = req.mid
        /\ req'.frame = req.frame /\ Shorter(reqQ', reqQ) /\ ~Live'
    BY <1>7 DEF Stops, Alike, Live, Shorter
  <2>2. QED
    BY <1>1, <1>2, <2>1, OutstandingShorter
<1>8. CASE Fails
  <2>1. /\ UNCHANGED <<device, again>> /\ req'.rid = req.rid /\ req'.mid = NoMid
        /\ Shorter(reqQ', reqQ) /\ ~Live'
    BY <1>8 DEF Fails, Live, Shorter
  <2>2. QED
    BY <1>1, <1>2, <2>1, OutstandingShorter
<1>9. ASSUME NEW q \in ReqType, q.rid = req.rid, Moves(q)
      PROVE  Accounts' /\ Unrun'
  <2>1. ASSUME NEW f \in Request, NewFrame(q, f), SendsBody(q, f) \/ SendsRead(q, f)
        PROVE  Accounts' /\ Unrun'
    BY <1>1, <1>9, <2>1, AccountsNewFrame
  <2>2. CASE Crashes(q) \/ Ends(q)
    <3>1. /\ UNCHANGED <<device, again>> /\ req'.rid = req.rid /\ Shorter(reqQ', reqQ)
          /\ ~Live'
      BY <1>9, <2>2 DEF Crashes, Ends, Moves, Live, Shorter
    <3>2. req' = req \/ req'.mid = NoMid
      <4>1. q = req \/ q.mid = NoMid
        BY <1>1, <1>9, Replies DEF Replied
      <4>2. QED
        BY <2>2, <4>1 DEF Crashes, Ends
    <3>3. \A g \in Request : Outstanding(g)' => Outstanding(g)
      BY <1>1, <3>1, <3>2, OutstandingShorter
    <3>4. QED
      BY <1>2, <3>1, <3>3
  <2>3. QED
    BY <1>1, <1>9, <2>1, <2>2, Builds
<1>10. QED
  BY <1>1, <1>3, <1>4, <1>5, <1>6, <1>7, <1>8, <1>9, Kinds

LEMMA CInvInit == Init => CInv
<1> SUFFICES ASSUME Init PROVE CInv
  OBVIOUS
<1>1. pc = "idle" /\ reqQ = <<>> /\ runs = [r \in Rid |-> 0]
  BY DEF Init
<1>2. req.rid = 0 /\ req.mid = NoMid
  BY DEF Init, NewReq
<1>3. \A r \in Rid : Pending(r) = {} /\ Tries(r) = 0
  BY <1>1, <1>2, ConstantsAssumption DEF Pending, Outstanding, Tries, Rid
<1>4. ASSUME NEW r \in Rid PROVE PaidFor(r)
  <2>1. runs[r] = 0
    BY <1>1
  <2>2. IsFiniteSet(Pending(r)) /\ Cardinality(Pending(r)) = 0 /\ Tries(r) = 0
    BY <1>3, FS_EmptySet
  <2>3. QED
    BY <2>1, <2>2 DEF PaidFor
<1>5. QED
  BY <1>1, <1>4, DInvInit DEF CInv, Accounts, Unrun, Live

----------------------------------------------------------------------------
(* The refinement                                                          *)

\* What the caller sees of a step that leaves the request open, or closed.
LEMMA CallStutters ==
  ASSUME UNCHANGED <<runs, again>>, req'.rid = req.rid,
         \/ pc # "idle" /\ pc' # "idle"
         \/ UNCHANGED <<pc, refused, gaveUp>> /\ req'.class = req.class
  PROVE  UNCHANGED Call!vars
<1>1. Result' = Result
  BY DEF Result, Returned
<1>2. (pc' # "idle") = (pc # "idle")
  OBVIOUS
<1>3. QED
  BY <1>1, <1>2 DEF Call!vars

LEMMA CallStep ==
  ASSUME CInv, [Next]_vars
  PROVE  [Call!Next]_(Call!vars)
<1>0. /\ TypeOK /\ Standing /\ Succeeded /\ Current /\ Shape /\ Latest
  BY DEF CInv, DInv, IInv, AtDevice
<1>1. /\ req.rid \in Nat /\ again \in [Rid -> Nat] /\ (pc = "wait" => req.rid \in Rid)
      /\ \A r \in Rid : r \in Nat /\ r > 0
      /\ runs \in [Rid -> Nat] /\ Rid = 1 .. MaxReq /\ MaxReq \in Nat
  <2>1. MaxReq \in Nat /\ Rid = 1 .. MaxReq
    BY ConstantsAssumption DEF Rid
  <2>2. req.rid \in Nat /\ (pc = "wait" => req.rid \in Rid)
    BY <1>0, Basics DEF TypeOK
  <2>3. again \in [Rid -> Nat] /\ runs \in [Rid -> Nat]
    BY <1>0, Basics DEF TypeOK
  <2>4. QED
    BY <2>1, <2>2, <2>3
<1>2. CASE Submit
  <2>1. PICK n \in ReqType, f \in Request : Opens(n, f)
    BY <1>0, <1>2, SubmitOpens
  <2>2. /\ pc = "idle" /\ pc' = "wait" /\ req'.rid = req.rid + 1 /\ req.rid + 1 \in Rid
        /\ UNCHANGED <<again, runs>>
    BY <2>1 DEF Opens, device
  <2>3. again[req.rid + 1] = 0
    BY <1>0, <1>1, <2>2 DEF Standing
  <2>4. [r \in Rid |-> IF r <= req'.rid THEN 1 + again'[r] ELSE 0] =
          [[r \in Rid |-> IF r <= req.rid THEN 1 + again[r] ELSE 0]
             EXCEPT ![req.rid + 1] = 1]
    <3>1. ASSUME NEW r \in Rid
          PROVE  (IF r <= req'.rid THEN 1 + again'[r] ELSE 0) =
                   IF r = req.rid + 1 THEN 1
                   ELSE IF r <= req.rid THEN 1 + again[r] ELSE 0
      <4>1. req'.rid = req.rid + 1 /\ again'[r] = again[r] /\ r \in Nat /\ req.rid \in Nat
        BY <1>1, <2>2
      <4>2. r = req.rid + 1 => again[r] = 0
        BY <2>3
      <4>3. QED
        BY <4>1, <4>2
    <3>2. QED
      BY <2>2, <3>1
  <2>5. Result' = "none"
    BY <2>2 DEF Result, Returned
  <2>6. req.rid < MaxReq
    BY <1>1, <2>2
  <2>7. Call!Ask
    BY <2>2, <2>4, <2>5, <2>6 DEF Call!Ask
  <2>8. QED
    BY <2>7 DEF Call!Next
<1>3. CASE Quiet
  <2>1. /\ UNCHANGED <<over, gaveUp, refused, again, runs>>
        /\ req'.rid = req.rid /\ req'.class = req.class
        /\ pc' = pc \/ (pc = "wait" /\ pc' = "idle" /\ ~req.timer)
    BY <1>3 DEF Quiet, Alike, device
  <2>2. CASE pc' = pc
    BY <2>1, <2>2, CallStutters
  <2>3. CASE pc = "wait" /\ pc' = "idle" /\ ~req.timer
    <3>1. over
      BY <1>0, <2>3 DEF Standing, Live
    <3>2. Returned'
      BY <1>1, <2>1, <2>3 DEF Returned
    <3>3. [r \in Rid |-> IF r <= req'.rid THEN 1 + again'[r] ELSE 0] =
            [r \in Rid |-> IF r <= req.rid THEN 1 + again[r] ELSE 0]
      BY <2>1
    <3>4. CASE Result' = "whole"
      <4>1. ~refused /\ ~gaveUp
        BY <2>1, <3>2, <3>4 DEF Result
      <4>2. runs[req.rid] > 0
        BY <1>0, <3>1, <4>1 DEF Succeeded
      <4>3. Call!Succeed
        BY <2>1, <2>3, <3>3, <3>4, <4>2 DEF Call!Succeed
      <4>4. QED
        BY <4>3 DEF Call!Next
    <3>5. CASE Result' # "whole"
      <4>1. Result' = "failed"
        BY <3>2, <3>5 DEF Result
      <4>2. Call!Fail
        BY <2>1, <2>3, <3>3, <4>1 DEF Call!Fail
      <4>3. QED
        BY <4>2 DEF Call!Next
    <3>6. QED
      BY <3>4, <3>5
  <2>4. QED
    BY <2>1, <2>2, <2>3
<1>4. CASE Serve
  <2>1. PICK f \in Request, a \in Response :
          Serves(f, a) /\ (Repeats(f, a) \/ Takes(f, a) \/ Keeps(f, a))
    BY <1>0, <1>4, ServeKinds
  <2>2. UNCHANGED client /\ f.rid \in Rid
    BY <2>1 DEF Serves
  <2>3. CASE UNCHANGED runs
    BY <2>2, <2>3, CallStutters DEF client
  <2>4. CASE runs' = [runs EXCEPT ![f.rid] = @ + 1]
    <3>1. PICK r \in Rid : r = f.rid
      BY <2>2
    <3>2. Tries(r)' = Tries(r) /\ Tries(r) \in Nat /\ runs'[r] = runs[r] + 1 /\ runs[r] \in Nat
      BY <1>1, <2>2, <2>4, <3>1 DEF client, Tries
    <3>3. IsFiniteSet(Pending(r)') /\ runs'[r] + Cardinality(Pending(r)') <= Tries(r)'
      BY <3>1, CInvStep DEF CInv, Accounts, PaidFor
    <3>4. runs[r] < Tries(r)
      <4>1. Cardinality(Pending(r)') \in Nat
        BY <3>3, FS_CardinalityType
      <4>2. QED
        BY <3>2, <3>3, <4>1
    <3>5. Result' = Result
      BY <2>2 DEF client, Result, Returned
    <3>6. Call!Execute
      BY <1>1, <2>2, <2>4, <3>1, <3>4, <3>5 DEF Call!Execute, client, Tries
    <3>7. QED
      BY <3>6 DEF Call!Next
  <2>5. QED
    BY <2>1, <2>3, <2>4 DEF Repeats, Takes, Keeps, Holds
<1>5. CASE Resends \/ Stops
  BY <1>5, CallStutters DEF Resends, Stops, Alike, device
<1>6. CASE Fails
  BY <1>6, CallStutters DEF Fails, device
<1>7. ASSUME NEW q \in ReqType, q.rid = req.rid, Moves(q)
      PROVE  [Call!Next]_(Call!vars)
  <2>1. pc = "wait" /\ UNCHANGED runs /\ req.rid \in Rid
    BY <1>1, <1>7 DEF Moves, device
  <2>2. CASE Crashes(q) \/ Ends(q)
    BY <1>7, <2>1, <2>2, CallStutters DEF Crashes, Ends
  <2>3. ASSUME NEW f \in Request, NewFrame(q, f)
        PROVE  [Call!Next]_(Call!vars)
    <3>1. /\ req'.rid = req.rid /\ pc' = pc
          /\ again' = (IF over THEN [again EXCEPT ![req.rid] = @ + 1] ELSE again)
      BY <1>7, <2>3 DEF NewFrame
    <3>2. CASE ~over
      BY <2>1, <3>1, <3>2, CallStutters
    <3>3. CASE over
      <4>1. again' = [again EXCEPT ![req.rid] = @ + 1]
        BY <3>1, <3>3
      <4>2. [r \in Rid |-> IF r <= req'.rid THEN 1 + again'[r] ELSE 0] =
              [[r \in Rid |-> IF r <= req.rid THEN 1 + again[r] ELSE 0]
                 EXCEPT ![req.rid] = @ + 1]
        <5>1. ASSUME NEW r \in Rid
              PROVE  (IF r <= req'.rid THEN 1 + again'[r] ELSE 0) =
                       IF r = req.rid THEN (IF r <= req.rid THEN 1 + again[r] ELSE 0) + 1
                       ELSE IF r <= req.rid THEN 1 + again[r] ELSE 0
          <6>1. /\ req'.rid = req.rid /\ r \in Nat /\ req.rid \in Nat /\ again[r] \in Nat
                /\ again'[r] = IF r = req.rid THEN again[r] + 1 ELSE again[r]
            BY <1>1, <2>1, <3>1, <4>1
          <6>2. QED
            BY <6>1
        <5>2. QED
          BY <2>1, <5>1
      <4>3. Result' = "none" /\ Result = "none"
        BY <2>1, <3>1 DEF Result, Returned
      <4>4. Call!TryAgain
        BY <2>1, <3>1, <4>2, <4>3 DEF Call!TryAgain
      <4>5. QED
        BY <4>4 DEF Call!Next
    <3>4. QED
      BY <3>2, <3>3
  <2>4. QED
    BY <1>0, <1>7, <2>2, <2>3, Builds
<1>8. QED
  BY <1>0, <1>2, <1>3, <1>4, <1>5, <1>6, <1>7, Kinds

LEMMA CallInit == Init => Call!Init
<1> SUFFICES ASSUME Init PROVE Call!Init
  OBVIOUS
<1>1. req.rid = 0 /\ pc = "idle" /\ runs = [r \in Rid |-> 0]
  BY DEF Init, NewReq
<1>2. Rid = 1 .. MaxReq /\ MaxReq \in Nat
  BY ConstantsAssumption DEF Rid
<1>3. [r \in Rid |-> IF r <= req.rid THEN 1 + again[r] ELSE 0] = [r \in 1 .. MaxReq |-> 0]
  BY <1>1, <1>2
<1>4. Result = "none"
  BY <1>1 DEF Result, Returned
<1>5. QED
  BY <1>1, <1>2, <1>3, <1>4 DEF Call!Init

\* For every value of the constants the client, the link and the device of CoapReq
\* are an implementation of ConfirmableCall: requests are made one after the other,
\* an attempt of Coap#req (coap.rb:249-274) is executed at most once however often
\* it is retransmitted (coap.rb:107-121), and a whole result is reported only of a
\* request that was executed.
THEOREM CallImplemented == Spec => ImplementsCall
<1>1. Init => CInv /\ Call!Init
  BY CInvInit, CallInit
<1>2. CInv /\ [Next]_vars => CInv' /\ [Call!Next]_(Call!vars)
  BY CInvStep, CallStep
<1>3. QED
  BY <1>1, <1>2, PTL DEF Spec, ImplementsCall, Call!Spec
=============================================================================
