------------------------------ MODULE CoapReq ------------------------------
(***************************************************************************)
(* The CoAP client of support/libeasy/handler/coap.rb: one confirmable     *)
(* request at a time (class ReqBlockWise), sent block by block (block1),   *)
(* its response read block by block (block2), retransmitted on a timer,    *)
(* driven by the handler Coap from the receive path and from the timeout   *)
(* path of the event loop.                                                 *)
(*                                                                         *)
(* The link below (MUP1 over a serial port or a terminal server) is FIFO   *)
(* and drops what fails its checksum.  The CoAP server is the device, not  *)
(* part of the repository: it is modelled as one that follows RFC 7252 and *)
(* RFC 7959 with piggybacked responses, deduplicates on the message id and *)
(* may refuse any request.                                                 *)
(*                                                                         *)
(* Bytes of the request body are counted, never stored: a piece of body is *)
(* its offset and its length.  Response bytes are counted in blocks.       *)
(***************************************************************************)
EXTENDS Integers, Sequences, FiniteSets

CONSTANTS
  Mid,          \* message ids (0 .. 2^16 - 1 in the code)
  NoMid,        \* @mid = nil
  BlockSize,    \* @block_size in bytes: 256, or 128 above DTLS
  BodySizes,    \* body sizes the user may ask for; Nil is "no payload"
  RespBlocks,   \* how many blocks a response may have; 0 is "no payload"
  Errors,       \* TRUE: the device may refuse any frame with 4.xx or 5.xx
  MaxReset,     \* bound: RST the device sends
  MaxRetry,     \* retransmissions before giving up; 5 in the code
  LinkCap,      \* bound: frames a direction of the link holds, more are lost
  MaxReq,       \* bound: requests the user makes
  MaxAgain      \* bound: restarts of a request that was over (see Again)

Nil == -1

ASSUME ConstantsAssumption ==
  /\ Mid \subseteq Nat
  /\ NoMid \notin Mid
  /\ BlockSize \in Nat \ {0}
  /\ BodySizes \subseteq Nat \cup {Nil}
  /\ RespBlocks \subseteq Nat
  /\ Errors \in BOOLEAN
  /\ MaxReset \in Nat
  /\ MaxRetry \in Nat
  /\ LinkCap \in Nat
  /\ MaxReq \in Nat
  /\ MaxAgain \in Nat

VARIABLES
  pc,       \* the caller of Coap#req: "idle", "wait" (in its loop), "crashed"
  polling,  \* inside Dut#poll, between two frames of the chunk it read
  req,      \* the ReqBlockWise object
  over,     \* history: next_step has answered (nil, nil) for this request
  gaveUp,   \* history: it did so because of "Giving up!"
  refused,  \* history: this request took a response that is not 2.xx
  again,    \* history: frames built for each request after it was over
  reqQ,     \* link to the device
  respQ,    \* link from the device
  srv,      \* the device
  runs,     \* how often the device executed each request
  corrupt   \* the requests the device executed with a body other than the user's

client == <<pc, polling, req, over, gaveUp, refused, again>>
device == <<srv, runs, corrupt>>
vars == <<client, reqQ, respQ, device>>

----------------------------------------------------------------------------
(* Frames                                                                  *)

Rid == 1 .. MaxReq

\* A request frame.  b1 is the block1 number (Nil: no block1 option), from and
\* len the piece of the body it carries, b2 the block2 number it asks for.
Request == [rid : Rid, mid : Mid, size : Nat \cup {Nil}, b1 : Nat \cup {Nil},
            more : BOOLEAN, from : Nat, len : Nat, b2 : Nat]

\* A block of payload of a response: the n-th of the result or of an error text.
Block == [rid : Rid, kind : {"body", "text"}, n : Nat]

\* A response frame; ack: its type is ACK, more and num: its block2 option.
Response == [rid : Rid, mid : Mid, ack : BOOLEAN, class : {0, 2, 4},
             data : Seq(Block), more : BOOLEAN, num : Nat]

BodyBlock(r, n) == [rid |-> r, kind |-> "body", n |-> n]
ErrorText(r) == [rid |-> r, kind |-> "text", n |-> 0]

Elements(q) == {q[i] : i \in DOMAIN q}

\* Message ids some frame on the link or the device still knows.
MidInUse == {f.mid : f \in Elements(reqQ)} \cup {r.mid : r \in Elements(respQ)}
              \cup {srv.mid}

\* A new id is drawn at random among 2**16.  That it meets one that is still in
\* use (a few at a time at most) is left out; ids are only ever compared, so any
\* unused one stands for all of them.
Unused == Mid \ MidInUse
FreshMid == {m \in Unused : \A k \in Unused : m <= k}

\* Frames go out in order; a full link loses them.
Transmit(fs) ==
  reqQ' = IF Len(reqQ) + Len(fs) <= LinkCap THEN reqQ \o fs ELSE reqQ

----------------------------------------------------------------------------
(* ReqBlockWise                                                            *)

NoFrame == [rid |-> 0, mid |-> NoMid, size |-> Nil, b1 |-> Nil, more |-> FALSE,
            from |-> 0, len |-> 0, b2 |-> 0]

\* ReqBlockWise#initialize.  tx and ack: bytes of the body sent and acknowledged;
\* more and num: the block2 option of the last response; timer: @req_timer, which
\* is also @timeout_self of the handler; rx: the payload collected.
NewReq(r, size) ==
  [rid |-> r, size |-> size, mid |-> NoMid, tx |-> Nil, ack |-> Nil,
   more |-> FALSE, num |-> Nil, timer |-> FALSE, retry |-> 0, frame |-> NoFrame,
   class |-> Nil, rx |-> <<>>]

\* Mutant: the size of the body is not looked at.
ReqNotDone_NoSize(q) == q.tx = Nil \/ q.tx # q.ack

ReqNotDone(q) ==
  \/ q.tx = Nil
  \/ q.tx # q.ack
  \/ q.size # Nil /\ q.tx # q.size

\* Bytes in the body of a request object or frame.
BodySize(f) == IF f.size = Nil THEN 0 ELSE f.size
Blockwise(q) == q.size > BlockSize
Sent(q) == IF q.tx = Nil THEN 0 ELSE q.tx
\* Mutant: every block starts at the beginning of the body.
Start_Zero(q) == 0

Start(q) == IF Blockwise(q) /\ q.ack # Nil THEN q.ack ELSE 0

\* payload_tx.byteslice(start, block_size): at most a block, what is left, and
\* nil (here Nil) when start lies beyond the end.  A body of one block is sent
\* as it is.
SliceLen(q) ==
  LET left == BodySize(q) - Start(q)
  IN  IF left < 0 THEN Nil
      ELSE IF Blockwise(q) /\ left > BlockSize THEN BlockSize ELSE left

SentAfter(q) ==
  IF Blockwise(q) THEN Sent(q) + SliceLen(q)
  ELSE IF q.size = Nil THEN Sent(q) ELSE q.size

\* block1_num counts the blocks handed out so far.
Block1Num(q) == IF Blockwise(q) THEN Sent(q) \div BlockSize ELSE Nil

BodyFrame(q, m) ==
  [rid |-> q.rid, mid |-> m, size |-> q.size, b1 |-> Block1Num(q),
   more |-> Blockwise(q) /\ SentAfter(q) < q.size,
   from |-> Start(q), len |-> SliceLen(q), b2 |-> 0]

ReadFrame(q, m) ==
  [rid |-> q.rid, mid |-> m, size |-> q.size, b1 |-> Nil, more |-> FALSE,
   from |-> 0, len |-> 0, b2 |-> q.num + 1]

\* A new frame goes out: @last_frame, timer started, retransmission count reset.
SendNew(q, f) ==
  /\ req' = [q EXCEPT !.mid = f.mid, !.frame = f, !.timer = TRUE, !.retry = 0]
  /\ Transmit(<<f>>)
  /\ again' = IF over THEN [again EXCEPT ![q.rid] = @ + 1] ELSE again
  /\ over => again[q.rid] < MaxAgain
  /\ UNCHANGED <<pc, over, gaveUp>>

\* next_step with no timer running, while the request itself is not through.
SendBody(q) ==
  /\ ~q.timer
  /\ ReqNotDone(q)
  /\ SliceLen(q) # Nil
  /\ \E m \in FreshMid : SendNew([q EXCEPT !.tx = SentAfter(q)], BodyFrame(q, m))

\* byteslice answered nil: nil.bytesize raises, and no one rescues it.
Crash(q) ==
  /\ ~q.timer
  /\ ReqNotDone(q)
  /\ SliceLen(q) = Nil
  /\ pc' = "crashed"
  /\ req' = q
  /\ UNCHANGED <<reqQ, over, gaveUp, again>>

ReadOn(q) ==
  /\ ~q.timer
  /\ ~ReqNotDone(q)
  /\ q.more
  /\ \E m \in FreshMid : SendNew(q, ReadFrame(q, m))

\* The id drawn at line 132 goes out in no frame here, so nothing can match it.
Done(q) ==
  /\ ~q.timer
  /\ ~ReqNotDone(q)
  /\ ~q.more
  /\ req' = [q EXCEPT !.mid = NoMid, !.frame = NoFrame, !.retry = 0]
  /\ over' = TRUE
  /\ UNCHANGED <<pc, gaveUp, again, reqQ>>

KeepWaiting(q) ==
  /\ q.timer
  /\ req' = q
  /\ UNCHANGED <<pc, over, gaveUp, again, reqQ>>

\* Mutant: one retransmission too many.
Retransmit_OneMore(q) ==
  /\ q.timer
  /\ q.retry <= MaxRetry
  /\ req' = [q EXCEPT !.retry = @ + 1]
  /\ Transmit(<<q.frame>>)
  /\ UNCHANGED <<pc, over, gaveUp, again>>

\* Mutant: a retransmission draws a new message id.
Retransmit_NewMid(q) ==
  /\ q.timer
  /\ q.retry < MaxRetry
  /\ \E m \in FreshMid :
       LET f == [q.frame EXCEPT !.mid = m]
       IN  /\ req' = [q EXCEPT !.retry = @ + 1, !.mid = m, !.frame = f]
           /\ Transmit(<<f>>)
  /\ UNCHANGED <<pc, over, gaveUp, again>>

\* Mutant: retransmissions are not counted.
Retransmit_Uncounted(q) ==
  /\ q.timer
  /\ q.retry < MaxRetry
  /\ req' = q
  /\ Transmit(<<q.frame>>)
  /\ UNCHANGED <<pc, over, gaveUp, again>>

Retransmit(q) ==
  /\ q.timer
  /\ q.retry < MaxRetry
  /\ req' = [q EXCEPT !.retry = @ + 1]
  /\ Transmit(<<q.frame>>)
  /\ UNCHANGED <<pc, over, gaveUp, again>>

GiveUp(q) ==
  /\ q.timer
  /\ q.retry = MaxRetry
  /\ req' = [q EXCEPT !.timer = FALSE]
  /\ over' = TRUE
  /\ gaveUp' = TRUE
  /\ UNCHANGED <<pc, again, reqQ>>

\* next_step once its timer has expired, and next_step without a timer.
Expired(q) == Retransmit(q) \/ GiveUp(q)
Proceed(q) == SendBody(q) \/ Crash(q) \/ ReadOn(q) \/ Done(q)

----------------------------------------------------------------------------
(* The handler and its caller                                              *)

\* Coap#coap_req: the first next_step of a new request.
Submit ==
  /\ pc = "idle"
  /\ req.rid < MaxReq
  /\ \E size \in BodySizes, m \in FreshMid :
       LET q == NewReq(req.rid + 1, size)
           f == BodyFrame(q, m)
       IN  /\ req' = [q EXCEPT !.tx = SentAfter(q), !.mid = m, !.frame = f,
                               !.timer = TRUE]
           /\ Transmit(<<f>>)
  /\ pc' = "wait"
  /\ over' = FALSE
  /\ gaveUp' = FALSE
  /\ refused' = FALSE
  /\ UNCHANGED <<polling, again, respQ, device>>

\* ReqBlockWise#rx_data, the assignments of lines 68-86.
Take(q, r) ==
  [q EXCEPT !.ack = IF r.ack /\ r.class = 2 THEN q.tx ELSE @,
            !.mid = NoMid,
            !.timer = FALSE,
            !.class = r.class,
            !.rx = @ \o r.data,
            !.more = r.more,
            !.num = IF r.more THEN r.num ELSE @]

\* Mutant: any frame is taken for the answer.
Matches_Any(q, r) == q.mid # NoMid

Matches(q, r) == q.mid # NoMid /\ r.mid = q.mid

\* A frame whose id is not the one waited for goes straight to next_step, which
\* waits on, retransmits when the timer happens to have expired, or, with no
\* timer running, builds the next frame.
RxOther(r) ==
  /\ ~Matches(req, r)
  /\ KeepWaiting(req) \/ Expired(req) \/ Proceed(req)
  /\ UNCHANGED refused

RxAnswer(r) ==
  /\ Matches(req, r)
  /\ r.class # 4
  /\ Proceed(Take(req, r))
  /\ refused' = (refused \/ r.class # 2)

RxError(r) ==
  /\ Matches(req, r)
  /\ r.class = 4
  /\ req' = Take(req, r)
  /\ over' = TRUE
  /\ refused' = TRUE
  /\ UNCHANGED <<pc, gaveUp, again, reqQ>>

\* Dut#poll found data and hands a frame up to Coap#rx.  A poll is made only
\* while the timer runs, but one chunk of input may hold several frames.
Rx ==
  /\ pc = "wait"
  /\ polling \/ req.timer
  /\ respQ # <<>>
  /\ RxOther(Head(respQ)) \/ RxAnswer(Head(respQ)) \/ RxError(Head(respQ))
  /\ respQ' = Tail(respQ)
  /\ polling' = TRUE
  /\ UNCHANGED device

\* The chunk holds no further frame: the poll ends.
EndPoll ==
  /\ pc = "wait"
  /\ polling
  /\ polling' = FALSE
  /\ UNCHANGED <<pc, req, over, gaveUp, refused, again, reqQ, respQ, device>>

\* select timed out: Base#timeout_cb runs Coap#timeout_work.
Timeout ==
  /\ pc = "wait"
  /\ ~polling
  /\ req.timer
  /\ Expired(req)
  /\ UNCHANGED <<polling, refused, respQ, device>>

\* The loop of Coap#req ends and its caller reads the result from req.
Return ==
  /\ pc = "wait"
  /\ ~polling
  /\ ~req.timer
  /\ pc' = "idle"
  /\ UNCHANGED <<polling, req, over, gaveUp, refused, again, reqQ, respQ, device>>

----------------------------------------------------------------------------
(* The link and the device                                                 *)

LoseRequest ==
  /\ reqQ # <<>>
  /\ reqQ' = Tail(reqQ)
  /\ UNCHANGED <<client, respQ, device>>

LoseResponse ==
  /\ respQ # <<>>
  /\ respQ' = Tail(respQ)
  /\ UNCHANGED <<client, reqQ, device>>

Answer(f, class, data, more) ==
  [rid |-> f.rid, mid |-> f.mid, ack |-> class # 0, class |-> class,
   data |-> data, more |-> more, num |-> f.b2]

\* The device sends r and remembers it for duplicates of the request.
Reply(s, r) ==
  /\ srv' = [s EXCEPT !.mid = r.mid, !.resp = r]
  /\ respQ' = IF Len(respQ) < LinkCap THEN Append(respQ, r) ELSE respQ

NewRequest(f) == f.mid # srv.mid
InSequence(f) ==
  f.b1 \in {Nil, 0} \/ (f.rid = srv.rid /\ f.b1 * BlockSize = srv.len)

\* The body collected so far with this piece added; intact: the bytes are the
\* user's and in their places.
Assembled(f) ==
  LET at == IF f.b1 \in {Nil, 0} THEN 0 ELSE srv.len
  IN  [srv EXCEPT !.rid = f.rid,
                  !.len = at + f.len,
                  !.intact = (at = 0 \/ srv.intact) /\ f.from = at,
                  !.blocks = 0]

Duplicate(f) ==
  /\ ~NewRequest(f)
  /\ Reply(srv, srv.resp)
  /\ UNCHANGED <<runs, corrupt>>

Continue(f) ==
  /\ NewRequest(f) /\ f.b2 = 0 /\ f.more /\ InSequence(f)
  /\ Reply(Assembled(f), Answer(f, 2, <<>>, FALSE))
  /\ UNCHANGED <<runs, corrupt>>

Execute(f) ==
  /\ NewRequest(f) /\ f.b2 = 0 /\ ~f.more /\ InSequence(f)
  /\ \E n \in RespBlocks :
       Reply([Assembled(f) EXCEPT !.blocks = n],
             Answer(f, 2, IF n = 0 THEN <<>> ELSE <<BodyBlock(f.rid, 0)>>, n > 1))
  /\ runs' = [runs EXCEPT ![f.rid] = @ + 1]
  /\ corrupt' = IF Assembled(f).intact /\ Assembled(f).len = BodySize(f)
                THEN corrupt ELSE corrupt \cup {f.rid}

NextBlock(f) ==
  /\ NewRequest(f) /\ f.b2 > 0 /\ f.rid = srv.rid /\ f.b2 < srv.blocks
  /\ Reply(srv, Answer(f, 2, <<BodyBlock(f.rid, f.b2)>>, f.b2 + 1 < srv.blocks))
  /\ UNCHANGED <<runs, corrupt>>

\* 4.08 for a piece or a block out of sequence, 4.xx and 5.xx for any reason the
\* device may have; the text of the error may be longer than a block.
Refuse(f) ==
  /\ NewRequest(f)
  /\ \/ Errors
     \/ f.b2 = 0 /\ ~InSequence(f)
     \/ f.b2 > 0 /\ ~(f.rid = srv.rid /\ f.b2 < srv.blocks)
  /\ \E more \in BOOLEAN : Reply(srv, Answer(f, 4, <<ErrorText(f.rid)>>, more))
  /\ UNCHANGED <<runs, corrupt>>

Reset(f) ==
  /\ NewRequest(f)
  /\ srv.resets < MaxReset
  /\ Reply([srv EXCEPT !.resets = @ + 1], Answer(f, 0, <<>>, FALSE))
  /\ UNCHANGED <<runs, corrupt>>

Serve ==
  /\ reqQ # <<>>
  /\ LET f == Head(reqQ)
     IN  Duplicate(f) \/ Continue(f) \/ Execute(f) \/ NextBlock(f) \/ Refuse(f) \/ Reset(f)
  /\ reqQ' = Tail(reqQ)
  /\ UNCHANGED client

----------------------------------------------------------------------------
NoResponse == [rid |-> 0, mid |-> NoMid, ack |-> FALSE, class |-> 0, data |-> <<>>,
               more |-> FALSE, num |-> 0]

Init ==
  /\ pc = "idle"
  /\ polling = FALSE
  /\ req = NewReq(0, Nil)
  /\ over = FALSE
  /\ gaveUp = FALSE
  /\ refused = FALSE
  /\ again = [r \in Rid |-> 0]
  /\ reqQ = <<>>
  /\ respQ = <<>>
  /\ srv = [mid |-> NoMid, rid |-> 0, len |-> 0, intact |-> TRUE, blocks |-> 0,
            resets |-> 0, resp |-> NoResponse]
  /\ runs = [r \in Rid |-> 0]
  /\ corrupt = {}

Next == Submit \/ Rx \/ EndPoll \/ Timeout \/ Return
          \/ LoseRequest \/ LoseResponse \/ Serve

Spec == Init /\ [][Next]_vars

\* The single thread of the tool keeps running: a poll ends when its chunk is
\* used up, select returns at the latest when the timeout passes, and the loop
\* of Coap#req looks at the timer after each poll.
FairSpec == Spec /\ WF_vars(EndPoll) /\ WF_vars(Timeout) /\ WF_vars(Return)

----------------------------------------------------------------------------
(* Properties                                                              *)

\* Every variable stays in its type, the queues within the link's capacity and
\* the retransmissions within their limit.
ReqType == [rid : 0 .. MaxReq, size : Nat \cup {Nil}, mid : Mid \cup {NoMid},
            tx : Nat \cup {Nil}, ack : Nat \cup {Nil}, more : BOOLEAN,
            num : Nat \cup {Nil}, timer : BOOLEAN, retry : 0 .. MaxRetry,
            frame : Request \cup {NoFrame}, class : {Nil, 0, 2, 4}, rx : Seq(Block)]

SrvType == [mid : Mid \cup {NoMid}, rid : 0 .. MaxReq, len : Nat, intact : BOOLEAN,
            blocks : Nat, resets : Nat, resp : Response \cup {NoResponse}]

TypeOK ==
  /\ pc \in {"idle", "wait", "crashed"}
  /\ polling \in BOOLEAN
  /\ req \in ReqType
  /\ req.timer => req.frame \in Request
  /\ pc # "idle" => req.rid \in Rid
  /\ over \in BOOLEAN /\ gaveUp \in BOOLEAN /\ refused \in BOOLEAN
  /\ again \in [Rid -> 0 .. MaxAgain]
  /\ reqQ \in Seq(Request) /\ Len(reqQ) <= LinkCap
  /\ respQ \in Seq(Response) /\ Len(respQ) <= LinkCap
  /\ srv \in SrvType
  /\ srv.mid # NoMid => srv.resp \in Response /\ srv.resp.mid = srv.mid
  /\ runs \in [Rid -> Nat]
  /\ corrupt \subseteq Rid

\* Coap#req has returned and its caller holds the result.
Returned == pc = "idle" /\ req.rid > 0

\* Whatever is lost, retransmitted or late, the payload collected in
\* ReqBlockWise@payload_rx is the response of this request from its first
\* block on, no block twice and none left out, as long as the device refused
\* nothing.
PayloadInOrder ==
  ~refused => \A i \in 1 .. Len(req.rx) : req.rx[i] = BodyBlock(req.rid, i - 1)

\* The result a caller acts on: a request that was neither refused nor given
\* up has been executed, and its payload is the whole response.
SuccessIsWhole ==
  Returned /\ ~refused /\ ~gaveUp =>
    /\ req.class = 2
    /\ runs[req.rid] > 0
    /\ srv.rid = req.rid
    /\ Len(req.rx) = srv.blocks

\* The promise to the caller: retransmissions and late frames never make the
\* device execute an attempt twice, and success means it was executed.
Result ==
  IF ~Returned THEN "none"
  ELSE IF req.class = 2 /\ ~refused /\ ~gaveUp THEN "whole" ELSE "failed"

Call == INSTANCE ConfirmableCall
          WITH N <- MaxReq, current <- req.rid, open <- pc # "idle",
               tries <- [r \in Rid |-> IF r <= req.rid THEN 1 + again[r] ELSE 0],
               result <- Result

ImplementsCall == Call!Spec

\* The device never executes a body that is not the one the user gave, even
\* when blocks are retransmitted or refused: @req_tx, which numbers the next
\* block, and @req_tx_ack, where its bytes start, agree at every block but those
\* a request sends after it was over.  The exception of next_step on a nil slice
\* needs such a request or one that the device refused: what the link alone
\* does, losing and delaying frames, never raises it.
BodyIntact ==
  /\ \A r \in corrupt : again[r] > 0
  /\ pc = "crashed" => refused \/ again[req.rid] > 0

\* Each request returns to its caller (or dies) whatever the link loses or
\* delays: retransmissions end, and neither a late frame nor a refusal can keep
\* the loop of Coap#req waiting, as long as the device resets and the request
\* starts over only finitely often (MaxReset, MaxAgain).
Terminates == (pc = "wait") ~> (pc # "wait")

=============================================================================
