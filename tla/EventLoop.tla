----------------------------- MODULE EventLoop -----------------------------
(***************************************************************************)
(* The timers of the protocol handlers (support/libeasy/handler/base.rb)   *)
(* and the loop that serves them and the device (Dut#poll in dut.rb).      *)
(*                                                                         *)
(* Handlers form a tree below Dut.  Each has a timer of its own            *)
(* (timeout_self) and caches the earliest one of its subtree               *)
(* (timeout_next), which timeout_calc_next brings up to date from a        *)
(* handler up to Dut.  There is one thread; a caller that waits for        *)
(* something calls Dut#poll until it has it.  The callers are those of     *)
(* scripts/mup1ct.                                                         *)
(*                                                                         *)
(* Times are the time left: a tick takes one from each that is not zero.   *)
(* What the handlers do with a frame is left to CoapReq and Mup1: here     *)
(* they only set their timers.                                             *)
(***************************************************************************)
EXTENDS Integers, Sequences, FiniteSets, SequencesExt

CONSTANTS
  Handler,     \* the handlers
  Dut, Mup1, Coap,   \* three of them
  Path,        \* for each handler, the way up to Dut, itself first
  AckTime,     \* time Coap waits before a retransmission
  MupTime,     \* 0.5 s: time Mup1 waits for the rest of a frame
  PollTime,    \* 0.1 s: the timer Dut gets in the loops of ping and listen
  WaitTime,    \* time ping, listen and the wait for traces take
  MaxRetry,    \* retransmissions of Coap
  MaxInput     \* bound: chunks the device sends during one call

Nil == -1

ASSUME EventLoopAssumption ==
  /\ {Dut, Mup1, Coap} \subseteq Handler
  /\ IsFiniteSet(Handler)
  /\ \A h \in Handler :
       /\ Path[h] \in Seq(Handler) \ {<<>>}
       /\ Path[h][1] = h /\ Last(Path[h]) = Dut
       /\ \A i \in DOMAIN Path[h] : Path[Path[h][i]] = SubSeq(Path[h], i, Len(Path[h]))
  /\ {AckTime, MupTime, PollTime, WaitTime} \subseteq Nat \ {0}
  /\ MaxRetry \in Nat

VARIABLES
  pc,        \* "idle", "loop", "select", "cb", "raised"
  caller,    \* who waits: "coap", "ping", "listen" or "traces"
  self,      \* @timeout_self of each handler, or Nil
  next,      \* @timeout_next of each handler, or Nil
  deadline,  \* what Dut#poll passed to select
  end,       \* timeout_end of the loops that have one
  pong,      \* PingHandler#pong_received
  retry,     \* retransmissions of the request
  tasks,     \* what is left of timeout_cb
  input,     \* data is ready to be read
  arrived    \* chunks that arrived during this call

call == <<caller, end, pong, retry>>
vars == <<pc, call, self, next, deadline, tasks, input, arrived>>

Callers == {"coap", "ping", "listen", "traces"}   \* "none": no one yet
Children(h) == {c \in Handler : Len(Path[c]) > 1 /\ Path[c][2] = h}

\* The earliest of some timers, Nil when none is set.
Earliest(ts) ==
  IF ts \ {Nil} = {} THEN Nil
  ELSE CHOOSE t \in ts \ {Nil} : \A u \in ts \ {Nil} : t <= u

----------------------------------------------------------------------------
(* Base                                                                    *)

\* Mutant: a timer of the handlers above is preferred to that of a child.
CalcAt_OwnFirst(s, n, h) ==
  [n EXCEPT ![h] = IF s[h] # Nil THEN s[h] ELSE Earliest({n[c] : c \in Children(h)})]

CalcAt(s, n, h) ==
  [n EXCEPT ![h] = Earliest({s[h]} \cup {n[c] : c \in Children(h)})]

\* timeout_calc_next, which calls itself on the lower layer.
Calc(s, n, h) ==
  LET calc[i \in 0 .. Len(Path[h])] == IF i = 0 THEN n ELSE CalcAt(s, calc[i - 1], Path[h][i])
  IN  calc[Len(Path[h])]

\* timeout_abs_set, timeout_relative_set and timeout_clear of one handler.
Set(h, t) ==
  /\ self' = [self EXCEPT ![h] = t]
  /\ next' = Calc(self', next, h)

\* The same of Coap and then of Mup1, with the calculation after each.
SetBoth(t, u) ==
  LET s1 == [self EXCEPT ![Coap] = t]
      s2 == [s1 EXCEPT ![Mup1] = u]
  IN  /\ self' = s2
      /\ next' = Calc(s2, Calc(s1, next, Coap), Mup1)

Enter(h) == [do |-> "enter", at |-> h]
Leave(h) == [do |-> "leave", at |-> h]

\* Mutant: retransmissions are not counted.
CoapWork_Uncounted == Set(Coap, AckTime) /\ UNCHANGED retry

\* timeout_work of each handler, its own timer being cleared already.
CoapWork ==
  IF retry < MaxRetry
  THEN Set(Coap, AckTime) /\ retry' = retry + 1
  ELSE Set(Coap, Nil) /\ UNCHANGED retry

ClearOnly(h) ==
  /\ self' = [self EXCEPT ![h] = Nil]
  /\ UNCHANGED <<next, retry>>

\* timeout_cb of a handler: its own timer, then its children, then the
\* calculation.  Between the handlers time passes: each looks at the clock.
CbEnter ==
  /\ pc = "cb"
  /\ tasks # <<>>
  /\ Head(tasks).do = "enter"
  /\ LET h == Head(tasks).at
     IN  /\ IF self[h] # 0 THEN UNCHANGED <<self, next, retry>>
            ELSE IF h = Coap THEN CoapWork
            ELSE ClearOnly(h)
         /\ tasks' = [i \in 1 .. Cardinality(Children(h)) |-> Enter(SetToSeq(Children(h))[i])]
                       \o <<Leave(h)>> \o Tail(tasks)
  /\ UNCHANGED <<pc, caller, end, pong, deadline, input, arrived>>

CbLeave ==
  /\ pc = "cb"
  /\ tasks # <<>>
  /\ Head(tasks).do = "leave"
  /\ next' = Calc(self, next, Head(tasks).at)
  /\ tasks' = Tail(tasks)
  /\ UNCHANGED <<pc, call, self, deadline, input, arrived>>

CbDone ==
  /\ pc = "cb"
  /\ tasks = <<>>
  /\ pc' = "loop"
  /\ UNCHANGED <<call, self, next, deadline, tasks, input, arrived>>

----------------------------------------------------------------------------
(* The callers                                                             *)

\* Coap#coap_req sets the timer of its first frame; the others note when to stop.
\* The wait for traces follows a command.  "Forever" is not modelled.
Call ==
  /\ pc = "idle"
  /\ pc' = "loop"
  /\ caller' \in Callers
  /\ caller' = "traces" => caller \in Callers \ {"traces"}
  /\ end' = WaitTime
  /\ pong' = FALSE
  /\ retry' = 0
  /\ arrived' = 0
  /\ IF caller' = "coap" THEN Set(Coap, AckTime) ELSE UNCHANGED <<self, next>>
  /\ UNCHANGED <<deadline, tasks, input>>

Waiting ==
  CASE caller = "coap"   -> self[Coap] # Nil
    [] caller = "ping"   -> ~pong /\ end > 0
    [] caller = "listen" -> end > 0
    [] caller = "traces" -> end > 0

\* Mutant: no one gives Dut a timer.
PollTimer_None == self

\* Ping and listen give Dut a timer before each poll.
PollTimer ==
  IF caller \in {"ping", "listen"} THEN [self EXCEPT ![Dut] = PollTime] ELSE self

\* Dut#poll up to select.
Poll ==
  /\ pc = "loop"
  /\ Waiting
  /\ self' = PollTimer
  /\ next' = Calc(self', next, Dut)
  /\ IF next'[Dut] = Nil
     THEN pc' = "raised" /\ UNCHANGED deadline
     ELSE pc' = "select" /\ deadline' = next'[Dut]
  /\ UNCHANGED <<call, tasks, input, arrived>>

Return ==
  /\ pc = "loop"
  /\ ~Waiting
  /\ pc' = "idle"
  /\ UNCHANGED <<call, self, next, deadline, tasks, input, arrived>>

\* select found data: part of a frame or console text; a response, after which
\* Coap is through (Nil), waits on or has sent a further frame; or a pong.
Read ==
  /\ pc = "select"
  /\ input
  /\ input' = FALSE
  /\ \/ Set(Mup1, MupTime) /\ UNCHANGED pong
     \/ /\ caller = "coap"
        /\ \E t \in {Nil, self[Coap], AckTime} : SetBoth(t, MupTime)
        /\ UNCHANGED pong
     \/ Set(Mup1, MupTime) /\ pong' = TRUE
  /\ pc' = "loop"
  /\ UNCHANGED <<caller, end, retry, deadline, tasks, arrived>>

\* select timed out.
Expire ==
  /\ pc = "select"
  /\ ~input
  /\ deadline = 0
  /\ pc' = "cb"
  /\ tasks' = <<Enter(Dut)>>
  /\ UNCHANGED <<call, self, next, deadline, input, arrived>>

----------------------------------------------------------------------------
(* The device and the clock                                                *)

Arrive ==
  /\ ~input
  /\ arrived < MaxInput
  /\ input' = TRUE
  /\ arrived' = arrived + 1
  /\ UNCHANGED <<pc, call, self, next, deadline, tasks>>

Less(t) == IF t > 0 THEN t - 1 ELSE t

Tick ==
  /\ pc = "select" => ~input /\ deadline > 0
  /\ pc # "raised"
  /\ self' = [h \in Handler |-> Less(self[h])]
  /\ next' = [h \in Handler |-> Less(next[h])]
  /\ deadline' = Less(deadline)
  /\ end' = Less(end)
  /\ UNCHANGED <<pc, caller, pong, retry, tasks, input, arrived>>

----------------------------------------------------------------------------
Init ==
  /\ pc = "idle"
  /\ caller = "none"
  /\ self = [h \in Handler |-> Nil]
  /\ next = [h \in Handler |-> Nil]
  /\ deadline = 0
  /\ end = 0
  /\ pong = FALSE
  /\ retry = 0
  /\ tasks = <<>>
  /\ input = FALSE
  /\ arrived = 0

Loop == Poll \/ Return \/ Read \/ Expire \/ CbEnter \/ CbLeave \/ CbDone

Next == Loop \/ Call \/ Arrive \/ Tick

Spec == Init /\ [][Next]_vars

\* The thread runs on, and the clock too.
FairSpec == Spec /\ WF_vars(Loop) /\ WF_vars(Tick)

----------------------------------------------------------------------------
(* Properties                                                              *)

\* Outside timeout_cb every cached timeout_next is the earliest of its subtree,
\* so that select wakes at the earliest of all timers of the tree: none is
\* missed, however deep, and none that was cleared wakes it.
NextIsEarliest ==
  /\ pc = "select" => deadline = Earliest({self[h] : h \in Handler})
  /\ pc # "cb" => \A h \in Handler :
       next[h] = Earliest({self[c] : c \in {k \in Handler : h \in ToSet(Path[k])}})

\* The callers that set a timer before they poll never make Dut#poll raise
\* "Calling poll without a timeout is an error".
PollHasTimeout == pc = "raised" => caller = "traces"

\* Every wait ends, whoever waits: a timer that is due is served once the device
\* falls silent for a moment, and retransmissions end.
WaitEnds == (pc = "loop") ~> (pc \in {"idle", "raised"})
=============================================================================
