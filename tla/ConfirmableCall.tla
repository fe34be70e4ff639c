-------------------------- MODULE ConfirmableCall --------------------------
(***************************************************************************)
(* What the caller of Coap#req is promised: requests are made one after    *)
(* the other, each attempt is executed by the device at most once, and a   *)
(* whole result is reported only for a request that was executed.  Of a    *)
(* failed one nothing is known: it may have been executed, or may still be *)
(* when a late frame of it reaches the device.                             *)
(***************************************************************************)
EXTENDS Naturals

CONSTANT N  \* requests

VARIABLES
  current,  \* the last request made
  open,     \* its caller waits
  tries,    \* attempts made of each request
  runs,     \* executions of each request
  result    \* what the caller of the last request got

vars == <<current, open, tries, runs, result>>

Init ==
  /\ current = 0
  /\ open = FALSE
  /\ tries = [r \in 1 .. N |-> 0]
  /\ runs = [r \in 1 .. N |-> 0]
  /\ result = "none"

Ask ==
  /\ ~open
  /\ current < N
  /\ current' = current + 1
  /\ open' = TRUE
  /\ tries' = [tries EXCEPT ![current + 1] = 1]
  /\ result' = "none"
  /\ UNCHANGED runs

TryAgain ==
  /\ open
  /\ tries' = [tries EXCEPT ![current] = @ + 1]
  /\ UNCHANGED <<current, open, runs, result>>

Execute ==
  /\ \E r \in 1 .. N : runs[r] < tries[r] /\ runs' = [runs EXCEPT ![r] = @ + 1]
  /\ UNCHANGED <<current, open, tries, result>>

Succeed ==
  /\ open
  /\ runs[current] > 0
  /\ open' = FALSE
  /\ result' = "whole"
  /\ UNCHANGED <<current, tries, runs>>

Fail ==
  /\ open
  /\ open' = FALSE
  /\ result' = "failed"
  /\ UNCHANGED <<current, tries, runs>>

Next == Ask \/ TryAgain \/ Execute \/ Succeed \/ Fail

Spec == Init /\ [][Next]_vars
=============================================================================
