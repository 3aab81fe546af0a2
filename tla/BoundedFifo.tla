---------------------------- MODULE BoundedFifo ----------------------------
(***************************************************************************)
(* What a RoundQueue promises its two threads: a FIFO queue of at most     *)
(* Capacity items that refuses a Push exactly when it is full, answers a   *)
(* Pop with NULL exactly when it is empty, and loses, repeats and reorders *)
(* nothing.  RoundQueue.tla is shown to implement this specification.      *)
(***************************************************************************)
EXTENDS Naturals, Sequences

CONSTANTS
  Items,     \* the objects that can be queued (Msg, sQuery, sQueryResult)
  Capacity,  \* the argument of RoundQueue::Init
  NULL       \* the null pointer


VARIABLES
  fifo,     \* the items in the queue, oldest first
  pushRet,  \* the answer of the producer's last Push
  popRet    \* the answer of the consumer's last Pop

vars == <<fifo, pushRet, popRet>>

Contents == {fifo[k] : k \in 1 .. Len(fifo)}

Init ==
  /\ fifo = <<>>
  /\ pushRet = TRUE
  /\ popRet = NULL

Push(i) ==
  /\ Len(fifo) < Capacity
  /\ i \notin Contents
  /\ fifo' = Append(fifo, i)
  /\ pushRet' = TRUE
  /\ UNCHANGED popRet

Refuse ==
  /\ Len(fifo) = Capacity
  /\ pushRet' = FALSE
  /\ UNCHANGED <<fifo, popRet>>

Pop ==
  /\ fifo # <<>>
  /\ popRet' = Head(fifo)
  /\ fifo' = Tail(fifo)
  /\ UNCHANGED pushRet

PopNone ==
  /\ fifo = <<>>
  /\ popRet' = NULL
  /\ UNCHANGED <<fifo, pushRet>>

Next ==
  \/ \E i \in Items : Push(i)
  \/ Refuse
  \/ Pop
  \/ PopNone

SafeSpec == Init /\ [][Next]_vars

\* The consumer polls for ever, so a queue that holds something is emptied.
Spec == SafeSpec /\ WF_vars(Pop)
=============================================================================
