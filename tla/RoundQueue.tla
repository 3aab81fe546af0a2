----------------------------- MODULE RoundQueue -----------------------------
(***************************************************************************)
(* common/RoundQueue.h: the lock-free ring that joins every pair of        *)
(* threads of the engine.  One thread only pushes, one thread only pops,   *)
(* and they meet in one mark byte per slot.  Each action is one access to  *)
(* shared memory, in the order the (unoptimised x86) build performs them,  *)
(* so that every interleaving of the two threads is a behaviour.           *)
(***************************************************************************)
EXTENDS Integers, Sequences, FiniteSets

CONSTANTS
  Items,   \* the pooled objects a thread may push
  MaxLen,  \* m_nMaxLen, the argument of Init
  NULL     \* the null pointer

ASSUME MaxLenAssumption == MaxLen \in Nat \ {0}
ASSUME NullAssumption   == NULL \notin Items

VARIABLES
  mQueue,    \* m_pQueue, the slots
  mMark,     \* m_pMark, 1 when the slot is full
  mHead,     \* m_nHead, the next slot to push to
  mTail,     \* m_nTail, the next slot to pop from
  queueID,   \* each item's m_nQueueID, -1 outside every queue
  pushPc, pushItem, pushRet,  \* the producer inside Push, its argument and answer
  popPc, popItem, popRet      \* the consumer inside Pop, its pRet and answer

pushVars  == <<pushPc, pushItem, pushRet>>
popVars   == <<popPc, popItem, popRet>>
vars == <<mQueue, mMark, mHead, mTail, queueID, pushVars, popVars>>

Slot == 0 .. MaxLen - 1

NextSlot(s) == (s + 1) % MaxLen

Init ==
  /\ mQueue = [s \in Slot |-> NULL]
  /\ mMark = [s \in Slot |-> 0]
  /\ mHead = 0
  /\ mTail = 0
  /\ queueID = [i \in Items |-> -1]
  /\ pushPc = "idle" /\ pushItem = NULL /\ pushRet = TRUE
  /\ popPc = "idle" /\ popItem = NULL /\ popRet = NULL
-----------------------------------------------------------------------------
(* Push.  The producer pushes objects it owns: NewObj never returns one    *)
(* that is still queued or that the consumer is still taking out.          *)

Owned(i) == i # popItem /\ \A s \in Slot : mQueue[s] # i

PushFull(i) ==
  /\ pushPc = "idle" /\ Owned(i)
  /\ mMark[mHead] # 0
  /\ pushRet' = FALSE
  /\ UNCHANGED <<mQueue, mMark, mHead, mTail, queueID, pushPc, pushItem, popVars>>

\* Mutant: the slot is taken without looking at its mark.
PushBeginUnchecked(i) ==
  /\ pushPc = "idle" /\ Owned(i)
  /\ pushPc' = "putItem"
  /\ pushItem' = i
  /\ UNCHANGED <<mQueue, mMark, mHead, mTail, queueID, pushRet, popVars>>

PushBegin(i) ==
  /\ pushPc = "idle" /\ Owned(i)
  /\ mMark[mHead] = 0
  /\ pushPc' = "putItem"
  /\ pushItem' = i
  /\ UNCHANGED <<mQueue, mMark, mHead, mTail, queueID, pushRet, popVars>>

PutItem ==
  /\ pushPc = "putItem"
  /\ mQueue' = [mQueue EXCEPT ![mHead] = pushItem]
  /\ pushPc' = "setID"
  /\ UNCHANGED <<mMark, mHead, mTail, queueID, pushItem, pushRet, popVars>>

PutQueueID ==
  /\ pushPc = "setID"
  /\ queueID' = [queueID EXCEPT ![pushItem] = mHead]
  /\ pushPc' = "setMark"
  /\ UNCHANGED <<mQueue, mMark, mHead, mTail, pushItem, pushRet, popVars>>

SetMark ==
  /\ pushPc = "setMark"
  /\ mMark' = [mMark EXCEPT ![mHead] = 1]
  /\ pushPc' = "advance"
  /\ UNCHANGED <<mQueue, mHead, mTail, queueID, pushItem, pushRet, popVars>>

AdvanceHead ==
  /\ pushPc = "advance"
  /\ mHead' = NextSlot(mHead)
  /\ pushPc' = "idle" /\ pushItem' = NULL /\ pushRet' = TRUE
  /\ UNCHANGED <<mQueue, mMark, mTail, queueID, popVars>>
-----------------------------------------------------------------------------
(* Pop.                                                                    *)

PopEmpty ==
  /\ popPc = "idle"
  /\ mMark[mTail] = 0
  /\ popRet' = NULL
  /\ UNCHANGED <<mQueue, mMark, mHead, mTail, queueID, pushVars, popPc, popItem>>

\* Mutant: the slot is given back before it is emptied.
TakeItemFreesSlot ==
  /\ popPc = "idle"
  /\ mMark[mTail] # 0
  /\ popItem' = mQueue[mTail]
  /\ mMark' = [mMark EXCEPT ![mTail] = 0]
  /\ popPc' = "clearItem"
  /\ UNCHANGED <<mQueue, mHead, mTail, queueID, pushVars, popRet>>

TakeItem ==
  /\ popPc = "idle"
  /\ mMark[mTail] # 0
  /\ popItem' = mQueue[mTail]
  /\ popPc' = "clearItem"
  /\ UNCHANGED <<mQueue, mMark, mHead, mTail, queueID, pushVars, popRet>>

\* Mutant: the queue ID is reset while the item still counts as queued.
ClearItemAndID ==
  /\ popPc = "clearItem"
  /\ mQueue' = [mQueue EXCEPT ![mTail] = NULL]
  /\ queueID' = [queueID EXCEPT ![popItem] = -1]
  /\ popPc' = "clearMark"
  /\ UNCHANGED <<mMark, mHead, mTail, pushVars, popItem, popRet>>

ClearItem ==
  /\ popPc = "clearItem"
  /\ mQueue' = [mQueue EXCEPT ![mTail] = NULL]
  /\ popPc' = "clearMark"
  /\ UNCHANGED <<mMark, mHead, mTail, queueID, pushVars, popItem, popRet>>

ClearMark ==
  /\ popPc = "clearMark"
  /\ mMark' = [mMark EXCEPT ![mTail] = 0]
  /\ popPc' = "advance"
  /\ UNCHANGED <<mQueue, mHead, mTail, queueID, pushVars, popItem, popRet>>

AdvanceTail ==
  /\ popPc = "advance"
  /\ mTail' = NextSlot(mTail)
  /\ popPc' = "resetID"
  /\ UNCHANGED <<mQueue, mMark, mHead, queueID, pushVars, popItem, popRet>>

ResetQueueID ==
  /\ popPc = "resetID"
  /\ queueID' = [queueID EXCEPT ![popItem] = -1]
  /\ popPc' = "idle" /\ popItem' = NULL /\ popRet' = popItem
  /\ UNCHANGED <<mQueue, mMark, mHead, mTail, pushVars>>
-----------------------------------------------------------------------------
PushStep == PutItem \/ PutQueueID \/ SetMark \/ AdvanceHead
PopStep  == TakeItem \/ ClearItem \/ ClearMark \/ AdvanceTail \/ ResetQueueID

Next ==
  \/ \E i \in Items : PushFull(i) \/ PushBegin(i)
  \/ PushStep
  \/ PopEmpty
  \/ PopStep

(* A Push once begun is finished, and every consumer is a timer or a loop  *)
(* that calls Pop for ever.  Nobody is obliged to push.                    *)
Spec == Init /\ [][Next]_vars /\ WF_vars(PushStep) /\ WF_vars(PopStep)
-----------------------------------------------------------------------------
(***************************************************************************)
(* What the ring holds.  An item enters the queue when its mark is set and *)
(* leaves it when its mark is cleared, one step before head or tail moves. *)
(***************************************************************************)
First == IF popPc = "advance" THEN NextSlot(mTail) ELSE mTail
Last  == IF pushPc = "advance" THEN NextSlot(mHead) ELSE mHead

\* Slots from a, forwards, to b.
Dist(a, b) == IF a <= b THEN b - a ELSE MaxLen - a + b

Count ==
  IF First # Last THEN Dist(First, Last) ELSE IF mMark[First] = 1 THEN MaxLen ELSE 0

ItemAt(s) == IF s = mTail /\ popPc = "clearMark" THEN popItem ELSE mQueue[s]

Fifo == [k \in 1 .. Count |-> ItemAt((First + k - 1) % MaxLen)]

Abstract == INSTANCE BoundedFifo WITH
  Capacity <- MaxLen,
  fifo     <- Fifo,
  pushRet  <- IF pushPc = "advance" THEN TRUE ELSE pushRet,
  popRet   <- IF popPc \in {"advance", "resetID"} THEN popItem ELSE popRet
-----------------------------------------------------------------------------
(* The type invariant: every variable of the ring and of the two threads   *)
(* inside it has the values the C++ types and the program points allow.    *)
TypeOK ==
  /\ mQueue \in [Slot -> Items \cup {NULL}]
  /\ mMark \in [Slot -> {0, 1}]
  /\ mHead \in Slot
  /\ mTail \in Slot
  /\ queueID \in [Items -> Slot \cup {-1}]
  /\ pushPc \in {"idle", "putItem", "setID", "setMark", "advance"}
  /\ pushItem \in Items \cup {NULL}
  /\ pushRet \in BOOLEAN
  /\ popPc \in {"idle", "clearItem", "clearMark", "advance", "resetID"}
  /\ popItem \in Items \cup {NULL}
  /\ popRet \in Items \cup {NULL}

(* The marked slots are the Count consecutive slots that start at First:   *)
(* the two threads, each moving its own index, never leave a hole or a     *)
(* forgotten slot in the ring (RoundQueue.h Push and Pop).                 *)
Occupancy == \A s \in Slot : mMark[s] = 1 <=> Dist(First, s) < Count

(* Where the producer is, and what it has written so far.                  *)
ProducerInv ==
  /\ pushPc # "idle" <=> pushItem # NULL
  /\ pushPc \in {"putItem", "setID", "setMark"} => mMark[mHead] = 0
  /\ pushPc = "putItem" => pushItem # popItem /\ \A s \in Slot : mQueue[s] # pushItem
  /\ pushPc \in {"setID", "setMark"} => mQueue[mHead] = pushItem
  /\ pushPc = "setMark" => queueID[pushItem] = mHead

(* Where the consumer is, and what it has taken.                           *)
ConsumerInv ==
  /\ popPc # "idle" <=> popItem # NULL
  /\ popPc \in {"clearItem", "clearMark"} => mMark[mTail] = 1 /\ queueID[popItem] = mTail
  /\ popPc = "clearItem" => mQueue[mTail] = popItem
  /\ \A s \in Slot : mQueue[s] = popItem /\ popPc # "idle" => s = mTail /\ popPc = "clearItem"

(* What the slots hold: a marked slot holds an item that knows its slot, an *)
(* unmarked one nothing, but for the slot each thread is at work on.        *)
SlotInv ==
  /\ \A s \in Slot : mMark[s] = 1 /\ ~(s = mTail /\ popPc = "clearMark") =>
       mQueue[s] # NULL /\ queueID[mQueue[s]] = s
  /\ \A s \in Slot : mMark[s] = 0 /\ ~(s = mHead /\ pushPc \in {"setID", "setMark"}) =>
       mQueue[s] = NULL
  /\ popPc = "clearMark" => mQueue[mTail] = NULL
  /\ \A s, t \in Slot : mQueue[s] = mQueue[t] /\ mQueue[s] # NULL => s = t

(* The inductive invariant of the proofs in RoundQueueProofs.tla.          *)
IInv == TypeOK /\ Occupancy /\ ProducerInv /\ ConsumerInv /\ SlotInv

(* The producer between its test of the mark and its setting of the mark,  *)
(* and the consumer between its test and its clearing, own the slot they   *)
(* work on: no slot pointer is read and written at once, although Push and *)
(* Pop share no lock.                                                      *)
NoSlotRace ==
  pushPc \in {"putItem", "setID", "setMark"} /\ popPc \in {"clearItem", "clearMark"}
    => mHead # mTail

(* Whatever is in the queue has a queue ID.  CheckLeakAndRecycle (Globals.cpp)  *)
(* takes m_nQueueID = -1 to mean "in no queue" and frees such messages.    *)
QueuedHasID == \A k \in DOMAIN Fifo : queueID[Fifo[k]] # -1

(* The ring implements the bounded FIFO queue: nothing is lost, repeated   *)
(* or reordered, Push answers false only when the queue is full and Pop    *)
(* answers NULL only when it is empty, and what is queued is popped.       *)
ImplementsFifo == Abstract!Spec
=============================================================================
