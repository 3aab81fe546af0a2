-------------------------- MODULE RoundQueueProofs --------------------------
(* Proofs about RoundQueue, for every capacity and every set of items.     *)
EXTENDS RoundQueue, SequenceTheorems, TLAPS

(* Advancing an index is adding one, or going back to slot 0.              *)
LEMMA NextSlotWraps ==
  ASSUME NEW s \in Slot
  PROVE  /\ NextSlot(s) \in Slot
         /\ NextSlot(s) = IF s = MaxLen - 1 THEN 0 ELSE s + 1
<1>1. CASE s = MaxLen - 1
  BY <1>1, MaxLenAssumption DEF NextSlot, Slot
<1>2. CASE s # MaxLen - 1
  BY <1>2, MaxLenAssumption DEF NextSlot, Slot
<1> QED BY <1>1, <1>2

(* The ring's indices, marks and program points keep their types.          *)
LEMMA TypeCorrect == Spec => []TypeOK
<1>1. Init => TypeOK
  BY MaxLenAssumption, NullAssumption DEF Init, TypeOK, Slot
<1>2. TypeOK /\ [Next]_vars => TypeOK'
  <2> SUFFICES ASSUME TypeOK, [Next]_vars PROVE TypeOK'
    OBVIOUS
  <2> USE NullAssumption DEF TypeOK
  <2>1. ASSUME NEW i \in Items, PushFull(i) PROVE TypeOK'
    BY <2>1 DEF PushFull, popVars
  <2>2. ASSUME NEW i \in Items, PushBegin(i) PROVE TypeOK'
    BY <2>2 DEF PushBegin, popVars
  <2>3. CASE PutItem
    BY <2>3 DEF PutItem, popVars
  <2>4. CASE PutQueueID
    BY <2>4 DEF PutQueueID, popVars
  <2>5. CASE SetMark
    BY <2>5 DEF SetMark, popVars
  <2>6. CASE AdvanceHead
    BY <2>6, NextSlotWraps DEF AdvanceHead, popVars
  <2>7. CASE PopEmpty
    BY <2>7 DEF PopEmpty, pushVars
  <2>8. CASE TakeItem
    BY <2>8 DEF TakeItem, pushVars
  <2>9. CASE ClearItem
    BY <2>9 DEF ClearItem, pushVars
  <2>10. CASE ClearMark
    BY <2>10 DEF ClearMark, pushVars
  <2>11. CASE AdvanceTail
    BY <2>11, NextSlotWraps DEF AdvanceTail, pushVars
  <2>12. CASE ResetQueueID
    BY <2>12 DEF ResetQueueID, pushVars
  <2>13. CASE UNCHANGED vars
    BY <2>13 DEF vars, pushVars, popVars
  <2> QED
    BY <2>1, <2>2, <2>3, <2>4, <2>5, <2>6, <2>7, <2>8, <2>9, <2>10, <2>11, <2>12, <2>13
    DEF Next, PushStep, PopStep
<1> QED BY <1>1, <1>2, PTL DEF Spec
-----------------------------------------------------------------------------
(* How the occupied part of the ring moves.  All three lemmas are          *)
(* arithmetic on the two indices.                                          *)

LEMMA CountBounds ==
  ASSUME TypeOK
  PROVE  Count \in 0 .. MaxLen /\ First \in Slot /\ Last \in Slot
<1>1. First \in Slot /\ Last \in Slot
  BY NextSlotWraps DEF TypeOK, First, Last
<1>2. Count \in 0 .. MaxLen
  BY <1>1, MaxLenAssumption DEF Count, Dist, Slot
<1> QED BY <1>1, <1>2

(* Setting the head's mark adds one slot at the far end.                   *)
LEMMA SetMarkCounts ==
  ASSUME TypeOK, Occupancy, ProducerInv, SetMark
  PROVE  /\ First' = First /\ Count' = Count + 1
         /\ Dist(First, mHead) = Count
<1>1. /\ mHead \in Slot /\ mTail \in Slot /\ First \in Slot
      /\ mMark[mHead] = 0 /\ Last = mHead /\ Last' = NextSlot(mHead)
      /\ First' = First
  BY NextSlotWraps DEF SetMark, TypeOK, ProducerInv, First, Last, popVars
<1>2. /\ mMark \in [Slot -> {0, 1}] /\ mMark' = [mMark EXCEPT ![mHead] = 1]
  BY DEF SetMark, TypeOK
<1>3. Dist(First, mHead) = Count
  BY <1>1, <1>2, MaxLenAssumption DEF Count, Dist, Slot
<1>4. CASE First = NextSlot(mHead)
  <2>1. Count' = MaxLen
    <3>1. CASE First = mHead
      BY <1>1, <1>2, <1>4, <3>1 DEF Count
    <3>2. CASE First # mHead
      <4>1. Dist(First, First) < Count
        BY <1>1, <3>2, MaxLenAssumption DEF Count, Dist, Slot
      <4>2. mMark[First] = 1
        BY <1>1, <4>1 DEF Occupancy
      <4> QED BY <1>1, <1>2, <1>4, <3>2, <4>2 DEF Count
    <3> QED BY <3>1, <3>2
  <2>2. Dist(First, mHead) = MaxLen - 1
    BY <1>1, <1>4, NextSlotWraps, MaxLenAssumption DEF Dist, Slot
  <2> QED BY <1>1, <1>3, <2>1, <2>2, MaxLenAssumption
<1>5. CASE First # NextSlot(mHead)
  <2>1. Count' = Dist(First, NextSlot(mHead))
    BY <1>1, <1>5 DEF Count, Dist
  <2>2. Dist(First, NextSlot(mHead)) = Dist(First, mHead) + 1
    BY <1>1, <1>5, NextSlotWraps, MaxLenAssumption DEF Dist, Slot
  <2> QED BY <1>1, <1>3, <2>1, <2>2
<1> QED BY <1>1, <1>3, <1>4, <1>5

(* Clearing the tail's mark takes one slot away at the near end.           *)
LEMMA ClearMarkCounts ==
  ASSUME TypeOK, Occupancy, ConsumerInv, ClearMark
  PROVE  /\ First = mTail /\ First' = NextSlot(mTail)
         /\ Count \in 1 .. MaxLen /\ Count' = Count - 1
<1>1. /\ mHead \in Slot /\ mTail \in Slot /\ Last \in Slot
      /\ mMark[mTail] = 1 /\ First = mTail /\ First' = NextSlot(mTail)
      /\ Last' = Last
  BY NextSlotWraps DEF ClearMark, TypeOK, ConsumerInv, First, Last, pushVars
<1>2. /\ mMark \in [Slot -> {0, 1}] /\ mMark' = [mMark EXCEPT ![mTail] = 0]
  BY DEF ClearMark, TypeOK
<1>3. Count \in 1 .. MaxLen
  BY <1>1, CountBounds, MaxLenAssumption DEF Occupancy, Dist, Slot
<1>4. CASE Last = NextSlot(mTail)
  <2>1. Count' = 0
    <3>1. CASE MaxLen = 1
      BY <1>1, <1>2, <1>4, <3>1, NextSlotWraps DEF Count, Slot
    <3>2. CASE MaxLen # 1
      <4>1. mTail # NextSlot(mTail) /\ Count = 1
        BY <1>1, <1>4, <3>2, NextSlotWraps, MaxLenAssumption DEF Count, Dist, Slot
      <4>2. mMark[NextSlot(mTail)] = 0
        BY <1>1, <1>2, <4>1, NextSlotWraps, MaxLenAssumption DEF Occupancy, Dist, Slot
      <4> QED BY <1>1, <1>2, <1>4, <4>1, <4>2 DEF Count
    <3> QED BY <3>1, <3>2
  <2>2. Count = 1
    BY <1>1, <1>4, NextSlotWraps, MaxLenAssumption DEF Count, Dist, Slot
  <2> QED BY <1>1, <1>3, <2>1, <2>2
<1>5. CASE Last # NextSlot(mTail)
  <2>1. Count' = Dist(NextSlot(mTail), Last)
    BY <1>1, <1>5 DEF Count, Dist
  <2>2. Dist(NextSlot(mTail), Last) = Count - 1
    BY <1>1, <1>5, NextSlotWraps, MaxLenAssumption DEF Count, Dist, Slot
  <2> QED BY <1>1, <1>3, <2>1, <2>2
<1> QED BY <1>1, <1>3, <1>4, <1>5

(* No other step moves either end of the occupied part.                    *)
LEMMA OtherStepsKeepCount ==
  ASSUME TypeOK, [Next]_vars, ~SetMark, ~ClearMark
  PROVE  First' = First /\ Last' = Last /\ Count' = Count /\ mMark' = mMark
<1>1. First' = First /\ Last' = Last /\ mMark' = mMark
  BY DEF Next, PushStep, PopStep, PushFull, PushBegin, PutItem, PutQueueID, AdvanceHead,
         PopEmpty, TakeItem, ClearItem, AdvanceTail, ResetQueueID, First, Last,
         vars, pushVars, popVars, TypeOK
<1> QED BY <1>1 DEF Count, Dist
-----------------------------------------------------------------------------
(* The marked slots stay the Count slots from First on.                    *)
LEMMA OccupancyStep ==
  ASSUME IInv, [Next]_vars, TypeOK'
  PROVE  Occupancy'
<1> USE DEF IInv
<1>1. CASE SetMark
  <2> SUFFICES ASSUME NEW s \in Slot
               PROVE  mMark'[s] = 1 <=> Dist(First', s) < Count'
    BY DEF Occupancy, Dist
  <2>1. /\ First' = First /\ Count' = Count + 1 /\ Dist(First, mHead) = Count
        /\ mMark' = [mMark EXCEPT ![mHead] = 1]
        /\ mHead \in Slot /\ First \in Slot /\ Count \in 0 .. MaxLen
    BY <1>1, SetMarkCounts, CountBounds DEF SetMark, TypeOK
  <2>2. CASE s = mHead
    BY <2>1, <2>2 DEF TypeOK
  <2>3. CASE s # mHead
    <3>1. Dist(First, s) # Dist(First, mHead) /\ Dist(First, s) \in Nat
      BY <2>1, <2>3, MaxLenAssumption DEF Dist, Slot
    <3> QED BY <2>1, <2>3, <3>1 DEF Occupancy, TypeOK
  <2> QED BY <2>2, <2>3
<1>2. CASE ClearMark
  <2> SUFFICES ASSUME NEW s \in Slot
               PROVE  mMark'[s] = 1 <=> Dist(First', s) < Count'
    BY DEF Occupancy, Dist
  <2>1. /\ First = mTail /\ First' = NextSlot(mTail)
        /\ Count \in 1 .. MaxLen /\ Count' = Count - 1
        /\ mMark' = [mMark EXCEPT ![mTail] = 0] /\ mTail \in Slot
    BY <1>2, ClearMarkCounts DEF ClearMark, TypeOK
  <2>2. CASE s = mTail
    <3>1. Dist(NextSlot(mTail), s) = MaxLen - 1
      BY <2>1, <2>2, NextSlotWraps, MaxLenAssumption DEF Dist, Slot
    <3> QED BY <2>1, <2>2, <3>1, MaxLenAssumption DEF TypeOK
  <2>3. CASE s # mTail
    <3>1. Dist(NextSlot(mTail), s) = Dist(mTail, s) - 1 /\ Dist(mTail, s) \in Nat
      BY <2>1, <2>3, NextSlotWraps, MaxLenAssumption DEF Dist, Slot
    <3> QED BY <2>1, <2>3, <3>1 DEF Occupancy, TypeOK
  <2> QED BY <2>2, <2>3
<1>3. CASE ~SetMark /\ ~ClearMark
  BY <1>3, OtherStepsKeepCount DEF Occupancy, Dist
<1> QED BY <1>1, <1>2, <1>3

(* While both threads are at work in the ring they are at different slots. *)
LEMMA WorkersApart ==
  ASSUME IInv
  PROVE  NoSlotRace
BY DEF IInv, ProducerInv, ConsumerInv, NoSlotRace, TypeOK

(* The three parts of the invariant that say what each thread has done so  *)
(* far and what the slots hold support each other, so they are shown       *)
(* together, one step of the program at a time.                            *)
ThreadInv == ProducerInv /\ ConsumerInv /\ SlotInv

LEMMA ThreadInvStep ==
  ASSUME IInv, [Next]_vars, TypeOK'
  PROVE  ThreadInv'
<1> USE NullAssumption DEF IInv, ThreadInv, ProducerInv, ConsumerInv, SlotInv, TypeOK
<1>1. ASSUME NEW i \in Items, PushFull(i) PROVE ThreadInv'
  BY <1>1 DEF PushFull, popVars
<1>2. ASSUME NEW i \in Items, PushBegin(i) PROVE ThreadInv'
  BY <1>2 DEF PushBegin, Owned, popVars
<1>3. CASE PutItem
  BY <1>3 DEF PutItem, popVars
<1>4. CASE PutQueueID
  BY <1>4 DEF PutQueueID, popVars
<1>5. CASE SetMark
  BY <1>5 DEF SetMark, popVars
<1>6. CASE AdvanceHead
  BY <1>6 DEF AdvanceHead, popVars
<1>7. CASE PopEmpty
  BY <1>7 DEF PopEmpty, pushVars
<1>8. CASE TakeItem
  BY <1>8 DEF TakeItem, pushVars
<1>9. CASE ClearItem
  BY <1>9 DEF ClearItem, pushVars
<1>10. CASE ClearMark
  BY <1>10 DEF ClearMark, pushVars
<1>11. CASE AdvanceTail
  BY <1>11 DEF AdvanceTail, pushVars
<1>12. CASE ResetQueueID
  BY <1>12 DEF ResetQueueID, pushVars
<1>13. CASE UNCHANGED vars
  BY <1>13 DEF vars, pushVars, popVars
<1> QED
  BY <1>1, <1>2, <1>3, <1>4, <1>5, <1>6, <1>7, <1>8, <1>9, <1>10, <1>11, <1>12, <1>13
  DEF Next, PushStep, PopStep
-----------------------------------------------------------------------------
(* The inductive invariant holds of every behaviour, whatever MaxLen is.   *)
THEOREM RingInvariant == Spec => []IInv
<1>1. Init => IInv
  <2> SUFFICES ASSUME Init PROVE IInv
    OBVIOUS
  <2>1. TypeOK
    BY MaxLenAssumption, NullAssumption DEF Init, TypeOK, Slot
  <2>2. Occupancy
    BY MaxLenAssumption DEF Init, Occupancy, Count, First, Last, Dist, Slot
  <2>3. ProducerInv /\ ConsumerInv /\ SlotInv
    BY DEF Init, ProducerInv, ConsumerInv, SlotInv
  <2> QED BY <2>1, <2>2, <2>3 DEF IInv
<1>2. TypeOK' /\ IInv /\ [Next]_vars => IInv'
  BY OccupancyStep, ThreadInvStep DEF IInv, ThreadInv
<1> QED BY <1>1, <1>2, TypeCorrect, PTL DEF Spec

(* The two threads never touch one slot pointer at the same time.          *)
THEOREM SlotsAreRaceFree == Spec => []NoSlotRace
BY RingInvariant, WorkersApart, PTL

(* Where the k-th item of the queue is.                                    *)
LEMMA SlotOfItem ==
  ASSUME TypeOK, NEW f \in Slot, NEW k \in 1 .. MaxLen
  PROVE  LET s == (f + k - 1) % MaxLen
         IN  /\ s \in Slot
             /\ s = IF f + k - 1 < MaxLen THEN f + k - 1 ELSE f + k - 1 - MaxLen
             /\ Dist(f, s) = k - 1
<1>1. CASE f + k - 1 < MaxLen
  <2>1. (f + k - 1) % MaxLen = f + k - 1
    BY <1>1, MaxLenAssumption DEF Slot
  <2> QED BY <1>1, <2>1, MaxLenAssumption DEF Slot, Dist
<1>2. CASE ~(f + k - 1 < MaxLen)
  <2>1. (f + k - 1) % MaxLen = f + k - 1 - MaxLen
    BY <1>2, MaxLenAssumption DEF Slot
  <2> QED BY <1>2, <2>1, MaxLenAssumption DEF Slot, Dist
<1> QED BY <1>1, <1>2

(* The k-th item is a real item, in a marked slot it knows the index of.   *)
LEMMA FifoItem ==
  ASSUME IInv, NEW k \in 1 .. Count
  PROVE  LET s == (First + k - 1) % MaxLen
         IN  /\ s \in Slot /\ mMark[s] = 1 /\ Fifo[k] = ItemAt(s)
             /\ Fifo[k] \in Items /\ queueID[Fifo[k]] = s
<1> DEFINE s == (First + k - 1) % MaxLen
<1>1. Count \in 0 .. MaxLen /\ First \in Slot /\ k \in 1 .. MaxLen /\ k - 1 < Count
  BY CountBounds, MaxLenAssumption DEF IInv
<1>2. s \in Slot /\ Dist(First, s) = k - 1
  BY <1>1, SlotOfItem DEF IInv
<1>3. mMark[s] = 1
  BY <1>1, <1>2 DEF IInv, Occupancy
<1>4. Fifo[k] = ItemAt(s)
  BY DEF Fifo
<1>5. ItemAt(s) \in Items /\ queueID[ItemAt(s)] = s
  <2>1. CASE s = mTail /\ popPc = "clearMark"
    BY <2>1, NullAssumption DEF ItemAt, IInv, ConsumerInv, TypeOK
  <2>2. CASE ~(s = mTail /\ popPc = "clearMark")
    BY <2>2, <1>2, <1>3, NullAssumption DEF ItemAt, IInv, SlotInv, TypeOK
  <2> QED BY <2>1, <2>2
<1> QED BY <1>2, <1>3, <1>4, <1>5

(* Nothing in the queue looks like a message that is in no queue.          *)
THEOREM QueuedItemsHaveIDs == Spec => []QueuedHasID
<1>1. IInv => QueuedHasID
  BY FifoItem DEF QueuedHasID, Fifo, Slot
<1> QED BY <1>1, RingInvariant, PTL
-----------------------------------------------------------------------------
(* The refinement: setting the mark is the abstract Push, clearing it the  *)
(* abstract Pop, reading a mark that answers the caller is Refuse or       *)
(* PopNone, and every other step is invisible.                             *)

FifoTyped == Fifo \in Seq(Items) /\ Len(Fifo) = Count

LEMMA FifoType == IInv => FifoTyped
<1> SUFFICES ASSUME IInv PROVE FifoTyped
  OBVIOUS
<1>1. Count \in Nat
  BY CountBounds DEF IInv
<1>2. Fifo \in [1 .. Count -> Items]
  BY <1>1, FifoItem DEF Fifo
<1> QED BY <1>1, <1>2, SeqDef, LenProperties DEF FifoTyped

LEMMA FifoTypeNext == IInv' => FifoTyped'
BY FifoType, PTL

LEMMA InitRefines == Init => Abstract!Init
<1> SUFFICES ASSUME Init PROVE Abstract!Init
  OBVIOUS
<1>1. Count = 0
  BY MaxLenAssumption DEF Init, Count, First, Last, Slot
<1>2. Fifo = <<>>
  BY <1>1 DEF Fifo
<1> QED BY <1>2 DEF Init, Abstract!Init

LEMMA SetMarkRefines ==
  ASSUME IInv, IInv', SetMark
  PROVE  Abstract!Push(pushItem)
<1>1. /\ First' = First /\ Count' = Count + 1 /\ Dist(First, mHead) = Count
      /\ First \in Slot /\ Count \in Nat /\ Count < MaxLen /\ mHead \in Slot
  BY SetMarkCounts, CountBounds, MaxLenAssumption DEF IInv, TypeOK, Dist, Slot
<1>2. pushItem \in Items /\ mQueue[mHead] = pushItem /\ ~(mHead = mTail /\ popPc = "clearMark")
  BY NullAssumption, WorkersApart DEF IInv, ProducerInv, TypeOK, SetMark, NoSlotRace
<1>3. \A s \in Slot : (ItemAt(s))' = ItemAt(s)
  BY DEF SetMark, ItemAt, popVars
<1>4. Fifo' = Append(Fifo, pushItem)
  <2>1. \A k \in 1 .. Count : Fifo'[k] = Fifo[k]
    <3> SUFFICES ASSUME NEW k \in 1 .. Count PROVE Fifo'[k] = Fifo[k]
      OBVIOUS
    <3>1. (First + k - 1) % MaxLen \in Slot
      BY FifoItem
    <3> QED BY <1>1, <1>3, <3>1 DEF Fifo
  <2>2. Fifo'[Count + 1] = pushItem
    <3>1. (First + (Count + 1) - 1) % MaxLen = mHead
      <4>1. Count + 1 \in 1 .. MaxLen
        BY <1>1, MaxLenAssumption
      <4>2. LET s == (First + (Count + 1) - 1) % MaxLen
            IN  s \in Slot /\ Dist(First, s) = Count
        BY <1>1, <4>1, SlotOfItem DEF IInv
      <4> QED BY <1>1, <4>2, MaxLenAssumption DEF Dist, Slot
    <3> QED BY <1>1, <1>2, <1>3, <3>1 DEF Fifo, ItemAt
  <2>3. Fifo \in Seq(Items) /\ Len(Fifo) = Count /\ Fifo' \in Seq(Items) /\ Len(Fifo') = Count + 1
    BY <1>1, FifoType, FifoTypeNext DEF FifoTyped
  <2> QED BY <1>1, <1>2, <2>1, <2>2, <2>3
<1>5. \A k \in 1 .. Count : Fifo[k] # pushItem
  BY <1>2, FifoItem DEF IInv, ProducerInv, SetMark, TypeOK
<1> QED
  BY <1>1, <1>4, <1>5, FifoType DEF FifoTyped, Abstract!Push, Abstract!Contents, SetMark, popVars

LEMMA ClearMarkRefines ==
  ASSUME IInv, IInv', ClearMark
  PROVE  Abstract!Pop
<1>1. /\ First = mTail /\ First' = NextSlot(mTail) /\ mTail \in Slot
      /\ Count \in 1 .. MaxLen /\ Count' = Count - 1
  BY ClearMarkCounts DEF IInv, TypeOK
<1>2. Fifo \in Seq(Items) /\ Len(Fifo) = Count /\ Fifo' \in Seq(Items) /\ Len(Fifo') = Count - 1
  BY <1>1, FifoType, FifoTypeNext DEF FifoTyped
<1>3. Fifo[1] = popItem
  <2>1. (First + 1 - 1) % MaxLen = mTail
    BY <1>1, MaxLenAssumption DEF Slot
  <2> QED BY <1>1, <2>1 DEF Fifo, ItemAt, ClearMark
<1>4. \A k \in 1 .. Count - 1 : Fifo'[k] = Fifo[k + 1]
  <2> SUFFICES ASSUME NEW k \in 1 .. Count - 1 PROVE Fifo'[k] = Fifo[k + 1]
    OBVIOUS
  <2> DEFINE s == (First + (k + 1) - 1) % MaxLen
  <2>1. k \in 1 .. MaxLen /\ k + 1 \in 1 .. MaxLen /\ k + 1 \in 1 .. Count
    BY <1>1, MaxLenAssumption
  <2>2. s \in Slot /\ s # mTail
    BY <1>1, <2>1, SlotOfItem, MaxLenAssumption DEF IInv, Dist, Slot
  <2>3. (First' + k - 1) % MaxLen = s
    <3>1. First' \in Slot /\ First' = IF mTail = MaxLen - 1 THEN 0 ELSE mTail + 1
      BY <1>1, NextSlotWraps
    <3>2. (First' + k - 1) % MaxLen = IF First' + k - 1 < MaxLen THEN First' + k - 1 ELSE First' + k - 1 - MaxLen
      BY <2>1, <3>1, SlotOfItem DEF IInv
    <3>3. s = IF First + (k + 1) - 1 < MaxLen THEN First + (k + 1) - 1 ELSE First + (k + 1) - 1 - MaxLen
      BY <1>1, <2>1, SlotOfItem DEF IInv
    <3> QED BY <1>1, <2>1, <3>1, <3>2, <3>3, MaxLenAssumption DEF Slot
  <2>4. Fifo'[k] = mQueue'[s]
    BY <1>1, <2>3 DEF Fifo, ItemAt, ClearMark
  <2>5. Fifo[k + 1] = mQueue[s]
    BY <2>1, <2>2 DEF Fifo, ItemAt
  <2> QED BY <2>4, <2>5 DEF ClearMark
<1>5. Head(Fifo) = popItem /\ Fifo # <<>>
  BY <1>1, <1>2, <1>3
<1>6. Fifo' = Tail(Fifo)
  BY <1>1, <1>2, <1>4, <1>5, HeadTailProperties, SeqEqual
<1> QED BY <1>5, <1>6 DEF Abstract!Pop, ClearMark, pushVars

LEMMA PushFullRefines ==
  ASSUME IInv, NEW i \in Items, PushFull(i)
  PROVE  Abstract!Refuse
<1>1. First \in Slot /\ Last = mHead /\ mHead \in Slot /\ mMark[mHead] = 1
  BY CountBounds DEF IInv, TypeOK, PushFull, Last
<1>2. Count = MaxLen
  BY <1>1, MaxLenAssumption DEF IInv, Occupancy, Count, Dist, Slot
<1>3. Fifo' = Fifo
  BY DEF PushFull, popVars, Fifo, Count, First, Last, ItemAt, Dist
<1> QED BY <1>2, <1>3, FifoType DEF FifoTyped, Abstract!Refuse, PushFull, popVars

LEMMA PopEmptyRefines ==
  ASSUME IInv, PopEmpty
  PROVE  Abstract!PopNone
<1>1. First = mTail /\ mTail \in Slot /\ mMark[mTail] = 0
  BY DEF IInv, TypeOK, PopEmpty, First
<1>2. Count = 0
  BY <1>1, CountBounds, MaxLenAssumption DEF IInv, Occupancy, Dist, Slot
<1>3. Fifo = <<>>
  BY <1>2 DEF Fifo
<1>4. Fifo' = Fifo
  BY DEF PopEmpty, pushVars, Fifo, Count, First, Last, ItemAt, Dist
<1> QED BY <1>3, <1>4 DEF Abstract!PopNone, PopEmpty, pushVars

(* The steps before a mark changes and after it leave the queue as it is.  *)
LEMMA InvisibleStep ==
  ASSUME IInv, \/ \E i \in Items : PushBegin(i)
               \/ PutItem \/ PutQueueID \/ AdvanceHead
               \/ TakeItem \/ ClearItem \/ AdvanceTail \/ ResetQueueID
               \/ UNCHANGED vars
  PROVE  UNCHANGED Abstract!vars
<1> DEFINE Marked == \A s \in Slot : mMark[s] = 1 => ItemAt(s)' = ItemAt(s)
<1>1. First' = First /\ Last' = Last /\ mMark' = mMark /\ Count' = Count
  BY DEF PushBegin, PutItem, PutQueueID, AdvanceHead, TakeItem, ClearItem, AdvanceTail,
         ResetQueueID, vars, pushVars, popVars, First, Last, Count, Dist
<1>2. CASE PutItem
  <2>1. Marked
    BY <1>2 DEF PutItem, popVars, ItemAt, IInv, ProducerInv, TypeOK
  <2>2. Fifo' = Fifo
    BY <1>1, <2>1, FifoItem DEF Fifo
  <2> QED BY <1>2, <2>2 DEF PutItem, popVars, Abstract!vars
<1>3. CASE ClearItem
  <2>1. Marked
    BY <1>3 DEF ClearItem, pushVars, ItemAt, IInv, ConsumerInv, TypeOK
  <2>2. Fifo' = Fifo
    BY <1>1, <2>1, FifoItem DEF Fifo
  <2> QED BY <1>3, <2>2 DEF ClearItem, pushVars, Abstract!vars
<1>4. CASE ~PutItem /\ ~ClearItem
  <2>1. \A s \in Slot : ItemAt(s)' = ItemAt(s)
    BY <1>4 DEF PushBegin, PutQueueID, AdvanceHead, TakeItem, AdvanceTail,
                ResetQueueID, vars, pushVars, popVars, ItemAt
  <2>2. Fifo' = Fifo
    BY <1>1, <2>1, FifoItem DEF Fifo
  <2> QED
    BY <1>4, <2>2
    DEF PushBegin, PutQueueID, AdvanceHead, TakeItem, AdvanceTail,
        ResetQueueID, vars, pushVars, popVars, Abstract!vars
<1> QED BY <1>2, <1>3, <1>4

(* The ring is a bounded FIFO queue, for every capacity and set of items.  *)
THEOREM RingImplementsFifo == Spec => Abstract!SafeSpec
<1>1. IInv /\ IInv' /\ [Next]_vars => [Abstract!Next]_(Abstract!vars)
  <2> SUFFICES ASSUME IInv, IInv', [Next]_vars
               PROVE  Abstract!Next \/ UNCHANGED Abstract!vars
    OBVIOUS
  <2>1. ASSUME NEW i \in Items, PushFull(i) PROVE Abstract!Next
    BY <2>1, PushFullRefines DEF Abstract!Next
  <2>2. CASE PopEmpty
    BY <2>2, PopEmptyRefines DEF Abstract!Next
  <2>3. CASE SetMark
    <3>1. pushItem \in Items
      BY <2>3, NullAssumption DEF SetMark, IInv, TypeOK, ProducerInv
    <3> QED BY <2>3, <3>1, SetMarkRefines DEF Abstract!Next
  <2>4. CASE ClearMark
    BY <2>4, ClearMarkRefines DEF Abstract!Next
  <2> QED
    BY <2>1, <2>2, <2>3, <2>4, InvisibleStep DEF Next, PushStep, PopStep
<1> QED BY <1>1, InitRefines, RingInvariant, PTL DEF Spec, Abstract!SafeSpec
=============================================================================
