--------------------------- MODULE Buffers_proofs ---------------------------
(***************************************************************************)
(* The two containers that a GPU thread keeps candidates in, for every size *)
(* and every set of elements: the ring of hashes and a Fermat pipeline.    *)
(***************************************************************************)
EXTENDS SlotLoans, FermatTally, SequenceTheorems, TLAPS

-----------------------------------------------------------------------------
(***************************************************************************)
(* The ring of LifoBuffer: its inductive invariant, and that it implements *)
(* a bounded first-in first-out queue.  Then the promise of SlotLoans, that *)
(* a popped slot keeps its element for its whole life: the life of a lent  *)
(* slot is its distance ahead of writePos (LifeIsDistance), so the push    *)
(* that reaches it is exactly the one that ends its life.                  *)
(***************************************************************************)

(***************************************************************************)
(* NextPos walks the slots in a circle: the modulus is a case distinction. *)
(***************************************************************************)
LEMMA NextPosCases ==
  ASSUME NEW p \in Slots
  PROVE  /\ NextPos(p) \in Slots
         /\ NextPos(p) = IF p + 1 < Size THEN p + 1 ELSE 0
  BY SizeAssumption, Z3 DEF Slots, NextPos

(***************************************************************************)
(* A newly constructed lifoBuffer satisfies the ring invariant.            *)
(***************************************************************************)
LEMMA InitRingInv == RingInit => RingInv
  BY SizeAssumption
  DEF RingInit, RingInv, RingTypeOK, WaitingHoldElements, Waiting, Slots

(***************************************************************************)
(* push keeps the ring invariant: only the slot it writes starts to wait.  *)
(***************************************************************************)
LEMMA PushKeepsRingInv ==
  ASSUME RingInv, NEW e \in Elem, PushStored(e)
  PROVE  RingInv'
<1>1. /\ NextPos(writePos) \in Slots
      /\ NextPos(writePos) = IF writePos + 1 < Size THEN writePos + 1 ELSE 0
      /\ readPos \in Slots /\ writePos \in Slots
  BY NextPosCases DEF RingInv, RingTypeOK
<1>2. RingTypeOK'
  BY <1>1 DEF PushStored, RingInv, RingTypeOK
<1>3. ASSUME NEW i \in Slots
      PROVE  data'[i] = IF i = writePos THEN e ELSE data[i]
  BY DEF PushStored, RingInv, RingTypeOK
<1>4. \A i \in Slots : i \in Waiting' => i = writePos \/ i \in Waiting
  BY <1>1, SizeAssumption DEF Waiting, PushStored, Slots
<1>5. WaitingHoldElements'
  BY <1>3, <1>4, BlankAssumption
     DEF WaitingHoldElements, Waiting, RingInv, RingTypeOK, Slots
<1>6. QED
  BY <1>2, <1>5 DEF RingInv

(***************************************************************************)
(* pop of a ring that is not empty keeps the ring invariant: the slot it   *)
(* hands out stops waiting, and no other starts.                           *)
(***************************************************************************)
LEMMA PopKeepsRingInv ==
  ASSUME RingInv, Pop, ~Empty
  PROVE  RingInv' /\ Waiting' = Waiting \ {readPos} /\ readPos \in Waiting
<1>1. /\ NextPos(readPos) \in Slots
      /\ NextPos(readPos) = IF readPos + 1 < Size THEN readPos + 1 ELSE 0
      /\ readPos \in Slots /\ writePos \in Slots
  BY NextPosCases DEF RingInv, RingTypeOK
<1>2. readPos' = NextPos(readPos) /\ data' = data /\ writePos' = writePos
  BY DEF Pop
<1>3. RingTypeOK'
  BY <1>1, <1>2 DEF RingInv, RingTypeOK
<1>4. Waiting' = Waiting \ {readPos} /\ readPos \in Waiting
  BY <1>1, <1>2, SizeAssumption DEF Waiting, Empty, Slots
<1>5. WaitingHoldElements'
  BY <1>2, <1>4 DEF WaitingHoldElements, RingInv
<1>6. QED
  BY <1>3, <1>4, <1>5 DEF RingInv

(***************************************************************************)
(* clear keeps the ring invariant: nothing waits afterwards.               *)
(***************************************************************************)
LEMMA ClearKeepsRingInv ==
  ASSUME RingInv, Clear
  PROVE  RingInv' /\ Waiting' = {}
  BY SizeAssumption
  DEF Clear, RingInv, RingTypeOK, WaitingHoldElements, Waiting, Slots

(***************************************************************************)
(* Every step of the ring keeps its invariant.                             *)
(***************************************************************************)
LEMMA NextKeepsRingInv == RingInv /\ [RingNext]_ringVars => RingInv'
<1> SUFFICES ASSUME RingInv, [RingNext]_ringVars PROVE RingInv'
  OBVIOUS
<1>1. ASSUME UNCHANGED ringVars PROVE RingInv'
  BY <1>1 DEF ringVars, RingInv, RingTypeOK, WaitingHoldElements, Waiting
<1>2. ASSUME NEW e \in Elem, Push(e) PROVE RingInv'
  BY <1>1, <1>2, PushKeepsRingInv DEF Push, PushDropped
<1>3. CASE Pop
  <2>1. CASE Empty
    BY <2>1, <1>1, <1>3 DEF Pop, ringVars
  <2>2. CASE ~Empty
    BY <2>2, <1>3, PopKeepsRingInv
  <2>3. QED
    BY <2>1, <2>2
<1>4. CASE Clear
  BY <1>4, ClearKeepsRingInv
<1>5. QED
  BY <1>1, <1>2, <1>3, <1>4 DEF RingNext

(***************************************************************************)
(* For every size of the ring: the positions stay slots, and pop never     *)
(* hands out a slot that push did not write.                               *)
(***************************************************************************)
THEOREM RingInvariant == RingSpec => []RingInv
  BY InitRingInv, NextKeepsRingInv, PTL DEF RingSpec

(***************************************************************************)
(* No slot that waits is blank, for every size of the ring.                *)
(***************************************************************************)
THEOREM WaitingSlotsWritten == RingSpec => []WaitingHoldElements
<1>1. RingInv => WaitingHoldElements
  BY DEF RingInv
<1>2. QED
  BY <1>1, RingInvariant, PTL

-----------------------------------------------------------------------------
Contents == Elem \union {Blank}

(***************************************************************************)
(* A position less than two turns ahead of slot 0 wraps at most once.      *)
(***************************************************************************)
LEMMA WrapOnce ==
  ASSUME NEW a \in Int, 0 <= a, a < 2 * Size
  PROVE  a % Size = IF a < Size THEN a ELSE a - Size
  BY SizeAssumption, Z3

(***************************************************************************)
(* How many elements wait: fewer than the ring has slots; one more after   *)
(* a stored push, one less after a pop.                                    *)
(***************************************************************************)
LEMMA RemainingCounts ==
  ASSUME RingTypeOK
  PROVE  /\ Remaining \in 0 .. Size - 1
         /\ Empty <=> Remaining = 0
         /\ NextPos(writePos) # readPos <=> Remaining < Size - 1
         /\ \A e \in Elem : PushStored(e) => Remaining' = Remaining + 1
         /\ Pop /\ ~Empty => Remaining' = Remaining - 1
<1>1. ASSUME NEW p \in Slots
      PROVE  NextPos(p) = IF p + 1 < Size THEN p + 1 ELSE 0
  BY <1>1, NextPosCases, SizeAssumption DEF Slots
<1>2. /\ NextPos(writePos) = IF writePos + 1 < Size THEN writePos + 1 ELSE 0
      /\ NextPos(readPos) = IF readPos + 1 < Size THEN readPos + 1 ELSE 0
      /\ readPos \in Slots /\ writePos \in Slots
  BY <1>1 DEF RingTypeOK
<1>3. \A e \in Elem : PushStored(e) => Remaining' = Remaining + 1
  BY <1>2, SizeAssumption DEF PushStored, Remaining, Slots
<1>4. Pop /\ ~Empty => Remaining' = Remaining - 1
  BY <1>2, SizeAssumption DEF Pop, Empty, Remaining, Slots
<1>5. QED
  BY <1>2, <1>3, <1>4, SizeAssumption DEF Remaining, Empty, Slots

(***************************************************************************)
(* The slots that wait, counted from readPos, are distinct from the slot   *)
(* that the next push writes.                                              *)
(***************************************************************************)
LEMMA QueueSlots ==
  ASSUME RingTypeOK, NEW k \in 1 .. Remaining
  PROVE  /\ (readPos + k - 1) % Size \in Slots
         /\ (readPos + k - 1) % Size # writePos
         /\ (readPos + k - 1) % Size \in Waiting
<1>1. /\ Remaining \in 0 .. Size - 1
      /\ readPos \in Slots /\ writePos \in Slots
  BY RemainingCounts DEF RingTypeOK
<1>2. (readPos + k - 1) % Size
        = IF readPos + k - 1 < Size THEN readPos + k - 1
                                    ELSE readPos + k - 1 - Size
  BY <1>1, WrapOnce, SizeAssumption DEF Slots
<1>3. QED
  BY <1>1, <1>2, SizeAssumption DEF Remaining, Waiting, Slots

(***************************************************************************)
(* The queue is a sequence of elements, as long as Remaining says; so it   *)
(* is before and after every step.                                         *)
(***************************************************************************)
QueueShape ==
    /\ Queue \in Seq(Elem)
    /\ Len(Queue) = Remaining
    /\ \A k \in 1 .. Remaining : Queue[k] = data[(readPos + k - 1) % Size]

LEMMA QueueIsSeq == RingInv => QueueShape
<1> SUFFICES ASSUME RingInv PROVE QueueShape
  OBVIOUS
<1>1. Remaining \in Nat
  BY RemainingCounts, SizeAssumption DEF RingInv
<1>2. \A k \in 1 .. Remaining : data[(readPos + k - 1) % Size] \in Elem
  BY QueueSlots DEF RingInv, RingTypeOK, WaitingHoldElements
<1>3. Queue \in [1 .. Remaining -> Elem]
  BY <1>2 DEF Queue
<1>4. Queue \in Seq(Elem)
  BY <1>1, <1>3, SeqDef
<1>5. Len(Queue) = Remaining
  BY <1>1, <1>3, <1>4, LenProperties
<1>6. QED
  BY <1>4, <1>5 DEF Queue, QueueShape

LEMMA NextQueueIsSeq == RingInv' => QueueShape'
  BY QueueIsSeq, PTL

(***************************************************************************)
(* A stored push is Put of the queue: it appends the element.              *)
(***************************************************************************)
LEMMA PushIsPut ==
  ASSUME RingInv, RingInv', NEW e \in Elem, PushStored(e)
  PROVE  Fifo!Put(e)
<1>1. /\ Remaining' = Remaining + 1
      /\ Remaining \in 0 .. Size - 1
      /\ Remaining < Size - 1
      /\ readPos \in Slots /\ writePos \in Slots
      /\ data \in [Slots -> Contents]
  BY RemainingCounts DEF RingInv, RingTypeOK, PushStored, Contents
<1>2. /\ Queue \in Seq(Elem)
      /\ Len(Queue) = Remaining
      /\ \A k \in 1 .. Remaining : Queue[k] = data[(readPos + k - 1) % Size]
  BY QueueIsSeq DEF QueueShape
<1>3. /\ Queue' \in Seq(Elem)
      /\ Len(Queue') = Remaining + 1
      /\ \A k \in 1 .. Remaining + 1 :
            Queue'[k] = data'[(readPos + k - 1) % Size]
  BY <1>1, NextQueueIsSeq DEF QueueShape, PushStored
<1>4. /\ Append(Queue, e) \in Seq(Elem)
      /\ Len(Append(Queue, e)) = Remaining + 1
      /\ \A k \in 1 .. Remaining : Append(Queue, e)[k] = Queue[k]
      /\ Append(Queue, e)[Remaining + 1] = e
  BY <1>1, <1>2, AppendProperties
<1>5. (readPos + (Remaining + 1) - 1) % Size = writePos
  <2>1. readPos + (Remaining + 1) - 1 = IF writePos >= readPos
                                        THEN writePos ELSE writePos + Size
    BY <1>1, SizeAssumption DEF Remaining, Slots
  <2>2. /\ readPos + (Remaining + 1) - 1 \in Int
        /\ 0 <= readPos + (Remaining + 1) - 1
        /\ readPos + (Remaining + 1) - 1 < 2 * Size
    BY <1>1, SizeAssumption DEF Slots
  <2>3. QED
    BY <1>1, <2>1, <2>2, WrapOnce, SizeAssumption DEF Slots
<1>6. ASSUME NEW k \in 1 .. Remaining + 1
      PROVE  Queue'[k] = Append(Queue, e)[k]
  <2>1. CASE k = Remaining + 1
    <3>1. Queue'[k] = data'[writePos]
      BY <1>3, <1>5, <2>1
    <3>2. data'[writePos] = e
      BY <1>1 DEF PushStored
    <3>3. QED
      BY <1>4, <2>1, <3>1, <3>2
  <2>2. CASE k \in 1 .. Remaining
    <3>1. /\ (readPos + k - 1) % Size \in Slots
          /\ (readPos + k - 1) % Size # writePos
      BY <2>2, QueueSlots DEF RingInv
    <3>2. data'[(readPos + k - 1) % Size] = data[(readPos + k - 1) % Size]
      BY <1>1, <3>1 DEF PushStored
    <3>3. Queue'[k] = data'[(readPos + k - 1) % Size]
      BY <1>1, <1>3, <2>2
    <3>4. Append(Queue, e)[k] = data[(readPos + k - 1) % Size]
      BY <1>2, <1>4, <2>2
    <3>5. QED
      BY <3>2, <3>3, <3>4
  <2>3. k = Remaining + 1 \/ k \in 1 .. Remaining
    BY <1>1
  <2>4. QED
    BY <2>1, <2>2, <2>3
<1>7. Queue' = Append(Queue, e)
  BY <1>1, <1>3, <1>4, <1>6, SeqEqual
<1>8. QED
  BY <1>1, <1>2, <1>7 DEF Fifo!Put

(***************************************************************************)
(* A pop of a ring that is not empty is Take: the oldest element leaves.   *)
(***************************************************************************)
LEMMA PopIsTake ==
  ASSUME RingInv, RingInv', Pop, ~Empty
  PROVE  Fifo!Take
<1>1. /\ Remaining' = Remaining - 1
      /\ Remaining \in 1 .. Size - 1
      /\ readPos \in Slots /\ writePos \in Slots
      /\ readPos' = IF readPos + 1 < Size THEN readPos + 1 ELSE 0
      /\ data' = data
  <2>1. readPos \in Slots /\ writePos \in Slots
    BY DEF RingInv, RingTypeOK
  <2>2. readPos' = IF readPos + 1 < Size THEN readPos + 1 ELSE 0
    BY <2>1, NextPosCases, SizeAssumption DEF Pop, Slots
  <2>3. QED
    BY <2>1, <2>2, RemainingCounts, SizeAssumption DEF RingInv, Pop
<1>2. /\ Queue \in Seq(Elem)
      /\ Len(Queue) = Remaining
      /\ \A k \in 1 .. Remaining : Queue[k] = data[(readPos + k - 1) % Size]
  BY QueueIsSeq DEF QueueShape
<1>3. /\ Queue' \in Seq(Elem)
      /\ Len(Queue') = Remaining - 1
      /\ \A k \in 1 .. Remaining - 1 :
            Queue'[k] = data[(readPos' + k - 1) % Size]
  BY <1>1, NextQueueIsSeq DEF QueueShape
<1>4. Queue # << >>
  BY <1>1, <1>2, EmptySeq
<1>5. /\ Tail(Queue) \in Seq(Elem)
      /\ Len(Tail(Queue)) = Remaining - 1
      /\ \A k \in 1 .. Remaining - 1 : Tail(Queue)[k] = Queue[k + 1]
  BY <1>2, <1>4, HeadTailProperties
<1>6. ASSUME NEW k \in 1 .. Remaining - 1
      PROVE  Queue'[k] = Tail(Queue)[k]
  <2>1. k + 1 \in 1 .. Remaining
    BY <1>1
  <2>2. (readPos' + k - 1) % Size = (readPos + (k + 1) - 1) % Size
    BY <1>1, WrapOnce, SizeAssumption DEF Slots
  <2>3. QED
    BY <1>2, <1>3, <1>5, <2>1, <2>2
<1>7. Queue' = Tail(Queue)
  BY <1>1, <1>3, <1>5, <1>6, SeqEqual
<1>8. QED
  BY <1>4, <1>7 DEF Fifo!Take

(***************************************************************************)
(* clear is Forget: nothing waits afterwards.                              *)
(***************************************************************************)
LEMMA ClearIsForget ==
  ASSUME RingInv, RingInv', Clear
  PROVE  Fifo!Forget
<1>1. Remaining' = 0
  BY DEF Clear, Remaining, RingInv, RingTypeOK, Slots
<1>2. Queue' \in Seq(Elem) /\ Len(Queue') = Remaining'
  BY NextQueueIsSeq DEF QueueShape
<1>3. Queue' = << >>
  BY <1>1, <1>2, EmptySeq
<1>4. QED
  BY <1>3 DEF Fifo!Forget

(***************************************************************************)
(* For every size: the ring implements a bounded first-in first-out queue, *)
(* so the hashes a miner sieves come out in the order they were found,     *)
(* each once, in spite of the wrap of the positions.                       *)
(***************************************************************************)
THEOREM RingImplementsFifo == RingSpec => ImplementsFifo
<1>1. RingInit => Fifo!Init
  <2> SUFFICES ASSUME RingInit PROVE Queue = << >>
    BY DEF Fifo!Init
  <2>1. RingInv
    BY InitRingInv
  <2>2. Remaining = 0
    BY DEF RingInit, Remaining
  <2>3. QED
    BY <2>1, <2>2, QueueIsSeq, EmptySeq DEF QueueShape
<1>2. RingInv /\ RingInv' /\ [RingNext]_ringVars => [Fifo!Next]_Queue
  <2> SUFFICES ASSUME RingInv, RingInv', [RingNext]_ringVars
               PROVE  Fifo!Next \/ Queue' = Queue
    OBVIOUS
  <2>1. ASSUME UNCHANGED ringVars PROVE Queue' = Queue
    BY <2>1 DEF ringVars, Queue, Remaining
  <2>2. ASSUME NEW e \in Elem, Push(e) PROVE Fifo!Next \/ Queue' = Queue
    <3>1. CASE PushStored(e)
      BY <3>1, PushIsPut DEF Fifo!Next
    <3>2. CASE PushDropped(e)
      BY <3>2, <2>1 DEF PushDropped
    <3>3. QED
      BY <2>2, <3>1, <3>2 DEF Push
  <2>3. CASE Pop
    <3>1. CASE Empty
      BY <2>3, <3>1, <2>1 DEF Pop, ringVars
    <3>2. CASE ~Empty
      BY <2>3, <3>2, PopIsTake DEF Fifo!Next
    <3>3. QED
      BY <3>1, <3>2
  <2>4. CASE Clear
    BY <2>4, ClearIsForget DEF Fifo!Next
  <2>5. QED
    BY <2>1, <2>2, <2>3, <2>4 DEF RingNext
<1>3. QED
  BY <1>1, <1>2, RingInvariant, PTL
  DEF RingSpec, Fifo!Spec, ImplementsFifo

(***************************************************************************)
(* A newly constructed lifoBuffer has lent nothing.                        *)
(***************************************************************************)
LEMMA InitLoanInv == LoanInit => LoanInv
<1> SUFFICES ASSUME LoanInit PROVE LoanInv
  OBVIOUS
<1>1. RingTypeOK /\ WaitingHoldElements
  BY InitRingInv DEF LoanInit, RingInv
<1>2. Waiting = {}
  BY SizeAssumption DEF LoanInit, RingInit, Waiting, Slots
<1>3. QED
  BY <1>1, <1>2, SizeAssumption
  DEF LoanInit, LoanInv, LoanTypeOK, LentSlotIntact, LifeIsDistance, LentNotWaiting,
      NotLent, Slots

(***************************************************************************)
(* A stored push keeps the loans: the slot it writes is lent to nobody, or *)
(* its life has just run out.                                              *)
(***************************************************************************)
LEMMA PushKeepsLoanInv ==
  ASSUME LoanInv, NEW e \in Elem, LentPush(e), PushStored(e)
  PROVE  LoanInv'
<1> USE SizeAssumption, BlankAssumption DEF NotLent
<1>1. /\ NextPos(writePos) \in Slots
      /\ NextPos(writePos) = IF writePos + 1 < Size THEN writePos + 1 ELSE 0
      /\ readPos \in Slots /\ writePos \in Slots
  BY NextPosCases DEF LoanInv, LoanTypeOK, RingTypeOK
<1>2. \A i \in Slots : life[i] # NotLent => life[i] = Ahead(i) /\ life[i] >= 0
  BY DEF LoanInv, LoanTypeOK, LifeIsDistance
<1>3. RingInv'
  BY PushKeepsRingInv DEF LoanInv, LoanTypeOK, RingInv
<1>4. ASSUME NEW i \in Slots
      PROVE  /\ data'[i] = IF i = writePos THEN e ELSE data[i]
             /\ life'[i] = IF life[i] = NotLent THEN NotLent ELSE life[i] - 1
             /\ kept'[i] = kept[i]
  BY DEF LentPush, PushStored, LoanInv, LoanTypeOK, RingTypeOK
<1>5. LoanTypeOK'
  BY <1>2, <1>3 DEF LentPush, PushStored, LoanInv, LoanTypeOK, RingInv
<1>6. LifeIsDistance'
  <2> SUFFICES ASSUME NEW i \in Slots, life'[i] # NotLent
               PROVE  life'[i] = Ahead(i)'
    BY DEF LifeIsDistance, Slots
  <2>1. /\ life[i] = Ahead(i)
        /\ life'[i] = Ahead(i) - 1
        /\ Ahead(i) # 0
    BY <1>2, <1>4
  <2>2. writePos' = NextPos(writePos)
    BY DEF PushStored
  <2>3. QED
    BY <1>1, <2>1, <2>2 DEF Ahead, Slots
<1>7. LentSlotIntact'
  <2> SUFFICES ASSUME NEW i \in Slots, life'[i] # NotLent
               PROVE  data'[i] = kept'[i]
    BY DEF LentSlotIntact, Slots
  <2>1. life[i] # NotLent /\ life[i] # 0
    BY <1>4
  <2>2. i # writePos
    BY <1>1, <1>2, <2>1 DEF Ahead, Slots
  <2>3. QED
    BY <2>1, <2>2, <1>4 DEF LoanInv, LentSlotIntact
<1>8. \A i \in Slots : i \in Waiting' => i = writePos \/ i \in Waiting
  BY <1>1 DEF Waiting, PushStored, Slots
<1>9. LentNotWaiting'
  <2> SUFFICES ASSUME NEW i \in Slots, i \in Waiting'
               PROVE  life'[i] = NotLent
    BY DEF LentNotWaiting, Waiting, Slots
  <2>1. CASE i = writePos
    BY <1>1, <2>1, <1>2, <1>4 DEF Ahead, Slots
  <2>2. CASE i \in Waiting
    BY <2>2, <1>4 DEF LoanInv, LentNotWaiting
  <2>3. QED
    BY <2>1, <2>2, <1>8
<1>10. QED
  BY <1>3, <1>5, <1>6, <1>7, <1>9 DEF LoanInv, RingInv

(***************************************************************************)
(* A pop keeps the loans: the slot it lends was waiting, and is as far     *)
(* ahead of writePos as there are free slots.                              *)
(***************************************************************************)
LEMMA PopKeepsLoanInv ==
  ASSUME LoanInv, LentPop, ~Empty
  PROVE  LoanInv'
<1> USE SizeAssumption DEF NotLent
<1>1. /\ readPos \in Slots /\ writePos \in Slots
      /\ RingInv
  BY DEF LoanInv, LoanTypeOK, RingTypeOK, RingInv
<1>2. /\ RingInv'
      /\ Waiting' = Waiting \ {readPos}
  BY <1>1, PopKeepsRingInv DEF LentPop
<1>3. /\ data' = data /\ writePos' = writePos
      /\ kept' = [kept EXCEPT ![readPos] = data[readPos]]
      /\ life' = [life EXCEPT ![readPos] = Size - Remaining]
  BY DEF LentPop, Pop
<1>4. Size - Remaining \in 0 .. Size /\ Size - Remaining = Ahead(readPos)
  BY <1>1 DEF Remaining, Ahead, Empty, Slots
<1>5. LoanTypeOK'
  BY <1>1, <1>2, <1>3, <1>4 DEF LoanInv, LoanTypeOK, RingInv, RingTypeOK
<1>6. LentSlotIntact'
  BY <1>3 DEF LoanInv, LoanTypeOK, LentSlotIntact
<1>7. LifeIsDistance'
  BY <1>3, <1>4 DEF LoanInv, LoanTypeOK, LifeIsDistance, Ahead
<1>8. LentNotWaiting'
  BY <1>2, <1>3 DEF LentNotWaiting, Waiting, LoanInv, LoanTypeOK
<1>9. QED
  BY <1>2, <1>5, <1>6, <1>7, <1>8 DEF LoanInv, RingInv

(***************************************************************************)
(* Every step keeps the loans.                                             *)
(***************************************************************************)
LEMMA NextKeepsLoanInv == LoanInv /\ [LoanNext]_loanVars => LoanInv'
<1> SUFFICES ASSUME LoanInv, [LoanNext]_loanVars PROVE LoanInv'
  OBVIOUS
<1>1. ASSUME UNCHANGED loanVars PROVE LoanInv'
  BY <1>1
  DEF loanVars, LoanInv, LoanTypeOK, RingTypeOK, WaitingHoldElements, LentSlotIntact,
      LifeIsDistance, LentNotWaiting, Waiting, Ahead
<1>2. ASSUME NEW e \in Elem, LentPush(e) PROVE LoanInv'
  <2>1. CASE PushStored(e)
    BY <1>2, <2>1, PushKeepsLoanInv
  <2>2. CASE PushDropped(e)
    BY <1>1, <1>2, <2>2 DEF LentPush, PushDropped, ringVars, loanVars
  <2>3. QED
    BY <1>2, <2>1, <2>2 DEF LentPush, Push
<1>3. CASE LentPop
  <2>1. CASE Empty
    BY <1>1, <1>3, <2>1 DEF LentPop, Pop, loanVars
  <2>2. CASE ~Empty
    BY <1>3, <2>2, PopKeepsLoanInv
  <2>3. QED
    BY <2>1, <2>2
<1>4. CASE LentClear
  <2>1. RingInv' /\ Waiting' = {}
    BY <1>4, ClearKeepsRingInv DEF LentClear, LoanInv, LoanTypeOK, RingInv
  <2>2. QED
    BY <1>4, <2>1
    DEF LentClear, Clear, LoanInv, LoanTypeOK, RingInv, LentSlotIntact,
        LifeIsDistance, LentNotWaiting, Ahead
<1>5. QED
  BY <1>1, <1>2, <1>3, <1>4 DEF LoanNext

(***************************************************************************)
(* The inductive invariant of the loans, for every size of the ring.       *)
(***************************************************************************)
THEOREM LoanInvariant == LoanSpec => []LoanInv
  BY InitLoanInv, NextKeepsLoanInv, PTL DEF LoanSpec

(***************************************************************************)
(* Type correctness of the ring with its history.                          *)
(***************************************************************************)
THEOREM LoanTypeCorrect == LoanSpec => []LoanTypeOK
<1>1. LoanInv => LoanTypeOK
  BY DEF LoanInv
<1>2. QED
  BY <1>1, LoanInvariant, PTL

(***************************************************************************)
(* A slot lent by pop is intact for its whole life, whatever is pushed,    *)
(* popped or cleared meanwhile.                                            *)
(***************************************************************************)
THEOREM LentSlotsIntact == LoanSpec => []LentSlotIntact
<1>1. LoanInv => LentSlotIntact
  BY DEF LoanInv
<1>2. QED
  BY <1>1, LoanInvariant, PTL

-----------------------------------------------------------------------------
(***************************************************************************)
(* A Fermat pipeline: the tail that it carries over is never negative and  *)
(* never more than one block, and no candidate is lost or counted twice.   *)
(* The invariant that makes both inductive says that the batch last tested *)
(* is a number of whole blocks inside the buffer last dispatched.          *)
(***************************************************************************)

(***************************************************************************)
(* What a batch is: whole blocks that fit into the candidates available,   *)
(* with at most one block left over.                                       *)
(***************************************************************************)
LEMMA BatchFits ==
  ASSUME NEW total \in Nat
  PROVE  /\ Batch(total) \in 0 .. total
         /\ total - Batch(total) <= BlockSize
         /\ Batch(total) % BlockSize = 0
<1>1. /\ total % BlockSize \in 0 .. BlockSize - 1
      /\ total % BlockSize <= total
  BY BlockAssumption, Z3
<1>2. (total - (total % BlockSize)) % BlockSize = 0
  <2> DEFINE q == total \div BlockSize
  <2>1. q \in Int /\ total = (BlockSize * q) + (total % BlockSize)
    BY BlockAssumption, Z3
  <2> HIDE DEF q
  <2>2. (BlockSize * q) % BlockSize = 0
    BY <2>1, BlockAssumption, Z3
  <2>3. total - (total % BlockSize) = BlockSize * q
    BY <1>1, <2>1, BlockAssumption, Z3
  <2>4. QED
    BY <2>2, <2>3, Zenon
<1>3. 0 % BlockSize = 0
  BY BlockAssumption, Z3
<1>4. CASE total > BlockSize
  BY <1>1, <1>2, <1>4, BlockAssumption DEF Batch
<1>5. CASE ~(total > BlockSize)
  BY <1>3, <1>5, BlockAssumption DEF Batch
<1>6. QED
  BY <1>4, <1>5

(***************************************************************************)
(* An empty pipeline satisfies the invariant.                              *)
(***************************************************************************)
LEMMA InitPipelineInv == Init => PipelineInv
<1>1. 0 % BlockSize = 0
  BY BlockAssumption, Z3
<1>2. QED
  BY <1>1, BlockAssumption
  DEF Init, PipelineInv, TypeOK, TailNotNegative, TailAtMostBlock, WholeBlocks,
      WriteBufferEmpty, Last, Buffers, widx

(***************************************************************************)
(* New work empties the pipeline, so the invariant starts over.            *)
(***************************************************************************)
LEMMA NewWorkKeepsPipelineInv ==
  ASSUME PipelineInv, NewWork
  PROVE  PipelineInv'
<1>1. 0 % BlockSize = 0
  BY BlockAssumption, Z3
<1>2. QED
  BY <1>1, BlockAssumption
  DEF NewWork, PipelineInv, TypeOK, TailNotNegative, TailAtMostBlock,
      WholeBlocks, WriteBufferEmpty, Last, Buffers, widx

(***************************************************************************)
(* FermatDispatch adds up natural numbers, and its batch fits the sum.     *)
(***************************************************************************)
LEMMA DispatchKeepsPipelineInv ==
  ASSUME PipelineInv, NEW avail \in 0 .. MaxAvail, Dispatch(avail)
  PROVE  PipelineInv'
<1> DEFINE total == count[ridx] + tail + avail
<1>1. /\ ridx \in Buffers /\ widx \in Buffers /\ ridx # widx
      /\ count \in [Buffers -> Nat]
      /\ bsize \in Nat
      /\ tail \in Nat
  BY DEF PipelineInv, TypeOK, TailNotNegative, Last, Dispatch, Buffers, widx,
         tail
<1>2. total \in Nat
  BY <1>1, AvailAssumption
<1>3. /\ count' = [count EXCEPT ![ridx] = total, ![widx] = 0]
      /\ bsize' = Batch(total)
      /\ stage' = "device"
      /\ ridx' = ridx
  BY DEF Dispatch
<1>4. /\ count' \in [Buffers -> Nat]
      /\ count'[ridx] = total
      /\ count'[widx] = 0
  BY <1>1, <1>2, <1>3
<1>5. /\ bsize' \in 0 .. total
      /\ total - bsize' <= BlockSize
      /\ bsize' % BlockSize = 0
  BY <1>2, <1>3, BatchFits
<1>6. Last' = ridx /\ widx' = widx
  BY <1>3 DEF Last, widx
<1>7. TypeOK'
  BY <1>1, <1>2, <1>3, <1>4, <1>5 DEF TypeOK
<1>8. QED
  BY <1>2, <1>4, <1>5, <1>6, <1>7
  DEF PipelineInv, TailNotNegative, TailAtMostBlock, WholeBlocks,
      WriteBufferEmpty

(***************************************************************************)
(* Fetching the survivors swaps the buffers; the tail stays where it was.  *)
(***************************************************************************)
LEMMA FetchKeepsPipelineInv ==
  ASSUME PipelineInv, NEW survivors \in 0 .. bsize, Fetch(survivors)
  PROVE  PipelineInv'
<1>1. /\ ridx \in Buffers /\ widx \in Buffers /\ ridx # widx
      /\ count \in [Buffers -> Nat]
      /\ bsize \in Nat
      /\ stage = "device"
  BY DEF PipelineInv, TypeOK, Fetch, Buffers, widx
<1>2. /\ count' = [count EXCEPT ![widx] = survivors]
      /\ ridx' = widx
      /\ stage' = "host"
      /\ bsize' = bsize
  BY DEF Fetch
<1>3. widx' = ridx /\ Last' = ridx
  BY <1>1, <1>2 DEF Last, widx, Buffers
<1>4. count'[ridx] = count[ridx] /\ count' \in [Buffers -> Nat]
  BY <1>1, <1>2
<1>5. Last = ridx
  BY <1>1 DEF Last
<1>6. QED
  BY <1>1, <1>2, <1>3, <1>4, <1>5
  DEF PipelineInv, TypeOK, TailNotNegative, TailAtMostBlock, WholeBlocks,
      WriteBufferEmpty

(***************************************************************************)
(* Every step of a pipeline keeps its invariant.                           *)
(***************************************************************************)
LEMMA NextKeepsPipelineInv == PipelineInv /\ [Next]_vars => PipelineInv'
<1> SUFFICES ASSUME PipelineInv, [Next]_vars PROVE PipelineInv'
  OBVIOUS
<1>1. CASE UNCHANGED vars
  BY <1>1
  DEF vars, PipelineInv, TypeOK, TailNotNegative, TailAtMostBlock, WholeBlocks,
      WriteBufferEmpty, Last, widx
<1>2. CASE NewWork
  BY <1>2, NewWorkKeepsPipelineInv
<1>3. ASSUME NEW avail \in 0 .. MaxAvail, Dispatch(avail) PROVE PipelineInv'
  BY <1>3, DispatchKeepsPipelineInv
<1>4. ASSUME NEW survivors \in 0 .. bsize, Fetch(survivors) PROVE PipelineInv'
  BY <1>4, FetchKeepsPipelineInv
<1>5. QED
  BY <1>1, <1>2, <1>3, <1>4 DEF Next

(***************************************************************************)
(* The inductive invariant of a pipeline, for every block size.            *)
(***************************************************************************)
THEOREM PipelineInvariant == Spec => []PipelineInv
  BY InitPipelineInv, NextKeepsPipelineInv, PTL DEF Spec

(***************************************************************************)
(* Type correctness of a pipeline.                                         *)
(***************************************************************************)
THEOREM PipelineTypeCorrect == Spec => []TypeOK
<1>1. PipelineInv => TypeOK
  BY DEF PipelineInv
<1>2. QED
  BY <1>1, PipelineInvariant, PTL

(***************************************************************************)
(* The unsigned difference in FermatDispatch never wraps.                  *)
(***************************************************************************)
THEOREM TailNeverWraps == Spec => []TailNotNegative
<1>1. PipelineInv => TailNotNegative
  BY DEF PipelineInv
<1>2. QED
  BY <1>1, PipelineInvariant, PTL

(***************************************************************************)
(* At most one block of candidates is ever left behind.                    *)
(***************************************************************************)
THEOREM TailWithinBlock == Spec => []TailAtMostBlock
<1>1. PipelineInv => TailAtMostBlock
  BY DEF PipelineInv
<1>2. QED
  BY <1>1, PipelineInvariant, PTL

-----------------------------------------------------------------------------
(***************************************************************************)
(* The tallies add up in the beginning.                                    *)
(***************************************************************************)
LEMMA InitTallyInv == TallyInit => TallyInv
<1> SUFFICES ASSUME TallyInit PROVE TallyInv
  OBVIOUS
<1>1. PipelineInv
  BY InitPipelineInv DEF TallyInit
<1>2. InFlight = 0
  BY DEF TallyInit, Init, InFlight, tail, widx, Buffers
<1>3. QED
  BY <1>1, <1>2, EnteredAssumption
  DEF TallyInit, TallyInv, TallyTypeOK, PipelineInv, Conservation

(***************************************************************************)
(* What is in flight, by stage.                                            *)
(***************************************************************************)
LEMMA InFlightNat ==
  ASSUME PipelineInv
  PROVE  InFlight \in Nat
  BY DEF PipelineInv, TypeOK, TailNotNegative, Last, InFlight, tail, widx,
         Buffers

(***************************************************************************)
(* New work moves what is in flight to the forgotten.                      *)
(***************************************************************************)
LEMMA NewWorkKeepsTally ==
  ASSUME TallyInv, TallyNewWork
  PROVE  TallyTypeOK' /\ Conservation'
<1>1. PipelineInv' /\ InFlight \in Nat
  BY NewWorkKeepsPipelineInv, InFlightNat DEF TallyInv, TallyNewWork
<1>2. InFlight' = 0
  BY DEF TallyNewWork, NewWork, InFlight, tail, widx, Buffers, TallyInv,
         PipelineInv, TypeOK
<1>3. QED
  BY <1>1, <1>2
  DEF TallyNewWork, TallyInv, TallyTypeOK, PipelineInv, Conservation

(***************************************************************************)
(* The dispatch puts the new candidates in flight, and loses no other.     *)
(***************************************************************************)
LEMMA DispatchKeepsTally ==
  ASSUME TallyInv, NEW avail \in 0 .. MaxAvail, TallyDispatch(avail)
  PROVE  TallyTypeOK' /\ Conservation'
<1>1. PipelineInv' /\ InFlight \in Nat
  BY DispatchKeepsPipelineInv, InFlightNat DEF TallyInv, TallyDispatch
<1>2. /\ ridx \in Buffers /\ widx \in Buffers /\ ridx # widx
      /\ count \in [Buffers -> Nat]
      /\ stage = "host"
  BY DEF TallyInv, PipelineInv, TypeOK, TallyDispatch, Dispatch, Buffers, widx
<1>3. InFlight' = InFlight + avail
  BY <1>2 DEF TallyDispatch, Dispatch, InFlight, tail
<1>4. QED
  BY <1>1, <1>3, AvailAssumption, EnteredAssumption
  DEF TallyDispatch, TallyInv, TallyTypeOK, PipelineInv, Conservation

(***************************************************************************)
(* check_fermat takes the failed and the final candidates out of flight.   *)
(***************************************************************************)
LEMMA FetchKeepsTally ==
  ASSUME TallyInv, NEW survivors \in 0 .. bsize, NEW done \in 0 .. bsize,
         TallyFetch(survivors, done)
  PROVE  TallyTypeOK' /\ Conservation'
<1>1. PipelineInv'
  BY FetchKeepsPipelineInv DEF TallyInv, TallyFetch
<1>2. /\ ridx \in Buffers /\ widx \in Buffers /\ ridx # widx
      /\ count \in [Buffers -> Nat]
      /\ bsize \in Nat
      /\ stage = "device"
  BY DEF TallyInv, PipelineInv, TypeOK, TallyFetch, Fetch, Buffers, widx
<1>3. /\ stage' = "host" /\ ridx' = widx /\ widx' = ridx /\ bsize' = bsize
      /\ count'[widx] = survivors /\ count'[ridx] = count[ridx]
  BY <1>2 DEF TallyFetch, Fetch, widx, Buffers
<1>4. InFlight' = survivors + (count[ridx] - bsize)
  BY <1>3 DEF InFlight, tail
<1>5. InFlight = count[ridx]
  BY <1>2 DEF InFlight
<1>6. bsize - survivors - done \in Nat
  BY <1>2 DEF TallyFetch
<1>7. QED
  BY <1>1, <1>2, <1>4, <1>5, <1>6
  DEF TallyFetch, TallyInv, TallyTypeOK, PipelineInv, Conservation

(***************************************************************************)
(* Every step keeps the tallies and the pipeline's own invariant.          *)
(***************************************************************************)
LEMMA NextKeepsTallyInv == TallyInv /\ [TallyNext]_tallyVars => TallyInv'
<1> SUFFICES ASSUME TallyInv, [TallyNext]_tallyVars PROVE TallyInv'
  OBVIOUS
<1>1. CASE UNCHANGED tallyVars
  <2>1. PipelineInv'
    BY <1>1, NextKeepsPipelineInv DEF tallyVars, vars, TallyInv
  <2>2. QED
    BY <1>1, <2>1
    DEF tallyVars, TallyInv, TallyTypeOK, TypeOK, Conservation, InFlight, tail,
        widx
<1>2. CASE TallyNewWork
  BY <1>2, NewWorkKeepsTally, NewWorkKeepsPipelineInv DEF TallyNewWork, TallyInv
<1>3. ASSUME NEW avail \in 0 .. MaxAvail, TallyDispatch(avail) PROVE TallyInv'
  BY <1>3, DispatchKeepsTally, DispatchKeepsPipelineInv
     DEF TallyDispatch, TallyInv
<1>4. ASSUME NEW survivors \in 0 .. bsize, NEW done \in 0 .. bsize,
             TallyFetch(survivors, done)
      PROVE  TallyInv'
  BY <1>4, FetchKeepsTally, FetchKeepsPipelineInv DEF TallyFetch, TallyInv
<1>5. QED
  BY <1>1, <1>2, <1>3, <1>4 DEF TallyNext

(***************************************************************************)
(* The inductive invariant of a pipeline with its tallies.                 *)
(***************************************************************************)
THEOREM TallyInvariant == TallySpec => []TallyInv
  BY InitTallyInv, NextKeepsTallyInv, PTL DEF TallySpec

(***************************************************************************)
(* Every candidate is accounted for exactly once, whatever the block size, *)
(* the yields of the sieves and the outcomes of the tests.                 *)
(***************************************************************************)
THEOREM CandidatesConserved == TallySpec => []Conservation
<1>1. TallyInv => Conservation
  BY DEF TallyInv
<1>2. QED
  BY <1>1, TallyInvariant, PTL

(***************************************************************************)
(* Type correctness of a pipeline with its tallies: what entered stays     *)
(* within its bound, and no tally of what left ever becomes negative.      *)
(***************************************************************************)
THEOREM TallyTypeCorrect == TallySpec => []TallyTypeOK
<1>1. TallyInv => TallyTypeOK
  BY DEF TallyInv
<1>2. QED
  BY <1>1, TallyInvariant, PTL

=============================================================================
