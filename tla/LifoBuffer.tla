----------------------------- MODULE LifoBuffer -----------------------------
(***************************************************************************)
(* The class template lifoBuffer of xpm/cuda/xpmclient.h (a copy is in     *)
(* xpm/opencl/xpmclient.h): a ring of _size slots with a read and a write  *)
(* position.  In spite of its name it is first-in first-out.  One slot     *)
(* always stays free, because readPos = writePos means "empty".            *)
(***************************************************************************)
EXTENDS Integers

CONSTANTS Size,    \* _size: the number of slots (PW in the miner)
          Elem,    \* what is stored (hash_t)
          Blank    \* a slot that was default-constructed and never written

ASSUME SizeAssumption == Size \in Nat \ {0}
ASSUME BlankAssumption == Blank \notin Elem

VARIABLES data,      \* _data
          readPos,   \* _readPos
          writePos   \* _writePos

ringVars == <<data, readPos, writePos>>

Slots == 0 .. Size - 1

-----------------------------------------------------------------------------
NextPos(pos) == (pos + 1) % Size

Empty == readPos = writePos

Remaining ==
    IF writePos >= readPos THEN writePos - readPos
                           ELSE Size - (readPos - writePos)

RingInit ==
    /\ data = [i \in Slots |-> Blank]
    /\ readPos = 0
    /\ writePos = 0

\* push when a slot is free: the element is stored and writePos moves on.
PushStored(e) ==
    /\ NextPos(writePos) # readPos
    /\ data' = [data EXCEPT ![writePos] = e]
    /\ writePos' = NextPos(writePos)
    /\ UNCHANGED readPos

\* push when the ring is full: nothing is stored, and the caller gets the
\* index of a slot that was not written (the return value is oldWritePos).
PushDropped(e) ==
    /\ NextPos(writePos) = readPos
    /\ UNCHANGED ringVars

Push(e) == PushStored(e) \/ PushDropped(e)

\* pop without its emptiness test.
PopUnguarded ==
    /\ readPos' = NextPos(readPos)
    /\ UNCHANGED <<data, writePos>>

\* pop of the newest element, as the name lifoBuffer suggests.
PopNewest ==
    /\ ~Empty
    /\ writePos' = (writePos + Size - 1) % Size
    /\ UNCHANGED <<data, readPos>>

\* pop hands out the slot at readPos; on an empty ring it does nothing.
Pop ==
    /\ readPos' = IF Empty THEN readPos ELSE NextPos(readPos)
    /\ UNCHANGED <<data, writePos>>

\* clear that starts over with both positions at zero.
ClearToZero ==
    /\ readPos' = 0
    /\ writePos' = 0
    /\ UNCHANGED data

\* clear drops what waits by moving readPos up to writePos.
Clear ==
    /\ readPos' = writePos
    /\ UNCHANGED <<data, writePos>>

RingNext == (\E e \in Elem : Push(e)) \/ Pop \/ Clear

RingSpec == RingInit /\ [][RingNext]_ringVars

-----------------------------------------------------------------------------
\* Type invariant: the positions are slots and the contents are elements.
RingTypeOK ==
    /\ data \in [Slots -> Elem \union {Blank}]
    /\ readPos \in Slots
    /\ writePos \in Slots

\* The slots that hold an element waiting to be popped.
Waiting == {i \in Slots : IF writePos >= readPos
                          THEN readPos <= i /\ i < writePos
                          ELSE readPos <= i \/ i < writePos}

\* No slot that waits to be popped is blank: what push stored is there when
\* pop hands the slot out, whatever wraps and clears happened in between.
WaitingHoldElements == \A i \in Waiting : data[i] # Blank

RingInv == RingTypeOK /\ WaitingHoldElements

-----------------------------------------------------------------------------
\* The queue the ring stands for: its waiting elements, oldest first.
Queue == [k \in 1 .. Remaining |-> data[(readPos + k - 1) % Size]]

Fifo == INSTANCE BoundedFifo WITH items <- Queue, Capacity <- Size - 1

\* The ring implements a bounded first-in first-out queue of Size - 1 places:
\* no element is lost, duplicated or reordered by the wrap of the positions.
ImplementsFifo == Fifo!Spec

=============================================================================
