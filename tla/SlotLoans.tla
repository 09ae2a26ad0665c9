------------------------------ MODULE SlotLoans ------------------------------
(***************************************************************************)
(* How long a slot number returned by lifoBuffer::pop may be used.         *)
(*                                                                         *)
(* PrimeMiner::Mining keeps using it: the sieve kernel reads hashBuf at    *)
(* that slot, and a candidate carries the number (hashid) through several  *)
(* Fermat rounds before hashes.get(hashid) is read again.  Nothing in the  *)
(* ring records these uses.  This module adds two history variables to     *)
(* LifoBuffer: kept[i] is the element last popped from slot i, and life[i] *)
(* the number of stored pushes that the slot is still promised to survive  *)
(* (NotLent when it was never popped, or when the promise has run out).    *)
(***************************************************************************)
EXTENDS LifoBuffer

VARIABLES kept, life

loanVars == <<data, readPos, writePos, kept, life>>

NotLent == -1

LoanInit ==
    /\ RingInit
    /\ kept = [i \in Slots |-> Blank]
    /\ life = [i \in Slots |-> NotLent]

\* Every stored push brings writePos one slot nearer to each lent slot.
LentPush(e) ==
    /\ Push(e)
    /\ life' = IF NextPos(writePos) = readPos THEN life
               ELSE [i \in Slots |-> IF life[i] = NotLent THEN NotLent
                                                          ELSE life[i] - 1]
    /\ UNCHANGED kept

\* A pop lends the slot for as many stored pushes as there are free slots.
LentPop ==
    /\ Pop
    /\ kept' = IF Empty THEN kept ELSE [kept EXCEPT ![readPos] = data[readPos]]
    /\ life' = IF Empty THEN life
                        ELSE [life EXCEPT ![readPos] = Size - Remaining]

\* clear neither writes nor lends a slot.
LentClear == Clear /\ UNCHANGED <<kept, life>>

LoanNext == (\E e \in Elem : LentPush(e)) \/ LentPop \/ LentClear

LoanSpec == LoanInit /\ [][LoanNext]_loanVars

-----------------------------------------------------------------------------
\* Type invariant of the ring and of its history.
LoanTypeOK ==
    /\ RingTypeOK
    /\ kept \in [Slots -> Elem \union {Blank}]
    /\ life \in [Slots -> NotLent .. Size]

\* A slot handed out by pop keeps the element it had for as many stored pushes
\* as there were free slots at the pop: the sieve and Fermat kernels may read
\* hashBuf[hid] and the host hashes.get(hid) for that long, and no longer.
LentSlotIntact == \A i \in Slots : life[i] # NotLent => data[i] = kept[i]

\* The distance writePos has to travel to reach slot i.
Ahead(i) == IF i >= writePos THEN i - writePos ELSE i + Size - writePos

\* The life of a lent slot is exactly its distance ahead of writePos, so only
\* the push that ends it writes there.
LifeIsDistance ==
    \A i \in Slots : life[i] # NotLent => life[i] = Ahead(i)

\* A lent slot is not one that waits.
LentNotWaiting == \A i \in Waiting : life[i] = NotLent

\* The inductive invariant behind LentSlotIntact.
LoanInv ==
    /\ LoanTypeOK
    /\ WaitingHoldElements
    /\ LentSlotIntact
    /\ LifeIsDistance
    /\ LentNotWaiting

=============================================================================
