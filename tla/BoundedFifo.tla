---------------------------- MODULE BoundedFifo ----------------------------
(***************************************************************************)
(* What the hash buffer of a miner promises: a first-in first-out queue of *)
(* at most Capacity elements.  An element offered to a full queue is       *)
(* refused without any effect; the owner may empty the queue at any time   *)
(* (new work arrived).  LifoBuffer implements this specification.          *)
(***************************************************************************)
EXTENDS Naturals, Sequences

CONSTANTS Capacity,   \* how many elements fit
          Elem        \* what is queued

VARIABLE items        \* the queue, oldest element first

Init == items = <<>>

\* An element joins the end of a queue that has room.
Put(e) ==
    /\ Len(items) < Capacity
    /\ items' = Append(items, e)

\* The oldest element leaves.
Take ==
    /\ items # <<>>
    /\ items' = Tail(items)

\* Everything that waits is forgotten.
Forget == items' = <<>>

Next == (\E e \in Elem : Put(e)) \/ Take \/ Forget

Spec == Init /\ [][Next]_items

=============================================================================
