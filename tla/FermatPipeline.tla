--------------------------- MODULE FermatPipeline ---------------------------
(***************************************************************************)
(* One Fermat pipeline of a miner (pipeline_t, and FermatDispatch of       *)
(* xpm/cuda/xpmclient.cpp and xpm/opencl/xpmclient.cpp), by the number of  *)
(* candidates in its two buffers.                                          *)
(*                                                                         *)
(* In every iteration of PrimeMiner::Mining the buffers swap their roles.  *)
(* The candidates of buffer ridx are tested, in whole blocks; those that   *)
(* survive and need more tests are written to buffer widx, which is the    *)
(* next iteration's ridx.  What did not fill a block stays behind at the   *)
(* end of ridx (from bsize on), and the next iteration first copies that   *)
(* tail over: its length is the unsigned difference count - bsize.         *)
(***************************************************************************)
EXTENDS Integers

CONSTANTS BlockSize,   \* mBlockSize: what the device tests at once
          MaxAvail,    \* bound on the candidates the sieves add per iteration
          Capacity     \* bound on the candidates in a buffer (mfs of
                       \* FermatInit; the code does not compare with it)

ASSUME BlockAssumption == BlockSize \in Nat \ {0}
ASSUME AvailAssumption == MaxAvail \in Nat
ASSUME CapacityAssumption == Capacity \in Nat

VARIABLES ridx,    \* iteration % 2: the buffer to be tested
          count,   \* buffer[k].count[0] on the host
          bsize,   \* how many candidates of the last ridx were tested
          stage    \* "host": between iterations; "device": kernels queued

vars == <<ridx, count, bsize, stage>>

Buffers == {0, 1}
widx == 1 - ridx            \* ridx xor 1

\* The tail is not copied over.
TailForgotten == 0

\* "left" in FermatDispatch: what follows the batch in the other buffer.
tail == count[widx] - bsize

-----------------------------------------------------------------------------
Init ==
    /\ ridx = 0
    /\ count = [k \in Buffers |-> 0]
    /\ bsize = 0
    /\ stage = "host"

\* The "reset if new work" block of Mining empties the pipeline.
NewWork ==
    /\ stage = "host"
    /\ count' = [k \in Buffers |-> 0]
    /\ bsize' = 0
    /\ UNCHANGED <<ridx, stage>>

\* The part of total candidates that is tested now: whole blocks, once there
\* is more than one block (or the whole, if the remainder were not kept back).
BatchOverrun(total) ==
    IF total > BlockSize THEN total + BlockSize - (total % BlockSize) ELSE 0

\* Only one block is ever tested at a time.
BatchOneBlock(total) == IF total > BlockSize THEN BlockSize ELSE 0

Batch(total) ==
    IF total > BlockSize THEN total - (total % BlockSize) ELSE 0

\* FermatDispatch: the tail and the new candidates join the survivors in
\* buffer ridx; widx is emptied; the kernels for the batch are queued.
Dispatch(avail) ==
    LET total == count[ridx] + tail + avail
    IN  /\ stage = "host"
        /\ total <= Capacity
        /\ count' = [count EXCEPT ![ridx] = total, ![widx] = 0]
        /\ bsize' = Batch(total)
        /\ stage' = "device"
        /\ UNCHANGED ridx

\* check_fermat wrote the survivors of the batch to widx (the others failed or
\* became final); the host fetched the new count and starts an iteration.
Fetch(survivors) ==
    /\ stage = "device"
    /\ survivors \in 0 .. bsize
    /\ count' = [count EXCEPT ![widx] = survivors]
    /\ ridx' = widx
    /\ stage' = "host"
    /\ UNCHANGED bsize

Next ==
    \/ NewWork
    \/ \E avail \in 0 .. MaxAvail : Dispatch(avail)
    \/ \E survivors \in 0 .. bsize : Fetch(survivors)

Spec == Init /\ [][Next]_vars

-----------------------------------------------------------------------------
\* Type invariant.
TypeOK ==
    /\ ridx \in Buffers
    /\ count \in [Buffers -> Nat]
    /\ bsize \in Nat
    /\ stage \in {"host", "device"}

\* The buffer that was dispatched last.
Last == IF stage = "host" THEN widx ELSE ridx

\* The length of the tail is an unsigned difference (uint32_t left, cl_uint
\* left): it never wraps, in spite of buffer swaps and resets in between.
TailNotNegative == bsize <= count[Last]

\* Never more than one block of candidates stays behind untested.
TailAtMostBlock == count[Last] - bsize <= BlockSize

\* The kernels are launched over whole blocks.
WholeBlocks == bsize % BlockSize = 0

\* While the kernels run, nothing in widx is overwritten: it was emptied.
WriteBufferEmpty == stage = "device" => count[widx] = 0

\* The inductive invariant of the pipeline.
PipelineInv ==
    /\ TypeOK
    /\ TailNotNegative
    /\ TailAtMostBlock
    /\ WholeBlocks
    /\ WriteBufferEmpty

=============================================================================
