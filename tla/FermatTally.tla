----------------------------- MODULE FermatTally -----------------------------
(***************************************************************************)
(* Where the candidates of a Fermat pipeline go.  History variables count  *)
(* the candidates that entered FermatPipeline from the sieves, those that  *)
(* failed a Fermat test, those that reached the wanted chain length and    *)
(* were handed to the CPU (final), and those forgotten for new work.       *)
(***************************************************************************)
EXTENDS FermatPipeline

CONSTANT MaxEntered   \* bound on the candidates of a behaviour

ASSUME EnteredAssumption == MaxEntered \in Nat

VARIABLES entered, failed, finished, forgotten

tallies == <<entered, failed, finished, forgotten>>
tallyVars == <<ridx, count, bsize, stage, entered, failed, finished, forgotten>>

\* The candidates in the pipeline between iterations: the survivors in ridx
\* and the tail of widx.  While the kernels run they are all in ridx.
InFlight == IF stage = "host" THEN count[ridx] + tail ELSE count[ridx]

TallyInit ==
    /\ Init
    /\ entered = 0
    /\ failed = 0
    /\ finished = 0
    /\ forgotten = 0

TallyNewWork ==
    /\ NewWork
    /\ forgotten' = forgotten + InFlight
    /\ UNCHANGED <<entered, failed, finished>>

TallyDispatch(avail) ==
    /\ entered + avail <= MaxEntered
    /\ Dispatch(avail)
    /\ entered' = entered + avail
    /\ UNCHANGED <<failed, finished, forgotten>>

\* check_fermat sorts the batch into survivors, final candidates and the rest.
TallyFetch(survivors, done) ==
    /\ survivors + done <= bsize
    /\ Fetch(survivors)
    /\ finished' = finished + done
    /\ failed' = failed + (bsize - survivors - done)
    /\ UNCHANGED <<entered, forgotten>>

TallyNext ==
    \/ TallyNewWork
    \/ \E avail \in 0 .. MaxAvail : TallyDispatch(avail)
    \/ \E survivors, done \in 0 .. bsize : TallyFetch(survivors, done)

TallySpec == TallyInit /\ [][TallyNext]_tallyVars

-----------------------------------------------------------------------------
\* Type invariant of the tallies.
TallyTypeOK ==
    /\ TypeOK
    /\ entered \in 0 .. MaxEntered
    /\ failed \in Nat
    /\ finished \in Nat
    /\ forgotten \in Nat

\* Every candidate a sieve found is accounted for exactly once: it failed a
\* test, became final, was forgotten for new work, or is still in one of the
\* two buffers.  None is lost or tested twice by the swap and the tail copy.
Conservation == entered = failed + finished + forgotten + InFlight

TallyInv == PipelineInv /\ TallyTypeOK /\ Conservation

=============================================================================
