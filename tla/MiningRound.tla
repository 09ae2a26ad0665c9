----------------------------- MODULE MiningRound -----------------------------
(***************************************************************************)
(* The loop of PrimeMiner::Mining (xpm/cuda/xpmclient.cpp and              *)
(* xpm/opencl/xpmclient.cpp), one miner thread and its device.             *)
(*                                                                         *)
(* An iteration fetches the hashes that the hashmod kernel found for the   *)
(* current work into the ring `hashes', starts hashmod again if the ring   *)
(* holds too few, starts up to mSievePerRound sieves, each on a hash taken *)
(* from the ring, takes the candidates that the previous iteration found   *)
(* to be long enough, hands the candidates of the previous iteration's     *)
(* sieves to the Fermat pipelines, waits for the device, copies its        *)
(* results back, and finally checks the long candidates on the CPU and     *)
(* sends shares.                                                           *)
(*                                                                         *)
(* Every result of the device exists twice, on the device (suffix Dev) and *)
(* as the copy the host last fetched (suffix Host); counts are reset on    *)
(* the host and copied to the device only together with a kernel that uses *)
(* them.  The two builds differ in what they fetch at the end of an        *)
(* iteration: the CUDA build fetches the hashmod and sieve counts always,  *)
(* the OpenCL build right behind the kernels that write them.              *)
(***************************************************************************)
EXTENDS Integers, SequencesExt


CONSTANTS
    Cuda,             \* TRUE: the CUDA build; FALSE: the OpenCL build
    PW,               \* slots of the ring of hashes
    SW,               \* most sieves in one iteration
    FirstSieves,      \* mSievePerRound in the beginning
    HashesPerSieve,   \* hashes wanted in the ring for every sieve (16)
    Depth,            \* mDepth: Fermat tests that a candidate must pass
    BlockSize,        \* mBlockSize
    FERMAT_PIPELINES, \* one for each size of numbers
    MaxFound,         \* most hashes that one hashmod run finds (its buffer)
    MaxPerSieve,      \* bound: candidates of one sieve for one pipeline
    MaxNonce,         \* bound: hashes that exist for one work
    MaxWork           \* bound: works that arrive

ASSUME RoundAssumption ==
    /\ Cuda \in BOOLEAN
    /\ {PW, SW, FirstSieves, HashesPerSieve, Depth, BlockSize, FERMAT_PIPELINES,
        MaxPerSieve} \subseteq Nat \ {0}
    /\ {MaxFound, MaxNonce, MaxWork} \subseteq Nat
    /\ FirstSieves <= SW

\* The sizes in the headers: 16 * SW hashes at most are waiting when hashmod is
\* started, and the ring has room for all it can find (16 * 16 + 128 < 512).
ASSUME RingRoomAssumption == HashesPerSieve * SW + MaxFound <= PW

VARIABLES
    pc,          \* where the miner thread is in the loop
    work,        \* number of the current work, 0 before the first
    ridx,        \* iteration % 2
    slots, readPos, writePos,   \* the ring "hashes"
    nonce,       \* hashes found so far for this work
    hashed,      \* hashmod was started in this iteration
    foundDev, foundHost,        \* results of hashmod
    sieves,      \* mSievePerRound
    sieve,       \* the next sieve to start; the number of sieves that ran
    outDev, outHost,            \* candidates of each sieve
    buf,         \* the two candidate buffers of each Fermat pipeline
    bsize,       \* the batch that each pipeline tests
    finalHost,   \* candidates with Depth tests passed
    candis,      \* those to be checked in this iteration
    share,       \* the share sent by the last step, or NoShare
    \* history:
    queued, requeued,     \* hashes put into the ring; was one put in twice?
    entered, reentered    \* candidates given to a pipeline; was one twice?

ring == <<slots, readPos, writePos>>
results == <<foundDev, foundHost, outDev, outHost>>
pipes == <<buf, bsize, finalHost, candis>>
history == <<queued, requeued, entered, reentered>>
vars == <<pc, work, ridx, ring, nonce, hashed, results, sieves, sieve,
          pipes, share, history>>

-----------------------------------------------------------------------------
Hash == [work : 1 .. MaxWork, nonce : 1 .. MaxNonce]
NoHash == [work |-> 0, nonce |-> 0]
NoShare == [hash |-> NoHash, merkle |-> 0]

\* A candidate (fermat_t): the slot of its hash, the hash it was sieved from
\* (which the code does not record), its multiplier, and the tests it passed.
Cand == [hid : 0 .. PW - 1, hash : Hash \union {NoHash}, index : 1 .. MaxPerSieve,
         chainpos : 0 .. Depth]

\* What a sieve buffer holds that no sieve ever wrote.
Junk == [hid |-> 0, hash |-> NoHash, index |-> 1, chainpos |-> 0]

Sieves == 0 .. SW - 1
Pipelines == 0 .. FERMAT_PIPELINES - 1
Outputs == Sieves \X {0, 1} \X Pipelines

Ring == INSTANCE LifoBuffer
    WITH Size <- PW, Elem <- Hash, Blank <- NoHash, data <- slots

widx == 1 - ridx

Init ==
    /\ pc = "top" /\ work = 0 /\ ridx = 0
    /\ Ring!RingInit
    /\ nonce = 0 /\ hashed = FALSE
    /\ foundDev = << >> /\ foundHost = << >>
    /\ sieves = FirstSieves /\ sieve = 0
    \* device memory is not cleared when it is allocated (cudaBuffer::init)
    /\ \E garbage \in {<< >>, <<Junk>>} : outDev = [o \in Outputs |-> garbage]
    /\ outHost = [o \in Outputs |-> << >>]
    /\ buf = [p \in Pipelines |-> [k \in {0, 1} |-> << >>]]
    /\ bsize = [p \in Pipelines |-> 0]
    /\ finalHost = << >> /\ candis = << >> /\ share = NoShare
    /\ queued = {} /\ requeued = FALSE /\ entered = {} /\ reentered = FALSE

-----------------------------------------------------------------------------
\* A reset that forgets the counts of the long candidates, or of the batches.
KeepFinal == UNCHANGED finalHost
KeepBatch == UNCHANGED bsize

ForgetFinal == finalHost' = << >>
ForgetBatch == bsize' = [p \in Pipelines |-> 0]

\* New work: "reset if new work" clears the ring and every count the host has.
\* Only the count of hashmod is copied to the device, and only by CUDA.
NewWork ==
    /\ pc = "top" /\ work < MaxWork
    /\ work' = work + 1
    /\ Ring!Clear
    /\ nonce' = 0
    /\ foundHost' = << >>
    /\ foundDev' = IF Cuda THEN << >> ELSE foundDev
    /\ outHost' = [o \in Outputs |-> << >>]
    /\ buf' = [p \in Pipelines |-> [k \in {0, 1} |-> << >>]]
    /\ ForgetBatch
    /\ ForgetFinal
    /\ share' = NoShare
    /\ pc' = "fetch"
    /\ UNCHANGED <<ridx, hashed, sieves, sieve, outDev, candis, history>>

\* No work waits and there is work to go on with.
SameWork ==
    /\ pc = "top" /\ work > 0
    /\ share' = NoShare
    /\ pc' = "fetch"
    /\ UNCHANGED <<work, ridx, ring, nonce, hashed, results, sieves, sieve,
                   pipes, history>>

\* The next hash that hashmod reported is checked and put into the ring.
FetchHash ==
    /\ pc = "fetch" /\ foundHost # << >>
    /\ foundHost' = Tail(foundHost)
    /\ LET hash == Head(foundHost)
       IN  /\ Ring!Push(hash)
           /\ queued' = queued \union {hash}
           /\ requeued' = (requeued \/ hash \in queued)
    /\ UNCHANGED <<pc, work, ridx, nonce, hashed, foundDev, outDev,
                   outHost, sieves, sieve, pipes, share, entered, reentered>>

\* A hash that fails the check on the CPU is skipped (stats.errors).
RejectHash ==
    /\ pc = "fetch" /\ foundHost # << >>
    /\ foundHost' = Tail(foundHost)
    /\ UNCHANGED <<pc, work, ridx, ring, nonce, hashed, foundDev, outDev,
                   outHost, sieves, sieve, pipes, share, history>>

\* The hashes ever queued are counted, and not those that wait.
WantedOfQueued == HashesPerSieve * sieves - writePos

\* hashmod is started only while the ring holds fewer hashes than wanted.
Wanted == HashesPerSieve * sieves - Ring!Remaining

StartHashmod ==
    /\ pc = "fetch" /\ foundHost = << >>
    /\ Wanted > 0
    /\ \E n \in 0 .. MaxFound :
          /\ nonce + n <= MaxNonce
          /\ foundDev' = [j \in 1 .. n |-> [work |-> work, nonce |-> nonce + j]]
          /\ nonce' = nonce + n
    /\ hashed' = TRUE
    /\ sieve' = 0
    /\ pc' = "sieve"
    /\ UNCHANGED <<work, ridx, ring, foundHost, outDev, outHost, sieves,
                   pipes, share, history>>

SkipHashmod ==
    /\ pc = "fetch" /\ foundHost = << >>
    /\ Wanted <= 0
    /\ hashed' = FALSE
    /\ sieve' = 0
    /\ pc' = "sieve"
    /\ UNCHANGED <<work, ridx, ring, nonce, results, sieves, pipes,
                   share, history>>

\* One sieve: its counts are zeroed on the device, and the kernels fill its
\* buffers of this iteration (widx) from the hash in the slot that pop gave.
RunSieve ==
    /\ pc = "sieve" /\ sieve < sieves /\ ~Ring!Empty
    /\ Ring!Pop
    /\ \E yield \in [Pipelines -> 0 .. MaxPerSieve] :
          outDev' = [o \in Outputs |->
              IF o[1] = sieve /\ o[2] = widx
              THEN [j \in 1 .. yield[o[3]] |->
                      [hid |-> readPos, hash |-> slots[readPos], index |-> j,
                       chainpos |-> 0]]
              ELSE outDev[o]]
    /\ sieve' = sieve + 1
    /\ UNCHANGED <<pc, work, ridx, nonce, hashed, foundDev, foundHost,
                   outHost, sieves, pipes, share, history>>

\* All sieves are started, or the ring ran out of hashes.
EndSieves ==
    /\ pc = "sieve" /\ (sieve = sieves \/ Ring!Empty)
    /\ pc' = "fermat"
    /\ UNCHANGED <<work, ridx, ring, nonce, hashed, results, sieves,
                   sieve, pipes, share, history>>

\* What the last iteration's sieves found for pipeline p, sieve after sieve.
Avail(p) == FlattenSeq([s \in 1 .. sieves |-> outHost[<<s - 1, ridx, p>>]])

Left(p) == SubSeq(buf[p][widx], bsize[p] + 1, Len(buf[p][widx]))

Batch(total) ==
    IF total > BlockSize THEN total - (total % BlockSize) ELSE 0

CandId(p, c) == <<p, c.hash, c.index>>

\* Candidates that were handed over stay counted ("avail = 0" is missing).
Retained(o) == outHost[o]

\* The sieve results on the host after FermatDispatch.
HandedOver(o) == IF o[1] < sieves /\ o[2] = ridx THEN << >> ELSE outHost[o]

\* "get candis", then FermatDispatch for every pipeline: the tail of the other
\* buffer and the new candidates join the survivors; the batch is started.
Dispatch ==
    /\ pc = "fermat"
    /\ candis' = finalHost
    /\ finalHost' = << >>
    /\ buf' = [p \in Pipelines |->
                 [buf[p] EXCEPT ![ridx] = @ \o Left(p) \o Avail(p),
                                ![widx] = << >>]]
    /\ bsize' = [p \in Pipelines |-> Batch(Len(buf'[p][ridx]))]
    /\ outHost' = [o \in Outputs |-> HandedOver(o)]
    /\ LET new == UNION {{CandId(p, c) : c \in ToSet(Avail(p)) \ {Junk}} :
                           p \in Pipelines}
       IN  /\ entered' = entered \union new
           /\ reentered' = (reentered \/ new \intersect entered # {})
    /\ pc' = "device"
    /\ UNCHANGED <<work, ridx, ring, nonce, hashed, foundDev, foundHost,
                   outDev, sieves, sieve, share, queued, requeued>>

\* check_fermat: a candidate that passed its test (one that fails is dropped),
\* and the positions of those that are to be tested again, and of the others.
Passed(p, b) == [buf[p][ridx][b] EXCEPT !.chainpos = @ + 1]
Again(p) == {b \in 1 .. bsize[p] : Passed(p, b).chainpos < Depth}
Long(p) == (1 .. bsize[p]) \ Again(p)

\* Some of the positions.  The threads take places for the survivors from a
\* counter, so that their order is arbitrary.  So is the order of the long ones,
\* which is left as it was: each of them is checked for itself.
InAnyOrder(positions) == UNION {SetToSeqs(S) : S \in SUBSET positions}
Survivors(p, kept) == [i \in 1 .. Len(kept) |-> Passed(p, kept[i])]
Finals(p, done) ==
    FlattenSeq([b \in 1 .. bsize[p] |-> IF b \in done THEN <<Passed(p, b)>> ELSE << >>])

\* Sieve results the host holds after an iteration.
Fetched(o) ==
    IF o[2] = widx /\ o[1] < (IF Cuda THEN sieves ELSE sieve)
    THEN outDev[o] ELSE outHost[o]

\* Hashes the host holds after an iteration; FetchedBlindly is what both
\* builds would do if OpenCL copied the count back like CUDA.
FetchedBlindly == foundDev
FetchedHashes == IF Cuda \/ hashed THEN foundDev ELSE << >>

\* mSievePerRound grows without its maximum SW.
GrownUnbounded == sieves + 1
Grown == IF sieves < SW THEN sieves + 1 ELSE SW

\* The device finishes (any candidates of the batches pass their test), the
\* host fetches the results, and starts one more sieve from now on if no
\* pipeline had enough candidates for a block.
Finish ==
    /\ pc = "device"
    /\ \E kept \in [Pipelines -> UNION {InAnyOrder(Again(p)) : p \in Pipelines}] :
          /\ \A p \in Pipelines : kept[p] \in InAnyOrder(Again(p))
          /\ buf' = [p \in Pipelines |->
                       [buf[p] EXCEPT ![widx] = Survivors(p, kept[p])]]
    /\ \E done \in [Pipelines -> SUBSET UNION {Long(p) : p \in Pipelines}] :
          /\ \A p \in Pipelines : done[p] \subseteq Long(p)
          /\ finalHost' = FlattenSeq([q \in 1 .. FERMAT_PIPELINES |->
                                        Finals(q - 1, done[q - 1])])
    /\ outHost' = [o \in Outputs |-> Fetched(o)]
    /\ foundHost' = FetchedHashes
    /\ sieves' = IF \A p \in Pipelines :
                       Len(buf[p][ridx]) # 0 /\ Len(buf[p][ridx]) < BlockSize
                 THEN Grown ELSE sieves
    /\ pc' = "check"
    /\ UNCHANGED <<work, ridx, ring, nonce, hashed, foundDev, sieve,
                   outDev, bsize, candis, share, history>>

\* A candidate is checked on the CPU with the hash now in its slot.  A chain
\* that is long enough makes a share of that hash and the current work; what no
\* sieve wrote is taken to fail.
CheckCandi ==
    /\ pc = "check" /\ candis # << >>
    /\ candis' = Tail(candis)
    /\ LET hash == slots[Head(candis).hid]
       IN  \/ share' = NoShare
           \/ Head(candis).hash # NoHash /\ share' = [hash |-> hash, merkle |-> work]
    /\ UNCHANGED <<pc, work, ridx, ring, nonce, hashed, results, sieves,
                   sieve, buf, bsize, finalHost, history>>

\* iteration++ moved to the start of the work: the buffers are not swapped.
NextIterationUnswapped ==
    /\ pc = "check" /\ candis = << >>
    /\ share' = NoShare
    /\ pc' = "top"
    /\ UNCHANGED <<work, ridx, ring, nonce, hashed, results, sieves, sieve,
                   pipes, history>>

NextIteration ==
    /\ pc = "check" /\ candis = << >>
    /\ ridx' = widx
    /\ share' = NoShare
    /\ pc' = "top"
    /\ UNCHANGED <<work, ring, nonce, hashed, results, sieves, sieve,
                   pipes, history>>

Next ==
    \/ NewWork \/ SameWork
    \/ FetchHash \/ RejectHash \/ StartHashmod \/ SkipHashmod
    \/ RunSieve \/ EndSieves
    \/ Dispatch \/ Finish
    \/ CheckCandi \/ NextIteration

Spec == Init /\ [][Next]_vars

\* The thread runs on: it blocks only in "top", before the first work.
FairSpec == Spec /\ WF_vars(Next)

-----------------------------------------------------------------------------
\* Type invariant.
TypeOK ==
    /\ pc \in {"top", "fetch", "sieve", "fermat", "device", "check"}
    /\ work \in 0 .. MaxWork /\ ridx \in {0, 1}
    /\ Ring!RingTypeOK
    /\ nonce \in 0 .. MaxNonce /\ hashed \in BOOLEAN
    /\ {foundDev, foundHost} \subseteq Seq(Hash)
    /\ sieves \in 1 .. SW /\ sieve \in 0 .. sieves
    /\ {outDev, outHost} \subseteq [Outputs -> Seq(Cand)]
    /\ buf \in [Pipelines -> [{0, 1} -> Seq(Cand)]]
    /\ bsize \in [Pipelines -> Nat]
    /\ {finalHost, candis} \subseteq Seq(Cand)
    /\ share \in [hash : Hash \union {NoHash}, merkle : 0 .. MaxWork]
    /\ queued \subseteq Hash /\ {requeued, reentered} \subseteq BOOLEAN

\* A share names the hash it was found for and the merkle root, height and
\* target of the current work: both must belong to the same work, also when
\* the work changed while the device held candidates of the old one.
ShareMatchesWork == share # NoShare => share.hash.work = share.merkle

\* Every hash found is put into the ring at most once, so that no nonce is
\* sieved again and no share is found twice.
HashQueuedOnce == ~requeued

\* Every candidate found by a sieve enters its Fermat pipeline at most once.
CandidateEntersOnce == ~reentered

\* push never finds the ring full: a hash the device found is never dropped,
\* and the slot number push returns is that of the hash.
RingNeverFull ==
    pc = "fetch" /\ foundHost # << >> => Ring!NextPos(writePos) # readPos

\* A sieve never overwrites candidates that no pipeline has taken yet.
SieveBuffersConsumed ==
    pc = "sieve" => \A s \in 0 .. sieves - 1, p \in Pipelines :
                        outHost[<<s, widx, p>>] = << >>

\* The first pipeline as a FermatPipeline, seen by its counts.
Pipeline == INSTANCE FermatPipeline
    WITH MaxAvail <- SW * MaxPerSieve,
         Capacity <- Depth * (BlockSize + SW * MaxPerSieve),
         ridx <- IF pc = "check" THEN widx ELSE ridx,
         count <- [k \in {0, 1} |-> Len(buf[0][k])],
         bsize <- bsize[0],
         stage <- IF pc = "device" THEN "device" ELSE "host"

\* The stages of the loop, the resets and the fetches in between keep to the
\* protocol of FermatPipeline, so what is proved of it (the unsigned length of
\* the tail never wraps) holds in the loop.  Its Capacity is the most that a
\* buffer is ever asked to hold: a candidate is tested at most Depth times, and
\* before each test a block of its like waits, and what one iteration's sieves
\* found.  The pipelines are alike: the first one stands for all.
ImplementsPipeline == Pipeline!Spec

\* The miner goes on scanning nonces: hashmod is started again and again,
\* because the sieves use up the hashes in the ring.
HashmodRunsAgain == []<>(pc = "sieve" /\ hashed)

=============================================================================
