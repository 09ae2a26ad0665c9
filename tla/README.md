# Verification of boleks

boleks is a GPU miner for Primecoin (and Zcash). This directory holds TLA+
models of its own core logic, the TLC configurations that check them on small
instances, and proofs for TLAPS. Line numbers refer to the files of the
repository; "CUDA" is `xpm/cuda/xpmclient.cpp`, "OpenCL" is
`xpm/opencl/xpmclient.cpp`, which is the same program for another driver.

- [The system](#the-system)
- [Modules](#modules)
- [Runs](#runs)
- [Bounds](#bounds)
- [Fairness](#fairness)
- [Proofs](#proofs)
- [What the models show about the code](#what-the-models-show-about-the-code)
- [Not modelled](#not-modelled)
- [Plan](#plan)

## The system

The main thread (`baseclient.cpp`) talks to a mining pool over ZMQ. It forks one
thread per GPU and passes on what the pool announces; a GPU thread looks for
prime chains and sends shares, which the main thread submits.

| Component | State | Operations | What makes it correct |
|---|---|---|---|
| Hash ring, `lifoBuffer` (`xpm/cuda/xpmclient.h:73`) | slots, read and write position | push, pop, clear, get | first in first out; a popped slot survives while its number is in use |
| Fermat pipeline, `FermatDispatch` (CUDA:160), `check_fermat` | two candidate buffers with counts, size of the last batch | dispatch a batch, fetch the survivors, reset | the tail never wraps; no candidate is lost or repeated |
| Mining loop, `PrimeMiner::Mining` (CUDA:254) | ring, pipelines, sieve results, hash results, each on the host and on the device | the stages of an iteration, reset on new work | results of one work never mix with another's; each hash and candidate is used once; the loop goes on |
| Thread control, `XPMClient` (CUDA:1049-1214), `zmqextras.cpp` | workers, pipes, mPaused, MakeExit, two SUB sockets per thread | fork, Toggle, NotifyBlock, TakeWork with its rebuild, exit | pausing stays in step; shares fit their block; old threads go; miners follow the pool |
| Pool session, `main` and its handlers (`baseclient.cpp:128-664`) | gBlock, gExit, gHeartBeat, gSharesSent, gStaleShareChain | connect, replies, signals, timers, reconnect | reconnects exactly when it should |
| Solo mining (CUDA:1221-1780, `xpm/rpc/common/getblocktemplate.cpp`) | the context's template and its data number, the miner's copy and its header | query, update, get, submit | a block is made for one template, with a hash not newer than it; failed queries harm nobody; new heights are mined |
| Nonce space (CUDA:470-570) | header, numHashCoeff, last launch | launch hashmod, roll the time, fetch | no header is hashed twice; what is found keeps its time |
| Search for hashes (`xpm/cuda/sha256.cu`, `primecoin.cpp:63-145`) | reports | divide, choose a primorial, report, check | reports can be used, and are not used twice |
| Sieve kernels (`xpm/cuda/sieve.cu`, `fermat.cu:278-463`) | offsets, bit planes, the ring of prefetched primes | setup_sieve, sieve, s_sieve, setup_fermat | exactly the multiples are marked; a candidate's numbers are what the Fermat kernels get |
| Fermat kernels (`xpm/cuda/procs.cu`, `fermat.cu:1-276`) | quotient, power | divide, square, multiply, reduce | the verdict is that of Fermat's test |
| Prime chain test of the host (`prime.cpp`) | numbers tested, length | Fermat and Euler-Lagrange-Lifchitz tests | the length is that of the chain |
| Zcash loop, `ZCashMiner::Mining` (`zcash/zcashgpuclient.cpp:404`) | block, work, header, results of the solver's instances | receive, run, read, submit, pause | a share is of one header, whose block and work it names |
| Equihash solver (`zcash/gpu/kernel.cl`, `zcashgpuclient.cpp:251-336`) and test (`zcash/equihash_original.cpp`) | a table of slots for each round, two buffers of solutions | hash, nine rounds of pairs, follow references, sort, pack | every proof is a solution; none is lost but for lack of room |

How they interact:

    pool <-> main thread --(PUB blocks, PUB work)--> GPU thread --> device
                  \------(pipe: pause/resume)------>     |
                  <------(PUSH shares, PUSH stats)-------/

What is hard here: a device that works in parallel with its host and whose
counts exist twice; positions and buffers that swap and wrap; work that changes
while results of the old work are still on the way; a pause protocol whose
messages mean something only by their parity; two sockets with no common order;
threads blocked in a receive while somebody waits for them with a timeout;
tables whose rows overflow as a matter of course while references into them
are kept; word arithmetic whose carries are recognised by comparing words,
unrolled over thousands of lines; ranges of primes that are marked by different code; a
template replaced by another thread while a block is made of it.
`PROJECT.json` lists these hazards with their lines and the properties that
cover them.

## Modules

**BoundedFifo** is the abstract specification of the hash ring: Put, Take, Forget.

**LifoBuffer** is the ring as it is coded: `NextPos`, `Empty`, `Remaining`,
`Push` (with the case in which the element is silently dropped), `Pop` (which
also returns a slot number if nothing was there), `Clear`. `ImplementsFifo`
maps its slots between the positions to the queue of BoundedFifo.

**SlotLoans** extends it by history variables. The mining loop uses the number
of a popped slot for many iterations (CUDA:588, :711) and nothing counts such
uses. `life[i]` is the number of stored pushes a lent slot is promised to
survive. `LentSlotIntact` says that the promise is kept; whether a user still holds a
slot when that life has ended is not its subject but that of ShareMatchesWork.

**FermatPipeline** is one pipeline by its counts: `Dispatch` joins the tail of
the other buffer and new candidates to the survivors and starts a batch, `Fetch`
stands for `check_fermat`, the copy of the count, and the swap of the buffers.
Which candidates pass is nondeterministic. **FermatTally** adds counters of
where candidates went.

**MiningRound** is one iteration of the loop after another, for one thread and
its device; `Cuda` selects the build. Stages are actions: `NewWork`/`SameWork`,
`FetchHash`/`RejectHash`, `StartHashmod`/`SkipHashmod`, `RunSieve`/`EndSieves`,
`Dispatch`, `Finish`, `CheckCandi`, `NextIteration`. The ring is an INSTANCE of
LifoBuffer, and the state of the first pipeline maps to FermatPipeline
(`ImplementsPipeline`). Results are kept on the device (`foundDev`, `outDev`)
and on the host (`foundHost`, `outHost`), and the two builds differ in when the
second is copied from the first: this is where they disagree in behaviour. A
candidate carries the hash it was sieved from, which the program does not
record, and a share the hash and the work whose merkle root it is sent with.
Candidates read from device memory that nobody wrote never become shares and
are not counted. The candidates that pass a Fermat test but have tests to come are
written in any order, because the threads of check_fermat take their places from a
counter (`InAnyOrder`); so which of them fall into the next batch is open.

**MinerControl** is the main thread with its sessions, rebuilds and exit, and
the top of the loop in each GPU thread: the pause pipe (CUDA:390), "get work"
(CUDA:415), MakeExit (CUDA:768), the end of the thread. A thread is identified
by its device and by how often kernels were rebuilt before it. The mining itself
is one action, `Mine`, which may send a share from the second iteration after a
reset on, because results are fetched at the end of an iteration. The 8 seconds
in which TakeWork and ~XPMClient wait for a thread pass (`Timeout`) only if the
thread is blocked: an iteration is much shorter.

**PoolSession** is the main thread's loop in detail. A round is a sequence of
steps: `Poll` chooses the readable sockets, then a handler of each of them runs
(`HandleReply`, `HandleSignal`, `HandleWorkers`), then the share timeout and the
minute timer, and only then is `loopActive` looked at. Ending a session is
`loopActive = FALSE` together with what the handler leaves in gExit. Shares are
numbered in the order of submission, which stands for their reqid; `due` is the
number up to which shares are 5 seconds old, and `ready` the readable sockets of the
round that were not handled yet. An answer with an error that has no counter
(VERSION, HEIGHT, REQNONCE: `default`, `baseclient.cpp:267`) erases the share and
counts nothing; `uncounted` is the history of those. The pool sends any message at any
time, and may fall silent (`FallSilent`). MinerControl sees the same sessions
from the miners' side; there a session only starts, delivers and ends.

**SoloMining** is mining for a node of one's own: the query thread
(`QueryAnswered`, `QueryFails`, then `UpdateWork` or `UpdateFails` with each of
the ways updateWork returns early), the context it fills, and the miner, which
calls `get` before every iteration (`GetNew`, `GetSame`, `GetCrashes`), mines
(`MineWithoutHash`, `MineHashes`), submits (`SubmitBlock`) and fetches the sieves'
counts (`EndIteration`). A template is a serial number and a height. Of the mining it
keeps of which templates there may be hashes in the slots of the ring and candidates
in the two sets of buffers on the device and on the host: as in the CUDA build of
MiningRound, the fetch copies also the counts of sieves that did not run
(CUDA:1673). `block` records of which template the parts of the last submitted block
are: the merkle root and previous block, the data, the header with version and bits,
and the hash with time, nonce and multiplier (CUDA:1728-1746).

**ClientModes** puts PoolSession and SoloMining beside each other, as main does:
the mode is read once, and the other part's state stays as it is.

**NonceSpace** is "hashmod fetch & dispatch": each device's header, the launches
over ranges of nonces with the rounding of their size and the conversion of an
unsigned product to int, the roll of the time, and the growth of numHashCoeff.
Which nonces were hashed is a history variable.

**HashSearch** is what the search kernel does with one hash behind SHA-256: the
remainders by sums of limbs, the division by multiplication, the three primorials, the
report, and the host's check. The tables `multipliers32` and `offsets32` of sha256.cu are
the entries that `findMultiplierForConstantDivision` of primecoin.cpp finds (all nineteen
agree), so the model defines them by it. `SearchAssumption` says that the primes are
primes, in order, and of one bit less than a word.

**MultiPrecision** holds the arithmetic of procs.cu as operators on functions from
word positions to words: `sub` and `add` with their way to recognise a carry,
products and squares scanned by columns, Montgomery products and reductions.
Weights of words, and the powers of two and sums of **Arithmetic**, are recursive
functions on the naturals, so that they can be reasoned about. `WordAssumption` asks that four times the words
of a number is at most the base (4 * 11 against 2^32): then all the double words that
a column of Montgomery's reduction adds up fit the three words of the accumulator.
The 6275 lines of procs.cu are these loops unrolled for fixed sizes; the loops
that printed them are in `codegen/generic.cpp`, and the map names both.
**ProductKernels** runs the products as the benchmark kernels do, each result a
factor of the next product. **FermatTest** is one Fermat test step by step: a
division cycle, a squaring or a multiplication is an action. Its history
variable `lost` collects which carry chains dropped a carry.

**Sieve** follows one hash through setup_sieve, the rounds and the batches of
sieve, s_sieve and setup_fermat. The groups of threads only set bits of their
own sieve between two barriers, so they advance together, a round at a time.
The error of the floating point quotient is a parameter (`roundoff`).

**PrimeChain** is the host's test of a candidate: the first number behind those
the device tested, its twin, then the rest, with the fixed-point length.

**ZcashMiner** is the loop of a GPU thread of the Zcash client, with the pipe and
the two sockets of MinerControl but without its order of works and blocks: any
work can come at any time. What a run of the solver finds is named by the header
it was started with. Results are read from the second run after a reset on.

**Equihash** is such a run: `Blake` fills the first table, `equihash_round` joins
the pairs of one table into the next, `kernel_potential_sols` finds the pairs that
cancel, `kernel_sols` follows their references back, `Host` sorts and packs. A
hash is the set of its hexadecimal digits that are set, each digit of one bit; the
positions of the digits in the words (which select the row and which are compared
in even and odd rounds) are those of the kernel. Rows, collision buffers and
buffers of solutions overflow as on the device, and `missed` records it.
`IsValidSolution` is the test that the host makes before it sends a share, and
`Solutions` the definition that all is compared with.

**Components** runs these parts, and the ring and the pipeline, in one instance: a
behaviour runs one of them. They share no state in the code but what MiningRound
composes; the module only saves starting the checker for each.

The modules named `_proofs` hold the theorems: Buffers_proofs those of LifoBuffer,
SlotLoans and FermatPipeline (with FermatTally), ClientModes_proofs those of
PoolSession, SoloMining and ClientModes, MultiPrecision_proofs the arithmetic,
Kernels_proofs ProductKernels and FermatTest, which are built from it, and HashSearch, and
MinerControl_proofs, MiningRound_proofs, NonceSpace_proofs and ZcashMiner_proofs the
modules they are named for.

Operators whose comment describes a mistake (`PopNewest`, `KeepFinal`,
`LeaveRunning`...) stand before the definition they are a mistake in. They are
not part of the specification; with one of them in place of its neighbour the
property that `PROJECT.json` names is violated, which shows that the property
watches that code.

## Runs

| Run | Properties | Distinct states |
|---|---|---|
| MiningRoundOpenCL | ShareMatchesWork, HashQueuedOnce, RingNeverFull | 10.8 million |
| MiningRoundSieves | TypeOK, CandidateEntersOnce, ImplementsPipeline, HashmodRunsAgain | 323 thousand |
| MiningRoundCUDA | SieveBuffersConsumed, ImplementsPipeline | 567 thousand |
| MinerControl | TypeOK, ShareHeightIsWorkHeight, PauseAgrees | 1.9 million |
| MinerControlLive | MinersFollowPool | 703 thousand |
| ClientModes | pool: TypeOK, ShareCountedOnce, LostMeansReconnect, EveryBlockGetsWork, SilentPoolNoticed; solo: BlockMatchesTemplate, CrashNeedsRefusal, NewHeightMined | 463 thousand |
| Components | ring: WaitingHoldElements, LentSlotIntact, ImplementsFifo; pipeline: TailNotNegative, TailAtMostBlock, Conservation; nonces: ScannedOnce, FoundTimeIsHashed; search: ReportsUsable; kernels: PowerOfPrefix, VerdictUnlessCarryLost, ProductExact, MarksAreMultiples, CandidatesSurvive, NumberIsMember, FitsPipeline; host: ChainLengthExact; Zcash: ShareOfOneHeader, SolutionsExact | 547 thousand |
| CudaShareOfOldWork | ShareMatchesWork is violated | |
| CudaHashAgain | HashQueuedOnce is violated | |
| MinerLeftBehind | OldMinersGone is violated | |
| ExitHangs | ExitFinishes is violated | |
| FermatCarryLost | ResultIsPowm is violated | |

- *MiningRoundOpenCL*: the case that matters is new work at any point with
  hashes in the ring, candidates in both buffers and final candidates waiting.
  Shares never mix two works; the ring never overflows, so a hash is never
  dropped and hashBuf never overwritten.
- *MiningRoundSieves*: several sieves, so that an iteration may run fewer sieves
  than the last one; candidates that need two tests, so that survivors come back in
  any order in front of the tail and the new ones. Candidates are handed over once; the loop is a
  FermatPipeline; hashmod is started again and again.
- *MiningRoundCUDA*: what still holds in the CUDA build.
- *MinerControl*: no order of works, blocks, reconnects, rebuilds and timeouts
  makes a share of a block with another block's work, or leaves a thread paused
  that should run or running that should pause.
- *MinerControlLive*: miners end up with the last block and work, under three
  conditions the run's constants state. What goes wrong without any one of them
  (see below) this run cannot show; only variants of it with other constants do.
- *ClientModes*, pool mode: a share is waiting, counted once, erased by an answer whose
  error has no counter, or given up, and only one of these, over
  reconnects and with replies that come twice or late; several handlers of one
  round that end the session differently never turn a lost connection into the
  end of the program; a block is never left without a request for its work; a
  pool that falls silent is noticed by the heartbeat even if no share waits for a
  reply. Solo mode: transactions, data, version and target of a block are those of
  one template, also if the context had none for a while; time, nonce and multiplier
  are those of a hash of that template or of an earlier one (a mix that does happen,
  see below), never of a later one; failed connections and errors of the node leave the miner
  alive; every height that the node stays at is mined.
- *Components*, ring: it is a queue whatever the wraps, drops and clears, and the
  slot number that pop returned can be used for exactly Size - Remaining stored
  pushes. `clear` lends nothing and takes nothing back, which is why new work
  does not disturb the candidates of the last iteration. Pipeline:
  `left = count - bsize` (CUDA:175) is unsigned; it never wraps, and a candidate
  is never lost or tested twice. Nonces: two devices, works and rolls of the time
  never hash a header twice, and a hash keeps the time it was found with. Search:
  a report names exactly the primes that divide the hash, and the host accepts it,
  unless a sum of 24 bit products was cut to a word; what is accepted is divisible by its
  primorial, and is sieved once.
  Kernels: every product is exact; the power agrees with its definition after
  every step unless one of the three carry chains dropped a carry, and so does
  the verdict; a bit is marked exactly if a prime of the table divides the number
  it stands for, with quotients off by up to two; no number of a chain that the
  sieve lets pass has a divisor in the table, the Fermat kernels get exactly these
  numbers (but for a borrow that setup_fermat does not carry), and they fit their
  pipeline. Host: the length it finds counts the numbers of the whole chain; it
  never reaches a target that the exact length does not, and reaches every target of
  6 (`nTargetMinLength`) or more that the exact length does. Below, a fraction may be
  lost: a test that is told to fail fast (`nChainSeq < 4`, `prime.cpp:219`) makes none. Zcash: a share has the block, the work and
  the nonce of the header its solution was found for, although the loop also mines
  work with a block of another height; what leaves the solver is a solution, never
  twice, whatever overflowed and in either order of the threads, and if nothing
  was left out it is every solution there is.
- *FermatCarryLost*: the carry chains do drop carries.

Deadlock is checked in the runs of MiningRound. In the others it is not: there
the bounds on sessions, works and repetitions, the end of a computation, and
exit or crash end a behaviour.

## Bounds

| Constant | In the runs | Why it is enough |
|---|---|---|
| Size (ring) | 4 | full, empty and wrapped all occur, with two elements waiting while a slot is lent; proved for every size |
| BlockSize, MaxAvail | 3, 5 | zero, one and two blocks a batch, each with every remainder; proved for every size |
| Capacity, MaxEntered | 16, 12 | bound the candidates of a behaviour; four blocks pass through |
| MaxWork | 2 | one change of work; properties relate two works at most |
| MaxNonce | 2 or 3 | hashes for one work: one waits while others are sieved or found |
| PW, MaxFound, HashesPerSieve, SW | 2..4, 1..2, 1, 1..2 | the relation 16*SW + found <= PW of the real sizes is kept (`RingRoomAssumption`) and is tight |
| BlockSize, MaxPerSieve (MiningRound) | 1 or 3, 1 or 2 | with 3 and 2, iterations without a batch, batches and tails all occur; proved for every size |
| Depth | 1 or 2 | with 1 a candidate becomes final in its first test; with 2 there are survivors, and the buffers hold two rounds of candidates; proved for every depth |
| FERMAT_PIPELINES | 1 or 2 | 2 as in the code where their results meet (final candidates, growth of the sieves) |
| NumDevices | 1 or 2 | the threads share nothing but what the main thread does to them in its loops; two are run without rebuilds |
| MaxBuilds | 1 or 2 | one rebuild |
| MaxSessions | 1 to 3 | two reconnects, so that an odd and an even number of Toggles came before |
| MaxHeight, MaxWorks | 2..3, 1..3 | two heights: works and blocks of different height overtake each other |
| StaleLimit | 2 | 4 in the code; with 2 the chain grows, is broken by an accepted share, and ends a session |
| MaxShares (ClientModes) | 3 | one more than StaleLimit, so that a chain can span a reconnect |
| MaxSessions (ClientModes) | 2 | one reconnect, with shares of the first session answered in the second |
| gCompatible | FALSE | only then does a handler end the program; compatible mode has fewer ends |
| mThreads, HalfNonces, MaxRolls | 2, 4, 1 | two strides; launches end before, at and beyond the half; proved for every value |
| MaxTemplates, MaxTops, MaxFaults | 3, 2, 3 | a template of the same height and one of a new height while the miner has the first; proved for every value |
| WordBits | 4 (arithmetic, Fermat) | carries of one word are one in sixteen instead of one in four billion, so that every chain of them occurs |
| Size320, Size352, windowSize | 2, 3, 4 | both families; all 128 odd numbers of two words with a window in one word and over two; a window of 4 consumes 4 of the bits as 7 does in the code |
| Factors352 | 11 values | for the larger products words of zeros, ones and both halves; all factors of two words are tried |
| SumBits, LimbBits, HashSize | 10, 6, 2 | sums are cut for some hashes and not for others; the last limb reaches beyond the hash, as in the code |
| Sieve: BITS*SIZE, STRIPES, WIDTH, TARGET, LSIZE, NLIFO, Batches | 64, 4, 4, 3, 4, 4, 7 | shared first rounds, all ranges of marking, batches that wrap the prefetch ring; TARGET is odd, so bi-twin chains end with half a line |
| ChainOrigins, Depths | 6k up to 3600, 211050, 253680; 2..5 | chains of every type that end before, at and behind the numbers skipped; odd depths of bi-twin chains; the two large origins have bi-twin chains of length 6 |
| BlockTargets | lengths 4 to 7 in steps of 3/64 | lengths on both sides of nTargetMinLength, with fractions |
| nFractionalBits | 8 (24) | fractions of neighbours still differ |
| PARAM_K, PREFIX, digits | 3, 5, 5 a group with 1 bit | odd and even rounds, the shifts of both and the last round occur; 64 indices of 8 to a solution |
| ByteBits | 4 | indices of 6 bits begin and end within bytes, as those of 21 bits do in bytes of 8 |
| NR_SLOTS, COLLISION_BUFFER_SIZE, MAX_POTENTIAL_SOLS, MAX_SOLS | 16, 7, 12, 4 | in some of the runs nothing overflows (several have one or two solutions), in the others each of them does |
| BlakeTables | 25 | 24 tables of mixed values and one of few values, whose rows overflow; each with both orders of the threads |
| pipelinesNum | 1 | the value that Initialize is called with (`zcashgpuclient.cpp:893`); with more, the instance whose results are read is again the one just started; SharesOfOneHeader is proved for every number |
| MaxTip, MaxJobs, MaxNonce, MaxToggles | 4, 4, 3, 2 | works overtake blocks and blocks works; three runs for a header, the first of which is never read |
| Old | 1 | iterations before a share may appear; more only delays it |

`Rewinds` lets a later session announce a lower height, `LateWork` lets work
arrive that is older than the block. They describe the pool, not the program.

## Fairness

MiningRound: `WF_vars(Next)`. The loop blocks only before the first work; new
work need not arrive (NewWork is bounded and SameWork is enabled beside it).

MinerControl: weak fairness for each thread, because it is a thread that runs
unless it is blocked in a receive or the pause (then no action of it is enabled),
and for the main thread's steps that do not wait for the pool. `Timeout` is in it
because the poll ends after 8 seconds. The pool owes nothing: no fairness on
StartSession, NotifyBlock, TakeWork, EndSession.

PoolSession (and ClientModes in pool mode): weak fairness of `Loop`, because zmq_poll waits one second at most
and no handler waits for the pool; strong fairness of `MinuteTimer`, because
its condition compares clocks, so it is true in some round after every minute,
and stays true until that round is reached. Nothing is assumed of the pool or of
the one-second check: SilentPoolNoticed rests on the heartbeat alone.

SoloMining: weak fairness of the miner's `get` and of its iteration (`Iterate`; a
thread that never waits longer than a lock), of `UpdateWork`, and of
`QueryAnswered`. The last one assumes something of the node: curl is given no
timeout (`getblocktemplate.cpp:126-167`), so a node that accepts a connection and
never answers stops the query thread for good. How often queries fail is bounded
by MaxFaults.

## Proofs

TLAPS proves, for every value of the constants that the modules' assumptions
allow (Size, BlockSize, StaleLimit positive, Blank not an element, the rest
naturals):

- `RingInvariant`, `WaitingSlotsWritten`: the invariant is `RingTypeOK` with
  `WaitingHoldElements`; it is inductive as it stands, because push writes the
  slot that becomes part of the waiting range.
- `RingImplementsFifo` (ImplementsFifo): under that invariant each step is one of
  BoundedFifo or leaves the queue alone. The lemmas `WrapOnce`, `RemainingCounts`,
  `QueueSlots` and `QueueIsSeq` give the arithmetic of one wrap;
  `PushIsPut`, `PopIsTake` and `ClearIsForget` the steps.
- `LentSlotsIntact`, `LoanTypeCorrect`: `LentSlotIntact` alone is not inductive: a
  push writes at writePos, and nothing says that this slot's loan has ended.
  `LoanInv` adds that `life` is the distance of the slot ahead of writePos
  (`LifeIsDistance`) and that a waiting slot is not lent (`LentNotWaiting`).
- `TailNeverWraps`, `TailWithinBlock`, `PipelineTypeCorrect`: `PipelineInv` adds
  `WholeBlocks` and `WriteBufferEmpty`, and states the two bounds for the buffer
  dispatched last, which is not the same variable before and after a swap.
- `CandidatesConserved`, `TallyTypeCorrect`: `TallyInv`, on top of `PipelineInv`.
- `SharesCountedOnce`, `SessionTypeCorrect`: `SharesInv` is `TypeOK` with
  `ShareCountedOnce`. Neither is inductive alone: the counters are bounded by the
  accounting, and the accounting needs numbers of new shares to be new. Only
  submission, answer and timeout touch the shares (`StepKeepsCount`). An answer either
  counts or is one of the errors without a counter: the theorem says that nothing
  else vanishes, not that every answer is counted.
- `LostConnectionReconnects`, `BlocksServed`: `SessionInv` adds to the properties
  what holds in the middle of a round (`EndTellsReason`, `ActiveIsServed`), where
  a handler has ended the session and the others still run. Each step of a round
  is quiet or ends the session with its reason (`WithinRound`).

- `BlocksMatchTemplates`, `CrashesNeedRefusal` (SoloMining): `SoloInv` follows a
  template on its way: an answer that waits is one, the context's template and
  data number belong together while `exists`, and so do the miner's while it
  mines. The context may hold a template without its data (`LeaveUnfinished`),
  which is why `get` must look at `exists`. `OrderInv` adds that templates never get
  older on their way from the node to the miner (`TemplatesAdvance`) and that no hash
  is newer than the header (`HashesNotNewer`).
- `HeadersScannedOnce`, `FoundTimesHashed` (NonceSpace): `NonceInv` says that every
  header hashed has a time in the stride of one device (mID plus a multiple of
  mThreads) and lies behind that device's own header, by work, time and nonce; a
  launch adds only headers that do not. Two strides are disjoint
  (`StridesDisjoint`); the sizes of launches stay small enough for the conversion
  to int (`ToIntKeeps`, `NumhashKept`), from NonceAssumption.
- `ControlTypeCorrect`, `ShareHeights`, `PausesAgree` (MinerControl): `TypeInv` is the
  type invariant with the bound of a rebuild; `WorkMeetsBlock` says that a miner
  that mines has a work of its block's height. `PauseInv` ties mPaused, the
  messages in a thread's pipe and what the thread last did by the parity of their
  number, and covers the messages to threads that are being forked or stopped.
- `RoundTypeCorrect` (MiningRound, both builds): `TypeInv` adds to `TypeOK` how many
  tests a candidate has behind it wherever it is (`Sieved`, `Pending`: none in the
  sieves' buffers, fewer than Depth in the pipelines), and that a batch is part of
  its buffer while the device works on it.
- `PipelinesImplemented`, `LoopIsPipeline` (ImplementsPipeline; MiningRound, both
  builds): each pipeline of the loop is a FermatPipeline. `PipelinesInv` names the
  buffer that was dispatched last and the one that survivors are written to, through
  the swap at the end of an iteration (`Dispatched`, `Surviving`). The difficult
  part is `Capacity`: that a buffer never holds more than Depth times a block and an
  iteration's candidates is not inductive. `Layered` is: of the candidates with at most
  k tests behind them at most k + 1 such rounds are in the one buffer, at most k in the
  other. `UpToSurvivors` counts that a batch takes the survivors one layer up,
  `LayeredConcat` that the tail and the new ones add at most a round. The steps are
  `NewWorkIsNewWork`, `DispatchIsDispatch` and `FinishIsFetch`; what other pipelines
  and stages do is a stutter (`OthersLeavePipelines`). What is proved of the pipeline
  (the tail never wraps) therefore holds in the loop, for any number of pipelines.
- `SievesOverwriteNothing` (MiningRound, both builds): `BuffersInv` says which of
  the two sets of buffers is empty at which stage, and that buffers of sieves that
  were never started are.
- `HashesQueuedOnce`, `RingHasRoom` (MiningRound, OpenCL build): `HashInv` bounds
  what hashmod may have found and what waits, on the device or on the host, by the
  room in the ring, and orders the hashes by work and nonce. The assumption `~Cuda`
  is part of the theorems: in the CUDA build they are false (CudaHashAgain).
- `SharesMatchWork` (MiningRound, OpenCL build): a share is made of what stands in the
  slot that a candidate names, many iterations after the sieve. `ShareInv` says that
  this slot holds a hash of the current work for every candidate that the host holds
  or will fetch: those of the sieves' copies, the pipelines, the long ones, and on the
  device those of the sieves that ran in this iteration (`FreshOutputs`). Other buffers
  of the device keep candidates of older works; CUDA fetches them too, and there the
  theorem is false (CudaShareOfOldWork).
- `CandidatesEnterOnce` (MiningRound, OpenCL build): `EnterInv` says that a hash that was
  queued waits in exactly one slot, or has its candidates in the pipelines, or neither,
  and that candidates the host holds are of such unused hashes, and those on the device
  of other ones again. It rests on `HashInv` (a hash that arrives was not queued) and on
  `BuffersInv` (after FermatDispatch the host holds none).
- `SharesOfOneHeader` (ZcashMiner): a share is made from the nonce of an instance
  and from the header, which may meanwhile be another. `ZcashInv` adds that the
  instance to be read is the one just started (`ReadyIsNext`), that an iteration
  without new work has the block and work of the header (`HeaderInv`), and that
  blocks still in the queue are higher than the thread's (`BlocksRise`).

- `ModesKeepInvariants` (ClientModes): the six invariants of PoolSession and SoloMining
  of the composed client, as the run ClientModes checks them.
- `ProductScanExact`, `SquareScanExact`, `ProductScanModulo` (MultiPrecision): the
  scan of a product by columns is exact for every width of a word and every size. What
  the accumulator takes in for a column is the low halves of the column's products and
  the high halves of the column before, so the words written and the accumulator
  together have the value of the columns scanned (`SumUpTo` over columns, exchanged
  with the sum over words), and the accumulator never overflows since a column has at
  most `n` products. With fewer columns than the product has, the result is the product
  modulo their weight.
- `MontgomeryExact`, `ReducedExact`, `InvertLimbExact`, `SubMulExact`: the reduction
  clears one word per column, because the digit is the column times minus the inverse
  of the modulus' lowest word; `invert_limb` makes that inverse from a table of
  TableBits bits by two Newton steps, which double the bits twice (WordBits is four
  times TableBits, as 32 is of 8). The result is congruent to what was reduced, below
  twice the modulus, and the conditional subtraction brings it back into its size.
- `ProductsExact` (ProductExact; ProductKernels): the benchmarks' products, repetition
  after repetition.
- `FermatTestKeepsInv`, `PowersExact` (PowerOfPrefix), `VerdictExact`
  (VerdictUnlessCarryLost; FermatTest): for every width of a word, all sizes, every
  window that fits and every odd candidate. `FermatTestInv` says for each place of the
  kernel what is exact while `lost` is empty. In the division, quotient times divisor
  plus dividend is the power of two moved up so far, and the rest is below the divisor
  (`Divided`, `Dividing`); an estimate from the two top words is at most two too large
  (`EstimateExact`), which is why two corrections are enough (`CycleExact`). At the end
  the quotient is that of a power of two by the candidate (`QuotientReady`): shifted
  down, multiplied and negated it gives every smaller power of two in Montgomery form
  (`RedcifyExact`). In the loop, `StandsFor` says that the power is congruent to
  2^k times the weight of the words, where k is the number that the bits of e - 1 above
  `Place` make (`Above`), with the squarings of the window; `BitfieldExact` is that the
  window's bits are those below. `FinishExact` takes the weight away again, which needs
  that the candidate is odd (a power of two can be cancelled), and `PowerExact` that
  the reference, repeated squaring, is the remainder of the power of two. Nothing is
  said once a chain has lost a carry: FermatCarryLost shows that the claim fails then.
- `Check24Exact`, `ReportsOfUse` (ReportsUsable; HashSearch): for every width of the sums,
  size of the limbs, table of primes, primorials, limits and hash. A multiplier found for
  a divisor d is (2^s + l) / d with l lacking to a multiple of d; the search for s ends
  because 2^s outgrows what the largest dividend times l can be (`ShiftExists`), and the
  shift is never less than a word (`ShiftExact`). The quotient by multiplication is
  then the true one, or one more, so its product with d, in a word, gives the dividend
  back exactly if d divides it (`QuotientTested`). A sum of limbs times remainders is
  congruent to the hash (`WholeSumExact`, from `LimbsAreHash`: the limbs, the last of which
  reaches beyond the words, are the whole hash). That a hash is divisible by the product
  of the field needs Euclid's lemma (`Euclid`, from the least multiplier that gives a
  multiple of a prime; `PrimesDivide`), since the primes are only known one by one. No
  number is made twice because two reports of a hash differ in the product of the other
  primes (`ReportedFacts`). `SearchInv`, the inductive invariant, says that all that
  is reported, accepted and rejected comes of those reports.

The library's induction theorems take an operator as a parameter, so induction is
done over sets of natural numbers, from the well-foundedness of <: `SetInduction` in
MiningRound_proofs, `Induction` in MultiPrecision_proofs. With it a recursive function
is shown to exist, and to be what its equation says, once for each: FlattenSeq of the
community modules, which the proofs about MiningRound start with (`Avail`, `Survivors`
and `Finals` then carry `\in Seq(X)` from buffer to buffer), and Pow2, Weight, SumUpTo,
ProductUpTo, the reports of a hash, the scans and the reference of the Fermat test. Products of unknowns are beyond the
SMT solver as soon as there are two of them, so the arithmetic is cut into lemmas about
named numbers (`Cong` and its laws for congruences).

Only model-checked, as invariants:

- MarksAreMultiples, CandidatesSurvive, NumberIsMember, FitsPipeline: they rest on the
  table of primes being complete below its end, on inverses modulo them, and on products
  over sets (`ProductSet`) and powers (`^`), of which the provers know nothing.
- ChainLengthExact: the host's tests for the later members of a chain (Euler, Lagrange
  and Lifchitz: the residue of 2 modulo a prime) agree with primality only by Fermat's
  theorem and quadratic reciprocity, which are far beyond these provers, and a
  pseudoprime passes the first test; the run excludes those.
- SolutionsExact compares what the kernels find with a set of all solutions; it is a
  statement about the given tables.

Liveness (HashmodRunsAgain, MinersFollowPool, SilentPoolNoticed, NewHeightMined) stays
with TLC, since TLAPS does not reason about ENABLED and fairness. So do the runs that
expect a violation.

## What the models show about the code

1. *CudaShareOfOldWork.* The CUDA build copies the candidate counts of all
   `mSievePerRound` sieves back after each iteration (CUDA:680), also of sieves
   that did not run because the ring was empty. The reset at new work clears the
   host's counts only (CUDA:450), so candidates of the old work return after
   "reset if new work" (CUDA:435), and a share is sent with the old hash's nonce
   and multiplier and the new work's merkle root. The OpenCL build copies behind
   the kernels (OpenCL:628) and has no such behaviour (MiningRoundOpenCL). For
   the same reason a candidate enters its pipeline twice in the CUDA build
   (CandidateEntersOnce fails there).
   The loop of solo mining has the same: the counts are fetched at CUDA:1673 and the
   reset clears the host's only (CUDA:1442), so a block may have the time, nonce and
   multiplier of an old template's hash (CUDA:1736-1745) and the new one's merkle
   root. With `block.hash = block.template` as an invariant of ClientModes, TLC shows
   such a block; the runs keep BlockMatchesTemplate, which is what still holds.
2. *CudaHashAgain.* hashmod's count is copied back in every iteration (CUDA:686),
   also if hashmod did not run, and the hashes of the last run are queued again.
   Since they fill the ring, hashmod may even never be started again
   (HashmodRunsAgain fails in the CUDA build).
3. *MinerLeftBehind.* "Stop and destroy all workers" (CUDA:1100) gives up after
   8 seconds on a thread that waits in a receive. A reply with work may overtake
   the signal with its block; the thread then waits for the block, while
   the main thread, in TakeWork, cannot send it. The thread lives on.
4. *ExitHangs.* The pipes of the last workers are never closed, so
   zmq_ctx_term (`baseclient.cpp:690`) does not return and "xpmclient finished"
   (`baseclient.cpp:694`) is not logged.
5. *FermatCarryLost.* Three carry chains of the Fermat kernels drop carries. redcify
   makes the negative of a number by inverting all words and incrementing the
   first one (`fermat.cu:144`, `fermat.cu:209`), which is wrong if that word of the
   quotient's product was zero. sub (`procs.cu:5`) and the add-back of the divisions
   (`procs.cu:6071-6094`) compare a word with one operand to see whether it wrapped,
   which fails when the other operand and the incoming carry add up to a whole
   word. For a number that the benchmark may draw the result is then not the power
   that mpz_powm finds ("results differ!", `benchmarks.cpp:403`). With 32 bit words
   this needs one value of a word, so the effect in mining is that a chain is lost
   now and then. VerdictUnlessCarryLost shows that nothing else goes wrong.

MinersFollowPool holds in MinerControlLive and fails when one of its three
conditions is dropped: with `MaxBuilds = 2`, because HandleSignal ignores that
TakeWork replaced the threads, and the new ones subscribed too late for the work
(`baseclient.cpp:296`); with `LateWork`, because HandleNewWork does not compare
heights (`baseclient.cpp:159`), and with `Rewinds`, because the miners keep
block and work over a reconnect while gBlock is cleared (`baseclient.cpp:499`).
In each case the miner waits in a receive until the next block or work. No
line of the repository promises otherwise, so these are hazards, not findings.

PoolSession shows more behaviour of that kind. gSharesSent survives the end of a
session, and main sleeps 5 seconds before the next one (`baseclient.cpp:663`), so
a share left over ends the new session at its first check. The chain of stale
shares survives too (`baseclient.cpp:256`). A late answer to a share is not
counted as a sign of life (`baseclient.cpp:234`). An answer with an error of the
default branch (`:267`) is in no statistics: the share is erased and gShares stays
as it was.

SoloMining: updateWork frees the templates before it knows whether the new one can
be used (`getblocktemplate.cpp:73`), and get then reads the height of a null
pointer (`:195`) if the miner has a template. CrashNeedsRefusal states the only
way to it. A template of the same height is never replaced, and a block is
submitted once, without a timeout.

PrimeChain: a chain that ends at a test with fFastFail has no fraction. With an
mDepth of 2 these are chains of the first and second kind of length 3; with an
mDepth of 2 or 3, bi-twin chains of length 4 or 5 (nChainSeq is 3 then). All are
shorter than the "minimum chain length target", 6 (`prime.cpp:16`). The host starts with the device's numbers
counted as passed, so
"chainlength < mDepth" (CUDA:747), where errors of the device are counted, can
only be true for a bi-twin chain of an odd depth. The branch also divides
`hash.primorial` of the ring's entry (CUDA:758), which later candidates of that
hash are computed from.

ZcashMiner: the results of the first run after a reset are never read
(`zcashgpuclient.cpp:524`, `:594`), which costs one run, but is also what keeps
work and block of a share together: a header made of a block and an older work
lives for one run only. Statistics are sent in every iteration after the first 10
seconds, because the time of the last report is set to zero (`:459`). Equihash: a
slot joins only the first equal one of the last round (`kernel.cl:875`), so of two
solutions that share it one is lost even if there is room.

## Not modelled

- Sizes of the device buffers (128 hashes, MFS candidates): kernels write without
  comparing, and only probability keeps them within. The models assume the room for
  hashes. What the buffers of a pipeline may have to hold is proved (Depth times a
  block and an iteration's candidates); MFS is two iterations' worth of the most
  that the sieves' own buffers have room for, so it suffices as long as sieves fill a
  fraction of theirs.
- In MiningRound, what kernels compute: their results are nondeterministic there.
  The kernels have modules of their own, on scaled-down words.
- SHA-256 and its precomputation, base58, uint256: pure functions over bytes.
- mulProductScan352to96 and the like of procs.cu: not called with the window
  size that is compiled in.
- `gcn.cpp`, which prints the kernels of procs.cu as GCN assembly: the same
  algorithms with registers and waits of the device.
- The CPU sieve of `xpm/rpc/common`: nothing in the client calls it.
- BLAKE2b of the Zcash solver: the hashes are given tables. A slot is written as a
  whole; that two threads write the words of the last slot of a full row at once,
  and where in the tables the words of a slot lie, is left out.
- Setup of the devices and overclocking of the Zcash client.
- Statistics, monitoring, time measurement, messages, vendored libraries.
- The phases of one connection attempt (sockets, version, config): `Connect`
  stands for any number of failed attempts and the one that succeeds.
- Faults of the device: PrimeChain starts from candidates that were passed rightly.

What the map covers is well below a third of the lines under `src/`. More than half
of those are libraries (config4cpp, loguru, blkmaker, the ADL headers), drivers of
benchmarks and monitors, and byte encodings; of procs.cu each
definition counts for 150 lines at most, although it stands for up to 640.

## Plan

All modules that were planned exist, and the exactness of the arithmetic is proved for
every width. What would add most next:

1. The sieve kernels and setup_fermat for every width, with powers and products written
   with Arithmetic as in HashSearch.
2. A run of MinerControl with solo mining's single device and its exit.
