----------------------------- MODULE SoloMining -----------------------------
(***************************************************************************)
(* Mining for a node of one's own (mode "solo"): the query thread of       *)
(* GetBlockTemplateContext and the thread of PrimeMiner::SoloMining, which *)
(* submits blocks with SubmitContext.                                      *)
(*                                                                         *)
(* The query thread asks the node for a block template again and again and *)
(* keeps it in _blocks; the miner thread asks the context for a template   *)
(* before every iteration (get), and gives its old one back.  updateWork   *)
(* and get hold the mutex of the context, so each is one step; the miner   *)
(* mines and submits with a copy of its own.  The iteration in between is  *)
(* that of MiningRound in the CUDA build (SoloMining repeats the code of   *)
(* Mining).  Of it only this is kept here: of which templates there may be *)
(* hashes in the slots of the ring, and candidates on the device and on    *)
(* the host.  How many there are and how long they take is left open.      *)
(***************************************************************************)
EXTENDS Integers

CONSTANTS
    MaxTemplates,  \* bound: templates the node ever serves
    MaxTops,       \* bound: height of a template
    MaxFaults      \* bound: queries without a usable answer

ASSUME SoloAssumption == {MaxTemplates, MaxTops, MaxFaults} \subseteq Nat \ {0}

VARIABLES
    nodeTemplate,  \* the template the node serves now, if it is up yet
    faults,        \* counted for the bound
    \* GetBlockTemplateContext:
    querying,      \* where the query thread is: "ask", "answered", "ended"
    answer,        \* the template in the node's answer
    blockTemplate, \* _blocks[0]; NoTemplate is the null pointer
    exists,        \* _blockTemplateExists
    lastDataId,    \* _dataId: the template whose data has this number
    \* the miner:
    at,            \* where it is: "get", "mine", "check", "crashed"
    workTemplate, dataId,
    minedHeader,   \* blockheader: the template it was made of
    hashing,       \* hashes of it: "reset", then "started", then "found"
    widx,          \* the sieve buffers of this iteration
    slots,         \* templates of the hashes in the slots of the ring
    onDevice,      \* templates whose candidates the device may count
    onHost,        \* templates whose candidates the host may count
    block,         \* the block submitted last in this iteration, or NoBlock
    \* history:
    refused        \* a template of the node could not be used

NoTemplate == [serial |-> 0, height |-> 0]
Templates == [serial : 1 .. MaxTemplates, height : 1 .. MaxTops]
NoBlock == [template |-> NoTemplate, dataId |-> NoTemplate, header |-> NoTemplate,
            hash |-> NoTemplate]

context == <<querying, answer, blockTemplate, exists, lastDataId>>
device == <<widx, slots, onDevice>>
round == <<hashing, device, onHost>>
soloMiner == <<at, workTemplate, dataId, minedHeader, round, block>>
soloVars == <<nodeTemplate, faults, context, soloMiner, refused>>

SoloInit ==
    /\ nodeTemplate = NoTemplate
    /\ faults = 0 /\ querying = "ask" /\ answer = NoTemplate /\ refused = FALSE
    /\ blockTemplate = NoTemplate /\ exists = FALSE /\ lastDataId = NoTemplate
    /\ at = "get" /\ workTemplate = NoTemplate /\ dataId = NoTemplate
    /\ minedHeader = NoTemplate /\ block = NoBlock
    /\ hashing = "reset" /\ widx = 0 /\ slots = {} /\ onHost = {}
    /\ onDevice = [k \in {0, 1} |-> {}]

-----------------------------------------------------------------------------
\* The node: its first template, a new block, or the same height with other transactions.
NodeChanges ==
    /\ nodeTemplate.serial < MaxTemplates
    /\ nodeTemplate' \in {t \in Templates : t.serial = nodeTemplate.serial + 1}
    /\ UNCHANGED <<faults, context, soloMiner, refused>>

-----------------------------------------------------------------------------
\* updateWork.

\* The answer is no JSON, or reports an error: the old templates stay.  (Below,
\* the same if they were freed before the answer is looked at.)
FreeTooEarly ==
    exists' = FALSE /\ blockTemplate' = NoTemplate /\ UNCHANGED lastDataId

KeepBlocks == exists' = FALSE /\ UNCHANGED <<blockTemplate, lastDataId>>

\* The old templates are freed, and the new one is not understood, or the
\* wallet has no valid address.
FreeBlocks == exists' = FALSE /\ blockTemplate' = NoTemplate /\ UNCHANGED lastDataId

\* The template is there, but the coinbase cannot be extended or the data has
\* a wrong size (then _dataId is set), for this or for a later block.
LeaveUnfinished ==
    /\ exists' = FALSE /\ blockTemplate' = answer
    /\ lastDataId' \in {lastDataId, answer}

AcceptTemplate == exists' = TRUE /\ blockTemplate' = answer /\ lastDataId' = answer

\* queryWork that gives up when the connection to the node fails.
EndQueries == querying' = "ended"

\* queryWork after a failed connection: it tries again.
TryAgain == UNCHANGED querying

\* The node answers with what it serves at that moment.
QueryAnswered ==
    /\ querying = "ask" /\ nodeTemplate # NoTemplate
    /\ querying' = "answered"
    /\ answer' = nodeTemplate
    /\ UNCHANGED <<nodeTemplate, faults, blockTemplate, exists, lastDataId,
                   soloMiner, refused>>

QueryFails ==
    /\ querying = "ask" /\ faults < MaxFaults
    /\ faults' = faults + 1
    /\ TryAgain
    /\ UNCHANGED <<nodeTemplate, answer, blockTemplate, exists, lastDataId,
                   soloMiner, refused>>

UpdateFails ==
    /\ querying = "answered" /\ faults < MaxFaults
    /\ querying' = "ask"
    /\ faults' = faults + 1
    /\ \/ KeepBlocks /\ UNCHANGED refused
       \/ (FreeBlocks \/ LeaveUnfinished) /\ refused' = TRUE
    /\ UNCHANGED <<nodeTemplate, answer, soloMiner>>

UpdateWork ==
    /\ querying = "answered"
    /\ querying' = "ask"
    /\ AcceptTemplate
    /\ UNCHANGED <<nodeTemplate, answer, faults, soloMiner, refused>>

-----------------------------------------------------------------------------
\* get: the miner's template stays its own while the height stays the same.
SameHeight == workTemplate # NoTemplate /\ workTemplate.height = blockTemplate.height

\* get reads the height of a null pointer.
GetCrashes ==
    /\ at = "get"
    /\ workTemplate # NoTemplate /\ blockTemplate = NoTemplate
    /\ at' = "crashed"
    /\ UNCHANGED <<nodeTemplate, faults, context, workTemplate, dataId,
                   minedHeader, round, block, refused>>

GetSame ==
    /\ at = "get"
    /\ blockTemplate # NoTemplate /\ SameHeight
    /\ at' = "mine"
    /\ UNCHANGED <<nodeTemplate, faults, context, workTemplate, dataId,
                   minedHeader, round, block, refused>>

\* hasChanged is left FALSE when the miner had no template.
ChangedIfOld == workTemplate # NoTemplate

\* hasChanged, whenever the template is not the miner's old one.
HasChanged == TRUE

\* "reset if new work": the header is made of the template, the ring and every
\* count on the host are cleared.  The counts on the device stay.
Reset ==
    /\ minedHeader' = workTemplate'
    /\ hashing' = "reset"
    /\ onHost' = {}

\* get frees the miner's template and copies the new one, or returns null: the
\* miner asks again.
GetNew ==
    /\ at = "get"
    /\ workTemplate = NoTemplate \/ (blockTemplate # NoTemplate /\ ~SameHeight)
    /\ dataId' = lastDataId
    /\ IF exists
       THEN /\ workTemplate' = blockTemplate
            /\ IF HasChanged THEN Reset ELSE UNCHANGED <<minedHeader, hashing, onHost>>
            /\ at' = "mine"
       ELSE /\ workTemplate' = NoTemplate
            /\ UNCHANGED <<minedHeader, hashing, onHost, at>>
    /\ UNCHANGED <<nodeTemplate, faults, context, device, block, refused>>

-----------------------------------------------------------------------------
\* An iteration.

\* No hash waits in the ring: hashmod starts, or goes on, and no sieve runs.
MineWithoutHash ==
    /\ at = "mine"
    /\ at' = "check"
    /\ hashing' = IF hashing = "reset" THEN "started" ELSE hashing
    /\ UNCHANGED <<nodeTemplate, faults, context, workTemplate, dataId,
                   minedHeader, device, onHost, block, refused>>

\* Hashes of the header, which the last iterations' hashmod found, are in the
\* ring.  Sieves run on some of them: each replaces the count in its buffers by
\* what it found, and buffers of sieves that do not run keep theirs.
MineHashes ==
    /\ at = "mine" /\ hashing # "reset"
    /\ at' = "check"
    /\ hashing' = "found"
    /\ slots' = slots \union {minedHeader}
    /\ \E kept \in {{}, onDevice[widx]} :
          onDevice' = [onDevice EXCEPT ![widx] = kept \union {minedHeader}]
    /\ UNCHANGED <<nodeTemplate, faults, context, workTemplate, dataId,
                   minedHeader, widx, onHost, block, refused>>

\* A candidate found makes a chain long enough with the hash now in its slot (the
\* one it was sieved from, or a later one): the block is submitted, whatever the
\* node answers.  The previous block and the merkle root are those of the
\* miner's template, version and bits those of the header, and time, nonce and
\* multiplier those of the hash.
SubmitBlock ==
    /\ at = "check"
    /\ \E candi \in onHost, hash \in slots :
          /\ candi.serial <= hash.serial
          /\ block' = [template |-> workTemplate, dataId |-> dataId,
                        header |-> minedHeader, hash |-> hash]
    /\ UNCHANGED <<nodeTemplate, faults, context, at, workTemplate, dataId,
                   minedHeader, round, refused>>

\* iteration++.  By then the counts of the buffers written in this iteration are
\* fetched, of all sieves, also of those that did not run: the Fermat pipelines
\* get these candidates in the next one, unless a reset forgets them.
EndIteration ==
    /\ at = "check"
    /\ at' = "get"
    /\ onHost' = onHost \union onDevice[widx]
    /\ widx' = 1 - widx
    /\ block' = NoBlock
    /\ UNCHANGED <<nodeTemplate, faults, context, workTemplate, dataId,
                   minedHeader, hashing, slots, onDevice, refused>>

Iterate == MineWithoutHash \/ MineHashes \/ EndIteration

SoloNext ==
    \/ NodeChanges
    \/ QueryAnswered \/ QueryFails \/ UpdateFails \/ UpdateWork
    \/ GetCrashes \/ GetSame \/ GetNew
    \/ SubmitBlock \/ Iterate

SoloSpec == SoloInit /\ [][SoloNext]_soloVars

\* Both threads run on: the query thread sleeps a few seconds, the miner 100
\* microseconds, and neither waits for the other for long.  That the node
\* answers at all is assumed: no timeout is set for a request.
SoloFairness ==
    /\ WF_soloVars(QueryAnswered) /\ WF_soloVars(UpdateWork)
    /\ WF_soloVars(GetCrashes \/ GetSame \/ GetNew)
    /\ WF_soloVars(Iterate)

SoloFairSpec == SoloSpec /\ SoloFairness

-----------------------------------------------------------------------------
\* A block is submitted with the transactions, the data, the version and the
\* target of one template, whatever the query thread did since the miner got it,
\* and also if the miner was without a template for a while.  Its time, nonce
\* and multiplier are those of a hash of that template or, since counts of the
\* device outlive the reset, of an earlier one: never of a later one.
BlockMatchesTemplate ==
    /\ block.dataId = block.template /\ block.header = block.template
    /\ block.hash.serial <= block.template.serial

\* The miner survives every failure of the connection and every error the node
\* reports; only a template that cannot be used makes get read a null pointer.
CrashNeedsRefusal == at = "crashed" => refused

\* What makes the two inductive: the miner's template, its data and its header
\* belong together while it mines, and those of the context while they exist.
\* Templates never get older on their way from the node to the miner, and no
\* hash is newer than the header.
MinerTogether ==
    workTemplate # NoTemplate => dataId = workTemplate /\ minedHeader = workTemplate
ContextTogether ==
    exists => blockTemplate # NoTemplate /\ lastDataId = blockTemplate
TemplatesAdvance ==
    /\ minedHeader.serial <= answer.serial /\ answer.serial <= nodeTemplate.serial
    /\ blockTemplate # NoTemplate =>
          /\ minedHeader.serial <= blockTemplate.serial
          /\ blockTemplate.serial <= answer.serial
HashesNotNewer == \A hash \in slots : hash.serial <= minedHeader.serial
NullNeedsRefusal ==
    workTemplate # NoTemplate /\ blockTemplate = NoTemplate => refused

\* A new block is noticed: the miner mines on top of it, unless the node moves
\* on first, or the miner crashed.
NewHeightMined == \A h \in 1 .. MaxTops :
    (nodeTemplate.height = h) ~>
        (minedHeader.height = h \/ nodeTemplate.height # h \/ at = "crashed")

=============================================================================
