------------------------------ MODULE ZcashMiner ------------------------------
(***************************************************************************)
(* A GPU thread of the Zcash client (ZCashMiner::Mining in                 *)
(* zcash/zcashgpuclient.cpp): blocks and work come through two sockets,    *)
(* every iteration runs the solver for one nonce, and shares are filled    *)
(* from what the thread holds then.                                        *)
(*                                                                         *)
(* A block is its height and a work its height and number.  What a run     *)
(* finds is named by the header it was started with (Equihash models a     *)
(* run).  The pool session announces blocks of growing height.             *)
(***************************************************************************)
EXTENDS Integers, Sequences

CONSTANTS
    pipelinesNum,  \* instances of the solver (Initialize is called with 1)
    MaxTip,        \* bound: height of a block
    MaxJobs,       \* bound: number of works
    MaxNonce,      \* bound: nonces tried for a header
    MaxToggles     \* bound: number of Toggles

ASSUME ZcashAssumption ==
    /\ {pipelinesNum, MaxTip, MaxJobs} \subseteq Nat \ {0}
    /\ MaxNonce \in Nat /\ MaxToggles \in Nat

NoSolution == [prev |-> 0, job |-> 0, nonce |-> 0]
NoProof == [height |-> 0, tip |-> 0, job |-> 0, bignonce |-> 0, solution |-> NoSolution]
Instances == 0 .. pipelinesNum - 1

VARIABLES
    tip, jobs, toggles,      \* the client: height announced, works and Toggles sent
    zdown,                   \* the ZeroMQ context is shut down
    zpipe,                   \* messages in the pipe of the thread
    blocksub, worksubs,      \* messages in its two sockets
    zat,                     \* where the thread is
    zblock, zwork, zreset,   \* block.height(), work, reset
    header,                  \* header: hashPrevBlock, hashMerkleRoot, nNonce
    nonces, results,         \* nonce and buf_sols of every instance
    currentInstance, readyInstance,
    zshare                   \* the share sent in this iteration

clientVars == <<tip, jobs, toggles, zdown, zpipe, blocksub, worksubs>>
runVars == <<header, nonces, results, currentInstance, readyInstance>>
zcashVars == <<clientVars, zat, zblock, zwork, zreset, runVars, zshare>>

-----------------------------------------------------------------------------
\* Initialize answers the thread's signal with one message, which stays in the
\* pipe: the thread begins paused.
ZcashInit ==
    /\ tip = 1 /\ jobs = 0 /\ toggles = 0 /\ zdown = FALSE
    /\ zpipe = 1 /\ blocksub = <<>> /\ worksubs = <<>>
    /\ zat = "top"
    /\ zblock = 1 /\ zwork = [height |-> 0, job |-> 0] /\ zreset = FALSE
    /\ header = NoSolution
    /\ nonces = [i \in Instances |-> 0] /\ results = [i \in Instances |-> NoSolution]
    /\ currentInstance = 0 /\ readyInstance = -pipelinesNum
    /\ zshare = NoProof

\* The client: NotifyBlock, TakeWork for any height, Toggle, and the shutdown.
ZcashNotifyBlock ==
    /\ tip < MaxTip
    /\ tip' = tip + 1
    /\ blocksub' = Append(blocksub, tip')
    /\ UNCHANGED <<jobs, toggles, zdown, zpipe, worksubs>>

ZcashTakeWork ==
    /\ jobs < MaxJobs
    /\ jobs' = jobs + 1
    /\ \E h \in 2 .. MaxTip : worksubs' = Append(worksubs, [height |-> h, job |-> jobs'])
    /\ UNCHANGED <<tip, toggles, zdown, zpipe, blocksub>>

ZcashToggle ==
    /\ toggles < MaxToggles
    /\ toggles' = toggles + 1
    /\ zpipe' = zpipe + 1
    /\ UNCHANGED <<tip, jobs, zdown, blocksub, worksubs>>

ZcashShutdown ==
    /\ ~zdown /\ zdown' = TRUE
    /\ UNCHANGED <<tip, jobs, toggles, zpipe, blocksub, worksubs>>

Client ==
    /\ ~zdown
    /\ ZcashNotifyBlock \/ ZcashTakeWork \/ ZcashToggle \/ ZcashShutdown
    /\ UNCHANGED <<zat, zblock, zwork, zreset, runVars, zshare>>

-----------------------------------------------------------------------------
\* The start of an iteration: a message in the pipe means to wait for another.
ZcashTop ==
    /\ zat = "top"
    /\ IF zpipe > 0 /\ ~zdown THEN zat' = "paused" /\ zpipe' = zpipe - 1
                              ELSE zat' = "getwork" /\ UNCHANGED zpipe
    /\ zreset' = FALSE
    /\ zshare' = NoProof
    /\ UNCHANGED <<tip, jobs, toggles, zdown, blocksub, worksubs, zblock, zwork, runVars>>

ZcashResume ==
    /\ zat = "paused" /\ (zpipe > 0 \/ zdown)
    /\ zpipe' = IF zdown THEN zpipe ELSE zpipe - 1
    /\ zat' = "getwork"
    /\ UNCHANGED <<tip, jobs, toggles, zdown, blocksub, worksubs, zblock, zwork, zreset,
                   runVars, zshare>>

\* The loop "get work": work, if there is some or it is behind the block ...
ZcashReceiveWork ==
    /\ zat = "getwork"
    /\ \/ /\ worksubs # <<>> /\ ~zdown
          /\ zwork' = Head(worksubs) /\ worksubs' = Tail(worksubs)
          /\ zreset' = TRUE /\ zat' = "getblock"
       \/ /\ worksubs = <<>> \/ zdown
          /\ zwork.height >= zblock
          /\ zat' = "getblock" /\ UNCHANGED <<zwork, worksubs, zreset>>
       \/ /\ zdown /\ zwork.height < zblock
          /\ zat' = "stopped" /\ zreset' = TRUE /\ UNCHANGED <<zwork, worksubs>>
    /\ UNCHANGED <<tip, jobs, toggles, zdown, zpipe, blocksub, zblock, runVars, zshare>>

\* ... then a block, if there is one or it is behind the work, and once more.
ZcashReceiveBlock ==
    /\ zat = "getblock"
    /\ \/ /\ blocksub # <<>> /\ ~zdown
          /\ zblock' = Head(blocksub) /\ blocksub' = Tail(blocksub)
          /\ zat' = "getwork"
       \/ /\ blocksub = <<>> \/ zdown
          /\ zwork.height <= zblock
          /\ zat' = "mine" /\ UNCHANGED <<zblock, blocksub>>
       \/ /\ zdown /\ zwork.height > zblock
          /\ zat' = "stopped" /\ UNCHANGED <<zblock, blocksub>>
    /\ UNCHANGED <<tip, jobs, toggles, zdown, zpipe, worksubs, zwork, zreset, runVars, zshare>>

\* The header of an iteration: a new one for new work.
Header ==
    IF zreset THEN [prev |-> zblock, job |-> zwork.job, nonce |-> 0] ELSE header

Current == IF zreset THEN 0 ELSE currentInstance

\* Results that are read from the first run on.
FirstReadyAtOnce == 0

\* No results are read for as many runs as there are instances.
FirstReady == -pipelinesNum

Ready == IF zreset THEN FirstReady ELSE readyInstance

\* A share for what the run found; the solution must be one of the header.  The
\* copy of buf_sols waits for the run that was just started.
ShareFor(found, nonce) ==
    [height |-> zblock, tip |-> zwork.height, job |-> zwork.job,
     bignonce |-> nonce, solution |-> found]

ZcashMine ==
    /\ zat = "mine"
    /\ Header.nonce < MaxNonce
    /\ nonces' = [nonces EXCEPT ![Current] = Header.nonce]
    /\ \E found \in {NoSolution, Header} :
         /\ results' = [results EXCEPT ![Current] = found]
         /\ zshare' \in IF Ready >= 0 /\ found # NoSolution /\ found = Header
                        THEN {NoProof, ShareFor(found, nonces'[Ready])}
                        ELSE {NoProof}
    /\ header' = [Header EXCEPT !.nonce = @ + 1]
    /\ currentInstance' = (Current + 1) % pipelinesNum
    /\ readyInstance' = IF Ready + 1 >= 0 THEN (Ready + 1) % pipelinesNum ELSE Ready + 1
    /\ zat' = "top"
    /\ UNCHANGED <<clientVars, zblock, zwork, zreset>>

ZcashNext ==
    \/ Client
    \/ ZcashTop \/ ZcashResume \/ ZcashReceiveWork \/ ZcashReceiveBlock \/ ZcashMine

ZcashSpec == ZcashInit /\ [][ZcashNext]_zcashVars

-----------------------------------------------------------------------------
\* A share names one block, one work and one nonce: those of the header that its
\* solution was found for, although a work can arrive after a newer block and an
\* iteration then mines the old work with the new block.  It is sent in a later
\* iteration, when the work has caught up.
ShareOfOneHeader ==
    zshare # NoProof =>
        /\ zshare.height = zshare.tip
        /\ zshare.solution = [prev |-> zshare.height, job |-> zshare.job,
                              nonce |-> zshare.bignonce]

=============================================================================
