---------------------------- MODULE MinerControl ----------------------------
(***************************************************************************)
(* The main thread of the pool mode and the threads of its GPUs: XPMClient *)
(* (xpm/cuda/xpmclient.cpp), the top of the loop in PrimeMiner::Mining,    *)
(* and the part of main (baseclient.cpp) that drives them.                 *)
(*                                                                         *)
(* They share a pipe (a pair of ZMQ_PAIR sockets) per thread, whose        *)
(* messages carry nothing, two PUB sockets to which every thread           *)
(* subscribes (blocks and work), and the flag MakeExit.  A thread is       *)
(* paused by one message in its pipe and resumed by the next, so the       *)
(* meaning of a message depends on how many went before it.                *)
(*                                                                         *)
(* When the difficulty changes, TakeWork stops all threads, builds new     *)
(* kernels and starts new threads; thread <<d, b>> is that of device d     *)
(* after b - 1 such rebuilds.                                              *)
(***************************************************************************)
EXTENDS Integers, Sequences, FiniteSets

CONSTANTS
    NumDevices,    \* devices in use
    MaxBuilds,     \* bound: 1 + the number of rebuilds; 1 if the target is fixed
    MaxSessions,   \* bound: pool sessions
    MaxHeight,     \* bound: height of a block (the first is 2)
    MaxWorks,      \* bound: works taken
    Rewinds,       \* may a later session be at a lower height?
    LateWork       \* may work be taken that is older than the block?

ASSUME ControlAssumption ==
    /\ {NumDevices, MaxBuilds, MaxSessions, MaxHeight} \subseteq Nat \ {0}
    /\ MaxWorks \in Nat
    /\ {Rewinds, LateWork} \subseteq BOOLEAN

Devices == 1 .. NumDevices
Heights == 2 .. MaxHeight
Threads == Devices \X (1 .. MaxBuilds)

VARIABLES
    \* the main thread
    mpc,        \* where it is
    device,     \* its loop over the devices
    build,      \* mWorkers are the threads of this build
    caller,     \* who called TakeWork: "reply" or "signal"
    mPaused,
    gExit,
    gHeight,    \* height of gBlock, 0 when it is cleared
    notified, gWork,    \* heights of the last block and work published
    sessions, works,    \* counted for the bounds
    ctxDown,    \* zmq_ctx_shutdown was called
    \* each miner thread
    at,         \* where it is
    toMiner, toMain,    \* messages in its pipe
    pipeOpen,   \* the main thread's end of its pipe is open
    blocks, worksub,    \* heights in its SUB sockets
    block, work,        \* heights of what it received last
    reset,      \* "reset": work was received in this iteration
    age,        \* iterations since the last reset, at most Old
    makeExit,   \* MakeExit
    share       \* heights <<work, block>> of the share just sent, or NoShare

heights == <<gHeight, notified, gWork>>
main == <<mpc, device, build, caller, mPaused, gExit, heights, sessions,
          works, ctxDown>>
queues == <<toMiner, toMain, pipeOpen, blocks, worksub, makeExit>>
miner == <<at, block, work, reset, age, share>>
vars == <<main, queues, miner>>

-----------------------------------------------------------------------------
NoShare == <<0, 0>>

\* A share comes out of the device no sooner than the iteration after the one
\* in which hashmod ran: the results are fetched at the end of an iteration.
Old == 1

Workers == {t \in Threads : t[2] = build}
Worker == <<device, build>>

\* Threads that have subscribed and not yet closed their sockets.
Subscribed == {t \in Threads : at[t] \notin {"none", "starting", "done"}}

Init ==
    /\ mpc = "fork" /\ device = 1 /\ build = 1 /\ caller = "main"
    /\ mPaused = TRUE /\ gExit = FALSE
    /\ gHeight = 0 /\ notified = 0 /\ gWork = 0 /\ sessions = 0 /\ works = 0
    /\ ctxDown = FALSE
    /\ at = [t \in Threads |-> "none"]
    /\ toMiner = [t \in Threads |-> 0] /\ toMain = [t \in Threads |-> 0]
    /\ pipeOpen = {}
    /\ blocks = [t \in Threads |-> <<>>] /\ worksub = [t \in Threads |-> <<>>]
    /\ block = [t \in Threads |-> 1] /\ work = [t \in Threads |-> 0]
    /\ reset = [t \in Threads |-> FALSE] /\ age = [t \in Threads |-> 0]
    /\ makeExit = [t \in Threads |-> FALSE]
    /\ share = [t \in Threads |-> NoShare]

-----------------------------------------------------------------------------
\* The main thread.

\* Toggle that forgets to turn mPaused over.
ToggleBlindly ==
    /\ toMiner' = [t \in Threads |->
                     IF t \in Workers THEN toMiner[t] + 1 ELSE toMiner[t]]
    /\ UNCHANGED mPaused

Toggle ==
    /\ toMiner' = [t \in Threads |->
                     IF t \in Workers THEN toMiner[t] + 1 ELSE toMiner[t]]
    /\ mPaused' = ~mPaused

\* Initialize starts a thread for the device and waits for its message ...
Fork ==
    /\ mpc = "fork"
    /\ at' = [at EXCEPT ![Worker] = "starting"]
    /\ pipeOpen' = pipeOpen \union {Worker}
    /\ mpc' = "greet"
    /\ UNCHANGED <<device, build, caller, mPaused, gExit, heights,
                   sessions, works, ctxDown, toMiner, toMain, blocks, worksub,
                   makeExit, block, work, reset, age, share>>

\* ... and answers it, which is the first of the pipe's messages.
Greet ==
    /\ mpc = "greet" /\ toMain[Worker] > 0
    /\ toMain' = [toMain EXCEPT ![Worker] = @ - 1]
    /\ toMiner' = [toMiner EXCEPT ![Worker] = @ + 1]
    /\ IF device < NumDevices
       THEN /\ mpc' = "fork"
            /\ device' = device + 1
       ELSE /\ mpc' = IF caller = "main" THEN "idle" ELSE "rebuilt"
            /\ device' = 1
    /\ UNCHANGED <<build, caller, mPaused, gExit, heights, sessions,
                   works, ctxDown, pipeOpen, blocks, worksub, makeExit, miner>>

\* The block h reaches main: HandleNewBlock passes on a higher one only.
PublishBlock(h) ==
    /\ gHeight' = h /\ notified' = h
    /\ blocks' = [t \in Threads |->
                    IF t \in Subscribed THEN Append(blocks[t], h) ELSE blocks[t]]

\* A session begins: gBlock.Clear(), the pool's first reply, with a block (h)
\* or without one (0) ...
StartSession(h) ==
    /\ mpc = "idle" /\ sessions < MaxSessions
    /\ sessions' = sessions + 1
    /\ gExit' = TRUE
    /\ Rewinds \/ h = 0 \/ h >= notified
    /\ IF h > 0 THEN PublishBlock(h)
                ELSE gHeight' = 0 /\ UNCHANGED <<notified, blocks>>
    /\ mpc' = "connected"
    /\ UNCHANGED <<device, build, caller, mPaused, gWork, works, ctxDown,
                   toMiner, toMain, pipeOpen, worksub, makeExit, miner>>

\* ... and Toggle.
Connected ==
    /\ mpc = "connected"
    /\ Toggle
    /\ mpc' = "session"
    /\ UNCHANGED <<device, build, caller, gExit, heights, sessions, works,
                   ctxDown, toMain, pipeOpen, blocks, worksub, makeExit, miner>>

NotifyBlock(h) ==
    /\ mpc = "session" /\ h > gHeight
    /\ Rewinds \/ h >= notified
    /\ PublishBlock(h)
    /\ UNCHANGED <<mpc, device, build, caller, mPaused, gExit, gWork, sessions,
                   works, ctxDown, toMiner, toMain, pipeOpen, worksub,
                   makeExit, miner>>

\* TakeWork publishes the work.  A reply may overtake the signal of a new
\* block, so its work may be ahead of the block.
TakeWork(h, from, rebuild) ==
    /\ mpc = "session" /\ works < MaxWorks
    /\ works' = works + 1
    /\ LateWork \/ h >= notified
    /\ LateWork \/ Rewinds \/ h >= gWork
    /\ from = "signal" => h <= gHeight
    /\ gWork' = h
    /\ worksub' = [t \in Threads |->
                     IF t \in Subscribed THEN Append(worksub[t], h) ELSE worksub[t]]
    /\ IF rebuild
       THEN /\ build < MaxBuilds
            /\ mpc' = "stop"
            /\ caller' = from
       ELSE UNCHANGED <<mpc, caller>>
    /\ UNCHANGED <<device, build, mPaused, gExit, gHeight, notified, sessions,
                   ctxDown, toMiner, toMain, pipeOpen, blocks, makeExit, miner>>

\* The loop of TakeWork (mpc "stop") and that of ~XPMClient ("delete") over the
\* workers set MakeExit and wait for a message in the pipe, at most 8 seconds.
MakeExit ==
    /\ mpc \in {"stop", "delete"} /\ ~makeExit[Worker]
    /\ makeExit' = [makeExit EXCEPT ![Worker] = TRUE]
    /\ UNCHANGED <<main, toMiner, toMain, pipeOpen, blocks, worksub, miner>>

\* A loop over the workers that runs one too far.
AfterStopTooFar ==
    IF device <= NumDevices
    THEN device' = device + 1 /\ UNCHANGED <<mpc, build, mPaused>>
    ELSE device' = 1 /\ mpc' = "shutdown" /\ UNCHANGED <<build, mPaused>>

\* After the last worker: Initialize again, or on with main's cleanup.
AfterStop ==
    IF device < NumDevices
    THEN device' = device + 1 /\ UNCHANGED <<mpc, build, mPaused>>
    ELSE /\ device' = 1
         /\ \/ /\ mpc = "stop"
               /\ mpc' = "fork" /\ build' = build + 1 /\ mPaused' = TRUE
            \/ /\ mpc = "delete"
               /\ mpc' = "shutdown" /\ UNCHANGED <<build, mPaused>>

\* TakeWork closes the pipe of a worker that answered; ~XPMClient does not.
ClosedPipes == IF mpc = "stop" THEN {Worker} ELSE {}

Stopped ==
    /\ mpc \in {"stop", "delete"} /\ makeExit[Worker] /\ toMain[Worker] > 0
    /\ pipeOpen' = pipeOpen \ ClosedPipes
    /\ AfterStop
    /\ UNCHANGED <<caller, gExit, heights, sessions, works, ctxDown,
                   toMiner, toMain, blocks, worksub, makeExit, miner>>

\* Where a thread stays until the main thread sends it something.
Blocked(t) ==
    \/ at[t] = "paused" /\ toMiner[t] = 0
    \/ at[t] = "getwork" /\ worksub[t] = <<>> /\ work[t] < block[t]
    \/ at[t] = "getblock" /\ blocks[t] = <<>> /\ work[t] > block[t]

\* 8 seconds pass.  An iteration takes less, so the thread is blocked.
Timeout ==
    /\ mpc \in {"stop", "delete"} /\ makeExit[Worker] /\ toMain[Worker] = 0
    /\ Blocked(Worker)
    /\ AfterStop
    /\ UNCHANGED <<caller, gExit, heights, sessions, works, ctxDown,
                   queues, miner>>

\* The end of TakeWork: Toggle, and false is returned.  HandleReply ends the
\* session then (gExit = false); HandleSignal does not look at the result.
Rebuilt ==
    /\ mpc = "rebuilt"
    /\ Toggle
    /\ mpc' = IF caller = "reply" THEN "leave" ELSE "session"
    /\ gExit' = (caller # "reply" /\ gExit)
    /\ caller' = "main"
    /\ UNCHANGED <<device, build, heights, sessions, works, ctxDown,
                   toMain, pipeOpen, blocks, worksub, makeExit, miner>>

\* A handler ends the session: it reconnects, or gives up (gExit stays true).
EndSession ==
    /\ mpc = "session"
    /\ gExit' \in BOOLEAN
    /\ mpc' = "leave"
    /\ UNCHANGED <<device, build, caller, mPaused, heights, sessions,
                   works, ctxDown, queues, miner>>

\* The end of a session that leaves the miners running.
LeaveRunning ==
    /\ mpc = "leave"
    /\ mpc' = IF gExit THEN "delete" ELSE "idle"
    /\ UNCHANGED <<device, build, caller, mPaused, gExit, heights, sessions,
                   works, ctxDown, queues, miner>>

Leave ==
    /\ mpc = "leave"
    /\ Toggle
    /\ mpc' = IF gExit THEN "delete" ELSE "idle"
    /\ UNCHANGED <<device, build, caller, gExit, heights, sessions,
                   works, ctxDown, toMain, pipeOpen, blocks, worksub,
                   makeExit, miner>>

\* zmq_ctx_shutdown: every call on a socket of the context fails from now on.
Shutdown ==
    /\ mpc = "shutdown"
    /\ ctxDown' = TRUE
    /\ mpc' = "term"
    /\ UNCHANGED <<device, build, caller, mPaused, gExit, heights,
                   sessions, works, queues, miner>>

\* zmq_ctx_term, the last call of main, returns when every socket of the context
\* is closed: those of the threads, and the main thread's ends of the pipes.
TermReturns ==
    /\ mpc = "term"
    /\ pipeOpen = {}
    /\ \A t \in Threads : at[t] \in {"none", "done"}

MainNext ==
    \/ Fork \/ Greet
    \/ \E h \in Heights \union {0} : StartSession(h)
    \/ Connected
    \/ \E h \in Heights : NotifyBlock(h)
    \/ \E h \in Heights, from \in {"reply", "signal"}, rebuild \in BOOLEAN :
          TakeWork(h, from, rebuild)
    \/ MakeExit \/ Stopped \/ Timeout \/ Rebuilt
    \/ EndSession \/ Leave \/ Shutdown

-----------------------------------------------------------------------------
\* The miner threads.

\* Mining subscribes, prepares its buffers, and tells the main thread.
Start(t) ==
    /\ at[t] = "starting"
    /\ toMain' = [toMain EXCEPT ![t] = @ + 1]
    /\ at' = [at EXCEPT ![t] = "ready"]
    /\ UNCHANGED <<main, toMiner, pipeOpen, blocks, worksub, makeExit, block,
                   work, reset, age, share>>

\* It waits for the answer, and leaves it in the pipe: Top takes it, so that
\* the thread starts paused.
Enter(t) ==
    /\ at[t] = "ready" /\ (toMiner[t] > 0 \/ ctxDown)
    /\ at' = [at EXCEPT ![t] = "top"]
    /\ UNCHANGED <<main, queues, block, work, reset, age, share>>

\* The start of an iteration: a message in the pipe means pause.
Top(t) ==
    /\ at[t] = "top"
    /\ IF toMiner[t] > 0 /\ ~ctxDown
       THEN /\ toMiner' = [toMiner EXCEPT ![t] = @ - 1]
            /\ at' = [at EXCEPT ![t] = "paused"]
       ELSE /\ at' = [at EXCEPT ![t] = "getwork"]
            /\ UNCHANGED toMiner
    /\ reset' = [reset EXCEPT ![t] = FALSE]
    /\ share' = [share EXCEPT ![t] = NoShare]
    /\ UNCHANGED <<main, toMain, pipeOpen, blocks, worksub, makeExit, block,
                   work, age>>

\* The second czmq_wait, which also returns when the context is down.
Resume(t) ==
    /\ at[t] = "paused"
    /\ \/ toMiner[t] > 0 /\ ~ctxDown /\ toMiner' = [toMiner EXCEPT ![t] = @ - 1]
       \/ ctxDown /\ UNCHANGED toMiner
    /\ at' = [at EXCEPT ![t] = "getwork"]
    /\ UNCHANGED <<main, toMain, pipeOpen, blocks, worksub, makeExit, block,
                   work, reset, age, share>>

\* The loop "get work".  Work is received if there is some, or, waiting for
\* it, if the block is ahead of the work ...
ReceiveWork(t) ==
    /\ at[t] = "getwork" /\ ~ctxDown /\ worksub[t] # <<>>
    /\ work' = [work EXCEPT ![t] = Head(worksub[t])]
    /\ worksub' = [worksub EXCEPT ![t] = Tail(@)]
    /\ reset' = [reset EXCEPT ![t] = TRUE]
    /\ at' = [at EXCEPT ![t] = "getblock"]
    /\ UNCHANGED <<main, toMiner, toMain, pipeOpen, blocks, makeExit, block,
                   age, share>>

NoWorkNeeded(t) ==
    /\ at[t] = "getwork" /\ (worksub[t] = <<>> \/ ctxDown) /\ work[t] >= block[t]
    /\ at' = [at EXCEPT ![t] = "getblock"]
    /\ UNCHANGED <<main, queues, block, work, reset, age, share>>

\* "get work" that goes on to mine after a block.
ReceiveBlockOnce(t) ==
    /\ at[t] = "getblock" /\ ~ctxDown /\ blocks[t] # <<>>
    /\ block' = [block EXCEPT ![t] = Head(blocks[t])]
    /\ blocks' = [blocks EXCEPT ![t] = Tail(@)]
    /\ at' = [at EXCEPT ![t] = "mine"]
    /\ UNCHANGED <<main, toMiner, toMain, pipeOpen, worksub, makeExit, work,
                   reset, age, share>>

\* ... then a block, if there is one or the work is ahead of the block; after
\* a block the loop starts over.
ReceiveBlock(t) ==
    /\ at[t] = "getblock" /\ ~ctxDown /\ blocks[t] # <<>>
    /\ block' = [block EXCEPT ![t] = Head(blocks[t])]
    /\ blocks' = [blocks EXCEPT ![t] = Tail(@)]
    /\ at' = [at EXCEPT ![t] = "getwork"]
    /\ UNCHANGED <<main, toMiner, toMain, pipeOpen, worksub, makeExit, work,
                   reset, age, share>>

NoBlockNeeded(t) ==
    /\ at[t] = "getblock" /\ (blocks[t] = <<>> \/ ctxDown) /\ work[t] <= block[t]
    /\ at' = [at EXCEPT ![t] = "mine"]
    /\ UNCHANGED <<main, queues, block, work, reset, age, share>>

\* A receive fails because the context is down: "run" becomes false.
ReceiveFails(t) ==
    /\ ctxDown
    /\ \/ at[t] = "getwork" /\ work[t] < block[t]
       \/ at[t] = "getblock" /\ work[t] > block[t]
    /\ at' = [at EXCEPT ![t] = "closing"]
    /\ UNCHANGED <<main, queues, block, work, reset, age, share>>

\* The rest of the iteration.  A share carries the height of the block and the
\* merkle root of the work, and comes from a hash found since the last reset.
Mine(t) ==
    /\ at[t] = "mine"
    /\ age' = [age EXCEPT ![t] = IF reset[t] THEN 0 ELSE IF @ < Old THEN @ + 1 ELSE Old]
    /\ share' \in {share,
                   [share EXCEPT ![t] = IF age'[t] = Old THEN <<work[t], block[t]>>
                                                         ELSE NoShare]}
    /\ at' = [at EXCEPT ![t] = IF makeExit[t] THEN "closing" ELSE "top"]
    /\ UNCHANGED <<main, queues, block, work, reset>>

\* Mining closes its sockets, tells the main thread, and its locals are gone.
Close(t) ==
    /\ at[t] = "closing"
    /\ toMain' = [toMain EXCEPT ![t] = IF ctxDown THEN @ ELSE @ + 1]
    /\ at' = [at EXCEPT ![t] = "done"]
    /\ blocks' = [blocks EXCEPT ![t] = <<>>]
    /\ worksub' = [worksub EXCEPT ![t] = <<>>]
    /\ block' = [block EXCEPT ![t] = 1] /\ work' = [work EXCEPT ![t] = 0]
    /\ reset' = [reset EXCEPT ![t] = FALSE] /\ age' = [age EXCEPT ![t] = 0]
    /\ share' = [share EXCEPT ![t] = NoShare]
    /\ UNCHANGED <<main, toMiner, pipeOpen, makeExit>>

MinerNext(t) ==
    \/ Start(t) \/ Enter(t) \/ Top(t) \/ Resume(t)
    \/ ReceiveWork(t) \/ NoWorkNeeded(t) \/ ReceiveBlock(t) \/ NoBlockNeeded(t)
    \/ ReceiveFails(t) \/ Mine(t) \/ Close(t)

Next == MainNext \/ \E t \in Threads : MinerNext(t)

Spec == Init /\ [][Next]_vars

\* Every thread runs on, and so does the main thread where it does not wait
\* for the pool: an endless loop or a timeout never holds it for good.
FairSpec ==
    /\ Spec
    /\ \A t \in Threads : WF_vars(MinerNext(t))
    /\ WF_vars(Fork \/ Greet \/ Connected \/ MakeExit \/ Stopped \/ Timeout \/ Rebuilt
               \/ Leave \/ Shutdown)

-----------------------------------------------------------------------------
\* Type invariant.
TypeOK ==
    /\ mpc \in {"fork", "greet", "idle", "connected", "session", "stop",
                "rebuilt", "leave", "delete", "shutdown", "term"}
    /\ device \in Devices /\ build \in 1 .. MaxBuilds
    /\ caller \in {"main", "reply", "signal"}
    /\ {mPaused, gExit, ctxDown} \subseteq BOOLEAN
    /\ {gHeight, notified, gWork} \subseteq Heights \union {0}
    /\ at \in [Threads -> {"none", "starting", "ready", "top", "paused",
                           "getwork", "getblock", "mine", "closing", "done"}]
    /\ {toMiner, toMain} \subseteq [Threads -> Nat]
    /\ pipeOpen \subseteq Threads
    /\ {blocks, worksub} \subseteq [Threads -> Seq(Heights)]
    /\ {block, work} \subseteq [Threads -> 0 .. MaxHeight]
    /\ {reset, makeExit} \subseteq [Threads -> BOOLEAN]
    /\ age \in [Threads -> 0 .. Old]

\* When no message is left in its pipe, a worker is paused exactly if the main
\* thread thinks so: no start, lost connection or rebuild puts the two out of
\* step, however many messages pile up while the worker is busy or blocked.
PauseAgrees ==
    mpc \in {"idle", "connected", "session", "stop", "leave"} /\ ~ctxDown =>
        \A t \in Workers :
            toMiner[t] = 0 /\ at[t] \notin {"closing", "done"} =>
                (at[t] = "paused" <=> mPaused)

\* A share names the height of its block: the work that it was found for is
\* that of the block, although work and blocks come through different sockets
\* in any order, and an iteration may start with an old work.
ShareHeightIsWorkHeight ==
    \A t \in Threads : share[t] # NoShare => share[t][1] = share[t][2]

\* "Stop and destroy all workers" before the kernels are built anew: no thread
\* of an earlier build is still alive.
OldMinersGone == \A t \in Threads : t[2] < build => at[t] \in {"none", "done"}

\* When the session lasts and nothing new arrives, every miner ends up with the
\* last block and the last work, and does not wait for more.
MinersFollowPool ==
    <>[](mpc = "session" /\ gWork = notified /\ notified > 0) =>
        <>[](\A t \in Workers : work[t] = gWork /\ block[t] = notified)

\* Once the program gives up it runs to its end, "xpmclient finished": every
\* call on its way returns, zmq_ctx_term the last of them.
ExitFinishes == (mpc = "delete") ~> TermReturns

=============================================================================
