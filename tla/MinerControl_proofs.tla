------------------------ MODULE MinerControl_proofs ------------------------
(***************************************************************************)
(* The main thread and the miner threads agree on who is paused, and a     *)
(* share names the height of its work, for any number of devices, rebuilds,*)
(* sessions, blocks and works.                                             *)
(***************************************************************************)
EXTENDS MinerControl, SequenceTheorems, TLAPS

(***************************************************************************)
(* The type invariant, its parts apart, with what it leaves out: a rebuild *)
(* begins only below the bound, and what a share is.                       *)
(***************************************************************************)
MainTyped ==
    /\ mpc \in {"fork", "greet", "idle", "connected", "session", "stop",
                "rebuilt", "leave", "delete", "shutdown", "term"}
    /\ device \in Devices /\ build \in 1 .. MaxBuilds
    /\ mpc = "stop" => build < MaxBuilds
    /\ caller \in {"main", "reply", "signal"}
    /\ mPaused \in BOOLEAN /\ gExit \in BOOLEAN /\ ctxDown \in BOOLEAN
    /\ gHeight \in Heights \union {0} /\ notified \in Heights \union {0}
    /\ gWork \in Heights \union {0}

QueuesTyped ==
    /\ toMiner \in [Threads -> Nat] /\ toMain \in [Threads -> Nat]
    /\ pipeOpen \subseteq Threads
    /\ blocks \in [Threads -> Seq(Heights)]
    /\ worksub \in [Threads -> Seq(Heights)]
    /\ makeExit \in [Threads -> BOOLEAN]

MinersTyped ==
    /\ at \in [Threads -> {"none", "starting", "ready", "top", "paused",
                           "getwork", "getblock", "mine", "closing", "done"}]
    /\ block \in [Threads -> 0 .. MaxHeight]
    /\ work \in [Threads -> 0 .. MaxHeight]
    /\ reset \in [Threads -> BOOLEAN]
    /\ age \in [Threads -> 0 .. Old]
    /\ share \in [Threads -> (0 .. MaxHeight) \X (0 .. MaxHeight)]

TypeInv == MainTyped /\ QueuesTyped /\ MinersTyped

LEMMA TypeInvImplies == TypeInv => TypeOK
BY DEF TypeInv, MainTyped, QueuesTyped, MinersTyped, TypeOK

LEMMA ConstantTypes ==
    /\ NumDevices \in Nat \ {0} /\ MaxBuilds \in Nat \ {0}
    /\ MaxHeight \in Nat \ {0}
    /\ 0 \in 0 .. MaxHeight /\ 1 \in 0 .. MaxHeight
    /\ Heights \subseteq 0 .. MaxHeight
BY ControlAssumption DEF Heights

LEMMA WorkerIsThread ==
  ASSUME TypeInv
  PROVE  /\ Worker \in Threads /\ Workers \subseteq Threads
         /\ Worker[1] = device /\ Worker[2] = build
BY DEF TypeInv, MainTyped, Worker, Workers, Threads

(***************************************************************************)
(* The actions of the main thread keep the types.                          *)
(***************************************************************************)
LEMMA PublishTyped ==
  ASSUME TypeInv, NEW h \in Heights, PublishBlock(h)
  PROVE  /\ gHeight' \in Heights \union {0}
         /\ notified' \in Heights \union {0}
         /\ blocks' \in [Threads -> Seq(Heights)]
BY DEF TypeInv, QueuesTyped, PublishBlock

LEMMA AfterStopTyped ==
  ASSUME TypeInv, AfterStop, mpc \in {"stop", "delete"},
         UNCHANGED <<caller, gExit, heights, ctxDown>>
  PROVE  MainTyped'
<1>1. /\ device \in 1 .. NumDevices /\ NumDevices \in Nat \ {0}
      /\ build \in 1 .. MaxBuilds /\ MaxBuilds \in Nat
      /\ mpc = "stop" => build < MaxBuilds
  BY ConstantTypes DEF TypeInv, MainTyped, Devices
<1>2. CASE device < NumDevices
  BY <1>1, <1>2 DEF AfterStop, TypeInv, MainTyped, Devices, heights
<1>3. CASE ~(device < NumDevices)
  <2>1. device' = 1 /\ 1 \in Devices
    BY <1>1, <1>3 DEF AfterStop, Devices
  <2>2. CASE mpc = "stop"
    BY <1>1, <1>3, <2>1, <2>2 DEF AfterStop, TypeInv, MainTyped, heights
  <2>3. CASE mpc = "delete"
    BY <1>1, <1>3, <2>1, <2>3 DEF AfterStop, TypeInv, MainTyped, heights
  <2>4. QED
    BY <2>2, <2>3
<1>4. QED
  BY <1>2, <1>3

LEMMA MainKeepsTypes ==
  ASSUME TypeInv, MainNext
  PROVE  TypeInv'
<1>1. /\ Worker \in Threads /\ Workers \subseteq Threads
  BY WorkerIsThread
<1>2. /\ device \in 1 .. NumDevices /\ NumDevices \in Nat \ {0}
      /\ 1 \in Devices
  BY ConstantTypes DEF TypeInv, MainTyped, Devices
<1> USE DEF TypeInv
<1>3. ASSUME Toggle PROVE toMiner' \in [Threads -> Nat] /\ mPaused' \in BOOLEAN
  BY <1>3 DEF Toggle, QueuesTyped, MainTyped
<1>4. CASE Fork
  BY <1>1, <1>4 DEF Fork, MainTyped, QueuesTyped, MinersTyped, heights
<1>5. CASE Greet
  <2>1. toMain[Worker] - 1 \in Nat
    BY <1>1, <1>5 DEF Greet, QueuesTyped
  <2>2. toMiner[Worker] + 1 \in Nat
    BY <1>1, <1>5 DEF Greet, QueuesTyped
  <2>3. /\ toMain' = [toMain EXCEPT ![Worker] = toMain[Worker] - 1]
        /\ toMiner' = [toMiner EXCEPT ![Worker] = toMiner[Worker] + 1]
        /\ UNCHANGED <<pipeOpen, blocks, worksub, makeExit, miner>>
    BY <1>5 DEF Greet
  <2>4. QueuesTyped'
    BY <1>1, <2>1, <2>2, <2>3 DEF QueuesTyped
  <2>5. MinersTyped'
    BY <2>3 DEF MinersTyped, miner
  <2>6. MainTyped'
    BY <1>2, <1>5 DEF Greet, MainTyped, heights, Devices
  <2>7. QED
    BY <2>4, <2>5, <2>6
<1>6. ASSUME NEW h \in Heights \union {0}, StartSession(h) PROVE TypeInv'
  <2>1. CASE h > 0
    <3>1. h \in Heights
      BY <2>1
    <3>2. PublishBlock(h)
      BY <1>6, <2>1 DEF StartSession
    <3>3. QED
      BY <1>6, <3>1, <3>2, PublishTyped
         DEF StartSession, MainTyped, QueuesTyped, MinersTyped, miner
  <2>2. CASE ~(h > 0)
    BY <1>6, <2>2
       DEF StartSession, MainTyped, QueuesTyped, MinersTyped, miner
  <2>3. QED
    BY <2>1, <2>2
<1>7. CASE Connected
  BY <1>3, <1>7
     DEF Connected, MainTyped, QueuesTyped, MinersTyped, heights, miner
<1>8. ASSUME NEW h \in Heights, NotifyBlock(h) PROVE TypeInv'
  BY <1>8, PublishTyped
     DEF NotifyBlock, MainTyped, QueuesTyped, MinersTyped, miner
<1>9. ASSUME NEW h \in Heights, NEW from \in {"reply", "signal"},
             NEW rebuild \in BOOLEAN, TakeWork(h, from, rebuild)
      PROVE  TypeInv'
  <2>1. worksub' \in [Threads -> Seq(Heights)]
    BY <1>9 DEF TakeWork, QueuesTyped
  <2>2. MainTyped'
    BY <1>9 DEF TakeWork, MainTyped
  <2>3. QED
    BY <1>9, <2>1, <2>2 DEF TakeWork, QueuesTyped, MinersTyped, miner
<1>10. CASE MakeExit
  BY <1>10 DEF MakeExit, main, heights, MainTyped, QueuesTyped, MinersTyped,
       miner
<1>11. CASE Stopped
  <2>1. MainTyped'
    BY <1>11, AfterStopTyped DEF Stopped
  <2>2. QED
    BY <1>1, <1>11, <2>1 DEF Stopped, QueuesTyped, MinersTyped, miner
<1>12. CASE Timeout
  <2>1. MainTyped'
    BY <1>12, AfterStopTyped DEF Timeout
  <2>2. QED
    BY <1>12, <2>1 DEF Timeout, QueuesTyped, MinersTyped, miner, queues
<1>13. CASE Rebuilt
  BY <1>3, <1>13
     DEF Rebuilt, MainTyped, QueuesTyped, MinersTyped, heights, miner
<1>14. CASE EndSession
  BY <1>14
     DEF EndSession, MainTyped, QueuesTyped, MinersTyped, heights, queues,
         miner
<1>15. CASE Leave
  BY <1>3, <1>15
     DEF Leave, MainTyped, QueuesTyped, MinersTyped, heights, miner
<1>16. CASE Shutdown
  BY <1>16
     DEF Shutdown, MainTyped, QueuesTyped, MinersTyped, heights, queues, miner
<1>17. QED
  BY <1>4, <1>5, <1>6, <1>7, <1>8, <1>9, <1>10, <1>11, <1>12, <1>13, <1>14,
     <1>15, <1>16 DEF MainNext

(***************************************************************************)
(* The actions of a miner thread keep the types.                           *)
(***************************************************************************)
LEMMA MinerKeepsTypes ==
  ASSUME TypeInv, NEW t \in Threads, MinerNext(t)
  PROVE  TypeInv'
<1> USE DEF TypeInv
<1>1. /\ block[t] \in 0 .. MaxHeight /\ work[t] \in 0 .. MaxHeight
      /\ toMiner[t] \in Nat /\ toMain[t] \in Nat
      /\ blocks[t] \in Seq(Heights) /\ worksub[t] \in Seq(Heights)
  BY DEF QueuesTyped, MinersTyped
<1>2. MainTyped'
  <2>1. UNCHANGED main
    BY DEF MinerNext, Start, Enter, Top, Resume, ReceiveWork, NoWorkNeeded,
       ReceiveBlock, NoBlockNeeded, ReceiveFails, Mine, Close
  <2>2. QED
    BY <2>1 DEF main, heights, MainTyped
<1>3. CASE Start(t)
  BY <1>1, <1>2, <1>3 DEF Start, QueuesTyped, MinersTyped
<1>4. CASE Enter(t)
  BY <1>2, <1>4 DEF Enter, queues, QueuesTyped, MinersTyped
<1>5. CASE Top(t)
  <2>1. toMiner[t] > 0 => toMiner[t] - 1 \in Nat
    BY <1>1
  <2>2. toMiner' \in [Threads -> Nat]
    BY <1>5, <2>1 DEF Top, QueuesTyped
  <2>3. QueuesTyped'
    BY <1>5, <2>2 DEF Top, QueuesTyped
  <2>4. MinersTyped'
    BY <1>5, ConstantTypes DEF Top, MinersTyped, NoShare
  <2>5. QED
    BY <1>2, <2>3, <2>4
<1>6. CASE Resume(t)
  <2>1. toMiner[t] > 0 => toMiner[t] - 1 \in Nat
    BY <1>1
  <2>2. toMiner' \in [Threads -> Nat]
    BY <1>6, <2>1 DEF Resume, QueuesTyped
  <2>3. QED
    BY <1>2, <1>6, <2>2 DEF Resume, QueuesTyped, MinersTyped
<1>7. CASE ReceiveWork(t)
  <2>1. Head(worksub[t]) \in 0 .. MaxHeight /\ Tail(worksub[t]) \in Seq(Heights)
    BY <1>1, <1>7, ConstantTypes, HeadTailProperties DEF ReceiveWork
  <2>2. QED
    BY <1>2, <1>7, <2>1 DEF ReceiveWork, QueuesTyped, MinersTyped
<1>8. CASE NoWorkNeeded(t)
  BY <1>2, <1>8 DEF NoWorkNeeded, queues, QueuesTyped, MinersTyped
<1>9. CASE ReceiveBlock(t)
  <2>1. Head(blocks[t]) \in 0 .. MaxHeight /\ Tail(blocks[t]) \in Seq(Heights)
    BY <1>1, <1>9, ConstantTypes, HeadTailProperties DEF ReceiveBlock
  <2>2. QED
    BY <1>2, <1>9, <2>1 DEF ReceiveBlock, QueuesTyped, MinersTyped
<1>10. CASE NoBlockNeeded(t)
  BY <1>2, <1>10 DEF NoBlockNeeded, queues, QueuesTyped, MinersTyped
<1>11. CASE ReceiveFails(t)
  BY <1>2, <1>11 DEF ReceiveFails, queues, QueuesTyped, MinersTyped
<1>12. CASE Mine(t)
  <2>1. age' \in [Threads -> 0 .. Old] /\ at' = [at EXCEPT ![t] = at'[t]]
        /\ at'[t] \in {"closing", "top"}
    BY <1>12 DEF Mine, MinersTyped, Old
  <2>2. share' \in [Threads -> (0 .. MaxHeight) \X (0 .. MaxHeight)]
    <3>1. PICK v \in {<<work[t], block[t]>>, NoShare} :
            share' \in {share, [share EXCEPT ![t] = v]}
      BY <1>12 DEF Mine
    <3>2. v \in (0 .. MaxHeight) \X (0 .. MaxHeight)
      BY <1>1, <3>1, ConstantTypes DEF NoShare
    <3>3. QED
      BY <3>1, <3>2 DEF MinersTyped
  <2>3. QED
    BY <1>2, <1>12, <2>1, <2>2 DEF Mine, queues, QueuesTyped, MinersTyped
<1>13. CASE Close(t)
  <2>1. QueuesTyped'
    BY <1>1, <1>13 DEF Close, QueuesTyped
  <2>2. MinersTyped'
    BY <1>13, ConstantTypes DEF Close, MinersTyped, NoShare, Old
  <2>3. QED
    BY <1>2, <2>1, <2>2
<1>14. QED
  BY <1>3, <1>4, <1>5, <1>6, <1>7, <1>8, <1>9, <1>10, <1>11, <1>12, <1>13
     DEF MinerNext

LEMMA TypeInvInductive == Spec => []TypeInv
<1>1. Init => TypeInv
  <2> SUFFICES ASSUME Init PROVE TypeInv
    OBVIOUS
  <2>1. MainTyped
    <3>1. 1 \in 1 .. NumDevices /\ 1 \in 1 .. MaxBuilds
      BY ConstantTypes
    <3>2. QED
      BY <3>1 DEF Init, MainTyped, Devices
  <2>2. QueuesTyped
    BY DEF Init, QueuesTyped
  <2>3. MinersTyped
    BY ConstantTypes DEF Init, MinersTyped, NoShare, Old
  <2>4. QED
    BY <2>1, <2>2, <2>3 DEF TypeInv
<1>2. TypeInv /\ [Next]_vars => TypeInv'
  <2> SUFFICES ASSUME TypeInv, [Next]_vars PROVE TypeInv'
    OBVIOUS
  <2>1. CASE UNCHANGED vars
    BY <2>1 DEF vars, main, queues, miner, heights, TypeInv, MainTyped,
         QueuesTyped, MinersTyped
  <2>2. CASE Next
    BY <2>2, MainKeepsTypes, MinerKeepsTypes DEF Next
  <2>3. QED
    BY <2>1, <2>2
<1>3. QED
  BY <1>1, <1>2, PTL DEF Spec

THEOREM ControlTypeCorrect == Spec => []TypeOK
<1>1. QED
  BY TypeInvInductive, TypeInvImplies, PTL

(***************************************************************************)
(* Shares.  Work that has just been received may be old, but then the      *)
(* iteration sends no share; in the others the loop "get work" leaves the  *)
(* work and the block at one height.                                       *)
(***************************************************************************)
WorkMeetsBlock == \A t \in Threads : ~reset[t] =>
    /\ at[t] = "getblock" => work[t] >= block[t]
    /\ at[t] = "mine" => work[t] = block[t]

LEMMA MainKeepsShares ==
  ASSUME TypeInv, WorkMeetsBlock, ShareHeightIsWorkHeight, MainNext
  PROVE  WorkMeetsBlock' /\ ShareHeightIsWorkHeight'
<1>1. UNCHANGED <<block, work, reset, share>>
  BY DEF MainNext, Fork, Greet, StartSession, Connected, NotifyBlock,
     TakeWork, MakeExit, Stopped, Timeout, Rebuilt, EndSession, Leave,
     Shutdown, miner
<1>2. UNCHANGED at \/ at' = [at EXCEPT ![Worker] = "starting"]
  BY DEF MainNext, Fork, Greet, StartSession, Connected, NotifyBlock,
     TakeWork, MakeExit, Stopped, Timeout, Rebuilt, EndSession, Leave,
     Shutdown, miner
<1>3. \A t \in Threads : at'[t] \in {at[t], "starting"}
  BY <1>2 DEF TypeInv, MinersTyped
<1>4. QED
  BY <1>1, <1>3 DEF WorkMeetsBlock, ShareHeightIsWorkHeight

LEMMA MinerKeepsShares ==
  ASSUME TypeInv, WorkMeetsBlock, ShareHeightIsWorkHeight,
         NEW t \in Threads, MinerNext(t)
  PROVE  WorkMeetsBlock' /\ ShareHeightIsWorkHeight'
<1>1. MinersTyped /\ work[t] \in Int /\ block[t] \in Int
  BY DEF TypeInv, MinersTyped
<1>2. CASE Start(t) \/ Enter(t) \/ Resume(t) \/ ReceiveFails(t)
  BY <1>1, <1>2 DEF Start, Enter, Resume, ReceiveFails, MinersTyped, queues,
       WorkMeetsBlock, ShareHeightIsWorkHeight
<1>3. CASE Top(t)
  BY <1>1, <1>3 DEF Top, MinersTyped, WorkMeetsBlock, ShareHeightIsWorkHeight
<1>4. CASE ReceiveWork(t)
  BY <1>1, <1>4 DEF ReceiveWork, MinersTyped, WorkMeetsBlock,
       ShareHeightIsWorkHeight
<1>5. CASE NoWorkNeeded(t)
  BY <1>1, <1>5 DEF NoWorkNeeded, MinersTyped, WorkMeetsBlock,
       ShareHeightIsWorkHeight
<1>6. CASE ReceiveBlock(t)
  BY <1>1, <1>6 DEF ReceiveBlock, MinersTyped, WorkMeetsBlock,
       ShareHeightIsWorkHeight
<1>7. CASE NoBlockNeeded(t)
  BY <1>1, <1>7 DEF NoBlockNeeded, MinersTyped, WorkMeetsBlock,
       ShareHeightIsWorkHeight
<1>8. CASE Mine(t)
  <2>1. WorkMeetsBlock'
    BY <1>1, <1>8 DEF Mine, MinersTyped, WorkMeetsBlock
  <2>2. age'[t] = Old => work[t] = block[t]
    BY <1>1, <1>8 DEF Mine, MinersTyped, WorkMeetsBlock, Old
  <2>3. \A s \in Threads : share'[s] \in {share[s], NoShare, <<work[t], block[t]>>}
    BY <1>1, <1>8 DEF Mine, MinersTyped
  <2>4. \A s \in Threads :
          share'[s] \in {share[s], NoShare} \/ work[t] = block[t]
    BY <1>1, <1>8, <2>2 DEF Mine, MinersTyped
  <2>5. QED
    BY <2>1, <2>3, <2>4 DEF ShareHeightIsWorkHeight, NoShare
<1>9. CASE Close(t)
  BY <1>1, <1>9 DEF Close, MinersTyped, WorkMeetsBlock,
       ShareHeightIsWorkHeight
<1>10. QED
  BY <1>2, <1>3, <1>4, <1>5, <1>6, <1>7, <1>8, <1>9 DEF MinerNext

(***************************************************************************)
(* A share names the height of its work, however work and blocks arrive.   *)
(***************************************************************************)
THEOREM ShareHeights == Spec => []ShareHeightIsWorkHeight
<1> DEFINE ShareInv == WorkMeetsBlock /\ ShareHeightIsWorkHeight
<1>1. Init => ShareInv
  BY DEF Init, WorkMeetsBlock, ShareHeightIsWorkHeight
<1>2. TypeInv /\ ShareInv /\ [Next]_vars => ShareInv'
  <2> SUFFICES ASSUME TypeInv, ShareInv, [Next]_vars PROVE ShareInv'
    OBVIOUS
  <2>1. CASE UNCHANGED vars
    BY <2>1 DEF vars, miner, WorkMeetsBlock, ShareHeightIsWorkHeight
  <2>2. CASE Next
    BY <2>2, MainKeepsShares, MinerKeepsShares DEF Next
  <2>3. QED
    BY <2>1, <2>2
<1>3. QED
  BY <1>1, <1>2, TypeInvInductive, PTL DEF Spec

(***************************************************************************)
(* Pauses.  A worker is greeted once the main thread answered its first    *)
(* message; from then on the messages left in its pipe, and one more if it *)
(* is paused, are odd in number exactly if the main thread thinks that it  *)
(* is paused.  Threads not greeted yet have no messages and do nothing.    *)
(***************************************************************************)
Greeted(t) ==
    t[2] = build /\ (mpc \in {"fork", "greet"} => t[1] < device)

Ungreeted(t) ==
    \/ t[2] > build
    \/ t[2] = build /\ mpc \in {"fork", "greet"} /\ t[1] >= device

Odd(n) == n % 2 = 1
Pending(t) == IF at[t] = "paused" THEN toMiner[t] + 1 ELSE toMiner[t]

InStep == \A t \in Threads : Greeted(t) => (Odd(Pending(t)) <=> mPaused)
Fresh == \A t \in Threads : Ungreeted(t) =>
    toMiner[t] = 0 /\ at[t] \in {"none", "starting", "ready"}
BuiltPaused == mpc \in {"fork", "greet"} => mPaused

PauseInv ==
    /\ ctxDown => mpc = "term"
    /\ ~ctxDown => InStep /\ Fresh /\ BuiltPaused

LEMMA Parity ==
  ASSUME NEW n \in Nat
  PROVE  /\ Odd(n + 1) <=> ~Odd(n)
         /\ n >= 2 => (Odd(n - 2) <=> Odd(n))
BY DEF Odd

LEMMA ThreadIsPair ==
  ASSUME TypeInv, NEW t \in Threads
  PROVE  /\ t[1] \in 1 .. NumDevices /\ t[2] \in 1 .. MaxBuilds
         /\ t[1] = device /\ t[2] = build => t = Worker
BY DEF Threads, Devices, Worker

(***************************************************************************)
(* Toggle turns over what the main thread thinks and every worker's        *)
(* parity.                                                                 *)
(***************************************************************************)
LEMMA ToggleKeepsStep ==
  ASSUME TypeInv, InStep, Fresh, Toggle, UNCHANGED <<at, build>>,
         mpc \notin {"fork", "greet"}, mpc' \notin {"fork", "greet"}
  PROVE  InStep' /\ Fresh' /\ BuiltPaused'
<1>1. \A t \in Threads :
        /\ toMiner[t] \in Nat
        /\ t[2] = build => toMiner'[t] = toMiner[t] + 1
        /\ t[2] # build => toMiner'[t] = toMiner[t]
  BY DEF Toggle, Workers, TypeInv, QueuesTyped
<1>2. mPaused' = ~mPaused
  BY DEF Toggle
<1>3. Fresh'
  BY <1>1, ThreadIsPair DEF Fresh, Ungreeted, TypeInv, MainTyped
<1>4. InStep'
  <2> SUFFICES ASSUME NEW t \in Threads, t[2] = build
               PROVE  Odd(Pending(t)') <=> ~mPaused
    BY <1>2 DEF InStep, Greeted
  <2>1. Pending(t) \in Nat /\ Pending(t)' = Pending(t) + 1
    BY <1>1 DEF Pending
  <2>2. Odd(Pending(t)) <=> mPaused
    BY DEF InStep, Greeted
  <2>3. QED
    BY <2>1, <2>2, Parity
<1>5. QED
  BY <1>3, <1>4 DEF BuiltPaused

(***************************************************************************)
(* After the last worker was stopped for a rebuild, nobody is greeted.     *)
(***************************************************************************)
LEMMA AfterStopKeepsStep ==
  ASSUME TypeInv, InStep, Fresh, AfterStop, mpc \in {"stop", "delete"},
         UNCHANGED <<at, toMiner>>
  PROVE  InStep' /\ Fresh' /\ BuiltPaused'
<1>1. build \in Nat
  BY DEF TypeInv, MainTyped
<1>2. CASE mpc' = "fork"
  <2>1. mpc = "stop" /\ device' = 1 /\ build' = build + 1 /\ mPaused'
    BY <1>2 DEF AfterStop
  <2>2. \A t \in Threads : ~Greeted(t)'
    BY <1>2, <2>1, ThreadIsPair DEF Greeted
  <2>3. \A t \in Threads : Ungreeted(t)' => Ungreeted(t)
    BY <1>1, <2>1, ThreadIsPair DEF Ungreeted
  <2>4. QED
    BY <2>1, <2>2, <2>3 DEF InStep, Fresh, BuiltPaused
<1>3. CASE mpc' # "fork"
  <2>1. build' = build /\ mPaused' = mPaused /\ mpc' \notin {"fork", "greet"}
    BY <1>3 DEF AfterStop
  <2>2. QED
    BY <2>1 DEF InStep, Fresh, BuiltPaused, Greeted, Ungreeted, Pending
<1>4. QED
  BY <1>2, <1>3

LEMMA MainKeepsPause ==
  ASSUME TypeInv, PauseInv, MainNext
  PROVE  PauseInv'
<1>1. CASE ctxDown
  BY <1>1 DEF PauseInv, MainNext, Fork, Greet, StartSession, Connected,
       NotifyBlock, TakeWork, MakeExit, Stopped, Timeout, Rebuilt,
       EndSession, Leave, Shutdown, main
<1>2. CASE ~ctxDown
  <2>1. InStep /\ Fresh /\ BuiltPaused
    BY <1>2 DEF PauseInv
  <2>2. Worker \in Threads /\ Worker[1] = device /\ Worker[2] = build
    BY WorkerIsThread
  <2>3. device \in Nat /\ build \in Nat
    BY DEF TypeInv, MainTyped, Devices
  <2>4. /\ at \in [Threads -> {"none", "starting", "ready", "top", "paused",
                   "getwork", "getblock", "mine", "closing", "done"}]
        /\ toMiner \in [Threads -> Nat]
    BY DEF TypeInv, MinersTyped, QueuesTyped
  <2>5. CASE Fork
    <3>1. mpc = "fork" /\ mpc' = "greet"
          /\ at' = [at EXCEPT ![Worker] = "starting"]
          /\ UNCHANGED <<device, build, mPaused, toMiner, ctxDown>>
      BY <2>5 DEF Fork
    <3>2. ~Greeted(Worker)
      BY <2>2, <2>3, <3>1 DEF Greeted
    <3>3. \A t \in Threads : Greeted(t)' => Greeted(t) /\ Pending(t)' = Pending(t)
      BY <2>4, <3>1, <3>2 DEF Greeted, Pending
    <3>4. Fresh'
      BY <2>1, <2>4, <3>1 DEF Fresh, Ungreeted
    <3>5. QED
      BY <1>2, <2>1, <3>1, <3>3, <3>4 DEF InStep, BuiltPaused, PauseInv
  <2>6. CASE Greet
    <3>1. mpc = "greet" /\ toMiner' = [toMiner EXCEPT ![Worker] = @ + 1]
          /\ UNCHANGED <<build, mPaused, at, ctxDown>>
      BY <2>6 DEF Greet, miner
    <3>2. mPaused /\ toMiner[Worker] = 0 /\ at[Worker] # "paused"
      BY <2>1, <2>2, <2>3, <3>1 DEF BuiltPaused, Fresh, Ungreeted
    <3>3. \A t \in Threads : t = Worker => Odd(Pending(t)')
      BY <2>2, <2>4, <3>1, <3>2 DEF Pending, Odd
    <3>4. \A t \in Threads : t # Worker => Pending(t)' = Pending(t)
      BY <2>4, <3>1 DEF Pending
    <3>5. \A t \in Threads : Greeted(t)' => t = Worker \/ Greeted(t)
      <4>1. CASE device < NumDevices
        BY <2>3, <2>6, <3>1, <4>1, ThreadIsPair DEF Greet, Greeted
      <4>2. CASE ~(device < NumDevices)
        BY <2>3, <2>6, <3>1, <4>2, ThreadIsPair, ConstantTypes DEF Greet, Greeted
      <4>3. QED
        BY <4>1, <4>2
    <3>6. \A t \in Threads : Ungreeted(t)' => t # Worker /\ Ungreeted(t)
      BY <2>2, <2>3, <2>6, <3>1, ThreadIsPair DEF Greet, Ungreeted
    <3>7. InStep'
      BY <2>1, <3>1, <3>2, <3>3, <3>4, <3>5 DEF InStep
    <3>8. Fresh' /\ BuiltPaused'
      BY <2>1, <2>4, <3>1, <3>2, <3>6 DEF Fresh, BuiltPaused
    <3>9. QED
      BY <1>2, <3>1, <3>7, <3>8 DEF PauseInv
  <2>7. CASE Connected \/ Rebuilt \/ Leave
    <3>1. /\ Toggle /\ UNCHANGED <<at, build, ctxDown>>
          /\ mpc \notin {"fork", "greet"} /\ mpc' \notin {"fork", "greet"}
      BY <2>7 DEF Connected, Rebuilt, Leave, miner
    <3>2. QED
      BY <1>2, <2>1, <3>1, ToggleKeepsStep DEF PauseInv
  <2>8. CASE Stopped \/ Timeout
    <3>1. /\ AfterStop /\ UNCHANGED <<at, toMiner, ctxDown>>
          /\ mpc \in {"stop", "delete"}
      BY <2>8 DEF Stopped, Timeout, miner, queues
    <3>2. QED
      BY <1>2, <2>1, <3>1, AfterStopKeepsStep DEF PauseInv
  <2>9. CASE Shutdown
    BY <2>9 DEF Shutdown, PauseInv
  <2>10. CASE \/ \E h \in Heights \union {0} : StartSession(h)
              \/ \E h \in Heights : NotifyBlock(h)
              \/ \E h \in Heights, from \in {"reply", "signal"},
                    rebuild \in BOOLEAN : TakeWork(h, from, rebuild)
              \/ MakeExit \/ EndSession
    <3>1. /\ UNCHANGED <<at, toMiner, build, mPaused, device, ctxDown>>
          /\ mpc' = mpc \/ (mpc \notin {"fork", "greet"} /\ mpc' \notin {"fork", "greet"})
      BY <2>10 DEF StartSession, NotifyBlock, TakeWork, MakeExit, EndSession,
           main, queues, miner
    <3>2. \A t \in Threads : /\ Greeted(t)' = Greeted(t)
                             /\ Ungreeted(t)' = Ungreeted(t)
                             /\ Pending(t)' = Pending(t)
      BY <3>1 DEF Greeted, Ungreeted, Pending
    <3>3. QED
      BY <1>2, <2>1, <3>1, <3>2 DEF InStep, Fresh, BuiltPaused, PauseInv
  <2>11. QED
    BY <2>5, <2>6, <2>7, <2>8, <2>9, <2>10 DEF MainNext
<1>3. QED
  BY <1>1, <1>2

(***************************************************************************)
(* A pause takes one message and a resume the next: the parity stays.      *)
(***************************************************************************)
LEMMA MinerKeepsPause ==
  ASSUME TypeInv, PauseInv, NEW t \in Threads, MinerNext(t)
  PROVE  PauseInv'
<1>1. UNCHANGED <<mpc, device, build, mPaused, ctxDown>>
  BY DEF MinerNext, Start, Enter, Top, Resume, ReceiveWork, NoWorkNeeded,
     ReceiveBlock, NoBlockNeeded, ReceiveFails, Mine, Close, main
<1>2. CASE ctxDown
  BY <1>1, <1>2 DEF PauseInv
<1>3. CASE ~ctxDown
  <2>1. InStep /\ Fresh /\ BuiltPaused
    BY <1>3 DEF PauseInv
  <2>2. /\ at \in [Threads -> {"none", "starting", "ready", "top", "paused",
                   "getwork", "getblock", "mine", "closing", "done"}]
        /\ toMiner \in [Threads -> Nat]
    BY DEF TypeInv, MinersTyped, QueuesTyped
  <2>3. /\ \A s \in Threads : s # t =>
             at'[s] = at[s] /\ toMiner'[s] = toMiner[s]
        /\ Ungreeted(t) => at'[t] \in {"none", "starting", "ready"} /\ toMiner'[t] = 0
        /\ Odd(Pending(t)') <=> Odd(Pending(t))
    <3>1. CASE Start(t)
      BY <2>1, <2>2, <3>1 DEF Start, Fresh, Pending
    <3>2. CASE Enter(t)
      BY <1>3, <2>1, <2>2, <3>2 DEF Enter, queues, Fresh, Pending
    <3>3. CASE Top(t)
      <4>1. Pending(t)' = Pending(t)
        BY <1>3, <2>2, <3>3 DEF Top, Pending
      <4>2. QED
        BY <2>1, <2>2, <3>3, <4>1 DEF Top, Fresh
    <3>4. CASE Resume(t)
      <4>1. Pending(t) \in Nat /\ Pending(t) >= 2 /\ Pending(t)' = Pending(t) - 2
        BY <1>3, <2>2, <3>4 DEF Resume, Pending
      <4>2. QED
        BY <1>3, <2>1, <2>2, <3>4, <4>1, Parity DEF Resume, Fresh
    <3>5. CASE \/ ReceiveWork(t) \/ NoWorkNeeded(t) \/ ReceiveBlock(t)
               \/ NoBlockNeeded(t) \/ ReceiveFails(t) \/ Mine(t) \/ Close(t)
      <4>1. /\ UNCHANGED toMiner
            /\ at[t] \notin {"none", "starting", "ready", "paused"}
            /\ \E v \in {"top", "getwork", "getblock", "mine", "closing", "done"} :
                 at' = [at EXCEPT ![t] = v]
        BY <3>5 DEF ReceiveWork, NoWorkNeeded, ReceiveBlock, NoBlockNeeded,
             ReceiveFails, Mine, Close, queues
      <4>2. QED
        BY <2>1, <2>2, <4>1 DEF Fresh, Pending
    <3>6. QED
      BY <3>1, <3>2, <3>3, <3>4, <3>5 DEF MinerNext
  <2>4. \A s \in Threads : /\ Greeted(s)' = Greeted(s)
                           /\ Ungreeted(s)' = Ungreeted(s)
                           /\ Odd(Pending(s)') <=> Odd(Pending(s))
    BY <1>1, <2>3 DEF Greeted, Ungreeted, Pending
  <2>5. Fresh'
    BY <2>1, <2>3, <2>4 DEF Fresh
  <2>6. InStep' /\ BuiltPaused'
    BY <1>1, <2>1, <2>4 DEF InStep, BuiltPaused
  <2>7. QED
    BY <1>1, <1>3, <2>5, <2>6 DEF PauseInv
<1>4. QED
  BY <1>2, <1>3

(***************************************************************************)
(* With no message left in its pipe, a worker is paused exactly if the     *)
(* main thread thinks so.                                                  *)
(***************************************************************************)
THEOREM PausesAgree == Spec => []PauseAgrees
<1>1. Init => PauseInv
  <2> SUFFICES ASSUME Init PROVE PauseInv
    OBVIOUS
  <2>1. \A t \in Threads : ~Greeted(t)
    BY DEF Init, Greeted, Threads, Devices
  <2>2. QED
    BY <2>1 DEF Init, PauseInv, InStep, Fresh, BuiltPaused
<1>2. TypeInv /\ PauseInv /\ [Next]_vars => PauseInv'
  <2> SUFFICES ASSUME TypeInv, PauseInv, [Next]_vars PROVE PauseInv'
    OBVIOUS
  <2>1. CASE UNCHANGED vars
    BY <2>1 DEF vars, main, queues, miner, PauseInv, InStep, Fresh,
         BuiltPaused, Greeted, Ungreeted, Pending
  <2>2. CASE Next
    BY <2>2, MainKeepsPause, MinerKeepsPause DEF Next
  <2>3. QED
    BY <2>1, <2>2
<1>3. PauseInv => PauseAgrees
  <2> SUFFICES ASSUME PauseInv, ~ctxDown,
                      mpc \notin {"fork", "greet"},
                      NEW t \in Workers, toMiner[t] = 0
               PROVE  at[t] = "paused" <=> mPaused
    BY DEF PauseAgrees
  <2>1. t \in Threads /\ Greeted(t) /\ InStep
    BY DEF Workers, Greeted, PauseInv
  <2>2. Odd(Pending(t)) <=> mPaused
    BY <2>1 DEF InStep
  <2>3. Odd(Pending(t)) <=> at[t] = "paused"
    BY DEF Pending, Odd
  <2>4. QED
    BY <2>2, <2>3
<1>4. QED
  BY <1>1, <1>2, <1>3, TypeInvInductive, PTL DEF Spec

=============================================================================
