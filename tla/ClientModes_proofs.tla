------------------------- MODULE ClientModes_proofs -------------------------
(***************************************************************************)
(* The two modes of the client: the accounting of shares and the end of a  *)
(* session in the pool mode, blocks and crashes in the solo mode, for any  *)
(* number of shares, sessions, templates and faults.                       *)
(***************************************************************************)
EXTENDS ClientModes, FiniteSetTheorems, TLAPS

-----------------------------------------------------------------------------
(***************************************************************************)
(* Pool mode.  Two invariants that do not depend on each other: SharesInv, *)
(* where only four actions touch the shares, and SessionInv, which follows *)
(* the flags through the steps of a round.                                 *)
(***************************************************************************)

(***************************************************************************)
(* Shares that wait are finitely many, and no more than were submitted.    *)
(***************************************************************************)
LEMMA WaitingFinite ==
  ASSUME NEW n \in Nat, NEW W \in SUBSET (1 .. n)
  PROVE  IsFiniteSet(W) /\ Cardinality(W) \in Nat
<1>1. IsFiniteSet(1 .. n)
  BY FS_Interval
<1>2. IsFiniteSet(W)
  BY <1>1, FS_Subset
<1>3. QED
  BY <1>2, FS_CardinalityType

(***************************************************************************)
(* The accounting alone bounds what was answered and dropped.              *)
(***************************************************************************)
LEMMA CountsBounded ==
  ASSUME NEW s \in 0 .. MaxShares, NEW W \in SUBSET (1 .. s),
         NEW a \in Nat, NEW u \in Nat, NEW d \in Nat,
         s = Cardinality(W) + a + u + d
  PROVE  a \in 0 .. MaxShares /\ u \in 0 .. MaxShares /\ d \in 0 .. MaxShares
<1>1. s \in Nat /\ MaxShares \in Nat
  BY SessionAssumption
<1>2. Cardinality(W) \in Nat
  BY <1>1, WaitingFinite
<1>3. QED
  BY <1>1, <1>2

(***************************************************************************)
(* A submitted share is one more that waits.                               *)
(***************************************************************************)
LEMMA SubmitKeepsCount ==
  ASSUME TypeOK, ShareCountedOnce, SubmitShare
  PROVE  /\ submitted' \in 0 .. MaxShares
         /\ gSharesSent' \subseteq 1 .. submitted'
         /\ ShareCountedOnce'
<1>1. /\ submitted \in Nat /\ MaxShares \in Nat /\ submitted < MaxShares
      /\ gSharesSent \subseteq 1 .. submitted
      /\ answered \in Nat /\ uncounted \in Nat /\ dropped \in Nat
  BY SessionAssumption DEF TypeOK, SubmitShare
<1>2. /\ submitted' = submitted + 1
      /\ gSharesSent' = gSharesSent \union {submitted + 1}
      /\ answered' = answered /\ uncounted' = uncounted /\ dropped' = dropped
  BY DEF SubmitShare
<1>3. submitted + 1 \notin gSharesSent
  BY <1>1
<1>4. Cardinality(gSharesSent') = Cardinality(gSharesSent) + 1
  BY <1>1, <1>2, <1>3, WaitingFinite, FS_AddElement
<1>5. Cardinality(gSharesSent) \in Nat
  BY <1>1, WaitingFinite
<1>6. ShareCountedOnce'
  BY <1>1, <1>2, <1>4, <1>5 DEF ShareCountedOnce
<1>7. QED
  BY <1>1, <1>2, <1>6

(***************************************************************************)
(* An answer moves one share from those that wait to those counted, or to  *)
(* those that nothing counts.                                              *)
(***************************************************************************)
LEMMA AnswerKeepsCount ==
  ASSUME TypeOK, ShareCountedOnce, NEW id \in gSharesSent,
         gSharesSent' = Erased(id), UNCHANGED <<submitted, dropped>>,
         \/ answered' = answered + 1 /\ uncounted' = uncounted
         \/ answered' = answered /\ uncounted' = uncounted + 1
  PROVE  /\ gSharesSent' \subseteq 1 .. submitted'
         /\ ShareCountedOnce'
<1>1. /\ submitted \in Nat
      /\ gSharesSent \subseteq 1 .. submitted
      /\ answered \in Nat /\ uncounted \in Nat /\ dropped \in Nat
  BY SessionAssumption DEF TypeOK
<1>2. gSharesSent' = gSharesSent \ {id}
  BY DEF Erased
<1>3. Cardinality(gSharesSent') = Cardinality(gSharesSent) - 1
  BY <1>1, <1>2, WaitingFinite, FS_RemoveElement
<1>4. Cardinality(gSharesSent) \in Nat
  BY <1>1, WaitingFinite
<1>5. ShareCountedOnce'
  BY <1>1, <1>3, <1>4 DEF ShareCountedOnce
<1>6. QED
  BY <1>1, <1>2, <1>5

(***************************************************************************)
(* A timeout moves all that wait to those dropped.                         *)
(***************************************************************************)
LEMMA TimeoutKeepsCount ==
  ASSUME TypeOK, ShareCountedOnce, ShareTimeout
  PROVE  /\ dropped' \in Nat
         /\ ShareCountedOnce'
<1>1. /\ submitted \in Nat
      /\ gSharesSent \subseteq 1 .. submitted
      /\ answered \in Nat /\ uncounted \in Nat /\ dropped \in Nat
  BY SessionAssumption DEF TypeOK
<1>2. /\ gSharesSent' = {}
      /\ dropped' = dropped + Cardinality(gSharesSent)
      /\ UNCHANGED <<submitted, answered, uncounted>>
  BY DEF ShareTimeout
<1>3. Cardinality(gSharesSent) \in Nat
  BY <1>1, WaitingFinite
<1>4. Cardinality(gSharesSent') = 0
  BY <1>2, FS_EmptySet
<1>5. QED
  BY <1>1, <1>2, <1>3, <1>4 DEF ShareCountedOnce

(***************************************************************************)
(* Every step leaves the shares alone, or is one of the three above.       *)
(***************************************************************************)
LEMMA StepKeepsCount ==
  ASSUME TypeOK, ShareCountedOnce, Next
  PROVE  /\ submitted' \in 0 .. MaxShares
         /\ gSharesSent' \subseteq 1 .. submitted'
         /\ answered' \in 0 .. MaxShares /\ uncounted' \in 0 .. MaxShares
         /\ dropped' \in 0 .. MaxShares
         /\ ShareCountedOnce'
<1> DEFINE Untouched == UNCHANGED <<gSharesSent, submitted, answered, uncounted,
                                    dropped>>
<1>1. /\ submitted \in 0 .. MaxShares
      /\ gSharesSent \subseteq 1 .. submitted
      /\ answered \in Nat /\ uncounted \in Nat /\ dropped \in Nat
  BY SessionAssumption DEF TypeOK
<1>2. SUFFICES /\ submitted' \in 0 .. MaxShares
               /\ gSharesSent' \subseteq 1 .. submitted'
               /\ answered' \in Nat /\ uncounted' \in Nat /\ dropped' \in Nat
               /\ ShareCountedOnce'
  BY CountsBounded DEF ShareCountedOnce
<1>3. CASE Untouched
  BY <1>1, <1>3 DEF ShareCountedOnce
<1>4. CASE SubmitShare
  BY <1>1, <1>4, SubmitKeepsCount DEF SubmitShare
<1>5. CASE ShareTimeout
  BY <1>1, <1>5, TimeoutKeepsCount DEF ShareTimeout
<1>6. ASSUME NEW h \in Heights \union {0}, NEW id \in 1 .. submitted,
             NEW error \in Errors, ReplyShare(h, id, error)
      PROVE  /\ submitted' \in 0 .. MaxShares
             /\ gSharesSent' \subseteq 1 .. submitted'
             /\ answered' \in Nat /\ uncounted' \in Nat /\ dropped' \in Nat
             /\ ShareCountedOnce'
  <2>1. CASE id \in gSharesSent
    <3>1. /\ gSharesSent' = Erased(id) /\ UNCHANGED <<submitted, dropped>>
          /\ \/ answered' = answered + 1 /\ uncounted' = uncounted
             \/ answered' = answered /\ uncounted' = uncounted + 1
      BY <1>6, <2>1 DEF ReplyShare
    <3>2. QED
      BY <1>1, <2>1, <3>1, AnswerKeepsCount
  <2>2. CASE id \notin gSharesSent
    BY <1>3, <1>6, <2>2 DEF ReplyShare, shareVars
  <2>3. QED
    BY <2>1, <2>2
<1>7. \/ Untouched \/ SubmitShare \/ ShareTimeout
      \/ \E h \in Heights \union {0}, id \in 1 .. submitted, error \in Errors :
            ReplyShare(h, id, error)
  BY DEF Next, Loop, HandleReply, HandleSignal, HandleWorkers, Connect, Refused,
         FallSilent, Poll, PollFails, Skip, ReplyInvalid, ReplyError, ReplyOther,
         ReplyRebuild, SignalBlock, SignalWithoutWork, SignalShutdown,
         WorkerInvalid, NoShareTimeout, NoSecondTimer, MinuteTimer,
         NoMinuteTimer, Leave, shareVars
<1>8. QED
  BY <1>3, <1>4, <1>5, <1>6, <1>7

(***************************************************************************)
(* The other variables keep their types.  The chain of stale shares is the *)
(* one whose bound the code has to keep: it is cleared when it is full.    *)
(***************************************************************************)
LEMMA StepKeepsTypes ==
  ASSUME SharesInv, Next
  PROVE  TypeOK'
<1> DEFINE OtherTypes ==
             /\ pc \in InSession \union {"connect", "leave", "exited"}
             /\ ready \subseteq Sockets
             /\ loopActive \in BOOLEAN /\ gExit \in BOOLEAN
             /\ gHeartBeat \in BOOLEAN /\ silent \in BOOLEAN
             /\ served \in BOOLEAN /\ exits \in BOOLEAN
             /\ gBlock \in 0 .. MaxHeight
             /\ due \in 0 .. submitted
             /\ gStaleShareChain \in 0 .. StaleLimit - 1
             /\ sessions \in 0 .. MaxSessions
<1> USE DEF sessionVars, blockVars, shareVars
<1>1. OtherTypes
  BY DEF SharesInv, TypeOK
<1>2. /\ submitted \in 0 .. MaxShares
      /\ MaxShares \in Nat /\ MaxHeight \in Nat /\ MaxSessions \in Nat
      /\ StaleLimit \in Nat \ {0}
      /\ Heights \union {0} = 0 .. MaxHeight
  BY SessionAssumption DEF SharesInv, TypeOK, Heights
<1>3. SUFFICES OtherTypes'
  BY StepKeepsCount DEF SharesInv, TypeOK
<1>4. ASSUME NEW h \in Heights \union {0}, Connect(h) PROVE OtherTypes'
  <2>1. gBlock' \in 0 .. MaxHeight
    BY <1>2, <1>4 DEF Connect
  <2>2. sessions' \in 0 .. MaxSessions
    BY <1>1, <1>2, <1>4 DEF Connect
  <2>3. QED
    BY <1>1, <1>4, <2>1, <2>2 DEF Connect, InSession
<1>5. CASE Refused
  BY <1>1, <1>5 DEF Refused
<1>6. CASE FallSilent
  BY <1>1, <1>6 DEF FallSilent
<1>7. CASE Loop
  <2>1. CASE Poll
    BY <1>1, <2>1 DEF Poll, InSession
  <2>2. CASE PollFails
    BY <1>1, <2>2 DEF PollFails
  <2>3. CASE HandleReply
    <3>1. CASE Skip("reply", "signal")
      BY <1>1, <3>1 DEF Skip, InSession
    <3>2. CASE ReplyInvalid \/ ReplyError
      BY <1>1, <3>2 DEF ReplyInvalid, ReplyError, Reply, Reconnect, InSession
    <3>3. ASSUME NEW h \in Heights \union {0}, ReplyOther(h) \/ ReplyRebuild(h)
          PROVE  OtherTypes'
      BY <1>1, <1>2, <3>3 DEF ReplyOther, ReplyRebuild, HandleNewBlock, Reply,
                             Reconnect, InSession
    <3>4. ASSUME NEW h \in Heights \union {0}, NEW id \in 1 .. submitted,
                 NEW error \in Errors, ReplyShare(h, id, error)
          PROVE  OtherTypes'
      <4>1. CASE id \notin gSharesSent
        BY <1>1, <1>2, <3>4, <4>1 DEF ReplyShare, HandleNewBlock, Reply, InSession
      <4>2. CASE id \in gSharesSent
        <5>1. gStaleShareChain' \in 0 .. StaleLimit - 1
          BY <1>1, <1>2, <3>4, <4>2 DEF ReplyShare
        <5>2. gBlock' \in 0 .. MaxHeight /\ served' \in BOOLEAN
          BY <1>1, <1>2, <3>4 DEF ReplyShare, HandleNewBlock
        <5>3. /\ loopActive' \in BOOLEAN /\ gExit' \in BOOLEAN
              /\ gHeartBeat' \in BOOLEAN
          BY <1>1, <3>4, <4>2 DEF ReplyShare, Reconnect
        <5>4. /\ pc' \in InSession /\ ready' \subseteq Sockets
              /\ UNCHANGED <<silent, exits, due, submitted, sessions>>
          BY <1>1, <3>4, <4>2 DEF ReplyShare, Reply, InSession
        <5>5. QED
          BY <1>1, <5>1, <5>2, <5>3, <5>4
      <4>3. QED
        BY <4>1, <4>2
    <3>5. QED
      BY <2>3, <3>1, <3>2, <3>3, <3>4 DEF HandleReply
  <2>4. CASE HandleSignal
    <3>1. CASE Skip("signal", "worker")
      BY <1>1, <3>1 DEF Skip, InSession
    <3>2. ASSUME NEW h \in Heights, SignalBlock(h) PROVE OtherTypes'
      BY <1>1, <1>2, <3>2 DEF SignalBlock, Signal, InSession
    <3>3. ASSUME NEW h \in Heights \union {0}, SignalWithoutWork(h)
          PROVE  OtherTypes'
      BY <1>1, <1>2, <3>3 DEF SignalWithoutWork, Signal, InSession
    <3>4. CASE SignalShutdown
      BY <1>1, <1>2, <3>4 DEF SignalShutdown, Signal, Reconnect, InSession
    <3>5. QED
      BY <2>4, <3>1, <3>2, <3>3, <3>4 DEF HandleSignal
  <2>5. CASE HandleWorkers
    BY <1>1, <1>2, <2>5
    DEF HandleWorkers, Skip, SubmitShare, WorkerInvalid, InSession
  <2>6. CASE ShareTimeout
    <3>1. due' \in 0 .. submitted'
      BY <1>1, <1>2, <2>6 DEF ShareTimeout
    <3>2. /\ loopActive' \in BOOLEAN /\ gExit' \in BOOLEAN /\ pc' \in InSession
          /\ UNCHANGED <<ready, gHeartBeat, silent, served, exits, gBlock,
                         gStaleShareChain, sessions>>
      BY <2>6 DEF ShareTimeout, ConnectionLost, Reconnect, InSession
    <3>3. QED
      BY <1>1, <3>1, <3>2
  <2>7. CASE NoShareTimeout \/ NoSecondTimer
    BY <1>1, <1>2, <2>7 DEF NoShareTimeout, NoSecondTimer, InSession
  <2>8. CASE MinuteTimer \/ NoMinuteTimer
    BY <1>1, <2>8 DEF MinuteTimer, NoMinuteTimer, AwaitHeartBeat,
                      ConnectionLost, Reconnect, AfterRound, InSession
  <2>9. CASE Leave
    BY <1>1, <1>2, <2>9 DEF Leave
  <2>10. QED
    BY <1>7, <2>1, <2>2, <2>3, <2>4, <2>5, <2>6, <2>7, <2>8, <2>9 DEF Loop
<1>8. QED
  BY <1>4, <1>5, <1>6, <1>7 DEF Next

(***************************************************************************)
(* Shares are accounted for, and all variables have their types.           *)
(***************************************************************************)
THEOREM SharesInvariant == Spec => []SharesInv
<1>1. Init => SharesInv
  <2> SUFFICES ASSUME Init PROVE SharesInv
    OBVIOUS
  <2>1. /\ MaxShares \in Nat /\ MaxHeight \in Nat /\ MaxSessions \in Nat
        /\ StaleLimit \in Nat \ {0}
    BY SessionAssumption
  <2>2. TypeOK
    <3>1. {loopActive, gExit, gHeartBeat, silent, served, exits} \subseteq BOOLEAN
      BY Zenon DEF Init
    <3>2. /\ gBlock \in 0 .. MaxHeight /\ submitted \in 0 .. MaxShares
          /\ due \in 0 .. submitted /\ gStaleShareChain \in 0 .. StaleLimit - 1
          /\ sessions \in 0 .. MaxSessions
          /\ {answered, uncounted, dropped} \subseteq 0 .. MaxShares
      BY <2>1 DEF Init
    <3>3. QED
      BY <3>1, <3>2 DEF Init, TypeOK
  <2>3. ShareCountedOnce
    BY FS_EmptySet DEF Init, ShareCountedOnce
  <2>4. QED
    BY <2>2, <2>3 DEF SharesInv
<1>2. SharesInv /\ [Next]_vars => SharesInv'
  <2> SUFFICES ASSUME SharesInv, [Next]_vars PROVE SharesInv'
    OBVIOUS
  <2>1. CASE Next
    BY <2>1, StepKeepsTypes, StepKeepsCount DEF SharesInv
  <2>2. CASE UNCHANGED vars
    BY <2>2 DEF SharesInv, TypeOK, ShareCountedOnce, vars, sessionVars,
                blockVars, shareVars
  <2>3. QED
    BY <2>1, <2>2
<1>3. QED
  BY <1>1, <1>2, PTL DEF Spec

(***************************************************************************)
(* Type correctness of the session, for every value of the constants.      *)
(***************************************************************************)
THEOREM SessionTypeCorrect == Spec => []TypeOK
<1>1. SharesInv => TypeOK
  BY DEF SharesInv
<1>2. QED
  BY <1>1, SharesInvariant, PTL

(***************************************************************************)
(* Every share submitted waits, was counted once or was dropped, however   *)
(* many there are and in whatever order the pool answers.                  *)
(***************************************************************************)
THEOREM SharesCountedOnce == Spec => []ShareCountedOnce
<1>1. SharesInv => ShareCountedOnce
  BY DEF SharesInv
<1>2. QED
  BY <1>1, SharesInvariant, PTL

-----------------------------------------------------------------------------
(***************************************************************************)
(* A step inside of a round that is not its last: the flags are as before, *)
(* or the handler ended the session and left the reason for it.            *)
(***************************************************************************)
LEMMA WithinRound ==
  ASSUME TypeOK, SessionInv,
         pc \in InSession, pc' \in InSession \ {"poll"},
         \/ UNCHANGED <<loopActive, gExit, exits>> /\ (served => served')
         \/ loopActive' = FALSE /\ (gExit' => exits')
  PROVE  SessionInv'
<1>1. pc' # "poll" /\ pc' # "leave"
  BY DEF InSession
<1>2. EndTellsReason'
  BY Zenon DEF SessionInv, EndTellsReason
<1>3. ActiveIsServed'
  BY Zenon DEF SessionInv, ActiveIsServed
<1>4. QED
  BY <1>1, <1>2, <1>3 DEF SessionInv, RoundOfSession, LostMeansReconnect

(***************************************************************************)
(* Every step keeps the reason of the end, the start of a round and the    *)
(* service of blocks.                                                      *)
(***************************************************************************)
LEMMA StepKeepsSession ==
  ASSUME TypeOK, SessionInv, Next
  PROVE  SessionInv'
<1> DEFINE Quiet == UNCHANGED <<loopActive, gExit, exits>> /\ (served => served')
           Ended == loopActive' = FALSE /\ (gExit' => exits')
           Within == pc \in InSession /\ pc' \in InSession \ {"poll"}
<1> USE DEF sessionVars, blockVars
<1>1. Within /\ (Quiet \/ Ended) => SessionInv'
  BY WithinRound
<1>2. ASSUME NEW h \in Heights \union {0}, Connect(h) PROVE SessionInv'
  BY <1>2 DEF Connect, SessionInv, EndTellsReason, RoundOfSession,
              ActiveIsServed, LostMeansReconnect
<1>3. CASE Refused
  BY <1>3 DEF Refused, SessionInv, EndTellsReason, RoundOfSession,
              ActiveIsServed, LostMeansReconnect, InSession
<1>4. CASE FallSilent
  BY <1>4 DEF FallSilent, SessionInv, EndTellsReason, RoundOfSession,
              ActiveIsServed, LostMeansReconnect
<1>5. CASE Poll
  <2>1. Within /\ Quiet
    BY <1>5 DEF Poll, InSession
  <2>2. QED
    BY <1>1, <2>1
<1>6. CASE PollFails
  BY <1>6 DEF PollFails, SessionInv, EndTellsReason, RoundOfSession,
              ActiveIsServed, LostMeansReconnect, InSession
<1>7. CASE HandleReply
  <2>1. CASE Skip("reply", "signal") \/ ReplyInvalid
    <3>1. Within /\ Quiet
      BY <2>1 DEF Skip, ReplyInvalid, Reply, InSession
    <3>2. QED
      BY <1>1, <3>1
  <2>2. CASE ReplyError
    <3>1. Within /\ Ended
      BY <2>2 DEF ReplyError, Reply, Reconnect, InSession
    <3>2. QED
      BY <1>1, <3>1
  <2>3. ASSUME NEW h \in Heights \union {0}, ReplyOther(h) PROVE SessionInv'
    <3>1. Within /\ Quiet
      BY <2>3 DEF ReplyOther, Reply, HandleNewBlock, InSession
    <3>2. QED
      BY <1>1, <3>1
  <2>4. ASSUME NEW h \in Heights \union {0}, ReplyRebuild(h) PROVE SessionInv'
    <3>1. Within /\ Ended
      BY <2>4 DEF ReplyRebuild, Reply, Reconnect, InSession
    <3>2. QED
      BY <1>1, <3>1
  <2>5. ASSUME NEW h \in Heights \union {0}, NEW id \in 1 .. submitted,
               NEW error \in Errors, ReplyShare(h, id, error)
        PROVE  SessionInv'
    <3>1. Within
      BY <2>5 DEF ReplyShare, Reply, InSession
    <3>2. served => served'
      BY <2>5 DEF ReplyShare, HandleNewBlock
    <3>3. Quiet \/ Ended
      BY <2>5, <3>2 DEF ReplyShare, Reconnect
    <3>4. QED
      BY <1>1, <3>1, <3>3
  <2>6. QED
    BY <1>7, <2>1, <2>2, <2>3, <2>4, <2>5 DEF HandleReply
<1>8. CASE HandleSignal
  <2>1. CASE Skip("signal", "worker")
    <3>1. Within /\ Quiet
      BY <2>1 DEF Skip, InSession
    <3>2. QED
      BY <1>1, <3>1
  <2>2. ASSUME NEW h \in Heights, SignalBlock(h) PROVE SessionInv'
    <3>1. Within /\ Quiet
      BY <2>2 DEF SignalBlock, Signal, InSession
    <3>2. QED
      BY <1>1, <3>1
  <2>3. ASSUME NEW h \in Heights \union {0}, SignalWithoutWork(h)
        PROVE  SessionInv'
    <3>1. Within
      BY <2>3 DEF SignalWithoutWork, Signal, InSession
    <3>2. Quiet \/ Ended
      BY <2>3 DEF SignalWithoutWork
    <3>3. QED
      BY <1>1, <3>1, <3>2
  <2>4. CASE SignalShutdown
    <3>1. Within /\ Ended
      BY <2>4 DEF SignalShutdown, Signal, Reconnect, InSession
    <3>2. QED
      BY <1>1, <3>1
  <2>5. QED
    BY <1>8, <2>1, <2>2, <2>3, <2>4 DEF HandleSignal
<1>9. CASE HandleWorkers
  <2>1. Within /\ Quiet
    BY <1>9 DEF HandleWorkers, Skip, SubmitShare, WorkerInvalid, InSession
  <2>2. QED
    BY <1>1, <2>1
<1>10. CASE ShareTimeout
  <2>1. Within /\ Ended
    BY <1>10 DEF ShareTimeout, ConnectionLost, Reconnect, InSession
  <2>2. QED
    BY <1>1, <2>1
<1>11. CASE NoShareTimeout \/ NoSecondTimer
  <2>1. Within /\ Quiet
    BY <1>11 DEF NoShareTimeout, NoSecondTimer, InSession
  <2>2. QED
    BY <1>1, <2>1
<1>12. CASE MinuteTimer \/ NoMinuteTimer
  <2>1. /\ pc = "minute" /\ pc' = AfterRound
        /\ Quiet \/ Ended
    BY <1>12 DEF MinuteTimer, NoMinuteTimer, AwaitHeartBeat, ConnectionLost,
                 Reconnect
  <2>2. (gExit' /\ ~loopActive') => exits'
    BY <2>1 DEF SessionInv, EndTellsReason, InSession
  <2>3. loopActive' => served'
    BY <2>1 DEF SessionInv, ActiveIsServed, InSession
  <2>4. pc' = IF loopActive' THEN "poll" ELSE "leave"
    BY <2>1 DEF AfterRound
  <2>5. QED
    BY <2>2, <2>3, <2>4, Zenon
    DEF SessionInv, EndTellsReason, RoundOfSession, ActiveIsServed,
        LostMeansReconnect, InSession
<1>13. CASE Leave
  BY <1>13 DEF Leave, SessionInv, EndTellsReason, RoundOfSession,
               ActiveIsServed, LostMeansReconnect, InSession
<1>14. QED
  BY <1>2, <1>3, <1>4, <1>5, <1>6, <1>7, <1>8, <1>9, <1>10, <1>11, <1>12, <1>13
  DEF Next, Loop

(***************************************************************************)
(* The flags of a session agree with its history in every state.           *)
(***************************************************************************)
THEOREM SessionInvariant == Spec => []SessionInv
<1>1. Init => SessionInv
  BY DEF Init, SessionInv, EndTellsReason, RoundOfSession, ActiveIsServed,
         LostMeansReconnect, InSession
<1>2. TypeOK /\ SessionInv /\ [Next]_vars => SessionInv'
  <2> SUFFICES ASSUME TypeOK, SessionInv, [Next]_vars PROVE SessionInv'
    OBVIOUS
  <2>1. CASE Next
    BY <2>1, StepKeepsSession
  <2>2. CASE UNCHANGED vars
    BY <2>2 DEF vars, sessionVars, blockVars, SessionInv, EndTellsReason,
                RoundOfSession, ActiveIsServed, LostMeansReconnect
  <2>3. QED
    BY <2>1, <2>2
<1>3. QED
  BY <1>1, <1>2, SessionTypeCorrect, PTL DEF Spec

(***************************************************************************)
(* No combination of handlers in one round turns a lost connection into    *)
(* the end of the program.                                                 *)
(***************************************************************************)
THEOREM LostConnectionReconnects == Spec => []LostMeansReconnect
<1>1. SessionInv => LostMeansReconnect
  BY DEF SessionInv
<1>2. QED
  BY <1>1, SessionInvariant, PTL

(***************************************************************************)
(* At the start of every round the current block has been served.          *)
(***************************************************************************)
THEOREM BlocksServed == Spec => []EveryBlockGetsWork
<1>1. SessionInv => EveryBlockGetsWork
  BY DEF SessionInv, RoundOfSession, ActiveIsServed, EveryBlockGetsWork, InSession
<1>2. QED
  BY <1>1, SessionInvariant, PTL

-----------------------------------------------------------------------------
(***************************************************************************)
(* Solo mode: blocks match a template, and where the miner may crash, for   *)
(* any number of templates, heights and faults.  The invariant follows a   *)
(* template on its way: from the node's answer to the context, from there  *)
(* to the miner, and into the block.                                       *)
(***************************************************************************)

(***************************************************************************)
(* An answer that waits is a template, and so is what the miner mines.     *)
(* OrderInv compares templates by the order in which the node served them. *)
(***************************************************************************)
AnswerIsTemplate == querying = "answered" => answer # NoTemplate
MinedIsTemplate == at \in {"mine", "check"} => workTemplate # NoTemplate

TemplatesTyped ==
    {nodeTemplate, answer, blockTemplate, minedHeader} \union slots
        \subseteq Templates \union {NoTemplate}

OrderInv == TemplatesTyped /\ TemplatesAdvance /\ HashesNotNewer

SoloInv ==
    /\ AnswerIsTemplate /\ MinedIsTemplate
    /\ ContextTogether /\ MinerTogether
    /\ NullNeedsRefusal /\ CrashNeedsRefusal
    /\ BlockMatchesTemplate

(***************************************************************************)
(* Every step of the query thread leaves a context that holds together: it *)
(* offers a template only together with its data, and has no template only *)
(* when one was refused, or when the miner has none either.                *)
(***************************************************************************)
LEMMA QueryKeepsInv ==
  ASSUME SoloInv, QueryAnswered \/ QueryFails \/ UpdateFails \/ UpdateWork
  PROVE  SoloInv'
<1> USE DEF SoloInv
<1>1. CASE QueryAnswered
  BY <1>1 DEF QueryAnswered, soloMiner, AnswerIsTemplate, MinedIsTemplate,
       ContextTogether, MinerTogether, NullNeedsRefusal, CrashNeedsRefusal,
       BlockMatchesTemplate
<1>2. CASE QueryFails
  BY <1>2 DEF QueryFails, TryAgain, soloMiner, AnswerIsTemplate,
       MinedIsTemplate, ContextTogether, MinerTogether, NullNeedsRefusal,
       CrashNeedsRefusal, BlockMatchesTemplate
<1>3. CASE UpdateFails
  <2>1. /\ AnswerIsTemplate' /\ MinedIsTemplate' /\ MinerTogether'
        /\ BlockMatchesTemplate'
    BY <1>3 DEF UpdateFails, soloMiner, AnswerIsTemplate, MinedIsTemplate,
         MinerTogether, BlockMatchesTemplate
  <2>2. ContextTogether'
    BY <1>3 DEF UpdateFails, KeepBlocks, FreeBlocks, LeaveUnfinished,
         ContextTogether
  <2>3. NullNeedsRefusal' /\ CrashNeedsRefusal'
    BY <1>3 DEF UpdateFails, soloMiner, KeepBlocks, NullNeedsRefusal,
         CrashNeedsRefusal
  <2>4. QED
    BY <2>1, <2>2, <2>3
<1>4. CASE UpdateWork
  <2>1. answer # NoTemplate
    BY <1>4 DEF UpdateWork, AnswerIsTemplate
  <2>2. QED
    BY <1>4, <2>1 DEF UpdateWork, AcceptTemplate, soloMiner,
         AnswerIsTemplate, MinedIsTemplate, ContextTogether, MinerTogether,
         NullNeedsRefusal, CrashNeedsRefusal, BlockMatchesTemplate
<1>5. QED
  BY <1>1, <1>2, <1>3, <1>4

(***************************************************************************)
(* get reads a null pointer only after a refusal; a new template brings    *)
(* its data and a new header, whatever the miner had before.               *)
(***************************************************************************)
LEMMA GetKeepsInv ==
  ASSUME SoloInv, GetCrashes \/ GetSame \/ GetNew
  PROVE  SoloInv'
<1> USE DEF SoloInv
<1>1. CASE GetCrashes
  <2>1. refused
    BY <1>1 DEF GetCrashes, NullNeedsRefusal
  <2>2. QED
    BY <1>1, <2>1 DEF GetCrashes, context, AnswerIsTemplate, MinedIsTemplate,
         ContextTogether, MinerTogether, NullNeedsRefusal, CrashNeedsRefusal,
         BlockMatchesTemplate
<1>2. CASE GetSame
  BY <1>2 DEF GetSame, SameHeight, context, AnswerIsTemplate,
       MinedIsTemplate, ContextTogether, MinerTogether, NullNeedsRefusal,
       CrashNeedsRefusal, BlockMatchesTemplate
<1>3. CASE GetNew
  <2>1. /\ UNCHANGED context /\ UNCHANGED <<block, refused>>
        /\ dataId' = lastDataId /\ at = "get"
    BY <1>3 DEF GetNew
  <2>2. /\ AnswerIsTemplate' /\ ContextTogether' /\ BlockMatchesTemplate'
    BY <2>1 DEF context, AnswerIsTemplate, ContextTogether,
         BlockMatchesTemplate
  <2>3. CASE exists
    <3>1. /\ workTemplate' = blockTemplate /\ minedHeader' = workTemplate'
          /\ at' = "mine"
      BY <1>3, <2>3 DEF GetNew, HasChanged, Reset
    <3>2. blockTemplate # NoTemplate /\ lastDataId = blockTemplate
      BY <2>3 DEF ContextTogether
    <3>3. QED
      BY <2>1, <2>2, <3>1, <3>2 DEF context, MinedIsTemplate, MinerTogether,
           NullNeedsRefusal, CrashNeedsRefusal
  <2>4. CASE ~exists
    <3>1. workTemplate' = NoTemplate /\ at' = "get"
      BY <1>3, <2>4, <2>1 DEF GetNew
    <3>2. QED
      BY <2>2, <3>1 DEF MinedIsTemplate, MinerTogether, NullNeedsRefusal,
           CrashNeedsRefusal
  <2>5. QED
    BY <2>3, <2>4
<1>4. QED
  BY <1>1, <1>2, <1>3

(***************************************************************************)
(* The rest of an iteration, and the node, keep it too.                    *)
(***************************************************************************)
LEMMA MinerKeepsInv ==
  ASSUME SoloInv, OrderInv, NodeChanges \/ SubmitBlock \/ Iterate
  PROVE  SoloInv'
<1> USE DEF SoloInv
<1>1. CASE NodeChanges
  BY <1>1 DEF NodeChanges, context, soloMiner, AnswerIsTemplate,
       MinedIsTemplate, ContextTogether, MinerTogether, NullNeedsRefusal,
       CrashNeedsRefusal, BlockMatchesTemplate
<1>2. CASE SubmitBlock
  <2>1. dataId = workTemplate /\ minedHeader = workTemplate
    BY <1>2 DEF SubmitBlock, MinedIsTemplate, MinerTogether
  <2>2. PICK hash \in slots :
            block' = [template |-> workTemplate, dataId |-> dataId,
                      header |-> minedHeader, hash |-> hash]
    BY <1>2 DEF SubmitBlock
  <2>3. hash.serial <= minedHeader.serial
    BY DEF OrderInv, HashesNotNewer
  <2>4. BlockMatchesTemplate'
    BY <2>1, <2>2, <2>3 DEF BlockMatchesTemplate
  <2>5. QED
    BY <1>2, <2>4 DEF SubmitBlock, context, AnswerIsTemplate,
         MinedIsTemplate, ContextTogether, MinerTogether, NullNeedsRefusal,
         CrashNeedsRefusal
<1>3. CASE Iterate
  <2>1. /\ UNCHANGED <<nodeTemplate, context, workTemplate, dataId, minedHeader, refused>>
        /\ at \in {"mine", "check"} /\ at' \in {"get", "check"}
    BY <1>3 DEF Iterate, MineWithoutHash, MineHashes, EndIteration
  <2>2. block' = block \/ block' = NoBlock
    BY <1>3 DEF Iterate, MineWithoutHash, MineHashes, EndIteration
  <2>3. BlockMatchesTemplate'
    BY <2>2 DEF BlockMatchesTemplate, NoBlock, NoTemplate
  <2>4. QED
    BY <2>1, <2>3 DEF context, AnswerIsTemplate, MinedIsTemplate, ContextTogether,
         MinerTogether, NullNeedsRefusal, CrashNeedsRefusal
<1>4. QED
  BY <1>1, <1>2, <1>3

(***************************************************************************)
(* The order of templates is that of numbers.                              *)
(***************************************************************************)
LEMMA SerialsAreNumbers ==
  ASSUME NEW template \in Templates \union {NoTemplate}
  PROVE  template.serial \in Int
BY DEF Templates, NoTemplate

(***************************************************************************)
(* A template on its way to the miner is never older than the one before,  *)
(* and only hashes of the header get into the ring.                        *)
(***************************************************************************)
LEMMA StepKeepsOrder ==
  ASSUME OrderInv, ContextTogether, SoloNext
  PROVE  OrderInv'
<1> USE DEF OrderInv
<1>1. /\ nodeTemplate.serial \in Int /\ answer.serial \in Int
      /\ blockTemplate.serial \in Int /\ minedHeader.serial \in Int
      /\ \A hash \in slots : hash.serial \in Int
  BY SerialsAreNumbers DEF TemplatesTyped
<1>2. CASE NodeChanges
  <2>1. /\ nodeTemplate' \in Templates /\ nodeTemplate'.serial = nodeTemplate.serial + 1
        /\ UNCHANGED <<answer, blockTemplate, minedHeader, slots>>
    BY <1>2 DEF NodeChanges, context, soloMiner, round, device
  <2>2. QED
    BY <1>1, <2>1 DEF TemplatesTyped, TemplatesAdvance, HashesNotNewer
<1>3. CASE QueryAnswered
  <2>1. /\ answer' = nodeTemplate
        /\ UNCHANGED <<nodeTemplate, blockTemplate, minedHeader, slots>>
    BY <1>3 DEF QueryAnswered, soloMiner, round, device
  <2>2. QED
    BY <1>1, <2>1 DEF TemplatesTyped, TemplatesAdvance, HashesNotNewer
<1>4. CASE UpdateFails \/ UpdateWork
  <2>1. /\ blockTemplate' \in {blockTemplate, NoTemplate, answer}
        /\ UNCHANGED <<nodeTemplate, answer, minedHeader, slots>>
    BY <1>4 DEF UpdateFails, UpdateWork, KeepBlocks, FreeBlocks, LeaveUnfinished,
         AcceptTemplate, soloMiner, round, device
  <2>2. QED
    BY <1>1, <2>1 DEF TemplatesTyped, TemplatesAdvance, HashesNotNewer
<1>5. CASE GetNew
  <2>1. UNCHANGED <<nodeTemplate, answer, blockTemplate, slots>>
    BY <1>5 DEF GetNew, context, device
  <2>2. CASE exists
    <3>1. minedHeader' = blockTemplate
      BY <1>5, <2>2 DEF GetNew, HasChanged, Reset
    <3>2. blockTemplate # NoTemplate
      BY <2>2 DEF ContextTogether
    <3>3. QED
      BY <1>1, <2>1, <3>1, <3>2
      DEF TemplatesTyped, TemplatesAdvance, HashesNotNewer
  <2>3. CASE ~exists
    <3>1. minedHeader' = minedHeader
      BY <1>5, <2>3 DEF GetNew
    <3>2. QED
      BY <2>1, <3>1 DEF TemplatesTyped, TemplatesAdvance, HashesNotNewer
  <2>4. QED
    BY <2>2, <2>3
<1>6. CASE MineHashes
  <2>1. /\ slots' = slots \union {minedHeader}
        /\ UNCHANGED <<nodeTemplate, answer, blockTemplate, minedHeader>>
    BY <1>6 DEF MineHashes, context
  <2>2. QED
    BY <1>1, <2>1 DEF TemplatesTyped, TemplatesAdvance, HashesNotNewer
<1>7. CASE QueryFails \/ GetCrashes \/ GetSame \/ MineWithoutHash
           \/ SubmitBlock \/ EndIteration
  <2>1. UNCHANGED <<nodeTemplate, answer, blockTemplate, minedHeader, slots>>
    BY <1>7 DEF QueryFails, GetCrashes, GetSame, MineWithoutHash, SubmitBlock,
         EndIteration, context, soloMiner, round, device
  <2>2. QED
    BY <2>1 DEF TemplatesTyped, TemplatesAdvance, HashesNotNewer
<1>8. QED
  BY <1>2, <1>3, <1>4, <1>5, <1>6, <1>7 DEF SoloNext, Iterate

(***************************************************************************)
(* Both invariants together: the order of hashes is needed for a block.    *)
(***************************************************************************)
LEMMA SoloInvInductive == SoloSpec => [](SoloInv /\ OrderInv)
<1>1. SoloInit => SoloInv /\ OrderInv
  <2> SUFFICES ASSUME SoloInit PROVE SoloInv /\ OrderInv
    OBVIOUS
  <2>1. SoloInv
    BY DEF SoloInit, SoloInv, NoBlock, NoTemplate, AnswerIsTemplate,
         MinedIsTemplate, ContextTogether, MinerTogether, NullNeedsRefusal,
         CrashNeedsRefusal, BlockMatchesTemplate
  <2>2. OrderInv
    BY DEF SoloInit, NoTemplate, OrderInv, TemplatesTyped, TemplatesAdvance,
         HashesNotNewer
  <2>3. QED
    BY <2>1, <2>2
<1>2. SoloInv /\ OrderInv /\ [SoloNext]_soloVars => SoloInv' /\ OrderInv'
  <2> SUFFICES ASSUME SoloInv, OrderInv, [SoloNext]_soloVars
               PROVE  SoloInv' /\ OrderInv'
    OBVIOUS
  <2>1. CASE UNCHANGED soloVars
    <3>1. SoloInv'
      BY <2>1 DEF soloVars, context, soloMiner, SoloInv, AnswerIsTemplate,
           MinedIsTemplate, ContextTogether, MinerTogether, NullNeedsRefusal,
           CrashNeedsRefusal, BlockMatchesTemplate
    <3>2. OrderInv'
      BY <2>1 DEF soloVars, context, soloMiner, round, device, OrderInv,
           TemplatesTyped, TemplatesAdvance, HashesNotNewer
    <3>3. QED
      BY <3>1, <3>2
  <2>2. CASE SoloNext
    <3>1. SoloInv'
      BY <2>2, QueryKeepsInv, GetKeepsInv, MinerKeepsInv DEF SoloNext
    <3>2. OrderInv'
      BY <2>2, StepKeepsOrder DEF SoloInv
    <3>3. QED
      BY <3>1, <3>2
  <2>3. QED
    BY <2>1, <2>2
<1>3. QED
  BY <1>1, <1>2, PTL DEF SoloSpec

(***************************************************************************)
(* A submitted block has the transactions, the data, the version and the   *)
(* target of one template, however the query thread and the miner thread   *)
(* interleave; time, nonce and multiplier are of a hash of that template   *)
(* or of an earlier one, which the device still counted candidates of.     *)
(***************************************************************************)
THEOREM BlocksMatchTemplates == SoloSpec => []BlockMatchesTemplate
<1>1. SoloInv => BlockMatchesTemplate
  BY DEF SoloInv
<1>2. QED
  BY <1>1, SoloInvInductive, PTL

(***************************************************************************)
(* get reads a null pointer only after a template was refused.             *)
(***************************************************************************)
THEOREM CrashesNeedRefusal == SoloSpec => []CrashNeedsRefusal
<1>1. SoloInv => CrashNeedsRefusal
  BY DEF SoloInv
<1>2. QED
  BY <1>1, SoloInvInductive, PTL

-----------------------------------------------------------------------------
(***************************************************************************)
(* Whichever mode the configuration names, the client keeps to both: the   *)
(* mode that does not run stands still.  These are the invariants of the   *)
(* run of ClientModes, of the specification that it checks.                *)
(***************************************************************************)
THEOREM ModesKeepInvariants ==
  ClientSpec => [](/\ TypeOK /\ ShareCountedOnce /\ LostMeansReconnect
                   /\ EveryBlockGetsWork /\ BlockMatchesTemplate /\ CrashNeedsRefusal)
<1>1. ClientInit => Init /\ SoloInit
  BY DEF ClientInit
<1>2. [ClientNext]_clientVars => [Next]_vars /\ [SoloNext]_soloVars
  BY DEF ClientNext, PoolMode, SoloMode, clientVars
<1>3. QED
  BY <1>1, <1>2, SessionTypeCorrect, SharesCountedOnce, LostConnectionReconnects,
     BlocksServed, BlocksMatchTemplates, CrashesNeedRefusal, PTL
  DEF ClientSpec, Spec, SoloSpec

=============================================================================
