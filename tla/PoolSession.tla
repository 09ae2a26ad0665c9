----------------------------- MODULE PoolSession -----------------------------
(***************************************************************************)
(* The sessions of the main thread with the mining pool: the loop of main  *)
(* in baseclient.cpp with HandleReply, HandleSignal, HandleWorkers,        *)
(* TimeoutCheckProc and HandleTimer.                                       *)
(*                                                                         *)
(* A round of the loop polls three sockets, and then calls the handler of  *)
(* each socket that was readable and the two timers, all of them, even if  *)
(* one of them has ended the session.  A handler that ends it returns -1   *)
(* and leaves in gExit what main does next: reconnect (FALSE) or end.      *)
(*                                                                         *)
(* The pool is free in what it sends: replies in any order, to old         *)
(* requests or twice, none at all, and silence without a goodbye.          *)
(***************************************************************************)
EXTENDS Integers, FiniteSets

CONSTANTS
    gCompatible,   \* option -c: accept a pool that sends no work with a block
    StaleLimit,    \* stale shares in a row that end a session (4)
    MaxShares,     \* bound: shares submitted
    MaxHeight,     \* bound: height of a block
    MaxSessions    \* bound: sessions

ASSUME SessionAssumption ==
    /\ gCompatible \in BOOLEAN
    /\ StaleLimit \in Nat \ {0}
    /\ {MaxShares, MaxHeight, MaxSessions} \subseteq Nat

VARIABLES
    pc,           \* where main is in its loop
    ready,        \* the sockets readable at the last poll, but for those handled
    loopActive,
    gExit, gHeartBeat,
    gBlock,       \* height of gBlock, 0 when it is cleared
    gSharesSent,  \* numbers of the shares that wait for a reply
    gStaleShareChain,
    submitted,    \* shares submitted so far; they are numbered
    due,          \* those up to this number were sent 5 seconds ago or more
    silent,       \* the pool sends nothing any more
    sessions,     \* counted for the bound
    \* history:
    answered,     \* replies counted in gShares
    uncounted,    \* shares erased by a reply that nothing counts
    dropped,      \* shares forgotten by a timeout
    served,       \* work was requested or taken since gBlock changed
    exits         \* this session had a reason to end the program

shareVars == <<gSharesSent, gStaleShareChain, submitted, due, answered, uncounted,
               dropped>>
sessionVars == <<loopActive, gExit, gHeartBeat, exits>>
blockVars == <<gBlock, served>>
vars == <<pc, ready, sessionVars, blockVars, shareVars, silent, sessions>>

Shares == 1 .. MaxShares
Heights == 1 .. MaxHeight
Sockets == {"reply", "signal", "worker"}
InSession == {"poll", "reply", "signal", "worker", "second", "minute"}

Init ==
    /\ pc = "connect" /\ ready = {} /\ loopActive = FALSE
    /\ gExit = FALSE /\ gHeartBeat = TRUE /\ gBlock = 0
    /\ gSharesSent = {} /\ gStaleShareChain = 0 /\ submitted = 0 /\ due = 0
    /\ silent = FALSE /\ sessions = 0
    /\ answered = 0 /\ uncounted = 0 /\ dropped = 0 /\ served = TRUE /\ exits = FALSE

-----------------------------------------------------------------------------
\* How a handler ends the session: it returns -1, and main reconnects.
Reconnect == loopActive' = FALSE /\ gExit' = FALSE

\* HandleNewBlock that never asks for the work of the block.
NewBlockUnserved(h, request) ==
    IF h > gBlock THEN gBlock' = h /\ served' = FALSE
                  ELSE UNCHANGED blockVars

\* HandleNewBlock; h = 0 stands for a message without block.  A higher block
\* is passed on, and its work requested unless it comes with the block.
HandleNewBlock(h, request) ==
    IF h > gBlock THEN gBlock' = h /\ served' = request
                  ELSE UNCHANGED blockVars

\* A connection, after any number of failures: gBlock is cleared, the block of
\* the pool's answer taken or work requested, the flags set.
Connect(h) ==
    /\ pc = "connect" /\ sessions < MaxSessions
    /\ sessions' = sessions + 1
    /\ gBlock' = h /\ served' = TRUE
    /\ gHeartBeat' = TRUE /\ gExit' = TRUE
    /\ loopActive' = TRUE /\ exits' = FALSE
    /\ silent' = FALSE
    /\ pc' = "poll"
    /\ UNCHANGED <<ready, shareVars>>

\* A pool of an old version: the process ends at once.
Refused ==
    /\ pc = "connect" /\ ~gCompatible
    /\ pc' = "exited"
    /\ UNCHANGED <<ready, sessionVars, blockVars, shareVars, silent, sessions>>

\* The pool, or the connection to it, is dead from now on.
FallSilent ==
    /\ pc \in InSession /\ ~silent
    /\ silent' = TRUE
    /\ UNCHANGED <<pc, ready, sessionVars, blockVars, shareVars, sessions>>

-----------------------------------------------------------------------------
\* zmq_poll: any sockets may be readable, none after a second.
Poll ==
    /\ pc = "poll" /\ loopActive
    /\ \E s \in SUBSET Sockets :
          /\ silent => s \subseteq {"worker"}
          /\ ready' = s
    /\ pc' = "reply"
    /\ UNCHANGED <<sessionVars, blockVars, shareVars, silent, sessions>>

\* zmq_poll fails: main leaves the loop, with gExit as Connect set it.
PollFails ==
    /\ pc = "poll" /\ loopActive
    /\ exits' = TRUE
    /\ pc' = "leave"
    /\ UNCHANGED <<ready, loopActive, gExit, gHeartBeat, blockVars, shareVars,
                   silent, sessions>>

\* The handler of a socket that was not readable is not called.
Skip(socket, next) ==
    /\ pc = socket /\ socket \notin ready
    /\ pc' = next
    /\ UNCHANGED <<ready, sessionVars, blockVars, shareVars, silent, sessions>>

\* What the handlers of replies have in common.
Reply ==
    /\ pc = "reply" /\ "reply" \in ready
    /\ ready' = ready \ {"reply"}
    /\ pc' = "signal"

\* HandleReply: data that is no reply is dropped.
ReplyInvalid ==
    /\ Reply
    /\ UNCHANGED <<sessionVars, blockVars, shareVars, silent, sessions>>

\* HandleReply: an error message ends the session.
ReplyError ==
    /\ Reply
    /\ Reconnect
    /\ UNCHANGED <<gHeartBeat, exits, blockVars, shareVars, silent, sessions>>

\* HandleReply: work, or the answer to statistics or ping.
ReplyOther(h) ==
    /\ Reply
    /\ HandleNewBlock(h, TRUE)
    /\ gHeartBeat' = TRUE
    /\ UNCHANGED <<loopActive, gExit, exits, shareVars, silent, sessions>>

\* HandleReply: TakeWork rebuilt the miners for this work.
ReplyRebuild(h) ==
    /\ Reply
    /\ HandleNewBlock(h, TRUE)
    /\ Reconnect
    /\ UNCHANGED <<gHeartBeat, exits, shareVars, silent, sessions>>

\* The entry of a share that is answered stays where it is.
Kept(id) == gSharesSent

\* gSharesSent.erase(it)
Erased(id) == gSharesSent \ {id}

\* ErrType of a reply, and those that gShares has a counter for.
Counted == {"NONE", "INVALID", "STALE", "DUPLICATE"}
Errors == Counted \union {"VERSION", "HEIGHT", "REQNONCE"}

\* HandleReply: the answer to share id erases it, and is counted if its error
\* has a counter; the others do nothing else.  The last stale one of a chain
\* ends the session.  A share that does not wait is ignored, and the heartbeat
\* is not set then.
ReplyShare(h, id, error) ==
    /\ Reply
    /\ HandleNewBlock(h, TRUE)
    /\ IF id \notin gSharesSent
       THEN UNCHANGED <<sessionVars, shareVars>>
       ELSE LET chain == gStaleShareChain + 1
                full == error = "STALE" /\ chain >= StaleLimit
            IN  /\ gSharesSent' = Erased(id)
                /\ IF error \in Counted
                   THEN answered' = answered + 1 /\ UNCHANGED uncounted
                   ELSE uncounted' = uncounted + 1 /\ UNCHANGED answered
                /\ gStaleShareChain' =
                       IF error = "NONE" \/ full THEN 0
                       ELSE IF error = "STALE" THEN chain
                       ELSE gStaleShareChain
                /\ IF full THEN Reconnect /\ UNCHANGED gHeartBeat
                           ELSE gHeartBeat' = TRUE /\ UNCHANGED <<loopActive, gExit>>
                /\ UNCHANGED <<submitted, due, dropped, exits>>
    /\ UNCHANGED <<silent, sessions>>

\* What the handlers of signals have in common.
Signal ==
    /\ pc = "signal" /\ "signal" \in ready
    /\ ready' = ready \ {"signal"}
    /\ pc' = "worker"

\* HandleSignal: a block with its work; that TakeWork rebuilt is ignored.
SignalBlock(h) ==
    /\ Signal
    /\ gBlock' = IF h > gBlock THEN h ELSE gBlock
    /\ served' = TRUE
    /\ UNCHANGED <<sessionVars, shareVars, silent, sessions>>

\* HandleSignal: no work with the block; data that is no signal looks like
\* that, without a height.  Work is requested in compatible mode; without it
\* the program gives up.
SignalWithoutWork(h) ==
    /\ Signal
    /\ gBlock' = IF h > gBlock THEN h ELSE gBlock
    /\ IF gCompatible
       THEN served' = TRUE /\ UNCHANGED sessionVars
       ELSE /\ served' = (served /\ h <= gBlock)
            /\ gExit' = TRUE /\ loopActive' = FALSE /\ exits' = TRUE
            /\ UNCHANGED gHeartBeat
    /\ UNCHANGED <<shareVars, silent, sessions>>

\* HandleSignal: the server is shutting down.
SignalShutdown ==
    /\ Signal
    /\ Reconnect
    /\ UNCHANGED <<gHeartBeat, exits, blockVars, shareVars, silent, sessions>>

\* HandleWorkers: a share of a miner is submitted.
SubmitShare ==
    /\ pc = "worker" /\ "worker" \in ready /\ submitted < MaxShares
    /\ submitted' = submitted + 1
    /\ gSharesSent' = gSharesSent \union {submitted + 1}
    /\ ready' = ready \ {"worker"}
    /\ pc' = "second"
    /\ UNCHANGED <<sessionVars, blockVars, gStaleShareChain, due,
                   answered, uncounted, dropped, silent, sessions>>

\* HandleWorkers: the data is no share (or the bound is reached).
WorkerInvalid ==
    /\ pc = "worker" /\ "worker" \in ready
    /\ ready' = ready \ {"worker"}
    /\ pc' = "second"
    /\ UNCHANGED <<sessionVars, blockVars, shareVars, silent, sessions>>

-----------------------------------------------------------------------------
\* TimeoutCheckProc that ends the session and leaves gExit alone.
GiveUp == loopActive' = FALSE /\ UNCHANGED gExit

\* The reaction to a lost connection, in both timers.
ConnectionLost == Reconnect

\* TimeoutCheckProc, when a share waits for 5 seconds: all are forgotten.
ShareTimeout ==
    /\ pc = "second"
    /\ due' \in due .. submitted
    /\ \E id \in gSharesSent : id <= due'
    /\ gSharesSent' = {}
    /\ dropped' = dropped + Cardinality(gSharesSent)
    /\ ConnectionLost
    /\ pc' = "minute"
    /\ UNCHANGED <<ready, gHeartBeat, exits, blockVars, gStaleShareChain,
                   submitted, answered, uncounted, silent, sessions>>

\* TimeoutCheckProc finds none.
NoShareTimeout ==
    /\ pc = "second"
    /\ due' \in due .. submitted
    /\ \A id \in gSharesSent : id > due'
    /\ pc' = "minute"
    /\ UNCHANGED <<ready, sessionVars, blockVars, gSharesSent, gStaleShareChain,
                   submitted, answered, uncounted, dropped, silent,
                   sessions>>

\* Less than a second has passed since the last check.
NoSecondTimer ==
    /\ pc = "second"
    /\ pc' = "minute"
    /\ UNCHANGED <<ready, sessionVars, blockVars, shareVars, silent, sessions>>

\* The loop ends after the round in which a handler ended the session.
AfterRound == IF loopActive' THEN "poll" ELSE "leave"

\* HandleTimer leaves the heartbeat as it is.
TimerTrusts == UNCHANGED gHeartBeat

\* HandleTimer waits for the next sign of life.
AwaitHeartBeat == gHeartBeat' = FALSE

\* A minute has passed: HandleTimer.
MinuteTimer ==
    /\ pc = "minute"
    /\ IF gHeartBeat THEN AwaitHeartBeat /\ UNCHANGED <<loopActive, gExit>>
                     ELSE ConnectionLost /\ UNCHANGED gHeartBeat
    /\ pc' = AfterRound
    /\ UNCHANGED <<ready, exits, blockVars, shareVars, silent, sessions>>

NoMinuteTimer ==
    /\ pc = "minute"
    /\ UNCHANGED sessionVars
    /\ pc' = AfterRound
    /\ UNCHANGED <<ready, blockVars, shareVars, silent, sessions>>

\* The end of the session.  main sleeps 5 seconds, so what waits is due.
Leave ==
    /\ pc = "leave"
    /\ due' = submitted
    /\ pc' = IF gExit THEN "exited" ELSE "connect"
    /\ UNCHANGED <<ready, sessionVars, blockVars, gSharesSent, gStaleShareChain,
                   submitted, answered, uncounted, dropped, silent,
                   sessions>>

HandleReply ==
    \/ Skip("reply", "signal")
    \/ ReplyInvalid \/ ReplyError
    \/ \E h \in Heights \union {0} :
          \/ ReplyOther(h) \/ ReplyRebuild(h)
          \/ \E id \in 1 .. submitted, error \in Errors : ReplyShare(h, id, error)

HandleSignal ==
    \/ Skip("signal", "worker")
    \/ \E h \in Heights : SignalBlock(h)
    \/ \E h \in Heights \union {0} : SignalWithoutWork(h)
    \/ SignalShutdown

HandleWorkers == Skip("worker", "second") \/ SubmitShare \/ WorkerInvalid

Loop ==
    \/ Poll \/ PollFails
    \/ HandleReply \/ HandleSignal \/ HandleWorkers
    \/ ShareTimeout \/ NoShareTimeout \/ NoSecondTimer
    \/ MinuteTimer \/ NoMinuteTimer
    \/ Leave

Next ==
    \/ \E h \in Heights \union {0} : Connect(h)
    \/ Refused
    \/ FallSilent
    \/ Loop

Spec == Init /\ [][Next]_vars

\* The loop goes on (zmq_poll waits a second at most), and minutes pass.
FairSpec == Spec /\ WF_vars(Loop) /\ SF_vars(MinuteTimer)

-----------------------------------------------------------------------------
\* Type invariant.
TypeOK ==
    /\ pc \in InSession \union {"connect", "leave", "exited"}
    /\ ready \subseteq Sockets
    /\ {loopActive, gExit, gHeartBeat, silent, served, exits} \subseteq BOOLEAN
    /\ gBlock \in 0 .. MaxHeight
    /\ submitted \in 0 .. MaxShares
    /\ gSharesSent \subseteq 1 .. submitted
    /\ due \in 0 .. submitted
    /\ gStaleShareChain \in 0 .. StaleLimit - 1
    /\ {answered, uncounted, dropped} \subseteq 0 .. MaxShares
    /\ sessions \in 0 .. MaxSessions

\* Every share submitted is waiting, was counted in gShares once, was erased by
\* an answer whose error has no counter, or was dropped by a timeout: a reply
\* that comes twice, late or in another session is not counted again, and none
\* vanishes with a connection.
ShareCountedOnce ==
    submitted = Cardinality(gSharesSent) + answered + uncounted + dropped

\* Trouble with a connection never ends the program, whatever the handlers of
\* one round leave in gExit one after the other: main ends only if a handler
\* of this session gave up, or zmq_poll failed.
LostMeansReconnect == pc = "leave" /\ gExit => exits

\* A new block never stays without work: between two rounds work was requested
\* or came with the block, through whichever message the block was announced.
EveryBlockGetsWork == pc = "poll" => served

\* What makes the two of them inductive.  Once the session has ended, gExit
\* tells its reason at any point of the round; a new round begins only while
\* it has not ended, and until then no block is without work.
EndTellsReason == pc \in InSession /\ ~loopActive /\ gExit => exits
RoundOfSession == pc = "poll" => loopActive
ActiveIsServed == pc \in InSession /\ loopActive => served

SharesInv == TypeOK /\ ShareCountedOnce

SessionInv ==
    EndTellsReason /\ RoundOfSession /\ ActiveIsServed /\ LostMeansReconnect

\* A pool that falls silent is noticed, also if no share waits for an answer.
SilentPoolNoticed == (silent /\ pc \in InSession) ~> pc \in {"leave", "exited"}

=============================================================================
