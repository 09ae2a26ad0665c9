-------------------------- MODULE ZcashMiner_proofs --------------------------
(***************************************************************************)
(* ShareOfOneHeader of ZcashMiner, for any number of instances, blocks and *)
(* works.  The argument follows the header: an iteration without new work  *)
(* has the block and the work that the header was made of, and the runs    *)
(* that are read were started in such an iteration.                        *)
(***************************************************************************)
EXTENDS ZcashMiner, SequenceTheorems, TLAPS

\* Blocks on their way are higher than the thread's, each higher than the last.
BlocksRise ==
    /\ zblock \in Nat /\ tip \in Nat /\ zblock <= tip
    /\ blocksub \in Seq(Nat)
    /\ \A i \in 1 .. Len(blocksub) : zblock < blocksub[i] /\ blocksub[i] <= tip
    /\ \A i, j \in 1 .. Len(blocksub) : i < j => blocksub[i] < blocksub[j]

\* The header is of the block and the work that the thread holds.
HeaderMatches ==
    zwork.height = zblock /\ header.prev = zblock /\ header.job = zwork.job

\* The instance to be read is the next one to be started.
ReadyIsNext ==
    /\ DOMAIN nonces = Instances
    /\ currentInstance \in Instances
    /\ readyInstance \in -pipelinesNum .. pipelinesNum - 1
    /\ currentInstance = IF readyInstance < 0 THEN readyInstance + pipelinesNum
                                              ELSE readyInstance

\* Without new work the thread has what the header was made of, or a block that
\* it has no work for yet.
HeaderInv ==
    /\ zwork \in [height : Nat, job : Nat]
    /\ zreset \in BOOLEAN
    /\ header \in [prev : Nat, job : Nat, nonce : Nat]
    /\ zat \in {"top", "paused"} => zwork.height < zblock \/ HeaderMatches
    /\ zat = "getwork" /\ ~zreset => zwork.height < zblock \/ HeaderMatches
    /\ zat \in {"getblock", "mine"} /\ ~zreset => HeaderMatches
    /\ zat = "mine" => zwork.height <= zblock

WorksTyped == jobs \in Nat /\ worksubs \in Seq([height : Nat, job : Nat])

\* The inductive invariant.
ZcashInv == BlocksRise /\ ReadyIsNext /\ HeaderInv /\ WorksTyped /\ ShareOfOneHeader

(***************************************************************************)
(* A thread that was just started has no work, and no share was sent.      *)
(***************************************************************************)
LEMMA InitZcashInv == ZcashInit => ZcashInv
<1> SUFFICES ASSUME ZcashInit PROVE ZcashInv
  OBVIOUS
<1>1. pipelinesNum \in Nat \ {0}
  BY ZcashAssumption
<1>2. BlocksRise /\ WorksTyped
  BY DEF ZcashInit, BlocksRise, WorksTyped
<1>3. HeaderInv
  <2>1. /\ zat = "top" /\ zreset = FALSE
        /\ zwork = [height |-> 0, job |-> 0] /\ zblock = 1
        /\ header = [prev |-> 0, job |-> 0, nonce |-> 0]
    BY DEF ZcashInit, NoSolution
  <2>2. /\ zwork \in [height : Nat, job : Nat] /\ zwork.height < zblock
        /\ header \in [prev : Nat, job : Nat, nonce : Nat]
    BY <2>1
  <2>3. QED
    BY <2>1, <2>2 DEF HeaderInv
<1>4. ReadyIsNext
  BY <1>1 DEF ZcashInit, ReadyIsNext, Instances
<1>5. QED
  BY <1>2, <1>3, <1>4 DEF ZcashInit, ZcashInv, ShareOfOneHeader

(***************************************************************************)
(* The client only adds messages: higher blocks, and works of any height.  *)
(***************************************************************************)
LEMMA ClientKeeps == ZcashInv /\ Client => ZcashInv'
<1> SUFFICES ASSUME ZcashInv, Client PROVE ZcashInv'
  OBVIOUS
<1>1. UNCHANGED <<zat, zblock, zwork, zreset, runVars, zshare>>
  BY DEF Client
<1>2. ReadyIsNext' /\ HeaderInv' /\ ShareOfOneHeader'
  BY <1>1 DEF ZcashInv, runVars, ReadyIsNext, HeaderInv, HeaderMatches, ShareOfOneHeader
<1>3. BlocksRise'
  <2>1. CASE UNCHANGED <<tip, blocksub>>
    BY <1>1, <2>1 DEF ZcashInv, BlocksRise
  <2>2. CASE ZcashNotifyBlock
    <3>1. tip' = tip + 1 /\ blocksub' = Append(blocksub, tip + 1)
      BY <2>2 DEF ZcashNotifyBlock
    <3>2. BlocksRise
      BY DEF ZcashInv
    <3>3. tip + 1 \in Nat /\ blocksub \in Seq(Nat) /\ Len(blocksub) \in Nat
      BY <3>2 DEF BlocksRise
    <3>4. /\ blocksub' \in Seq(Nat) /\ Len(blocksub') = Len(blocksub) + 1
          /\ \A i \in 1 .. Len(blocksub) : blocksub'[i] = blocksub[i]
          /\ blocksub'[Len(blocksub) + 1] = tip + 1
      BY <3>1, <3>3, AppendProperties
    <3>5. \A i \in 1 .. Len(blocksub) :
             zblock < blocksub[i] /\ blocksub[i] <= tip /\ blocksub[i] \in Nat
      BY <3>2, <3>3 DEF BlocksRise
    <3>6. \A i \in 1 .. Len(blocksub') :
             i \in 1 .. Len(blocksub) \/ i = Len(blocksub) + 1
      BY <3>3, <3>4
    <3>7. ASSUME NEW i \in 1 .. Len(blocksub')
          PROVE  zblock < blocksub'[i] /\ blocksub'[i] <= tip + 1
      <4>1. zblock \in Nat /\ tip \in Nat /\ zblock <= tip
        BY <3>2 DEF BlocksRise
      <4>2. CASE i \in 1 .. Len(blocksub)
        <5>1. blocksub'[i] = blocksub[i]
          BY <3>4, <4>2
        <5>2. zblock < blocksub[i] /\ blocksub[i] <= tip /\ blocksub[i] \in Nat
          BY <3>5, <4>2
        <5>3. QED
          BY <4>1, <5>1, <5>2
      <4>3. CASE i = Len(blocksub) + 1
        <5>1. blocksub'[i] = tip + 1
          BY <3>4, <4>3
        <5>2. QED
          BY <4>1, <5>1
      <4>4. QED
        BY <3>6, <4>2, <4>3
    <3>8. ASSUME NEW i \in 1 .. Len(blocksub'), NEW j \in 1 .. Len(blocksub'), i < j
          PROVE  blocksub'[i] < blocksub'[j]
      <4>1. i \in 1 .. Len(blocksub)
        BY <3>3, <3>4, <3>8
      <4>2. CASE j \in 1 .. Len(blocksub)
        BY <3>2, <3>4, <3>8, <4>1, <4>2 DEF BlocksRise
      <4>3. CASE j = Len(blocksub) + 1
        <5>1. blocksub'[i] \in Nat /\ blocksub'[i] <= tip /\ tip \in Nat
          BY <3>2, <3>4, <3>5, <4>1 DEF BlocksRise
        <5>2. QED
          BY <3>4, <4>3, <5>1
      <4>4. QED
        BY <3>6, <4>2, <4>3
    <3>9. QED
      BY <1>1, <3>1, <3>2, <3>3, <3>4, <3>7, <3>8 DEF BlocksRise
  <2>3. QED
    BY <2>1, <2>2 DEF Client, ZcashTakeWork, ZcashToggle, ZcashShutdown
<1>4. WorksTyped'
  <2>1. CASE UNCHANGED <<jobs, worksubs>>
    BY <2>1 DEF ZcashInv, WorksTyped
  <2>2. CASE ZcashTakeWork
    <3>1. PICK h \in 2 .. MaxTip :
             worksubs' = Append(worksubs, [height |-> h, job |-> jobs'])
      BY <2>2 DEF ZcashTakeWork
    <3>2. jobs' \in Nat /\ h \in Nat
      BY <2>2, <3>1, ZcashAssumption DEF ZcashInv, WorksTyped, ZcashTakeWork
    <3>3. QED
      BY <3>1, <3>2, AppendProperties DEF ZcashInv, WorksTyped
  <2>3. QED
    BY <2>1, <2>2 DEF Client, ZcashNotifyBlock, ZcashToggle, ZcashShutdown
<1>5. QED
  BY <1>2, <1>3, <1>4 DEF ZcashInv

(***************************************************************************)
(* The start of an iteration, and the end of a pause.                      *)
(***************************************************************************)
LEMMA TopKeeps == ZcashInv /\ (ZcashTop \/ ZcashResume) => ZcashInv'
<1> SUFFICES ASSUME ZcashInv, ZcashTop \/ ZcashResume PROVE ZcashInv'
  OBVIOUS
<1>1. /\ zat \in {"top", "paused"} /\ zat' \in {"paused", "getwork"}
      /\ zreset' = FALSE \/ zreset' = zreset
      /\ zshare' = NoProof \/ zshare' = zshare
      /\ UNCHANGED <<tip, jobs, blocksub, worksubs, zblock, zwork, header, nonces,
                     currentInstance, readyInstance>>
  BY DEF ZcashTop, ZcashResume, runVars
<1>2. BlocksRise' /\ WorksTyped' /\ ReadyIsNext'
  BY <1>1 DEF ZcashInv, BlocksRise, WorksTyped, ReadyIsNext
<1>3. HeaderInv'
  BY <1>1 DEF ZcashInv, HeaderInv, HeaderMatches
<1>4. ShareOfOneHeader'
  BY <1>1 DEF ZcashInv, ShareOfOneHeader
<1>5. QED
  BY <1>2, <1>3, <1>4 DEF ZcashInv

(***************************************************************************)
(* Work is received, or what there is is not behind the block.             *)
(***************************************************************************)
LEMMA ReceiveWorkKeeps == ZcashInv /\ ZcashReceiveWork => ZcashInv'
<1> SUFFICES ASSUME ZcashInv, ZcashReceiveWork PROVE ZcashInv'
  OBVIOUS
<1>1. /\ zat = "getwork"
      /\ UNCHANGED <<tip, jobs, blocksub, zblock, header, nonces, currentInstance,
                     readyInstance, zshare>>
  BY DEF ZcashReceiveWork, runVars
<1>2. BlocksRise' /\ ReadyIsNext' /\ ShareOfOneHeader'
  BY <1>1 DEF ZcashInv, BlocksRise, ReadyIsNext, ShareOfOneHeader
<1>3. CASE /\ worksubs # <<>> /\ zreset' = TRUE /\ zat' = "getblock"
           /\ zwork' = Head(worksubs) /\ worksubs' = Tail(worksubs)
  <2>1. zwork' \in [height : Nat, job : Nat] /\ WorksTyped'
    BY <1>1, <1>3, HeadTailProperties DEF ZcashInv, WorksTyped
  <2>2. header' \in [prev : Nat, job : Nat, nonce : Nat]
    BY <1>1 DEF ZcashInv, HeaderInv
  <2>3. HeaderInv'
    BY <1>3, <2>1, <2>2 DEF HeaderInv
  <2>4. QED
    BY <1>2, <2>1, <2>3 DEF ZcashInv
<1>4. CASE /\ zwork.height >= zblock /\ zat' = "getblock"
           /\ UNCHANGED <<zwork, worksubs, zreset>>
  <2>1. zwork.height \in Nat /\ zblock \in Nat
    BY DEF ZcashInv, HeaderInv, BlocksRise
  <2>2. ~(zwork.height < zblock)
    BY <1>4, <2>1
  <2>3. HeaderInv'
    BY <1>1, <1>4, <2>1, <2>2 DEF ZcashInv, HeaderInv, HeaderMatches
  <2>4. QED
    BY <1>1, <1>2, <1>4, <2>3 DEF ZcashInv, WorksTyped
<1>5. CASE zat' = "stopped" /\ zreset' = TRUE /\ UNCHANGED <<zwork, worksubs>>
  BY <1>1, <1>2, <1>5 DEF ZcashInv, HeaderInv, HeaderMatches, WorksTyped
<1>6. QED
  BY <1>3, <1>4, <1>5 DEF ZcashReceiveWork

(***************************************************************************)
(* A block is received, which is higher than the last: without new work    *)
(* the thread is behind it.  Or the iteration begins to mine.              *)
(***************************************************************************)
LEMMA ReceiveBlockKeeps == ZcashInv /\ ZcashReceiveBlock => ZcashInv'
<1> SUFFICES ASSUME ZcashInv, ZcashReceiveBlock PROVE ZcashInv'
  OBVIOUS
<1>1. /\ zat = "getblock"
      /\ UNCHANGED <<tip, jobs, worksubs, zwork, zreset, header, nonces,
                     currentInstance, readyInstance, zshare>>
  BY DEF ZcashReceiveBlock, runVars
<1>2. WorksTyped' /\ ReadyIsNext' /\ ShareOfOneHeader'
  BY <1>1 DEF ZcashInv, WorksTyped, ReadyIsNext, ShareOfOneHeader
<1>3. CASE /\ blocksub # <<>> /\ zat' = "getwork"
           /\ zblock' = Head(blocksub) /\ blocksub' = Tail(blocksub)
  <2>1. BlocksRise
    BY DEF ZcashInv
  <2>2. blocksub \in Seq(Nat)
    BY <2>1 DEF BlocksRise
  <2>3. /\ Head(blocksub) = blocksub[1] /\ Head(blocksub) \in Nat
        /\ Tail(blocksub) \in Seq(Nat)
        /\ Len(blocksub) \in Nat /\ Len(blocksub) >= 1
        /\ Len(Tail(blocksub)) = Len(blocksub) - 1
        /\ \A i \in 1 .. Len(Tail(blocksub)) : Tail(blocksub)[i] = blocksub[i + 1]
    BY <1>3, <2>2, HeadTailProperties, EmptySeq
  <2>4. zblock < blocksub[1] /\ blocksub[1] <= tip
    BY <2>1, <2>3 DEF BlocksRise
  <2>5. ASSUME NEW i \in 1 .. Len(Tail(blocksub))
        PROVE  blocksub[1] < Tail(blocksub)[i] /\ Tail(blocksub)[i] <= tip
    <3>1. i + 1 \in 1 .. Len(blocksub) /\ 1 \in 1 .. Len(blocksub) /\ 1 < i + 1
      BY <2>3
    <3>2. blocksub[1] < blocksub[i + 1] /\ blocksub[i + 1] <= tip
      BY <2>1, <3>1 DEF BlocksRise
    <3>3. QED
      BY <2>3, <3>2
  <2>6. ASSUME NEW i \in 1 .. Len(Tail(blocksub)), NEW j \in 1 .. Len(Tail(blocksub)),
               i < j
        PROVE  Tail(blocksub)[i] < Tail(blocksub)[j]
    <3>1. i + 1 \in 1 .. Len(blocksub) /\ j + 1 \in 1 .. Len(blocksub) /\ i + 1 < j + 1
      BY <2>3, <2>6
    <3>2. blocksub[i + 1] < blocksub[j + 1]
      BY <2>1, <3>1 DEF BlocksRise
    <3>3. QED
      BY <2>3, <3>2
  <2>7. BlocksRise'
    BY <1>1, <1>3, <2>1, <2>3, <2>4, <2>5, <2>6 DEF BlocksRise
  <2>8. ~zreset => zwork.height < zblock'
    BY <1>1, <1>3, <2>3, <2>4 DEF ZcashInv, HeaderInv, HeaderMatches
  <2>9. HeaderInv'
    BY <1>1, <1>3, <2>8 DEF ZcashInv, HeaderInv
  <2>10. QED
    BY <1>2, <2>7, <2>9 DEF ZcashInv
<1>4. CASE UNCHANGED <<zblock, blocksub>> /\ zat' = "mine" /\ zwork.height <= zblock
  <2>1. BlocksRise'
    BY <1>1, <1>4 DEF ZcashInv, BlocksRise
  <2>2. HeaderInv'
    BY <1>1, <1>4 DEF ZcashInv, HeaderInv, HeaderMatches
  <2>3. QED
    BY <1>2, <2>1, <2>2 DEF ZcashInv
<1>5. CASE UNCHANGED <<zblock, blocksub>> /\ zat' = "stopped"
  <2>1. BlocksRise'
    BY <1>1, <1>5 DEF ZcashInv, BlocksRise
  <2>2. HeaderInv'
    BY <1>1, <1>5 DEF ZcashInv, HeaderInv
  <2>3. QED
    BY <1>2, <2>1, <2>2 DEF ZcashInv
<1>6. QED
  BY <1>3, <1>4, <1>5 DEF ZcashReceiveBlock

(***************************************************************************)
(* An iteration mines.  What it reads is what the instance just started    *)
(* found, and it reads only if there was no new work.                      *)
(***************************************************************************)
LEMMA ReadyStaysNext ==
  ASSUME ReadyIsNext
  PROVE  /\ Current \in Instances
         /\ Ready \in -pipelinesNum .. pipelinesNum - 1
         /\ Current = IF Ready < 0 THEN Ready + pipelinesNum ELSE Ready
BY ZcashAssumption DEF ReadyIsNext, Current, Ready, FirstReady, Instances

(***************************************************************************)
(* After an iteration the instance read next is the one started next.      *)
(***************************************************************************)
LEMMA MineKeepsReady ==
  ASSUME ReadyIsNext, ZcashMine
  PROVE  ReadyIsNext'
<1>1. pipelinesNum \in Nat \ {0}
  BY ZcashAssumption
<1>2. /\ nonces' = [nonces EXCEPT ![Current] = Header.nonce]
      /\ currentInstance' = (Current + 1) % pipelinesNum
      /\ readyInstance' = IF Ready + 1 >= 0 THEN (Ready + 1) % pipelinesNum ELSE Ready + 1
  BY DEF ZcashMine
<1>3. DOMAIN nonces' = Instances
  BY <1>2 DEF ReadyIsNext
<1>4. ASSUME NEW i \in 0 .. pipelinesNum - 1
      PROVE  (i + 1) % pipelinesNum = IF i + 1 < pipelinesNum THEN i + 1 ELSE 0
  BY <1>1, Z3
<1>5. 0 % pipelinesNum = 0
  BY <1>1, Z3
<1>6. /\ Current \in 0 .. pipelinesNum - 1
      /\ Ready \in -pipelinesNum .. pipelinesNum - 1
      /\ Current = IF Ready < 0 THEN Ready + pipelinesNum ELSE Ready
  BY ReadyStaysNext DEF Instances
<1>7. currentInstance' = IF Current + 1 < pipelinesNum THEN Current + 1 ELSE 0
  BY <1>2, <1>4, <1>6
<1>8. CASE Ready < -1
  BY <1>1, <1>2, <1>3, <1>6, <1>7, <1>8 DEF ReadyIsNext, Instances
<1>9. CASE Ready = -1
  <2>1. readyInstance' = 0
    BY <1>2, <1>5, <1>9
  <2>2. QED
    BY <1>1, <1>3, <1>6, <1>7, <1>9, <2>1 DEF ReadyIsNext, Instances
<1>10. CASE Ready >= 0
  <2>1. Current = Ready /\ Ready \in 0 .. pipelinesNum - 1
    BY <1>1, <1>6, <1>10
  <2>2. readyInstance' = currentInstance'
    BY <1>2, <1>10, <2>1
  <2>3. QED
    BY <1>1, <1>3, <1>6, <1>7, <2>2 DEF ReadyIsNext, Instances
<1>11. QED
  BY <1>1, <1>6, <1>8, <1>9, <1>10

(***************************************************************************)
(* An iteration keeps the invariant; a share it sends is of the header.    *)
(***************************************************************************)
LEMMA MineKeeps == ZcashInv /\ ZcashMine => ZcashInv'
<1> SUFFICES ASSUME ZcashInv, ZcashMine PROVE ZcashInv'
  OBVIOUS
<1>1. /\ zat = "mine" /\ zat' = "top"
      /\ header' = [Header EXCEPT !.nonce = @ + 1]
      /\ UNCHANGED <<tip, jobs, blocksub, worksubs, zblock, zwork, zreset>>
  BY DEF ZcashMine, clientVars
<1>2. BlocksRise' /\ WorksTyped'
  BY <1>1 DEF ZcashInv, BlocksRise, WorksTyped
<1>3. ReadyIsNext'
  BY MineKeepsReady DEF ZcashInv
<1>4. HeaderInv'
  <2>1. /\ zwork \in [height : Nat, job : Nat] /\ zwork.height \in Nat
        /\ zblock \in Nat /\ zwork.height <= zblock
        /\ header \in [prev : Nat, job : Nat, nonce : Nat]
        /\ zreset \in BOOLEAN /\ (~zreset => HeaderMatches)
    BY <1>1 DEF ZcashInv, HeaderInv, BlocksRise
  <2>2. CASE zreset
    <3>1. header' = [prev |-> zblock, job |-> zwork.job, nonce |-> 1]
      BY <1>1, <2>2 DEF Header
    <3>2. /\ header'.prev = zblock /\ header'.job = zwork.job
          /\ header' \in [prev : Nat, job : Nat, nonce : Nat]
      BY <2>1, <3>1
    <3>3. zwork.height < zblock \/ zwork.height = zblock
      BY <2>1
    <3>4. QED
      BY <1>1, <2>1, <3>2, <3>3 DEF HeaderInv, HeaderMatches
  <2>3. CASE ~zreset
    <3>1. header' = [header EXCEPT !.nonce = @ + 1] /\ HeaderMatches
      BY <1>1, <2>1, <2>3 DEF Header
    <3>2. /\ header'.prev = header.prev /\ header'.job = header.job
          /\ header' \in [prev : Nat, job : Nat, nonce : Nat]
      BY <2>1, <3>1
    <3>3. QED
      BY <1>1, <2>1, <3>1, <3>2 DEF HeaderInv, HeaderMatches
  <2>4. QED
    BY <2>1, <2>2, <2>3
<1>5. ShareOfOneHeader'
  <2>1. CASE zshare' = NoProof
    BY <2>1 DEF ShareOfOneHeader
  <2>2. CASE Ready >= 0 /\ zshare' = ShareFor(Header, nonces'[Ready])
    <3>1. ~zreset
      BY <2>2, ZcashAssumption DEF Ready, FirstReady
    <3>2. HeaderMatches /\ Header = header
      BY <1>1, <3>1 DEF ZcashInv, HeaderInv, Header
    <3>3. Current = Ready /\ Current \in Instances
      BY <2>2, ReadyStaysNext, ZcashAssumption DEF ZcashInv
    <3>4. nonces'[Ready] = header.nonce
      BY <3>2, <3>3 DEF ZcashMine, ZcashInv, ReadyIsNext
    <3>5. header = [prev |-> header.prev, job |-> header.job, nonce |-> header.nonce]
      BY DEF ZcashInv, HeaderInv
    <3>6. zshare' = [height |-> zblock, tip |-> zwork.height, job |-> zwork.job,
                     bignonce |-> header.nonce, solution |-> header]
      BY <2>2, <3>2, <3>4 DEF ShareFor
    <3>7. QED
      BY <3>2, <3>5, <3>6 DEF ShareOfOneHeader, HeaderMatches
  <2>3. QED
    BY <2>1, <2>2 DEF ZcashMine
<1>6. QED
  BY <1>2, <1>3, <1>4, <1>5 DEF ZcashInv

(***************************************************************************)
(* A share names the block, the work and the nonce of one header, which    *)
(* its solution was found for.                                             *)
(***************************************************************************)
THEOREM SharesOfOneHeader == ZcashSpec => []ShareOfOneHeader
<1>1. ZcashInv /\ [ZcashNext]_zcashVars => ZcashInv'
  <2>1. CASE UNCHANGED zcashVars
    BY <2>1 DEF zcashVars, clientVars, runVars, ZcashInv, BlocksRise, ReadyIsNext,
       HeaderInv, HeaderMatches, WorksTyped, ShareOfOneHeader
  <2>2. QED
    BY <2>1, ClientKeeps, TopKeeps, ReceiveWorkKeeps, ReceiveBlockKeeps, MineKeeps
    DEF ZcashNext
<1>2. ZcashInv => ShareOfOneHeader
  BY DEF ZcashInv
<1>3. QED
  BY InitZcashInv, <1>1, <1>2, PTL DEF ZcashSpec

=============================================================================
