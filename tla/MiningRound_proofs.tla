------------------------- MODULE MiningRound_proofs -------------------------
(***************************************************************************)
(* The mining loop, for any sizes, works and nonces.                       *)
(*                                                                         *)
(* For both builds: the types; the buffers of sieves, which are never      *)
(* overwritten; that each pipeline of the loop is a FermatPipeline.  For   *)
(* the OpenCL build: what becomes of a hash on its way from hashmod to the *)
(* share (the CUDA build fetches hashes and candidates twice).             *)
(*                                                                         *)
(* The buffers of the device are sequences, joined and filtered by every   *)
(* iteration.  What is true of all their elements is stated as             *)
(* `sequence \in Seq(set)', and carried by the lemmas of the first part    *)
(* from what the kernels write to what the host reads.                     *)
(***************************************************************************)
EXTENDS MiningRound, SequenceTheorems, FiniteSetTheorems, WellFoundedInduction,
        TLAPS

-----------------------------------------------------------------------------
(***************************************************************************)
(* Sequences of sequences.  FlattenSeq is defined by a recursive function; *)
(* that this function exists, and what it returns, is shown by induction   *)
(* over sets of natural numbers.                                           *)
(***************************************************************************)
(***************************************************************************)
(* A nonempty set of natural numbers has a least element.                  *)
(***************************************************************************)
LEMMA LeastNatural ==
  ASSUME NEW T \in SUBSET Nat, T # {}
  PROVE  \E x \in T : \A y \in T : x <= y
<1> DEFINE R == {ss \in Nat \X Nat : ss[1] < ss[2]}
<1>1. IsWellFoundedOn(R, Nat)
  BY NatLessThanWellFounded DEF OpToRel
<1>2. \E x \in T : \A y \in T : ~(<<y, x>> \in R)
  <2> HIDE DEF R
  <2>1. QED
    BY <1>1, WFMin
<1>3. PICK x \in T : \A y \in T : ~(<<y, x>> \in R)
  BY <1>2
<1>4. ASSUME NEW y \in T PROVE x <= y
  <2>1. x \in Nat /\ y \in Nat /\ ~(<<y, x>> \in R)
    BY <1>3
  <2>2. QED
    BY <2>1
<1>5. QED
  BY <1>4

(***************************************************************************)
(* Induction, for a set in the place of a predicate.                       *)
(***************************************************************************)
LEMMA SetInduction ==
  ASSUME NEW S, 0 \in S, \A n \in Nat : n \in S => n + 1 \in S
  PROVE  Nat \subseteq S
<1> DEFINE T == Nat \ S
<1>1. SUFFICES ASSUME T # {} PROVE FALSE
  OBVIOUS
<1>2. PICK x \in T : \A y \in T : x <= y
  BY <1>1, LeastNatural
<1>3. x # 0 /\ x - 1 \in Nat /\ x = (x - 1) + 1
  OBVIOUS
<1>4. x - 1 \in S
  BY <1>2, <1>3
<1>5. QED
  BY <1>3, <1>4

(***************************************************************************)
(* g joins the first sequences of ss, up to any of the first n.            *)
(***************************************************************************)
JoinsUpTo(g, ss, n) ==
    g = [i \in 1 .. n |-> IF i = 1 THEN ss[i] ELSE g[i - 1] \o ss[i]]

LEMMA JoinExists ==
  ASSUME NEW ss, NEW n \in Nat
  PROVE  \E g : JoinsUpTo(g, ss, n)
<1> DEFINE S == {m \in Nat : \E g : JoinsUpTo(g, ss, m)}
<1>1. 0 \in S
  <2>1. JoinsUpTo([i \in 1 .. 0 |-> 0], ss, 0)
    BY DEF JoinsUpTo
  <2>2. QED
    BY <2>1
<1>2. ASSUME NEW m \in Nat, m \in S PROVE m + 1 \in S
  <2>1. PICK g : JoinsUpTo(g, ss, m)
    BY <1>2
  <2> DEFINE last == IF m = 0 THEN ss[1] ELSE g[m] \o ss[m + 1]
             h == [i \in 1 .. m + 1 |-> IF i <= m THEN g[i] ELSE last]
  <2>2. ASSUME NEW i \in 1 .. m + 1
        PROVE  h[i] = IF i = 1 THEN ss[i] ELSE h[i - 1] \o ss[i]
    <3>1. CASE i <= m
      <4>1. i \in 1 .. m /\ h[i] = g[i]
            /\ (i # 1 => i - 1 \in 1 .. m + 1 /\ i - 1 <= m)
        BY <3>1
      <4>2. g[i] = IF i = 1 THEN ss[i] ELSE g[i - 1] \o ss[i]
        BY <2>1, <4>1 DEF JoinsUpTo
      <4>3. i # 1 => h[i - 1] = g[i - 1]
        BY <4>1
      <4>4. QED
        BY <4>1, <4>2, <4>3
    <3>2. CASE i = m + 1
      <4>1. h[i] = last
        BY <3>2
      <4>2. m # 0 => i # 1 /\ i - 1 = m /\ h[m] = g[m]
        BY <3>2
      <4>3. m = 0 => i = 1
        BY <3>2
      <4>4. QED
        BY <3>2, <4>1, <4>2, <4>3
    <3>3. QED
      BY <3>1, <3>2
  <2>3. JoinsUpTo(h, ss, m + 1)
    <3>1. h = [i \in 1 .. m + 1 |-> h[i]]
      OBVIOUS
    <3> HIDE DEF h
    <3>2. QED
      BY <2>2, <3>1 DEF JoinsUpTo
  <2>4. QED
    BY <2>3
<1>3. Nat \subseteq S
  <2> HIDE DEF S
  <2>1. QED
    BY <1>1, <1>2, SetInduction
<1>4. QED
  BY <1>3

(***************************************************************************)
(* Joined sequences over X are a sequence over X, not longer than the joined *)
(* sequences together.                                                     *)
(***************************************************************************)
LEMMA FlattenFacts ==
  ASSUME NEW X, NEW n \in Nat, NEW ss \in [1 .. n -> Seq(X)], NEW m \in Nat
  PROVE  /\ FlattenSeq(ss) \in Seq(X)
         /\ (\A i \in 1 .. n : Len(ss[i]) <= m) => Len(FlattenSeq(ss)) <= n * m
<1>1. Len(ss) = n /\ ss \in Seq(Seq(X))
  OBVIOUS
<1>2. CASE n = 0
  <2>1. ss = << >>
    BY <1>1, <1>2, EmptySeq
  <2>2. FlattenSeq(ss) = << >>
    BY <1>1, <1>2, <2>1 DEF FlattenSeq
  <2>3. QED
    BY <1>2, <2>2
<1>3. CASE n # 0
  <2> DEFINE g == CHOOSE f : JoinsUpTo(f, ss, n)
             Short == \A i \in 1 .. n : Len(ss[i]) <= m
             T == {i \in Nat : i \in 1 .. n => /\ g[i] \in Seq(X)
                                               /\ Short => Len(g[i]) <= i * m}
  <2>1. JoinsUpTo(g, ss, n)
    BY JoinExists
  <2>2. FlattenSeq(ss) = g[n]
    BY <1>1, <1>3 DEF FlattenSeq, JoinsUpTo
  <2> HIDE DEF g
  <2>3. \A i \in 1 .. n : g[i] = IF i = 1 THEN ss[i] ELSE g[i - 1] \o ss[i]
    BY <2>1 DEF JoinsUpTo
  <2>4. ASSUME NEW i \in Nat, i \in T PROVE i + 1 \in T
    <3>1. SUFFICES ASSUME i + 1 \in 1 .. n
                   PROVE  /\ g[i + 1] \in Seq(X)
                          /\ Short => Len(g[i + 1]) <= (i + 1) * m
      OBVIOUS
    <3> DEFINE new == Len(ss[i + 1])
               bound == i * m
    <3>2. ss[i + 1] \in Seq(X) /\ new \in Nat /\ (Short => new <= m)
      BY <3>1
    <3>3. (i + 1) * m = bound + m /\ bound \in Nat /\ (i = 0 => bound = 0)
      OBVIOUS
    <3>4. CASE i = 0
      <4>1. g[i + 1] = ss[i + 1]
        BY <2>3, <3>1, <3>4
      <4> HIDE DEF bound
      <4>2. QED
        BY <3>2, <3>3, <3>4, <4>1
    <3>5. CASE i # 0
      <4> DEFINE old == Len(g[i])
      <4>1. i \in 1 .. n /\ i + 1 # 1 /\ (i + 1) - 1 = i
        BY <3>1, <3>5
      <4>2. g[i + 1] = g[i] \o ss[i + 1]
        BY <2>3, <3>1, <4>1
      <4>3. g[i] \in Seq(X) /\ old \in Nat /\ (Short => old <= bound)
        BY <2>4, <4>1
      <4>4. g[i + 1] \in Seq(X) /\ Len(g[i + 1]) = old + new
        BY <3>2, <4>2, <4>3, ConcatProperties
      <4> HIDE DEF old, new, bound, Short
      <4>5. Short => old + new <= bound + m
        BY <3>2, <3>3, <4>3
      <4>6. QED
        BY <3>3, <4>4, <4>5
    <3>6. QED
      BY <3>4, <3>5
  <2>5. Nat \subseteq T
    <3>1. 0 \in T
      OBVIOUS
    <3> HIDE DEF T
    <3>2. QED
      BY <2>4, <3>1, SetInduction
  <2>6. QED
    BY <1>3, <2>2, <2>5
<1>4. QED
  BY <1>2, <1>3

LEMMA CountInterval ==
  ASSUME NEW m \in Nat, NEW n \in Nat
  PROVE  IsFiniteSet(m + 1 .. m + n) /\ Cardinality(m + 1 .. m + n) = n
<1> DEFINE a == m + 1
           b == m + n
<1>1. a \in Int /\ b \in Int
  OBVIOUS
<1>2. (IF a > b THEN 0 ELSE b - a + 1) = n
  OBVIOUS
<1> HIDE DEF a, b
<1>3. /\ IsFiniteSet(a .. b)
      /\ Cardinality(a .. b) = IF a > b THEN 0 ELSE b - a + 1
  BY <1>1, FS_Interval, Zenon
<1>4. IsFiniteSet(a .. b) /\ Cardinality(a .. b) = n
  BY <1>2, <1>3
<1>5. QED
  BY <1>4 DEF a, b

LEMMA CountUpTo ==
  ASSUME NEW n \in Nat
  PROVE  IsFiniteSet(1 .. n) /\ Cardinality(1 .. n) = n
<1>1. 0 \in Nat /\ 0 + 1 = 1 /\ 0 + n = n
  OBVIOUS
<1>2. QED
  BY <1>1, CountInterval

(***************************************************************************)
(* Some members of a finite set in any order: each at most once.           *)
(***************************************************************************)
LEMMA InAnyOrderFacts ==
  ASSUME NEW P, IsFiniteSet(P), NEW s \in InAnyOrder(P)
  PROVE  /\ s \in Seq(P) /\ Len(s) <= Cardinality(P)
         /\ \A i, j \in 1 .. Len(s) : i # j => s[i] # s[j]
<1>1. PICK S \in SUBSET P : s \in SetToSeqs(S)
  BY DEF InAnyOrder
<1>2. Cardinality(S) \in Nat /\ Cardinality(S) <= Cardinality(P)
  BY FS_Subset, FS_CardinalityType
<1>3. /\ s \in [1 .. Cardinality(S) -> S]
      /\ \A i, j \in 1 .. Cardinality(S) : i # j => s[i] # s[j]
  BY <1>1 DEF SetToSeqs
<1>4. s \in Seq(P) /\ Len(s) = Cardinality(S)
  BY <1>2, <1>3
<1>5. QED
  BY <1>2, <1>3, <1>4

-----------------------------------------------------------------------------
(***************************************************************************)
(* Types.  A candidate passes Depth tests in all: those that sieves write have *)
(* passed none, those in the pipelines fewer than Depth.                   *)
(***************************************************************************)
Sieved == {c \in Cand : c.chainpos = 0}
Pending == {c \in Cand : c.chainpos < Depth}

\* The batch is part of the buffer it is taken from.
BatchInside == \A p \in Pipelines : bsize[p] <= Len(buf[p][ridx])

TypeInv ==
    /\ TypeOK
    /\ {outDev, outHost} \subseteq [Outputs -> Seq(Sieved)]
    /\ buf \in [Pipelines -> [{0, 1} -> Seq(Pending)]]
    /\ pc # "top" => work > 0
    /\ pc = "device" => BatchInside

LEMMA RingSizes ==
    /\ PW \in Nat \ {0} /\ SW \in Nat \ {0} /\ HashesPerSieve \in Nat \ {0}
    /\ MaxFound \in Nat /\ HashesPerSieve * SW \in Nat
    /\ HashesPerSieve * SW + MaxFound <= PW
<1>1. /\ PW \in Nat \ {0} /\ SW \in Nat \ {0} /\ HashesPerSieve \in Nat \ {0}
      /\ MaxFound \in Nat
  BY RoundAssumption
<1>2. QED
  BY <1>1, RingRoomAssumption

LEMMA NextPosWraps ==
  ASSUME NEW i \in 0 .. PW - 1
  PROVE  /\ Ring!NextPos(i) = IF i + 1 < PW THEN i + 1 ELSE 0
         /\ Ring!NextPos(i) \in 0 .. PW - 1
<1>1. (i + 1) % PW = IF i + 1 < PW THEN i + 1 ELSE 0
  BY RingSizes, Z3
<1>2. QED
  BY <1>1, RingSizes DEF Ring!NextPos

LEMMA PipelineSizes ==
    /\ Depth \in Nat \ {0} /\ BlockSize \in Nat \ {0} /\ MaxPerSieve \in Nat \ {0}
    /\ FERMAT_PIPELINES \in Nat \ {0}
    /\ Junk \in Sieved /\ Sieved \subseteq Pending
BY RoundAssumption DEF Junk, Sieved, Pending, Cand

LEMMA BatchFits ==
  ASSUME NEW total \in Nat
  PROVE  Batch(total) \in 0 .. total /\ total - Batch(total) <= BlockSize
<1>1. total % BlockSize \in 0 .. BlockSize - 1 /\ total % BlockSize <= total
  BY PipelineSizes, Z3
<1>2. QED
  BY <1>1, PipelineSizes DEF Batch

(***************************************************************************)
(* What the sieves found and what was left over keep the properties of the *)
(* buffers that they come from.                                            *)
(***************************************************************************)
LEMMA AvailIsSeq ==
  ASSUME NEW p \in Pipelines, NEW X, sieves \in 1 .. SW, ridx \in {0, 1},
         \A o \in Outputs : o[2] = ridx /\ o[3] = p => outHost[o] \in Seq(X)
  PROVE  /\ Avail(p) \in Seq(X)
         /\ \A m \in Nat : (\A o \in Outputs : Len(outHost[o]) <= m)
                              => Len(Avail(p)) <= SW * m
<1> DEFINE ss == [s \in 1 .. sieves |-> outHost[<<s - 1, ridx, p>>]]
<1>1. \A s \in 1 .. sieves : <<s - 1, ridx, p>> \in Outputs
  BY RingSizes DEF Outputs, Sieves
<1>2. ss \in [1 .. sieves -> Seq(X)] /\ sieves \in Nat
  BY <1>1
<1>3. Avail(p) = FlattenSeq(ss)
  BY DEF Avail
<1>4. ASSUME NEW m \in Nat, \A o \in Outputs : Len(outHost[o]) <= m
      PROVE  Len(Avail(p)) <= SW * m
  <2>1. \A s \in 1 .. sieves : Len(ss[s]) <= m
    BY <1>1, <1>4
  <2> HIDE DEF ss
  <2>2. Len(Avail(p)) <= sieves * m /\ Avail(p) \in Seq(X)
    BY <1>2, <1>3, <2>1, FlattenFacts
  <2>3. sieves * m <= SW * m /\ sieves * m \in Int /\ SW * m \in Int
    BY <1>2, RingSizes
  <2>4. QED
    BY <2>2, <2>3
<1> HIDE DEF ss
<1>5. Avail(p) \in Seq(X)
  BY <1>2, <1>3, FlattenFacts
<1>6. QED
  BY <1>4, <1>5

LEMMA LeftIsSeq ==
  ASSUME NEW p \in Pipelines, NEW X, buf[p][widx] \in Seq(X), bsize[p] \in Nat
  PROVE  /\ Left(p) \in Seq(X)
         /\ bsize[p] <= Len(buf[p][widx])
              => Len(Left(p)) = Len(buf[p][widx]) - bsize[p]
BY DEF Left

(***************************************************************************)
(* FermatDispatch, for one pipeline.                                       *)
(***************************************************************************)
LEMMA DispatchJoins ==
  ASSUME TypeInv, Dispatch, NEW p \in Pipelines, NEW X,
         buf[p] \in [{0, 1} -> Seq(X)],
         \A o \in Outputs : o[2] = ridx /\ o[3] = p => outHost[o] \in Seq(X)
  PROVE  /\ buf'[p] \in [{0, 1} -> Seq(X)]
         /\ buf'[p][ridx] = buf[p][ridx] \o Left(p) \o Avail(p)
         /\ buf'[p][widx] = << >>
         /\ bsize'[p] = Batch(Len(buf'[p][ridx]))
<1>1. /\ ridx \in {0, 1} /\ widx \in {0, 1} /\ ridx # widx
      /\ sieves \in 1 .. SW /\ bsize[p] \in Nat
  BY DEF TypeInv, TypeOK, widx
<1>2. Avail(p) \in Seq(X) /\ Left(p) \in Seq(X) /\ buf[p][ridx] \in Seq(X)
  BY <1>1, AvailIsSeq, LeftIsSeq
<1>3. buf[p][ridx] \o Left(p) \o Avail(p) \in Seq(X)
  BY <1>2, ConcatProperties
<1>4. /\ buf'[p] = [buf[p] EXCEPT ![ridx] = @ \o Left(p) \o Avail(p),
                                  ![widx] = << >>]
      /\ bsize'[p] = Batch(Len(buf'[p][ridx]))
  BY DEF Dispatch
<1> DEFINE joined == buf[p][ridx] \o Left(p) \o Avail(p)
<1>5. joined \in Seq(X) /\ << >> \in Seq(X)
      /\ buf'[p] = [buf[p] EXCEPT ![ridx] = joined, ![widx] = << >>]
  BY <1>3, <1>4
<1> HIDE DEF joined
<1>6. /\ buf'[p] \in [{0, 1} -> Seq(X)]
      /\ buf'[p][ridx] = joined /\ buf'[p][widx] = << >>
  BY <1>1, <1>5
<1>7. QED
  BY <1>4, <1>6 DEF joined

(***************************************************************************)
(* What the Fermat kernels write, for one pipeline, is what passed: the    *)
(* survivors have tests to come, the final ones do not.                    *)
(***************************************************************************)
LEMMA SurvivorsAreSeq ==
  ASSUME NEW p \in Pipelines, bsize[p] \in Nat, NEW X,
         \A b \in Again(p) : Passed(p, b) \in X,
         NEW kept \in InAnyOrder(Again(p))
  PROVE  /\ Survivors(p, kept) \in Seq(X) /\ Len(Survivors(p, kept)) = Len(kept)
         /\ kept \in Seq(Again(p)) /\ Len(kept) <= bsize[p]
         /\ \A i, j \in 1 .. Len(kept) : i # j => kept[i] # kept[j]
         /\ \A i \in 1 .. Len(kept) : Survivors(p, kept)[i] = Passed(p, kept[i])
<1>1. /\ IsFiniteSet(1 .. bsize[p]) /\ Cardinality(1 .. bsize[p]) = bsize[p]
  BY CountUpTo
<1>2. Again(p) \in SUBSET (1 .. bsize[p])
  BY DEF Again
<1>3. IsFiniteSet(Again(p)) /\ Cardinality(Again(p)) <= bsize[p]
  BY <1>1, <1>2, FS_Subset, Zenon
<1>4. /\ kept \in Seq(Again(p)) /\ Len(kept) <= Cardinality(Again(p))
      /\ \A i, j \in 1 .. Len(kept) : i # j => kept[i] # kept[j]
  BY <1>3, InAnyOrderFacts
<1>5. Len(kept) <= bsize[p]
  BY <1>3, <1>4, FS_CardinalityType
<1>6. /\ Survivors(p, kept) = [i \in 1 .. Len(kept) |-> Passed(p, kept[i])]
      /\ \A i \in 1 .. Len(kept) : Passed(p, kept[i]) \in X
  BY <1>4 DEF Survivors
<1>7. Survivors(p, kept) \in Seq(X) /\ Len(Survivors(p, kept)) = Len(kept)
  BY <1>4, <1>6
<1>8. \A i \in 1 .. Len(kept) : Survivors(p, kept)[i] = Passed(p, kept[i])
  BY <1>6
<1>9. QED
  BY <1>4, <1>5, <1>7, <1>8

LEMMA FinalsAreSeq ==
  ASSUME NEW p \in Pipelines, bsize[p] \in Nat, NEW X, NEW done,
         \A b \in 1 .. bsize[p] : Passed(p, b) \in X
  PROVE  Finals(p, done) \in Seq(X)
<1> DEFINE ss == [b \in 1 .. bsize[p] |->
                    IF b \in done THEN <<Passed(p, b)>> ELSE << >>]
<1>1. ss \in [1 .. bsize[p] -> Seq(X)]
  OBVIOUS
<1>2. Finals(p, done) = FlattenSeq(ss)
  BY DEF Finals
<1> HIDE DEF ss
<1>3. 0 \in Nat
  OBVIOUS
<1>4. QED
  BY <1>1, <1>2, <1>3, FlattenFacts

(***************************************************************************)
(* The device finishes: survivors of every pipeline, and the long candidates of *)
(* all of them.                                                            *)
(***************************************************************************)
LEMMA FinishWrites ==
  ASSUME TypeInv, Finish, NEW X, NEW Y,
         \A p \in Pipelines : \A b \in 1 .. bsize[p] : Passed(p, b) \in Y,
         \A p \in Pipelines : \A b \in Again(p) : Passed(p, b) \in X
  PROVE  /\ finalHost' \in Seq(Y)
         /\ \A p \in Pipelines :
              \E kept \in InAnyOrder(Again(p)) :
                 /\ buf'[p] = [buf[p] EXCEPT ![widx] = Survivors(p, kept)]
                 /\ Survivors(p, kept) \in Seq(X)
<1>1. \A p \in Pipelines : bsize[p] \in Nat
  BY DEF TypeInv, TypeOK
<1>2. finalHost' \in Seq(Y)
  <2>1. PICK done : finalHost' = FlattenSeq([q \in 1 .. FERMAT_PIPELINES |->
                                                Finals(q - 1, done[q - 1])])
    BY DEF Finish
  <2> DEFINE ss == [q \in 1 .. FERMAT_PIPELINES |-> Finals(q - 1, done[q - 1])]
  <2>2. \A q \in 1 .. FERMAT_PIPELINES : q - 1 \in Pipelines
    BY PipelineSizes DEF Pipelines
  <2>3. \A q \in 1 .. FERMAT_PIPELINES : Finals(q - 1, done[q - 1]) \in Seq(Y)
    BY <1>1, <2>2, FinalsAreSeq
  <2>4. ss \in [1 .. FERMAT_PIPELINES -> Seq(Y)]
    BY <2>3
  <2>5. finalHost' = FlattenSeq(ss)
    BY <2>1
  <2> HIDE DEF ss
  <2>6. 0 \in Nat /\ FERMAT_PIPELINES \in Nat
    BY PipelineSizes
  <2>7. QED
    BY <2>4, <2>5, <2>6, FlattenFacts
<1>3. PICK kept :
        /\ \A p \in Pipelines : kept[p] \in InAnyOrder(Again(p))
        /\ buf' = [p \in Pipelines |->
                     [buf[p] EXCEPT ![widx] = Survivors(p, kept[p])]]
  BY DEF Finish
<1>4. ASSUME NEW p \in Pipelines
      PROVE  /\ kept[p] \in InAnyOrder(Again(p))
             /\ buf'[p] = [buf[p] EXCEPT ![widx] = Survivors(p, kept[p])]
             /\ Survivors(p, kept[p]) \in Seq(X)
  BY <1>1, <1>3, SurvivorsAreSeq
<1>5. QED
  BY <1>2, <1>4

LEMMA PassedTyped ==
  ASSUME TypeInv, pc = "device", NEW p \in Pipelines, NEW b \in 1 .. bsize[p]
  PROVE  /\ b \in 1 .. Len(buf[p][ridx]) /\ buf[p][ridx][b] \in Pending
         /\ Passed(p, b) \in Cand
         /\ Passed(p, b).chainpos = buf[p][ridx][b].chainpos + 1
         /\ Passed(p, b).hid = buf[p][ridx][b].hid
         /\ Passed(p, b).hash = buf[p][ridx][b].hash
         /\ b \in Again(p) => Passed(p, b) \in Pending
<1>1. /\ bsize[p] \in Nat /\ ridx \in {0, 1} /\ buf[p] \in [{0, 1} -> Seq(Pending)]
      /\ bsize[p] <= Len(buf[p][ridx])
  BY DEF TypeInv, TypeOK, BatchInside
<1>2. buf[p][ridx] \in Seq(Pending)
  BY <1>1
<1>3. Len(buf[p][ridx]) \in Nat
  BY <1>2
<1>4. b \in 1 .. Len(buf[p][ridx])
  BY <1>1, <1>3
<1>5. buf[p][ridx][b] \in Pending
  BY <1>2, <1>4
<1> DEFINE c == buf[p][ridx][b]
<1>6. Passed(p, b) = [c EXCEPT !.chainpos = c.chainpos + 1]
  BY DEF Passed
<1>7. c \in Pending
  BY <1>5
<1> HIDE DEF c
<1>8. c \in Cand /\ c.chainpos < Depth /\ Depth \in Nat
  BY <1>7, PipelineSizes DEF Pending
<1>9. /\ Passed(p, b) = [hid |-> c.hid, hash |-> c.hash, index |-> c.index,
                         chainpos |-> c.chainpos + 1]
      /\ Passed(p, b) \in Cand
  BY <1>6, <1>8 DEF Cand
<1>10. b \in Again(p) => Passed(p, b) \in Pending
  BY <1>9 DEF Again, Pending
<1>11. QED
  BY <1>4, <1>5, <1>9, <1>10 DEF c

(***************************************************************************)
(* The steps that keep the types: new work, hashes that are fetched, hashmod, *)
(* a sieve, and then the steps of the pipelines.                           *)
(***************************************************************************)
LEMMA NewWorkKeepsTypes ==
  ASSUME TypeInv, NewWork
  PROVE  TypeInv'
<1>1. /\ work \in 0 .. MaxWork /\ work < MaxWork /\ work' = work + 1
      /\ nonce' = 0 /\ foundHost' = << >> /\ pc' = "fetch" /\ share' = NoShare
      /\ foundDev' = IF Cuda THEN << >> ELSE foundDev
      /\ outHost' = [o \in Outputs |-> << >>]
      /\ buf' = [p \in Pipelines |-> [k \in {0, 1} |-> << >>]]
      /\ bsize' = [p \in Pipelines |-> 0] /\ finalHost' = << >>
      /\ slots' = slots /\ writePos' = writePos /\ readPos' = writePos
      /\ UNCHANGED <<ridx, hashed, sieves, sieve, outDev, candis, queued,
                     requeued, reentered>>
  BY DEF NewWork, ForgetBatch, ForgetFinal, Ring!Clear, history, TypeInv, TypeOK
<1>2. work' \in 0 .. MaxWork /\ work' > 0
  BY <1>1, RoundAssumption
<1>3. /\ {foundDev', foundHost'} \subseteq Seq(Hash)
      /\ {outDev', outHost'} \subseteq [Outputs -> Seq(Sieved)]
      /\ outHost' \in [Outputs -> Seq(Cand)]
      /\ buf' \in [Pipelines -> [{0, 1} -> Seq(Pending)]]
      /\ buf' \in [Pipelines -> [{0, 1} -> Seq(Cand)]]
      /\ bsize' \in [Pipelines -> Nat] /\ {finalHost', candis'} \subseteq Seq(Cand)
  BY <1>1 DEF TypeInv, TypeOK
<1>4. share' \in [hash : Hash \union {NoHash}, merkle : 0 .. MaxWork]
  BY <1>1, RoundAssumption DEF NoShare
<1>5. nonce' \in 0 .. MaxNonce /\ Ring!RingTypeOK'
  BY <1>1, RoundAssumption DEF TypeInv, TypeOK, Ring!RingTypeOK
<1>6. QED
  BY <1>1, <1>2, <1>3, <1>4, <1>5 DEF TypeInv, TypeOK

LEMMA FetchKeepsTypes ==
  ASSUME TypeInv, FetchHash \/ RejectHash
  PROVE  TypeInv'
<1>1. /\ foundHost # << >> /\ foundHost' = Tail(foundHost) /\ pc = "fetch"
      /\ UNCHANGED <<pc, work, ridx, nonce, hashed, foundDev, outDev, outHost,
                     sieves, sieve, buf, bsize, finalHost, candis, share,
                     reentered>>
  BY DEF FetchHash, RejectHash, pipes, history
<1>2. /\ Head(foundHost) \in Hash /\ Tail(foundHost) \in Seq(Hash)
  BY <1>1, HeadTailProperties DEF TypeInv, TypeOK
<1>3. Ring!RingTypeOK' /\ queued' \subseteq Hash /\ requeued' \in BOOLEAN
  <2>1. CASE RejectHash
    BY <2>1 DEF RejectHash, ring, history, TypeInv, TypeOK, Ring!RingTypeOK
  <2>2. CASE FetchHash
    <3>1. queued' = queued \union {Head(foundHost)} /\ Ring!Push(Head(foundHost))
      BY <2>2 DEF FetchHash
    <3>2. requeued' = (requeued \/ Head(foundHost) \in queued)
      BY <2>2 DEF FetchHash
    <3>3. Ring!RingTypeOK'
      <4>1. Ring!RingTypeOK
        BY DEF TypeInv, TypeOK
      <4>2. Ring!NextPos(writePos) \in Ring!Slots
        BY <4>1, NextPosWraps DEF Ring!RingTypeOK, Ring!Slots
      <4>3. QED
        BY <1>2, <3>1, <4>1, <4>2
        DEF Ring!Push, Ring!PushStored, Ring!PushDropped, Ring!ringVars,
            Ring!RingTypeOK
    <3>4. queued' \subseteq Hash
      BY <1>2, <3>1 DEF TypeInv, TypeOK
    <3>5. requeued' \in BOOLEAN
      BY <3>2, Zenon
    <3>6. QED
      BY <3>3, <3>4, <3>5
  <2>3. QED
    BY <2>1, <2>2
<1>4. QED
  BY <1>1, <1>2, <1>3 DEF TypeInv, TypeOK

LEMMA StartKeepsTypes ==
  ASSUME TypeInv, StartHashmod
  PROVE  TypeInv'
<1>1. /\ pc = "fetch" /\ pc' = "sieve" /\ sieve' = 0 /\ hashed' = TRUE
      /\ UNCHANGED <<work, ridx, slots, readPos, writePos, foundHost, outDev,
                     outHost, sieves, buf, bsize, finalHost, candis, share,
                     queued, requeued, reentered>>
  BY DEF StartHashmod, ring, pipes, history
<1>2. PICK n \in 0 .. MaxFound :
        /\ nonce + n <= MaxNonce /\ nonce' = nonce + n
        /\ foundDev' = [j \in 1 .. n |-> [work |-> work, nonce |-> nonce + j]]
  BY DEF StartHashmod
<1>3. /\ work \in 1 .. MaxWork /\ nonce \in 0 .. MaxNonce /\ n \in Nat
      /\ MaxNonce \in Nat
  BY <1>1, <1>2, RoundAssumption DEF TypeInv, TypeOK
<1>4. foundDev' \in Seq(Hash)
  <2> DEFINE item(j) == [work |-> work, nonce |-> nonce + j]
  <2>1. foundDev' = [j \in 1 .. n |-> item(j)]
    BY <1>2
  <2>2. \A j \in 1 .. n : item(j) \in Hash
    BY <1>2, <1>3 DEF Hash
  <2> HIDE DEF item
  <2>3. foundDev' \in [1 .. n -> Hash]
    BY <2>1, <2>2
  <2>4. QED
    BY <1>3, <2>3
<1>5. nonce' \in 0 .. MaxNonce
  BY <1>2, <1>3
<1>6. 0 \in 0 .. sieves /\ Ring!RingTypeOK'
  BY <1>1, RoundAssumption DEF TypeInv, TypeOK, Ring!RingTypeOK
<1>7. QED
  BY <1>1, <1>3, <1>4, <1>5, <1>6 DEF TypeInv, TypeOK

LEMMA RunSieveWrites ==
  ASSUME TypeInv, RunSieve
  PROVE  /\ pc = "sieve" /\ pc' = "sieve" /\ sieve' = sieve + 1 /\ sieve < sieves
         /\ readPos # writePos /\ readPos' = Ring!NextPos(readPos)
         /\ UNCHANGED <<slots, writePos>>
         /\ \A o \in Outputs :
              IF o[1] = sieve /\ o[2] = widx
              THEN outDev'[o] \in
                     Seq({c \in Sieved : c.hid = readPos /\ c.hash = slots[readPos]})
              ELSE outDev'[o] = outDev[o]
         /\ \A o \in Outputs : Len(outDev[o]) <= MaxPerSieve
                                 => Len(outDev'[o]) <= MaxPerSieve
         /\ DOMAIN outDev' = Outputs
<1> DEFINE W == {c \in Sieved : c.hid = readPos /\ c.hash = slots[readPos]}
<1>1. PICK yield \in [Pipelines -> 0 .. MaxPerSieve] :
        outDev' = [o \in Outputs |->
              IF o[1] = sieve /\ o[2] = widx
              THEN [j \in 1 .. yield[o[3]] |->
                      [hid |-> readPos, hash |-> slots[readPos], index |-> j,
                       chainpos |-> 0]]
              ELSE outDev[o]]
  <2>1. RunSieve
    OBVIOUS
  <2>2. QED
    BY <2>1 DEF RunSieve
<1>2. readPos \in 0 .. PW - 1 /\ slots[readPos] \in Hash \union {NoHash}
  BY DEF TypeInv, TypeOK, Ring!RingTypeOK, Ring!Slots
<1>3. ASSUME NEW o \in Outputs, o[1] = sieve /\ o[2] = widx
      PROVE  outDev'[o] \in Seq(W) /\ Len(outDev'[o]) <= MaxPerSieve
  <2>1. o[3] \in Pipelines
    BY DEF Outputs
  <2>2. yield[o[3]] \in 0 .. MaxPerSieve
    BY <2>1
  <2> DEFINE item(j) == [hid |-> readPos, hash |-> slots[readPos], index |-> j,
                         chainpos |-> 0]
             found == [j \in 1 .. yield[o[3]] |-> item(j)]
  <2>3. outDev'[o] = found
    BY <1>1, <1>3
  <2>4. \A j \in 1 .. yield[o[3]] : item(j) \in W
    BY <1>2, <2>2, PipelineSizes DEF Sieved, Cand
  <2> HIDE DEF item, W
  <2>5. found \in [1 .. yield[o[3]] -> W] /\ yield[o[3]] \in Nat
    BY <2>2, <2>4
  <2> HIDE DEF found
  <2>6. found \in Seq(W) /\ Len(found) = yield[o[3]]
    BY <2>5
  <2>7. QED
    BY <2>2, <2>3, <2>6, PipelineSizes
<1>4. ASSUME NEW o \in Outputs, ~(o[1] = sieve /\ o[2] = widx)
      PROVE  outDev'[o] = outDev[o]
  BY <1>1, <1>4
<1>5. /\ pc = "sieve" /\ pc' = "sieve" /\ sieve' = sieve + 1 /\ sieve < sieves
      /\ readPos # writePos /\ readPos' = Ring!NextPos(readPos)
      /\ UNCHANGED <<slots, writePos>>
  BY DEF RunSieve, Ring!Pop, Ring!Empty
<1>6. DOMAIN outDev' = Outputs
  BY <1>1
<1>7. \A o \in Outputs : IF o[1] = sieve /\ o[2] = widx THEN outDev'[o] \in Seq(W)
                                                      ELSE outDev'[o] = outDev[o]
  BY <1>3, <1>4
<1>8. \A o \in Outputs : Len(outDev[o]) <= MaxPerSieve => Len(outDev'[o]) <= MaxPerSieve
  <2>1. TAKE o \in Outputs
  <2>2. CASE o[1] = sieve /\ o[2] = widx
    BY <1>3, <2>2
  <2>3. CASE ~(o[1] = sieve /\ o[2] = widx)
    BY <1>4, <2>3
  <2>4. QED
    BY <2>2, <2>3
<1>9. QED
  BY <1>5, <1>6, <1>7, <1>8

LEMMA SieveKeepsTypes ==
  ASSUME TypeInv, RunSieve
  PROVE  TypeInv'
<1>1. UNCHANGED <<pc, work, ridx, nonce, hashed, foundDev, foundHost, outHost,
                  sieves, buf, bsize, finalHost, candis, share, queued,
                  requeued, reentered>>
  BY DEF RunSieve, pipes, history
<1>2. pc = "sieve" /\ sieve' \in 0 .. sieves
  BY RunSieveWrites DEF TypeInv, TypeOK
<1>3. Ring!RingTypeOK'
  <2>1. Ring!RingTypeOK
    BY DEF TypeInv, TypeOK
  <2>2. Ring!NextPos(readPos) \in Ring!Slots
    BY <2>1, NextPosWraps DEF Ring!RingTypeOK, Ring!Slots
  <2>3. QED
    BY <2>1, <2>2, RunSieveWrites DEF Ring!RingTypeOK
<1>4. \A o \in Outputs : outDev'[o] \in Seq(Sieved)
  <2>1. TAKE o \in Outputs
  <2> DEFINE W == {c \in Sieved : c.hid = readPos /\ c.hash = slots[readPos]}
  <2>2. outDev[o] \in Seq(Sieved)
    BY DEF TypeInv
  <2>3. W \subseteq Sieved
    OBVIOUS
  <2>4. outDev'[o] \in Seq(W) \/ outDev'[o] = outDev[o]
    BY RunSieveWrites
  <2> HIDE DEF W
  <2>5. QED
    BY <2>2, <2>3, <2>4, SeqMonotonic
<1>5. outDev' \in [Outputs -> Seq(Sieved)] /\ outDev' \in [Outputs -> Seq(Cand)]
  <2>1. outDev' = [o \in Outputs |-> outDev'[o]]
    BY DEF RunSieve
  <2>2. Sieved \subseteq Cand
    BY DEF Sieved
  <2>3. Seq(Sieved) \subseteq Seq(Cand)
    BY <2>2, SeqMonotonic
  <2>4. QED
    BY <1>4, <2>1, <2>3
<1>6. QED
  BY <1>1, <1>2, <1>3, <1>5 DEF TypeInv, TypeOK

LEMMA DispatchKeepsTypes ==
  ASSUME TypeInv, Dispatch
  PROVE  TypeInv'
<1>1. /\ pc = "fermat" /\ pc' = "device" /\ candis' = finalHost /\ finalHost' = << >>
      /\ outHost' = [o \in Outputs |-> HandedOver(o)]
      /\ DOMAIN buf' = Pipelines
      /\ bsize' = [p \in Pipelines |-> Batch(Len(buf'[p][ridx]))]
      /\ UNCHANGED <<work, ridx, slots, readPos, writePos, nonce, hashed,
                     foundDev, foundHost, outDev, sieves, sieve, share, queued,
                     requeued>>
  BY DEF Dispatch, ring
<1>2. reentered' \in BOOLEAN
  <2>1. PICK new : reentered' = (reentered \/ new \intersect entered # {})
    BY DEF Dispatch
  <2>2. QED
    BY <2>1, Zenon
<1>3. /\ outHost \in [Outputs -> Seq(Sieved)]
      /\ \A p \in Pipelines : buf[p] \in [{0, 1} -> Seq(Pending)]
      /\ ridx \in {0, 1}
  BY DEF TypeInv, TypeOK
<1>4. /\ \A o \in Outputs : outHost[o] \in Seq(Pending)
      /\ Seq(Pending) \subseteq Seq(Cand) /\ Seq(Sieved) \subseteq Seq(Cand)
  <2>1. Pending \subseteq Cand /\ Sieved \subseteq Cand /\ Sieved \subseteq Pending
    BY PipelineSizes DEF Pending, Sieved
  <2>2. QED
    BY <1>3, <2>1, SeqMonotonic
<1>5. ASSUME NEW p \in Pipelines
      PROVE  /\ buf'[p] \in [{0, 1} -> Seq(Pending)]
             /\ bsize'[p] \in Nat /\ bsize'[p] <= Len(buf'[p][ridx])
  <2>1. /\ buf'[p] \in [{0, 1} -> Seq(Pending)]
        /\ bsize'[p] = Batch(Len(buf'[p][ridx]))
    BY <1>3, <1>4, DispatchJoins
  <2>2. buf'[p][ridx] \in Seq(Pending)
    BY <1>3, <2>1
  <2>3. Len(buf'[p][ridx]) \in Nat
    BY <2>2
  <2>4. Batch(Len(buf'[p][ridx])) \in 0 .. Len(buf'[p][ridx])
    BY <2>3, BatchFits
  <2>5. QED
    BY <2>1, <2>3, <2>4
<1>6. /\ buf' \in [Pipelines -> [{0, 1} -> Seq(Pending)]]
      /\ buf' \in [Pipelines -> [{0, 1} -> Seq(Cand)]]
      /\ bsize' \in [Pipelines -> Nat] /\ BatchInside'
  <2>1. buf' = [p \in Pipelines |-> buf'[p]]
    BY DEF Dispatch
  <2>2. buf' \in [Pipelines -> [{0, 1} -> Seq(Pending)]]
    BY <1>5, <2>1
  <2>3. buf' \in [Pipelines -> [{0, 1} -> Seq(Cand)]]
    BY <1>4, <2>2
  <2>4. bsize' \in [Pipelines -> Nat]
    BY <1>1, <1>5
  <2>5. QED
    BY <1>1, <1>5, <2>2, <2>3, <2>4 DEF BatchInside
<1>7. outHost' \in [Outputs -> Seq(Sieved)] /\ outHost' \in [Outputs -> Seq(Cand)]
  BY <1>1, <1>3, <1>4 DEF HandedOver
<1>8. {finalHost', candis'} \subseteq Seq(Cand)
  BY <1>1 DEF TypeInv, TypeOK
<1>9. Ring!RingTypeOK'
  BY <1>1 DEF TypeInv, TypeOK, Ring!RingTypeOK
<1>10. QED
  BY <1>1, <1>2, <1>6, <1>7, <1>8, <1>9 DEF TypeInv, TypeOK

LEMMA FinishKeepsTypes ==
  ASSUME TypeInv, Finish
  PROVE  TypeInv'
<1>1. /\ pc = "device" /\ pc' = "check"
      /\ outHost' = [o \in Outputs |-> Fetched(o)] /\ foundHost' = FetchedHashes
      /\ sieves' = Grown \/ sieves' = sieves
      /\ UNCHANGED <<work, ridx, slots, readPos, writePos, nonce, hashed,
                     foundDev, sieve, outDev, bsize, candis, share, queued,
                     requeued, reentered>>
  BY DEF Finish, ring, history
<1>2. Pending \subseteq Cand /\ Sieved \subseteq Cand
  BY DEF Pending, Sieved
<1>3. Seq(Pending) \subseteq Seq(Cand) /\ Seq(Sieved) \subseteq Seq(Cand)
  BY <1>2, SeqMonotonic
<1>4. /\ finalHost' \in Seq(Cand)
      /\ \A p \in Pipelines :
           \E kept \in InAnyOrder(Again(p)) :
              /\ buf'[p] = [buf[p] EXCEPT ![widx] = Survivors(p, kept)]
              /\ Survivors(p, kept) \in Seq(Pending)
  <2>1. \A p \in Pipelines : \A b \in 1 .. bsize[p] : Passed(p, b) \in Cand
    BY <1>1, PassedTyped
  <2>2. \A p \in Pipelines : \A b \in Again(p) : b \in 1 .. bsize[p]
    BY DEF Again
  <2>3. \A p \in Pipelines : \A b \in Again(p) : Passed(p, b) \in Pending
    BY <1>1, <2>2, PassedTyped
  <2>4. QED
    BY <2>1, <2>3, FinishWrites
<1>5. \A p \in Pipelines : buf'[p] \in [{0, 1} -> Seq(Pending)]
  <2>1. \A p \in Pipelines : buf[p] \in [{0, 1} -> Seq(Pending)]
    BY DEF TypeInv
  <2>2. TAKE p \in Pipelines
  <2>3. PICK s \in Seq(Pending) : buf'[p] = [buf[p] EXCEPT ![widx] = s]
    BY <1>4
  <2>4. QED
    BY <2>1, <2>3
<1>6. /\ buf' \in [Pipelines -> [{0, 1} -> Seq(Pending)]]
      /\ buf' \in [Pipelines -> [{0, 1} -> Seq(Cand)]]
  <2>1. buf' = [p \in Pipelines |-> buf'[p]]
    BY DEF Finish
  <2>2. buf' \in [Pipelines -> [{0, 1} -> Seq(Pending)]]
    BY <1>5, <2>1
  <2>3. QED
    BY <1>3, <2>2
<1>7. /\ outHost' \in [Outputs -> Seq(Sieved)] /\ outHost' \in [Outputs -> Seq(Cand)]
      /\ outDev' \in [Outputs -> Seq(Sieved)] /\ outDev' \in [Outputs -> Seq(Cand)]
  BY <1>1, <1>3 DEF Fetched, TypeInv
<1>8. sieves' \in 1 .. SW /\ sieve' \in 0 .. sieves'
  <2>1. sieves \in 1 .. SW /\ sieve \in 0 .. sieves /\ SW \in Nat
    BY RingSizes DEF TypeInv, TypeOK
  <2>2. QED
    BY <1>1, <2>1 DEF Grown
<1>9. foundHost' \in Seq(Hash)
  BY <1>1 DEF FetchedHashes, TypeInv, TypeOK
<1>10. Ring!RingTypeOK'
  BY <1>1 DEF TypeInv, TypeOK, Ring!RingTypeOK
<1>11. QED
  BY <1>1, <1>4, <1>6, <1>7, <1>8, <1>9, <1>10 DEF TypeInv, TypeOK

LEMMA CheckKeepsTypes ==
  ASSUME TypeInv, CheckCandi
  PROVE  TypeInv'
<1>1. /\ pc = "check" /\ candis # << >> /\ candis' = Tail(candis)
      /\ \/ share' = NoShare
         \/ share' = [hash |-> slots[Head(candis).hid], merkle |-> work]
      /\ UNCHANGED <<pc, work, ridx, slots, readPos, writePos, nonce, hashed,
                     foundDev, foundHost, outDev, outHost, sieves, sieve, buf,
                     bsize, finalHost, queued, requeued, reentered>>
  BY DEF CheckCandi, ring, results, history
<1>2. candis' \in Seq(Cand) /\ Head(candis) \in Cand
  BY <1>1, HeadTailProperties DEF TypeInv, TypeOK
<1>3. slots[Head(candis).hid] \in Hash \union {NoHash}
  BY <1>2 DEF Cand, TypeInv, TypeOK, Ring!RingTypeOK, Ring!Slots
<1>4. share' \in [hash : Hash \union {NoHash}, merkle : 0 .. MaxWork]
  <2>1. work \in 0 .. MaxWork /\ MaxWork \in Nat
    BY RoundAssumption DEF TypeInv, TypeOK
  <2>2. NoShare \in [hash : Hash \union {NoHash}, merkle : 0 .. MaxWork]
    BY <2>1 DEF NoShare
  <2>3. ASSUME NEW h \in Hash \union {NoHash}
        PROVE  [hash |-> h, merkle |-> work]
                  \in [hash : Hash \union {NoHash}, merkle : 0 .. MaxWork]
    BY <2>1
  <2>4. QED
    BY <1>1, <1>3, <2>2, <2>3
<1>5. Ring!RingTypeOK'
  BY <1>1 DEF TypeInv, TypeOK, Ring!RingTypeOK
<1>6. QED
  BY <1>1, <1>2, <1>4, <1>5 DEF TypeInv, TypeOK

LEMMA OthersKeepTypes ==
  ASSUME TypeInv,
         UNCHANGED vars \/ SameWork \/ SkipHashmod \/ EndSieves \/ NextIteration
  PROVE  TypeInv'
<1>1. /\ UNCHANGED <<work, slots, readPos, writePos, nonce, foundDev, foundHost,
                     outDev, outHost, sieves, buf, bsize, finalHost, candis,
                     queued, requeued, reentered>>
      /\ share' = share \/ share' = NoShare
      /\ sieve' = sieve \/ sieve' = 0
      /\ hashed' = hashed \/ hashed' = FALSE
  BY DEF vars, SameWork, SkipHashmod, EndSieves, NextIteration, ring, results,
     pipes, history
<1>2. \/ pc' = pc /\ ridx' = ridx
      \/ pc' \in {"fetch", "sieve", "fermat"} /\ ridx' = ridx /\ work > 0
      \/ pc' = "top" /\ ridx' = widx
  BY DEF vars, SameWork, SkipHashmod, EndSieves, NextIteration, TypeInv
<1>3. Ring!RingTypeOK'
  BY <1>1 DEF TypeInv, TypeOK, Ring!RingTypeOK
<1>4. share' \in [hash : Hash \union {NoHash}, merkle : 0 .. MaxWork]
  BY <1>1, RoundAssumption DEF NoShare, TypeInv, TypeOK
<1>5. sieve' \in 0 .. sieves /\ hashed' \in BOOLEAN /\ ridx' \in {0, 1}
  <2>1. sieves \in 1 .. SW /\ sieve \in 0 .. sieves /\ SW \in Nat
    BY RingSizes DEF TypeInv, TypeOK
  <2>2. sieve' \in 0 .. sieves
    BY <1>1, <2>1
  <2>3. ridx \in {0, 1} /\ hashed \in BOOLEAN
    BY DEF TypeInv, TypeOK
  <2>4. ridx' \in {0, 1}
    BY <1>2, <2>3 DEF widx
  <2>5. hashed' \in BOOLEAN
    BY <1>1, <2>3, Zenon
  <2>6. QED
    BY <2>2, <2>4, <2>5
<1>6. /\ pc' \in {"top", "fetch", "sieve", "fermat", "device", "check"}
      /\ pc' # "top" => work > 0
      /\ pc' = "device" => BatchInside'
  BY <1>1, <1>2 DEF TypeInv, TypeOK, BatchInside
<1>7. TypeOK'
  BY <1>1, <1>3, <1>4, <1>5, <1>6 DEF TypeInv, TypeOK
<1>8. QED
  BY <1>1, <1>6, <1>7 DEF TypeInv

LEMMA TypeInvInductive == Spec => []TypeInv
<1>1. Init => TypeInv
  <2> SUFFICES ASSUME Init PROVE TypeInv
    OBVIOUS
  <2>1. PICK garbage \in {<< >>, <<Junk>>} : outDev = [o \in Outputs |-> garbage]
    BY DEF Init
  <2>2. garbage \in Seq(Sieved) /\ Sieved \subseteq Cand
    <3>1. << >> \in Seq(Sieved) /\ <<Junk>> \in Seq(Sieved)
      BY PipelineSizes
    <3>2. garbage = << >> \/ garbage = <<Junk>>
      BY <2>1
    <3>3. Sieved \subseteq Cand
      BY DEF Sieved
    <3>4. QED
      BY <3>1, <3>2, <3>3
  <2>3. {outDev, outHost} \subseteq [Outputs -> Seq(Sieved)]
    BY <2>1, <2>2 DEF Init
  <2>4. {outDev, outHost} \subseteq [Outputs -> Seq(Cand)]
    <3>1. Seq(Sieved) \subseteq Seq(Cand)
      BY <2>2, SeqMonotonic
    <3>2. QED
      BY <2>3, <3>1
  <2>5. Ring!RingTypeOK
    BY RingSizes DEF Init, Ring!RingInit, Ring!RingTypeOK, Ring!Slots
  <2>6. share \in [hash : Hash \union {NoHash}, merkle : 0 .. MaxWork]
    BY RoundAssumption DEF Init, NoShare
  <2>7. /\ buf \in [Pipelines -> [{0, 1} -> Seq(Pending)]]
        /\ buf \in [Pipelines -> [{0, 1} -> Seq(Cand)]]
        /\ bsize \in [Pipelines -> Nat]
        /\ {finalHost, candis} \subseteq Seq(Cand)
        /\ {foundDev, foundHost} \subseteq Seq(Hash)
    BY DEF Init
  <2>8. /\ work \in 0 .. MaxWork /\ nonce \in 0 .. MaxNonce
        /\ sieves \in 1 .. SW /\ sieve \in 0 .. sieves
    BY RoundAssumption DEF Init
  <2>9. /\ pc = "top" /\ ridx = 0 /\ hashed = FALSE
        /\ queued = {} /\ requeued = FALSE /\ reentered = FALSE
    BY DEF Init
  <2>10. QED
    BY <2>3, <2>4, <2>5, <2>6, <2>7, <2>8, <2>9 DEF TypeInv, TypeOK
<1>2. TypeInv /\ [Next]_vars => TypeInv'
  BY NewWorkKeepsTypes, FetchKeepsTypes, StartKeepsTypes, SieveKeepsTypes,
     DispatchKeepsTypes, FinishKeepsTypes, CheckKeepsTypes, OthersKeepTypes
  DEF Next
<1>3. QED
  BY <1>1, <1>2, PTL DEF Spec

(***************************************************************************)
(* Both builds: every variable has its type.  In particular no candidate is *)
(* tested more than Depth times, and no more sieves run than there are buffers. *)
(***************************************************************************)
THEOREM RoundTypeCorrect == Spec => []TypeOK
<1>1. TypeInv => TypeOK
  BY DEF TypeInv
<1>2. QED
  BY <1>1, TypeInvInductive, PTL

-----------------------------------------------------------------------------
(***************************************************************************)
(* Sieve buffers.  In an iteration the buffers ridx are handed over and    *)
(* the buffers widx are filled; sieves that were never started have none.  *)
(***************************************************************************)
NotStartedEmpty == \A o \in Outputs : o[1] >= sieves => outHost[o] = << >>

EmptyHalf ==
    /\ pc \in {"top", "fetch", "sieve", "fermat"} =>
          \A o \in Outputs : o[2] = widx => outHost[o] = << >>
    /\ pc = "device" => \A o \in Outputs : outHost[o] = << >>
    /\ pc = "check" => \A o \in Outputs : o[2] = ridx => outHost[o] = << >>

BuffersInv ==
    /\ ridx \in {0, 1}
    /\ sieves \in 1 .. SW
    /\ DOMAIN outHost = Outputs
    /\ pc = "sieve" => sieve \in Nat
    /\ pc \in {"fermat", "device"} => sieve \in Nat
    /\ pc \in {"sieve", "fermat", "device"} => sieve <= sieves
    /\ NotStartedEmpty /\ EmptyHalf

LEMMA OutputParts ==
  ASSUME NEW o \in Outputs
  PROVE  o[1] \in 0 .. SW - 1 /\ o[2] \in {0, 1}
BY DEF Outputs, Sieves

(***************************************************************************)
(* Dispatch hands over the buffers ridx; those of sieves not started are   *)
(* empty anyway.                                                           *)
(***************************************************************************)
LEMMA DispatchKeepsBuffers ==
  ASSUME BuffersInv, Dispatch
  PROVE  BuffersInv'
<1>1. /\ pc = "fermat" /\ pc' = "device"
      /\ UNCHANGED <<ridx, sieves, sieve>>
      /\ outHost' = [o \in Outputs |-> HandedOver(o)]
  BY DEF Dispatch
<1>2. \A o \in Outputs : outHost'[o] = << >>
  <2>1. TAKE o \in Outputs
  <2>2. outHost'[o] = HandedOver(o)
    BY <1>1
  <2>3. o[1] \in Int /\ sieves \in Int /\ o[2] \in {0, 1} /\ ridx \in {0, 1}
    BY OutputParts, RoundAssumption DEF BuffersInv
  <2>4. CASE o[1] < sieves /\ o[2] = ridx
    BY <2>2, <2>4 DEF HandedOver
  <2>5. CASE o[1] >= sieves
    BY <2>2, <2>3, <2>5 DEF HandedOver, BuffersInv, NotStartedEmpty
  <2>6. CASE o[2] # ridx
    <3>1. o[2] = widx
      BY <2>3, <2>6 DEF widx
    <3>2. QED
      BY <1>1, <2>2, <2>6, <3>1 DEF HandedOver, BuffersInv, EmptyHalf
  <2>7. QED
    BY <2>3, <2>4, <2>5, <2>6
<1>3. QED
  BY <1>1, <1>2 DEF BuffersInv, NotStartedEmpty, EmptyHalf

(***************************************************************************)
(* Finish fetches into the buffers widx of sieves that were started, and   *)
(* may then raise the number of sieves.                                    *)
(***************************************************************************)
LEMMA FinishKeepsBuffers ==
  ASSUME BuffersInv, Finish
  PROVE  BuffersInv'
<1>1. /\ pc = "device" /\ pc' = "check"
      /\ UNCHANGED <<ridx, sieve>>
      /\ outHost' = [o \in Outputs |-> Fetched(o)]
      /\ sieves' = Grown \/ sieves' = sieves
  BY DEF Finish
<1>2. SW \in Nat /\ sieves \in 1 .. SW /\ sieve \in Nat /\ sieve <= sieves
      /\ ridx \in {0, 1}
  BY <1>1, RoundAssumption DEF BuffersInv
<1>3. sieves' \in 1 .. SW /\ sieves <= sieves'
  BY <1>1, <1>2 DEF Grown
<1>4. ASSUME NEW o \in Outputs PROVE o[1] >= sieves' => outHost'[o] = << >>
  <2>1. o[1] \in Int
    BY OutputParts, <1>2
  <2>2. o[1] >= sieves' => o[1] >= sieves /\ ~(o[1] < sieves) /\ ~(o[1] < sieve)
    BY <1>2, <1>3, <2>1
  <2>3. QED
    BY <1>1, <2>2 DEF Fetched, BuffersInv, EmptyHalf
<1>5. ASSUME NEW o \in Outputs PROVE o[2] = ridx' => outHost'[o] = << >>
  <2>1. o[2] = ridx => o[2] # widx
    BY <1>2 DEF widx
  <2>2. QED
    BY <1>1, <2>1 DEF Fetched, BuffersInv, EmptyHalf
<1>6. QED
  BY <1>1, <1>2, <1>3, <1>4, <1>5 DEF BuffersInv, NotStartedEmpty, EmptyHalf

LEMMA NextKeepsBuffers == BuffersInv /\ [Next]_vars => BuffersInv'
<1> SUFFICES ASSUME BuffersInv, [Next]_vars PROVE BuffersInv'
  OBVIOUS
<1>1. CASE UNCHANGED vars
  BY <1>1 DEF vars, results, BuffersInv, NotStartedEmpty, EmptyHalf, widx
<1>2. CASE NewWork
  <2>1. /\ pc' = "fetch" /\ UNCHANGED <<ridx, sieves, sieve>>
        /\ outHost' = [o \in Outputs |-> << >>]
    BY <1>2 DEF NewWork
  <2>2. QED
    BY <2>1 DEF BuffersInv, NotStartedEmpty, EmptyHalf
<1>3. CASE SameWork \/ FetchHash \/ RejectHash
  <2>1. /\ UNCHANGED <<ridx, sieves, sieve, outHost>>
        /\ pc \in {"top", "fetch"} /\ pc' = "fetch"
    BY <1>3 DEF SameWork, FetchHash, RejectHash, results
  <2>2. QED
    BY <2>1 DEF BuffersInv, NotStartedEmpty, EmptyHalf, widx
<1>4. CASE StartHashmod \/ SkipHashmod
  <2>1. /\ UNCHANGED <<ridx, sieves, outHost>> /\ sieve' = 0
        /\ pc = "fetch" /\ pc' = "sieve"
    BY <1>4 DEF StartHashmod, SkipHashmod, results
  <2>2. 0 <= sieves /\ 0 \in Nat
    BY RoundAssumption DEF BuffersInv
  <2>3. QED
    BY <2>1, <2>2 DEF BuffersInv, NotStartedEmpty, EmptyHalf, widx
<1>5. CASE RunSieve
  <2>1. /\ UNCHANGED <<pc, ridx, sieves, outHost>> /\ sieve' = sieve + 1
        /\ pc = "sieve" /\ sieve < sieves
    BY <1>5 DEF RunSieve
  <2>2. sieve' \in Nat /\ sieve' <= sieves
    BY <2>1, RoundAssumption DEF BuffersInv
  <2>3. QED
    BY <2>1, <2>2 DEF BuffersInv, NotStartedEmpty, EmptyHalf, widx
<1>6. CASE EndSieves
  BY <1>6 DEF EndSieves, results, BuffersInv, NotStartedEmpty, EmptyHalf, widx
<1>7. CASE CheckCandi
  BY <1>7 DEF CheckCandi, results, BuffersInv, NotStartedEmpty, EmptyHalf, widx
<1>8. CASE NextIteration
  <2>1. /\ UNCHANGED <<sieves, sieve, outHost>> /\ ridx' = 1 - ridx
        /\ pc = "check" /\ pc' = "top"
    BY <1>8 DEF NextIteration, results, widx
  <2>2. ridx' \in {0, 1} /\ 1 - ridx' = ridx
    BY <2>1 DEF BuffersInv
  <2>3. QED
    BY <2>1, <2>2 DEF BuffersInv, NotStartedEmpty, EmptyHalf, widx
<1>9. QED
  BY <1>1, <1>2, <1>3, <1>4, <1>5, <1>6, <1>7, <1>8, DispatchKeepsBuffers,
     FinishKeepsBuffers DEF Next

LEMMA BuffersInvInductive == Spec => []BuffersInv
<1>1. Init => BuffersInv
  BY RoundAssumption DEF Init, BuffersInv, NotStartedEmpty, EmptyHalf
<1>2. QED
  BY <1>1, NextKeepsBuffers, PTL DEF Spec

(***************************************************************************)
(* No sieve overwrites candidates that no pipeline has taken yet.          *)
(***************************************************************************)
THEOREM SievesOverwriteNothing == Spec => []SieveBuffersConsumed
<1>1. BuffersInv => SieveBuffersConsumed
  <2> SUFFICES ASSUME BuffersInv, pc = "sieve", NEW s \in 0 .. sieves - 1,
                      NEW p \in Pipelines
               PROVE  outHost[<<s, widx, p>>] = << >>
    BY DEF SieveBuffersConsumed
  <2>1. s \in Sieves /\ widx \in {0, 1}
    BY RoundAssumption DEF BuffersInv, Sieves, widx
  <2>2. <<s, widx, p>> \in Outputs
    BY <2>1 DEF Outputs
  <2>3. QED
    BY <2>2 DEF BuffersInv, EmptyHalf
<1>2. QED
  BY <1>1, BuffersInvInductive, PTL

-----------------------------------------------------------------------------
(***************************************************************************)
(* The Fermat pipelines.  How full can the buffers get?  A candidate that has *)
(* passed k tests waits behind those that have passed fewer: of the candidates *)
(* that have passed at most k, those in the buffer that was dispatched last are *)
(* a block that was left over, what the sieves of one iteration found, and *)
(* survivors that had passed at most k - 1 in the iteration before.        *)
(***************************************************************************)
RoundSize == BlockSize + SW * MaxPerSieve

\* The buffer dispatched last, and the one for its survivors.
Dispatched(p) == IF pc \in {"device", "check"} THEN buf[p][ridx] ELSE buf[p][widx]
Surviving(p) == IF pc \in {"device", "check"} THEN buf[p][widx] ELSE buf[p][ridx]

\* The places of the candidates that have passed at most k tests.
UpTo(s, k) == {i \in 1 .. Len(s) : s[i].chainpos <= k}

Layered(s, n) ==
    \A k \in Nat : Cardinality(UpTo(s, k)) <= (k + n) * RoundSize

OutputsShort == \A o \in Outputs : /\ Len(outDev[o]) <= MaxPerSieve
                                   /\ Len(outHost[o]) <= MaxPerSieve

PipelinesInv ==
    /\ OutputsShort
    /\ \A p \in Pipelines :
          /\ bsize[p] <= Len(Dispatched(p))
          /\ Len(Dispatched(p)) - bsize[p] <= BlockSize
          /\ pc = "device" => Surviving(p) = << >>
          /\ Layered(Dispatched(p), 1) /\ Layered(Surviving(p), 0)

LEMMA RoundSizes ==
    /\ RoundSize \in Nat /\ SW * MaxPerSieve \in Nat
    /\ RoundSize = BlockSize + SW * MaxPerSieve
    /\ \A k \in Nat : k * RoundSize \in Nat /\ (k + 1) * RoundSize = k * RoundSize + RoundSize
<1>1. SW * MaxPerSieve \in Nat
  BY RingSizes, PipelineSizes
<1>2. RoundSize \in Nat /\ RoundSize = BlockSize + SW * MaxPerSieve
  BY <1>1, PipelineSizes DEF RoundSize
<1>3. \A k \in Nat : k * RoundSize \in Nat /\ (k + 1) * RoundSize = k * RoundSize + RoundSize
  BY <1>2
<1>4. QED
  BY <1>1, <1>2, <1>3

(***************************************************************************)
(* Counting candidates by the tests they passed.                           *)
(***************************************************************************)
LEMMA UpToFinite ==
  ASSUME NEW X, NEW s \in Seq(X), NEW k \in Nat
  PROVE  /\ IsFiniteSet(UpTo(s, k)) /\ Cardinality(UpTo(s, k)) \in Nat
         /\ s = << >> => Cardinality(UpTo(s, k)) = 0
<1>1. Len(s) \in Nat /\ UpTo(s, k) \in SUBSET (1 .. Len(s))
  BY DEF UpTo
<1>2. IsFiniteSet(1 .. Len(s))
  BY <1>1, FS_Interval
<1>3. IsFiniteSet(UpTo(s, k)) /\ Cardinality(UpTo(s, k)) \in Nat
  BY <1>1, <1>2, FS_Subset, FS_CardinalityType
<1>4. s = << >> => UpTo(s, k) = {}
  BY DEF UpTo
<1>5. QED
  BY <1>3, <1>4, FS_EmptySet

LEMMA UpToConcat ==
  ASSUME NEW X, NEW s \in Seq(X), NEW t \in Seq(X), NEW k \in Nat
  PROVE  Cardinality(UpTo(s \o t, k)) <= Cardinality(UpTo(s, k)) + Len(t)
<1> DEFINE new == Len(s) + 1 .. Len(s) + Len(t)
<1>1. /\ s \o t \in Seq(X) /\ Len(s \o t) = Len(s) + Len(t)
      /\ Len(s) \in Nat /\ Len(t) \in Nat
      /\ \A i \in 1 .. Len(s) : (s \o t)[i] = s[i]
  BY ConcatProperties
<1>2. UpTo(s \o t, k) \subseteq UpTo(s, k) \union new
  BY <1>1 DEF UpTo
<1>3. IsFiniteSet(new) /\ Cardinality(new) = Len(t)
  BY <1>1, CountInterval
<1>4. IsFiniteSet(UpTo(s, k)) /\ Cardinality(UpTo(s, k)) \in Nat
  BY UpToFinite
<1> HIDE DEF new
<1>5. /\ IsFiniteSet(UpTo(s, k) \union new)
      /\ Cardinality(UpTo(s, k) \union new)
           = Cardinality(UpTo(s, k)) + Cardinality(new)
                - Cardinality(UpTo(s, k) \intersect new)
  BY <1>3, <1>4, FS_Union
<1>6. Cardinality(UpTo(s, k) \intersect new) \in Nat
  <2>1. IsFiniteSet(UpTo(s, k) \intersect new)
    BY <1>4, FS_Intersection
  <2>2. QED
    BY <2>1, FS_CardinalityType
<1>7. Cardinality(UpTo(s \o t, k)) <= Cardinality(UpTo(s, k) \union new)
  BY <1>2, <1>5, FS_Subset
<1>8. Cardinality(UpTo(s \o t, k)) \in Nat
  BY <1>1, UpToFinite
<1>9. QED
  BY <1>1, <1>3, <1>4, <1>5, <1>6, <1>7, <1>8

LEMMA LayeredEmpty ==
  ASSUME NEW n \in Nat
  PROVE  Layered(<< >>, n)
<1> SUFFICES ASSUME NEW k \in Nat
             PROVE  Cardinality(UpTo(<< >>, k)) <= (k + n) * RoundSize
  BY DEF Layered
<1>1. << >> \in Seq(Pending)
  OBVIOUS
<1>2. Cardinality(UpTo(<< >>, k)) = 0
  BY <1>1, UpToFinite
<1>3. k + n \in Nat
  OBVIOUS
<1>4. (k + n) * RoundSize \in Nat
  BY <1>3, RoundSizes, Zenon
<1>5. QED
  BY <1>2, <1>4

LEMMA LayeredConcat ==
  ASSUME NEW X, NEW s \in Seq(X), NEW t \in Seq(X), NEW u \in Seq(X),
         Layered(s, 0), Len(t) <= BlockSize, Len(u) <= SW * MaxPerSieve
  PROVE  Layered(s \o t \o u, 1)
<1> SUFFICES ASSUME NEW k \in Nat
             PROVE  Cardinality(UpTo(s \o t \o u, k)) <= (k + 1) * RoundSize
  BY DEF Layered
<1> DEFINE a == Cardinality(UpTo(s, k))
           b == Cardinality(UpTo(s \o t, k))
           c == Cardinality(UpTo(s \o t \o u, k))
           bound == k * RoundSize
           room == SW * MaxPerSieve
           tl == Len(t)
           ul == Len(u)
<1>1. s \o t \in Seq(X) /\ s \o t \o u \in Seq(X)
  BY ConcatProperties
<1>2. a \in Nat /\ b \in Nat /\ c \in Nat
  BY <1>1, UpToFinite
<1>3. b <= a + tl /\ c <= b + ul
  BY <1>1, UpToConcat
<1>4. a <= bound
  <2>1. a <= (k + 0) * RoundSize
    BY DEF Layered
  <2>2. k + 0 = k
    OBVIOUS
  <2>3. QED
    BY <2>1, <2>2
<1>5. /\ bound \in Nat /\ (k + 1) * RoundSize = bound + RoundSize
      /\ RoundSize = BlockSize + room /\ room \in Nat /\ BlockSize \in Nat
  BY RoundSizes, PipelineSizes
<1>6. tl \in Nat /\ ul \in Nat /\ tl <= BlockSize /\ ul <= room
  OBVIOUS
<1> HIDE DEF a, b, c, bound, room, tl, ul
<1>7. c <= bound + (BlockSize + room)
  BY <1>2, <1>3, <1>4, <1>5, <1>6
<1>8. c <= (k + 1) * RoundSize
  BY <1>5, <1>7
<1>9. QED
  BY <1>8 DEF c

LEMMA UpToSurvivors ==
  ASSUME TypeInv, pc = "device", NEW p \in Pipelines,
         NEW kept \in InAnyOrder(Again(p)),
         Layered(buf[p][ridx], 1)
  PROVE  Layered(Survivors(p, kept), 0)
<1> SUFFICES ASSUME NEW k \in Nat
             PROVE  Cardinality(UpTo(Survivors(p, kept), k)) <= k * RoundSize
  BY DEF Layered
<1> DEFINE s == Survivors(p, kept)
           b == buf[p][ridx]
<1>1. /\ bsize[p] \in Nat /\ b \in Seq(Pending)
      /\ \A i \in Again(p) : i \in 1 .. bsize[p]
  BY DEF TypeInv, TypeOK, Again
<1>2. \A i \in Again(p) : Passed(p, i) \in Pending
  BY <1>1, PassedTyped
<1>3. /\ s \in Seq(Pending) /\ Len(s) = Len(kept) /\ kept \in Seq(Again(p))
      /\ \A i, j \in 1 .. Len(kept) : i # j => kept[i] # kept[j]
      /\ \A i \in 1 .. Len(kept) : s[i] = Passed(p, kept[i])
  BY <1>1, <1>2, SurvivorsAreSeq
<1>4. ASSUME NEW i \in 1 .. Len(s)
      PROVE  /\ kept[i] \in 1 .. Len(b)
             /\ b[kept[i]].chainpos \in Nat
             /\ s[i].chainpos = b[kept[i]].chainpos + 1
  <2>1. kept[i] \in Again(p) /\ s[i] = Passed(p, kept[i])
    <3> HIDE DEF s
    <3>1. QED
      BY <1>3
  <2>2. kept[i] \in 1 .. bsize[p]
    BY <1>1, <2>1
  <2>3. /\ kept[i] \in 1 .. Len(b) /\ b[kept[i]] \in Pending
        /\ Passed(p, kept[i]).chainpos = b[kept[i]].chainpos + 1
    BY <2>2, PassedTyped
  <2>4. QED
    BY <2>1, <2>3 DEF Pending, Cand
<1> HIDE DEF s, b
<1>5. CASE k = 0
  <2>1. UpTo(s, k) = {}
    BY <1>4, <1>5 DEF UpTo
  <2>2. Cardinality(UpTo(s, k)) = 0
    BY <2>1, FS_EmptySet
  <2>3. k * RoundSize \in Nat
    BY RoundSizes
  <2>4. QED
    BY <2>2, <2>3 DEF s
<1>6. CASE k # 0
  <2>1. k - 1 \in Nat /\ (k - 1) + 1 = k
    BY <1>6
  <2> DEFINE f == [i \in UpTo(s, k) |-> kept[i]]
  <2>2. \A i \in UpTo(s, k) : i \in 1 .. Len(s) /\ kept[i] \in UpTo(b, k - 1)
    BY <1>4, <2>1 DEF UpTo
  <2>3. f \in Injection(UpTo(s, k), UpTo(b, k - 1))
    <3>1. f \in [UpTo(s, k) -> UpTo(b, k - 1)]
      BY <2>2
    <3>2. \A i, j \in UpTo(s, k) : f[i] = f[j] => i = j
      BY <1>3, <2>2
    <3>3. QED
      BY <3>1, <3>2 DEF Injection, IsInjective
  <2>4. IsFiniteSet(UpTo(b, k - 1)) /\ Cardinality(UpTo(b, k - 1)) \in Nat
    BY <1>1, <2>1, UpToFinite
  <2>5. Cardinality(UpTo(s, k)) <= Cardinality(UpTo(b, k - 1))
    BY <2>3, <2>4, FS_Injection
  <2>6. Cardinality(UpTo(b, k - 1)) <= ((k - 1) + 1) * RoundSize
    BY <2>1 DEF b, Layered
  <2>7. Cardinality(UpTo(s, k)) \in Nat
    BY <1>3, UpToFinite
  <2>8. Cardinality(UpTo(s, k)) <= k * RoundSize
    BY <2>1, <2>4, <2>5, <2>6, <2>7, RoundSizes
  <2>9. QED
    BY <2>8 DEF s
<1>7. QED
  BY <1>5, <1>6

(***************************************************************************)
(* All candidates of a buffer have passed fewer than Depth tests.          *)
(***************************************************************************)
LEMMA BufferFits ==
  ASSUME NEW s \in Seq(Pending),
         Layered(s, 1)
  PROVE  Len(s) <= Depth * RoundSize
<1>1. Depth - 1 \in Nat /\ (Depth - 1) + 1 = Depth /\ Len(s) \in Nat
  BY PipelineSizes
<1>2. \A i \in 1 .. Len(s) : s[i].chainpos \in Nat /\ s[i].chainpos < Depth
  BY DEF Pending, Cand
<1>3. UpTo(s, Depth - 1) = 1 .. Len(s)
  BY <1>1, <1>2, PipelineSizes DEF UpTo
<1>4. Cardinality(1 .. Len(s)) = Len(s)
  BY <1>1, CountUpTo
<1>5. Cardinality(UpTo(s, Depth - 1)) <= ((Depth - 1) + 1) * RoundSize
  BY <1>1 DEF Layered
<1>6. QED
  BY <1>1, <1>3, <1>4, <1>5

(***************************************************************************)
(* FermatDispatch: the new buffer is what was there, what was left and what is *)
(* new.                                                                    *)
(***************************************************************************)
LEMMA DispatchCounts ==
  ASSUME TypeInv, PipelinesInv, Dispatch, NEW p \in Pipelines
  PROVE  /\ Len(Avail(p)) \in 0 .. SW * MaxPerSieve
         /\ bsize[p] <= Len(buf[p][widx])
         /\ Len(buf'[p][ridx]) = Len(buf[p][ridx])
                                   + (Len(buf[p][widx]) - bsize[p]) + Len(Avail(p))
         /\ buf'[p][widx] = << >> /\ buf'[p][ridx] \in Seq(Pending)
         /\ bsize'[p] = Batch(Len(buf'[p][ridx]))
         /\ Layered(buf'[p][ridx], 1)
<1> DEFINE new == Avail(p)
           left == Left(p)
           old == buf[p][ridx]
<1>1. /\ pc = "fermat" /\ ridx \in {0, 1} /\ widx \in {0, 1} /\ sieves \in 1 .. SW
      /\ bsize[p] \in Nat /\ buf[p] \in [{0, 1} -> Seq(Pending)]
      /\ outHost \in [Outputs -> Seq(Sieved)]
  BY DEF Dispatch, TypeInv, TypeOK, widx
<1>2. /\ bsize[p] <= Len(buf[p][widx]) /\ Len(buf[p][widx]) - bsize[p] <= BlockSize
      /\ Layered(old, 0)
      /\ \A o \in Outputs : Len(outHost[o]) <= MaxPerSieve
  BY <1>1 DEF PipelinesInv, OutputsShort, Dispatched, Surviving
<1>3. \A o \in Outputs : outHost[o] \in Seq(Pending)
  <2>1. Seq(Sieved) \subseteq Seq(Pending)
    BY PipelineSizes, SeqMonotonic
  <2>2. QED
    BY <1>1, <2>1
<1>4. /\ old \in Seq(Pending) /\ left \in Seq(Pending) /\ new \in Seq(Pending)
      /\ Len(left) = Len(buf[p][widx]) - bsize[p]
      /\ Len(new) <= SW * MaxPerSieve
  <2>1. old \in Seq(Pending) /\ buf[p][widx] \in Seq(Pending)
    BY <1>1
  <2>2. left \in Seq(Pending) /\ Len(left) = Len(buf[p][widx]) - bsize[p]
    BY <1>1, <1>2, <2>1, LeftIsSeq
  <2>3. MaxPerSieve \in Nat
    BY PipelineSizes
  <2>4. new \in Seq(Pending) /\ Len(new) <= SW * MaxPerSieve
    BY <1>1, <1>2, <1>3, <2>3, AvailIsSeq
  <2>5. QED
    BY <2>1, <2>2, <2>4
<1>5. /\ buf'[p][ridx] = old \o left \o new
      /\ buf'[p][widx] = << >> /\ bsize'[p] = Batch(Len(buf'[p][ridx]))
  BY <1>1, <1>3, DispatchJoins
<1> HIDE DEF old, left, new
<1>6. /\ old \o left \o new \in Seq(Pending)
      /\ Len(old \o left \o new) = Len(old) + Len(left) + Len(new)
      /\ Len(old) \in Nat /\ Len(left) \in Nat /\ Len(new) \in Nat
  <2>1. old \o left \in Seq(Pending) /\ Len(old \o left) = Len(old) + Len(left)
    BY <1>4, ConcatProperties
  <2>2. /\ old \o left \o new \in Seq(Pending)
        /\ Len(old \o left \o new) = Len(old \o left) + Len(new)
    BY <1>4, <2>1, ConcatProperties
  <2>3. Len(old) \in Nat /\ Len(left) \in Nat /\ Len(new) \in Nat
    BY <1>4
  <2>4. QED
    BY <2>1, <2>2, <2>3
<1>7. Layered(old \o left \o new, 1)
  <2>1. Len(left) <= BlockSize
    BY <1>2, <1>4
  <2>2. QED
    BY <1>2, <1>4, <2>1, LayeredConcat
<1>8. Len(new) \in 0 .. SW * MaxPerSieve
  BY <1>4, <1>6, RoundSizes
<1>9. QED
  BY <1>2, <1>4, <1>5, <1>6, <1>7, <1>8 DEF old, new

LEMMA DispatchKeepsPipelines ==
  ASSUME TypeInv, PipelinesInv, Dispatch
  PROVE  PipelinesInv'
<1>1. /\ pc' = "device" /\ ridx' = ridx /\ outDev' = outDev /\ ridx \in {0, 1}
      /\ outHost' = [o \in Outputs |-> HandedOver(o)]
  BY DEF Dispatch, TypeInv, TypeOK
<1>2. OutputsShort'
  <2>1. Len(<< >>) <= MaxPerSieve
    BY PipelineSizes
  <2>2. QED
    BY <1>1, <2>1 DEF HandedOver, PipelinesInv, OutputsShort
<1>3. ASSUME NEW p \in Pipelines
      PROVE  /\ bsize'[p] <= Len(Dispatched(p)')
             /\ Len(Dispatched(p)') - bsize'[p] <= BlockSize
             /\ Surviving(p)' = << >>
             /\ Layered(Dispatched(p)', 1) /\ Layered(Surviving(p)', 0)
  <2>1. Dispatched(p)' = buf'[p][ridx] /\ Surviving(p)' = buf'[p][widx]
    BY <1>1 DEF Dispatched, Surviving, widx
  <2>2. /\ buf'[p][widx] = << >> /\ buf'[p][ridx] \in Seq(Pending)
        /\ bsize'[p] = Batch(Len(buf'[p][ridx]))
        /\ Layered(buf'[p][ridx], 1)
    BY DispatchCounts
  <2>3. Len(buf'[p][ridx]) \in Nat
    BY <2>2
  <2>4. /\ bsize'[p] \in 0 .. Len(buf'[p][ridx])
        /\ Len(buf'[p][ridx]) - bsize'[p] <= BlockSize
    BY <2>2, <2>3, BatchFits
  <2>5. Layered(<< >>, 0)
    BY LayeredEmpty
  <2>6. QED
    BY <2>1, <2>2, <2>3, <2>4, <2>5
<1>4. QED
  BY <1>1, <1>2, <1>3 DEF PipelinesInv, Dispatched, Surviving

(***************************************************************************)
(* The device finishes: the survivors of a batch.                          *)
(***************************************************************************)
LEMMA FinishCounts ==
  ASSUME TypeInv, PipelinesInv, Finish, NEW p \in Pipelines
  PROVE  \E kept \in InAnyOrder(Again(p)) :
           /\ buf'[p] = [buf[p] EXCEPT ![widx] = Survivors(p, kept)]
           /\ Len(Survivors(p, kept)) \in 0 .. bsize[p]
           /\ Layered(Survivors(p, kept), 0)
<1>1. pc = "device" /\ bsize[p] \in Nat
  BY DEF Finish, TypeInv, TypeOK
<1>2. \A q \in Pipelines : \A b \in 1 .. bsize[q] : Passed(q, b) \in Cand
  BY <1>1, PassedTyped
<1>3. \A q \in Pipelines : \A b \in Again(q) : Passed(q, b) \in Pending
  <2>1. \A q \in Pipelines : \A b \in Again(q) : b \in 1 .. bsize[q]
    BY DEF Again
  <2>2. QED
    BY <1>1, <2>1, PassedTyped
<1>4. PICK kept \in InAnyOrder(Again(p)) :
        buf'[p] = [buf[p] EXCEPT ![widx] = Survivors(p, kept)]
  BY <1>2, <1>3, FinishWrites
<1>5. /\ Survivors(p, kept) \in Seq(Pending)
      /\ Len(Survivors(p, kept)) = Len(kept) /\ Len(kept) <= bsize[p]
  BY <1>1, <1>3, SurvivorsAreSeq
<1>6. Len(Survivors(p, kept)) \in 0 .. bsize[p]
  BY <1>1, <1>5
<1>7. Layered(buf[p][ridx], 1)
  BY <1>1 DEF PipelinesInv, Dispatched
<1>8. QED
  BY <1>1, <1>4, <1>6, <1>7, UpToSurvivors

LEMMA FinishKeepsPipelines ==
  ASSUME TypeInv, PipelinesInv, Finish
  PROVE  PipelinesInv'
<1>1. /\ pc = "device" /\ pc' = "check" /\ ridx \in {0, 1} /\ ridx' = ridx
      /\ bsize' = bsize /\ outDev' = outDev
      /\ outHost' = [o \in Outputs |-> Fetched(o)]
  BY DEF Finish, TypeInv, TypeOK
<1>2. OutputsShort'
  BY <1>1 DEF Fetched, PipelinesInv, OutputsShort
<1>3. ASSUME NEW p \in Pipelines
      PROVE  /\ bsize'[p] <= Len(Dispatched(p)')
             /\ Len(Dispatched(p)') - bsize'[p] <= BlockSize
             /\ Layered(Dispatched(p)', 1) /\ Layered(Surviving(p)', 0)
  <2>1. PICK kept \in InAnyOrder(Again(p)) :
          /\ buf'[p] = [buf[p] EXCEPT ![widx] = Survivors(p, kept)]
          /\ Layered(Survivors(p, kept), 0)
    BY FinishCounts
  <2>2. buf[p] \in [{0, 1} -> Seq(Pending)]
    BY DEF TypeInv
  <2>3. buf'[p][ridx] = buf[p][ridx] /\ buf'[p][widx] = Survivors(p, kept)
    BY <1>1, <2>1, <2>2 DEF widx
  <2>4. /\ Dispatched(p)' = Dispatched(p) /\ Surviving(p)' = Survivors(p, kept)
    BY <1>1, <2>3 DEF Dispatched, Surviving, widx
  <2>5. QED
    BY <1>1, <2>1, <2>4 DEF PipelinesInv
<1>4. QED
  BY <1>1, <1>2, <1>3 DEF PipelinesInv

(***************************************************************************)
(* The other steps empty the buffers, or leave them, or swap their roles.  *)
(***************************************************************************)
LEMMA NewWorkKeepsPipelines ==
  ASSUME TypeInv, PipelinesInv, NewWork
  PROVE  PipelinesInv'
<1>1. /\ pc' = "fetch" /\ ridx' = ridx /\ ridx \in {0, 1} /\ outDev' = outDev
      /\ outHost' = [o \in Outputs |-> << >>]
      /\ buf' = [p \in Pipelines |-> [k \in {0, 1} |-> << >>]]
      /\ bsize' = [p \in Pipelines |-> 0]
  BY DEF NewWork, ForgetBatch, TypeInv, TypeOK
<1>2. OutputsShort'
  BY <1>1, PipelineSizes DEF PipelinesInv, OutputsShort
<1>3. ASSUME NEW p \in Pipelines
      PROVE  bsize'[p] = 0 /\ Dispatched(p)' = << >> /\ Surviving(p)' = << >>
  BY <1>1 DEF Dispatched, Surviving, widx
<1>4. Layered(<< >>, 0) /\ Layered(<< >>, 1) /\ Len(<< >>) = 0
  BY LayeredEmpty
<1>5. ASSUME NEW p \in Pipelines
      PROVE  /\ bsize'[p] <= Len(Dispatched(p)')
             /\ Len(Dispatched(p)') - bsize'[p] <= BlockSize
             /\ Layered(Dispatched(p)', 1) /\ Layered(Surviving(p)', 0)
  BY <1>3, <1>4, PipelineSizes
<1>6. QED
  BY <1>1, <1>2, <1>5 DEF PipelinesInv

LEMMA OthersKeepPipelines ==
  ASSUME TypeInv, PipelinesInv,
         \/ UNCHANGED vars
         \/ SameWork \/ FetchHash \/ RejectHash \/ StartHashmod \/ SkipHashmod
         \/ RunSieve \/ EndSieves \/ CheckCandi \/ NextIteration
  PROVE  PipelinesInv'
<1>1. /\ UNCHANGED <<buf, bsize, outHost>>
      /\ \/ pc' = pc /\ ridx' = ridx
         \/ pc \notin {"device", "check"} /\ pc' \notin {"device", "check"} /\ ridx' = ridx
         \/ pc = "check" /\ pc' = "top" /\ ridx' = widx
  BY DEF vars, SameWork, FetchHash, RejectHash, StartHashmod, SkipHashmod,
     RunSieve, EndSieves, CheckCandi, NextIteration, results, pipes
<1>2. OutputsShort'
  <2>1. CASE RunSieve
    BY <1>1, <2>1, RunSieveWrites DEF PipelinesInv, OutputsShort
  <2>2. CASE ~RunSieve
    <3>1. outDev' = outDev
      BY <2>2 DEF vars, SameWork, FetchHash, RejectHash, StartHashmod, SkipHashmod,
         EndSieves, CheckCandi, NextIteration, results
    <3>2. QED
      BY <1>1, <3>1 DEF PipelinesInv, OutputsShort
  <2>3. QED
    BY <2>1, <2>2
<1>3. ridx \in {0, 1}
  BY DEF TypeInv, TypeOK
<1>4. ASSUME NEW p \in Pipelines
      PROVE  Dispatched(p)' = Dispatched(p) /\ Surviving(p)' = Surviving(p)
  BY <1>1, <1>3 DEF Dispatched, Surviving, widx
<1>5. pc' = "device" => pc = "device"
  BY <1>1
<1>6. QED
  BY <1>1, <1>2, <1>4, <1>5 DEF PipelinesInv

LEMMA PipelinesInvInductive == Spec => []PipelinesInv
<1>1. Init => PipelinesInv
  <2> SUFFICES ASSUME Init PROVE PipelinesInv
    OBVIOUS
  <2>1. PICK garbage \in {<< >>, <<Junk>>} : outDev = [o \in Outputs |-> garbage]
    BY DEF Init
  <2>2. Len(garbage) <= MaxPerSieve /\ Len(<< >>) <= MaxPerSieve
    <3>1. Len(<<Junk>>) = 1 /\ Len(<< >>) = 0
      OBVIOUS
    <3>2. garbage = << >> \/ garbage = <<Junk>>
      BY <2>1
    <3>3. 1 <= MaxPerSieve /\ 0 <= MaxPerSieve
      BY PipelineSizes
    <3>4. QED
      BY <3>1, <3>2, <3>3
  <2>3. OutputsShort
    BY <2>1, <2>2 DEF Init, OutputsShort
  <2>4. Layered(<< >>, 0) /\ Layered(<< >>, 1) /\ Len(<< >>) = 0
    BY LayeredEmpty
  <2>5. ASSUME NEW p \in Pipelines
        PROVE  bsize[p] = 0 /\ Dispatched(p) = << >> /\ Surviving(p) = << >>
    BY DEF Init, Dispatched, Surviving, widx
  <2>6. ASSUME NEW p \in Pipelines
        PROVE  /\ bsize[p] <= Len(Dispatched(p))
               /\ Len(Dispatched(p)) - bsize[p] <= BlockSize
               /\ Layered(Dispatched(p), 1) /\ Layered(Surviving(p), 0)
    BY <2>4, <2>5, PipelineSizes
  <2>7. QED
    BY <2>3, <2>5, <2>6 DEF PipelinesInv
<1>2. TypeInv /\ PipelinesInv /\ [Next]_vars => PipelinesInv'
  BY NewWorkKeepsPipelines, DispatchKeepsPipelines, FinishKeepsPipelines,
     OthersKeepPipelines DEF Next
<1>3. QED
  BY <1>1, <1>2, TypeInvInductive, PTL DEF Spec

(***************************************************************************)
(* Both builds: every pipeline of the loop is a FermatPipeline, seen by its *)
(* counts.  EachPipeline(0) is Pipeline.                                   *)
(***************************************************************************)
EachPipeline(p) == INSTANCE FermatPipeline
    WITH MaxAvail <- SW * MaxPerSieve,
         Capacity <- Depth * (BlockSize + SW * MaxPerSieve),
         ridx <- IF pc = "check" THEN widx ELSE ridx,
         count <- [k \in {0, 1} |-> Len(buf[p][k])],
         bsize <- bsize[p],
         stage <- IF pc = "device" THEN "device" ELSE "host"

LEMMA NewWorkIsNewWork ==
  ASSUME TypeInv, NewWork, NEW p \in Pipelines
  PROVE  EachPipeline(p)!NewWork
<1>1. /\ pc = "top" /\ pc' = "fetch" /\ ridx' = ridx
      /\ buf'[p] = [k \in {0, 1} |-> << >>] /\ bsize'[p] = 0
  BY DEF NewWork, ForgetBatch
<1>2. [k \in {0, 1} |-> Len(buf'[p][k])] = [k \in {0, 1} |-> 0]
  BY <1>1
<1>3. QED
  BY <1>1, <1>2 DEF EachPipeline!NewWork, EachPipeline!Buffers

LEMMA DispatchIsDispatch ==
  ASSUME TypeInv, PipelinesInv, Dispatch, NEW p \in Pipelines
  PROVE  \E avail \in 0 .. SW * MaxPerSieve : EachPipeline(p)!Dispatch(avail)
<1> DEFINE avail == Len(Avail(p))
           total == Len(buf'[p][ridx])
<1>1. /\ pc = "fermat" /\ pc' = "device" /\ ridx' = ridx /\ ridx \in {0, 1}
      /\ bsize[p] \in Nat /\ buf[p] \in [{0, 1} -> Seq(Pending)]
  BY DEF Dispatch, TypeInv, TypeOK
<1>2. /\ avail \in 0 .. SW * MaxPerSieve
      /\ total = Len(buf[p][ridx]) + (Len(buf[p][widx]) - bsize[p]) + avail
      /\ buf'[p][widx] = << >> /\ buf'[p][ridx] \in Seq(Pending)
      /\ bsize'[p] = Batch(total)
      /\ Layered(buf'[p][ridx], 1)
  BY DispatchCounts
<1>3. total <= Depth * (BlockSize + SW * MaxPerSieve)
  BY <1>2, BufferFits DEF RoundSize
<1> HIDE DEF avail, total
<1>4. [k \in {0, 1} |-> Len(buf'[p][k])]
        = [[k \in {0, 1} |-> Len(buf[p][k])] EXCEPT ![ridx] = total, ![widx] = 0]
  <2>1. widx \in {0, 1} /\ widx # ridx
    BY <1>1 DEF widx
  <2>2. Len(buf'[p][ridx]) = total /\ Len(buf'[p][widx]) = 0
    BY <1>2 DEF total
  <2>3. QED
    BY <1>1, <2>1, <2>2 DEF widx
<1>5. EachPipeline(p)!Batch(total) = Batch(total)
  BY DEF EachPipeline!Batch, Batch
<1>6. PICK n \in 0 .. SW * MaxPerSieve : n = avail
  BY <1>2
<1>7. EachPipeline(p)!Dispatch(n)
  <2>1. widx \in {0, 1}
    BY <1>1 DEF widx
  <2>2. [k \in {0, 1} |-> Len(buf[p][k])][ridx] + EachPipeline(p)!tail + n = total
    BY <1>1, <1>2, <1>6, <2>1 DEF EachPipeline!tail, EachPipeline!widx, widx
  <2>3. EachPipeline(p)!widx = widx
    BY <1>1 DEF EachPipeline!widx, widx
  <2>4. QED
    BY <1>1, <1>2, <1>3, <1>4, <1>5, <2>2, <2>3 DEF EachPipeline!Dispatch
<1>8. QED
  BY <1>6, <1>7, Zenon

LEMMA FinishIsFetch ==
  ASSUME TypeInv, PipelinesInv, Finish, NEW p \in Pipelines
  PROVE  \E survivors \in 0 .. bsize[p] : EachPipeline(p)!Fetch(survivors)
<1>1. /\ pc = "device" /\ pc' = "check" /\ ridx' = ridx /\ ridx \in {0, 1}
      /\ bsize' = bsize /\ buf[p] \in [{0, 1} -> Seq(Pending)]
  BY DEF Finish, TypeInv, TypeOK
<1>2. PICK kept \in InAnyOrder(Again(p)) :
        /\ buf'[p] = [buf[p] EXCEPT ![widx] = Survivors(p, kept)]
        /\ Len(Survivors(p, kept)) \in 0 .. bsize[p]
  BY FinishCounts
<1>3. PICK survivors \in 0 .. bsize[p] : survivors = Len(Survivors(p, kept))
  BY <1>2
<1>4. [k \in {0, 1} |-> Len(buf'[p][k])]
        = [[k \in {0, 1} |-> Len(buf[p][k])] EXCEPT ![widx] = survivors]
  BY <1>1, <1>2, <1>3 DEF widx
<1>5. EachPipeline(p)!widx = widx /\ widx' = widx
  BY <1>1 DEF EachPipeline!widx, widx
<1>6. EachPipeline(p)!Fetch(survivors)
  BY <1>1, <1>2, <1>4, <1>5 DEF EachPipeline!Fetch
<1>7. QED
  BY <1>6, Zenon

LEMMA OthersLeavePipelines ==
  ASSUME TypeInv, NEW p \in Pipelines,
         \/ UNCHANGED vars
         \/ SameWork \/ FetchHash \/ RejectHash \/ StartHashmod \/ SkipHashmod
         \/ RunSieve \/ EndSieves \/ CheckCandi \/ NextIteration
  PROVE  UNCHANGED EachPipeline(p)!vars
<1>1. /\ UNCHANGED <<buf, bsize>>
      /\ \/ pc' = pc /\ ridx' = ridx
         \/ pc \notin {"device", "check"} /\ pc' \notin {"device", "check"} /\ ridx' = ridx
         \/ pc = "check" /\ pc' = "top" /\ ridx' = widx
  BY DEF vars, SameWork, FetchHash, RejectHash, StartHashmod, SkipHashmod,
     RunSieve, EndSieves, CheckCandi, NextIteration, pipes
<1>2. ridx \in {0, 1}
  BY DEF TypeInv, TypeOK
<1>3. QED
  BY <1>1, <1>2 DEF EachPipeline!vars, widx

LEMMA StepOfPipeline ==
  ASSUME TypeInv, PipelinesInv, [Next]_vars, NEW p \in Pipelines
  PROVE  [EachPipeline(p)!Next]_(EachPipeline(p)!vars)
BY NewWorkIsNewWork, DispatchIsDispatch, FinishIsFetch, OthersLeavePipelines
DEF Next, EachPipeline!Next

LEMMA InitOfPipeline ==
  ASSUME Init, NEW p \in Pipelines
  PROVE  EachPipeline(p)!Init
BY DEF Init, EachPipeline!Init, EachPipeline!Buffers

THEOREM PipelinesImplemented == \A p \in Pipelines : Spec => EachPipeline(p)!Spec
<1> SUFFICES ASSUME NEW p \in Pipelines PROVE Spec => EachPipeline(p)!Spec
  OBVIOUS
<1>1. Init => EachPipeline(p)!Init
  BY InitOfPipeline
<1>2. TypeInv /\ PipelinesInv /\ [Next]_vars
        => [EachPipeline(p)!Next]_(EachPipeline(p)!vars)
  BY StepOfPipeline
<1>3. QED
  BY <1>1, <1>2, TypeInvInductive, PipelinesInvInductive, PTL
  DEF Spec, EachPipeline!Spec

(***************************************************************************)
(* In particular the loop implements its first pipeline as it is stated in *)
(* MiningRound: with the buffers that hold Depth rounds of candidates.     *)
(***************************************************************************)
THEOREM LoopIsPipeline == Spec => ImplementsPipeline
<1>1. 0 \in Pipelines
  BY PipelineSizes DEF Pipelines
<1>2. Init => Pipeline!Init
  BY <1>1 DEF Init, Pipeline!Init, Pipeline!Buffers
<1>3. ASSUME TypeInv, PipelinesInv, [Next]_vars
      PROVE  [Pipeline!Next]_(Pipeline!vars)
  <2>1. [EachPipeline(0)!Next]_(EachPipeline(0)!vars)
    BY <1>1, <1>3, StepOfPipeline
  <2>2. CASE EachPipeline(0)!NewWork
    BY <2>2 DEF EachPipeline!NewWork, EachPipeline!Buffers, Pipeline!Next,
       Pipeline!NewWork, Pipeline!Buffers
  <2>3. ASSUME NEW n \in 0 .. SW * MaxPerSieve, EachPipeline(0)!Dispatch(n)
        PROVE  Pipeline!Next
    <3>1. Pipeline!Dispatch(n)
      BY <2>3 DEF EachPipeline!Dispatch, EachPipeline!tail, EachPipeline!widx,
         EachPipeline!Batch, Pipeline!Dispatch, Pipeline!tail, Pipeline!widx,
         Pipeline!Batch
    <3>2. QED
      BY <3>1 DEF Pipeline!Next
  <2>4. ASSUME NEW n \in 0 .. bsize[0], EachPipeline(0)!Fetch(n)
        PROVE  Pipeline!Next
    <3>1. Pipeline!Fetch(n)
      BY <2>4 DEF EachPipeline!Fetch, EachPipeline!widx, Pipeline!Fetch, Pipeline!widx
    <3>2. QED
      BY <3>1 DEF Pipeline!Next
  <2>5. CASE UNCHANGED EachPipeline(0)!vars
    BY <2>5 DEF EachPipeline!vars, Pipeline!vars
  <2>6. QED
    BY <2>1, <2>2, <2>3, <2>4, <2>5 DEF EachPipeline!Next
<1>4. QED
  BY <1>2, <1>3, TypeInvInductive, PipelinesInvInductive, PTL
  DEF Spec, ImplementsPipeline, Pipeline!Spec

-----------------------------------------------------------------------------
(***************************************************************************)
(* Hashes on their way from hashmod to the ring, in the OpenCL build.      *)
(***************************************************************************)
RingTyped == readPos \in 0 .. PW - 1 /\ writePos \in 0 .. PW - 1

(***************************************************************************)
(* How many hashes wait, and how the operations of the ring change that.   *)
(***************************************************************************)
LEMMA RemainingBounds ==
  ASSUME RingTyped
  PROVE  /\ Ring!Remaining \in 0 .. PW - 1
         /\ Ring!NextPos(writePos) = readPos => Ring!Remaining = PW - 1
BY RingSizes, NextPosWraps DEF RingTyped, Ring!Remaining

LEMMA PushRemaining ==
  ASSUME RingTyped, NEW h, Ring!Push(h)
  PROVE  RingTyped' /\ Ring!Remaining' <= Ring!Remaining + 1
<1>1. \/ writePos' = Ring!NextPos(writePos) /\ readPos' = readPos
         /\ Ring!NextPos(writePos) # readPos
      \/ writePos' = writePos /\ readPos' = readPos
  BY DEF Ring!Push, Ring!PushStored, Ring!PushDropped, Ring!ringVars
<1>2. QED
  BY <1>1, RingSizes, NextPosWraps DEF RingTyped, Ring!Remaining

LEMMA PopRemaining ==
  ASSUME RingTyped, Ring!Pop
  PROVE  RingTyped' /\ Ring!Remaining' <= Ring!Remaining
<1>1. /\ writePos' = writePos
      /\ \/ readPos' = readPos
         \/ readPos' = Ring!NextPos(readPos) /\ readPos # writePos
  BY DEF Ring!Pop, Ring!Empty
<1>2. QED
  BY <1>1, RingSizes, NextPosWraps DEF RingTyped, Ring!Remaining

(***************************************************************************)
(* Hashes to come are of this work, all different, none of them was in the *)
(* ring before, and the ring has room for them.                            *)
(***************************************************************************)
HashNumbers == [work : Nat, nonce : Nat]

ToCome(found) ==
    /\ \A i \in 1 .. Len(found) : /\ found[i] \notin queued
                                  /\ found[i].work = work
                                  /\ found[i].nonce <= nonce
    /\ \A i, j \in 1 .. Len(found) : i # j => found[i] # found[j]
    /\ found # << >> => Ring!Remaining + Len(found) < HashesPerSieve * SW + MaxFound

HashInv ==
    /\ RingTyped /\ work \in Nat /\ nonce \in Nat
    /\ foundHost \in Seq(HashNumbers) /\ foundDev \in Seq(HashNumbers)
    /\ queued \subseteq HashNumbers /\ ~requeued
    /\ \A h \in queued : h.work < work \/ (h.work = work /\ h.nonce <= nonce)
    /\ pc \in {"top", "fetch", "check"} => ToCome(foundHost)
    /\ pc \in {"sieve", "fermat", "device"} /\ hashed => ToCome(foundDev)

LEMMA EmptyToCome == ToCome(<< >>) /\ << >> \in Seq(HashNumbers)
BY DEF ToCome

(***************************************************************************)
(* New work: what the ring once held is of older works.                    *)
(***************************************************************************)
LEMMA NewWorkKeepsHashes ==
  ASSUME HashInv, NewWork, ~Cuda
  PROVE  HashInv'
<1>1. /\ pc' = "fetch" /\ work' = work + 1 /\ nonce' = 0
      /\ foundHost' = << >> /\ UNCHANGED <<foundDev, queued, requeued>>
      /\ Ring!Clear
  BY DEF NewWork, history
<1>2. RingTyped'
  BY <1>1 DEF HashInv, RingTyped, Ring!Clear
<1>3. ToCome(foundHost)'
  BY <1>1 DEF ToCome
<1>4. ASSUME NEW h \in queued PROVE h.work < work'
  <2>1. h.work \in Nat
    BY DEF HashInv, HashNumbers
  <2>2. work \in Nat /\ (h.work < work \/ h.work = work)
    BY DEF HashInv
  <2>3. QED
    BY <1>1, <2>1, <2>2
<1>5. QED
  BY <1>1, <1>2, <1>3, <1>4, EmptyToCome DEF HashInv

(***************************************************************************)
(* A hash that was fetched is in the ring now, or it failed the check; the *)
(* others are still to come.                                               *)
(***************************************************************************)
LEMMA FetchKeepsHashes ==
  ASSUME HashInv, FetchHash \/ RejectHash
  PROVE  HashInv'
<1>1. /\ pc = "fetch" /\ pc' = "fetch" /\ foundHost # << >>
      /\ foundHost' = Tail(foundHost)
      /\ UNCHANGED <<work, nonce, foundDev>>
      /\ \/ /\ Ring!Push(Head(foundHost))
            /\ queued' = queued \union {Head(foundHost)}
            /\ requeued' = (requeued \/ Head(foundHost) \in queued)
         \/ UNCHANGED <<readPos, writePos, queued, requeued>>
  BY DEF FetchHash, RejectHash, ring, history
<1>2. /\ foundHost \in Seq(HashNumbers) /\ ToCome(foundHost)
      /\ RingTyped /\ work \in Nat /\ nonce \in Nat
  BY <1>1 DEF HashInv
<1>3. /\ Head(foundHost) \in HashNumbers /\ Head(foundHost) = foundHost[1]
      /\ Tail(foundHost) \in Seq(HashNumbers)
      /\ Len(foundHost) \in Nat /\ Len(foundHost) >= 1
      /\ Len(Tail(foundHost)) = Len(foundHost) - 1
      /\ \A i \in 1 .. Len(Tail(foundHost)) : Tail(foundHost)[i] = foundHost[i + 1]
  BY <1>1, <1>2, HeadTailProperties, EmptySeq
<1>4. RingTyped' /\ Ring!Remaining' <= Ring!Remaining + 1
  <2>1. CASE Ring!Push(Head(foundHost))
    BY <1>2, <2>1, PushRemaining
  <2>2. CASE UNCHANGED <<readPos, writePos>>
    BY <1>2, <2>2, RemainingBounds DEF RingTyped, Ring!Remaining
  <2>3. QED
    BY <1>1, <2>1, <2>2
<1>5. 1 \in 1 .. Len(foundHost)
      /\ \A i \in 1 .. Len(Tail(foundHost)) :
           i + 1 \in 1 .. Len(foundHost) /\ i + 1 # 1
  BY <1>3
<1>6. foundHost[1] \notin queued /\ foundHost[1].work = work
      /\ foundHost[1].nonce <= nonce
  BY <1>2, <1>5 DEF ToCome
<1>7. queued' \subseteq queued \union {foundHost[1]} /\ ~requeued'
  <2>1. ~requeued /\ Head(foundHost) \notin queued
    BY <1>3, <1>6 DEF HashInv
  <2>2. ~requeued'
    BY <1>1, <2>1, Zenon
  <2>3. queued' \subseteq queued \union {foundHost[1]}
    BY <1>1, <1>3
  <2>4. QED
    BY <2>2, <2>3
<1>8. ToCome(foundHost)'
  <2> DEFINE f == Tail(foundHost)
  <2>1. ASSUME NEW i \in 1 .. Len(f)
        PROVE  f[i] \notin queued' /\ f[i].work = work /\ f[i].nonce <= nonce
    <3>1. f[i] = foundHost[i + 1] /\ f[i] # foundHost[1]
      BY <1>2, <1>3, <1>5 DEF ToCome
    <3>2. QED
      BY <1>2, <1>5, <1>7, <3>1 DEF ToCome
  <2>2. ASSUME NEW i \in 1 .. Len(f), NEW j \in 1 .. Len(f), i # j
        PROVE  f[i] # f[j]
    <3>1. i + 1 # j + 1 /\ f[i] = foundHost[i + 1] /\ f[j] = foundHost[j + 1]
      BY <1>3, <2>2
    <3>2. QED
      BY <1>2, <1>5, <3>1 DEF ToCome
  <2>3. Ring!Remaining' + Len(f) < HashesPerSieve * SW + MaxFound
    <3>1. Ring!Remaining + Len(foundHost) < HashesPerSieve * SW + MaxFound
      BY <1>1, <1>2 DEF ToCome
    <3>2. Ring!Remaining \in Nat
      BY <1>2, RemainingBounds
    <3>3. Ring!Remaining' \in Int
      BY <1>4, RingSizes DEF RingTyped, Ring!Remaining
    <3>4. QED
      BY <1>3, <1>4, <3>1, <3>2, <3>3, RingSizes
  <2>4. foundHost' = f /\ work' = work /\ nonce' = nonce
    BY <1>1
  <2> HIDE DEF f
  <2>5. QED
    BY <2>1, <2>2, <2>3, <2>4 DEF ToCome
<1>9. QED
  BY <1>1, <1>2, <1>3, <1>4, <1>6, <1>7, <1>8 DEF HashInv

(***************************************************************************)
(* hashmod finds hashes beyond all that were found for this work, and runs *)
(* only while fewer are waiting than the sieves want.                      *)
(***************************************************************************)
LEMMA StartKeepsHashes ==
  ASSUME HashInv, sieves \in 1 .. SW, StartHashmod
  PROVE  HashInv'
<1>1. PICK n \in 0 .. MaxFound :
        /\ foundDev' = [j \in 1 .. n |-> [work |-> work, nonce |-> nonce + j]]
        /\ nonce' = nonce + n
  BY DEF StartHashmod
<1>2. /\ pc' = "sieve" /\ hashed' /\ Wanted > 0
      /\ UNCHANGED <<work, readPos, writePos, foundHost, queued, requeued>>
  BY DEF StartHashmod, ring, history
<1>3. work \in Nat /\ nonce \in Nat /\ n \in Nat /\ RingTyped
  BY <1>1, RingSizes DEF HashInv
<1>4. /\ foundDev' \in Seq(HashNumbers) /\ Len(foundDev') = n
      /\ \A j \in 1 .. n : foundDev'[j] = [work |-> work, nonce |-> nonce + j]
  BY <1>1, <1>3 DEF HashNumbers
<1>5. Ring!Remaining' = Ring!Remaining /\ Ring!Remaining \in Nat
  BY <1>2, <1>3, RemainingBounds DEF Ring!Remaining
<1>6. Ring!Remaining + n < HashesPerSieve * SW + MaxFound
  <2>1. HashesPerSieve * sieves <= HashesPerSieve * SW /\ HashesPerSieve * sieves \in Nat
    BY RingSizes
  <2>2. Ring!Remaining < HashesPerSieve * sieves
    BY <1>2, <1>5, <2>1 DEF Wanted
  <2>3. QED
    BY <1>1, <1>5, <2>1, <2>2, RingSizes
<1>7. ToCome(foundDev)'
  <2>1. ASSUME NEW i \in 1 .. n
        PROVE  /\ foundDev'[i] \notin queued /\ foundDev'[i].work = work
               /\ foundDev'[i].nonce <= nonce + n
    <3>1. foundDev'[i].work = work /\ foundDev'[i].nonce = nonce + i
      BY <1>4
    <3>2. ~(nonce + i <= nonce) /\ ~(work < work) /\ nonce + i <= nonce + n
      BY <1>3
    <3>3. QED
      BY <3>1, <3>2 DEF HashInv
  <2>2. ASSUME NEW i \in 1 .. n, NEW j \in 1 .. n, i # j
        PROVE  foundDev'[i] # foundDev'[j]
    <3>1. foundDev'[i].nonce = nonce + i /\ foundDev'[j].nonce = nonce + j
      BY <1>4
    <3>2. nonce + i # nonce + j
      BY <1>3, <2>2
    <3>3. QED
      BY <3>1, <3>2
  <2>3. QED
    BY <1>1, <1>2, <1>4, <1>5, <1>6, <2>1, <2>2 DEF ToCome
<1>8. \A h \in queued : h.work < work \/ (h.work = work /\ h.nonce <= nonce + n)
  BY <1>3 DEF HashInv, HashNumbers
<1>9. /\ RingTyped' /\ work' \in Nat /\ nonce' \in Nat
      /\ foundHost' \in Seq(HashNumbers) /\ queued' \subseteq HashNumbers
      /\ ~requeued'
  BY <1>1, <1>2, <1>3 DEF HashInv, RingTyped
<1>10. \A h \in queued' : h.work < work' \/ (h.work = work' /\ h.nonce <= nonce')
  BY <1>1, <1>2, <1>8
<1>11. QED
  BY <1>2, <1>4, <1>7, <1>9, <1>10 DEF HashInv

(***************************************************************************)
(* A sieve takes a hash out of the ring: there is more room.               *)
(***************************************************************************)
LEMMA SieveKeepsHashes ==
  ASSUME HashInv, RunSieve
  PROVE  HashInv'
<1>1. /\ pc = "sieve" /\ pc' = "sieve" /\ Ring!Pop
      /\ UNCHANGED <<work, nonce, hashed, foundDev, foundHost, queued, requeued>>
  BY DEF RunSieve, history
<1>2. RingTyped /\ foundDev \in Seq(HashNumbers)
  BY DEF HashInv
<1>3. RingTyped' /\ Ring!Remaining' <= Ring!Remaining
  BY <1>1, <1>2, PopRemaining
<1>4. /\ Ring!Remaining' \in Int /\ Ring!Remaining \in Int
      /\ Len(foundDev) \in Nat
  BY <1>2, <1>3, RingSizes DEF RingTyped, Ring!Remaining
<1>5. hashed => ToCome(foundDev)'
  <2> SUFFICES ASSUME hashed PROVE ToCome(foundDev)'
    OBVIOUS
  <2>1. ToCome(foundDev)
    BY <1>1 DEF HashInv
  <2>2. foundDev # << >> => Ring!Remaining' + Len(foundDev) < HashesPerSieve * SW + MaxFound
    BY <1>3, <1>4, <2>1, RingSizes DEF ToCome
  <2>3. QED
    BY <1>1, <2>1, <2>2 DEF ToCome
<1>6. QED
  BY <1>1, <1>3, <1>5 DEF HashInv

(***************************************************************************)
(* The other steps: the results of hashmod are fetched only behind a run.  *)
(***************************************************************************)
LEMMA OthersKeepHashes ==
  ASSUME HashInv, ~Cuda,
         \/ UNCHANGED vars
         \/ SameWork \/ SkipHashmod \/ EndSieves \/ Dispatch
         \/ Finish \/ CheckCandi \/ NextIteration
  PROVE  HashInv'
<1>1. /\ UNCHANGED <<work, nonce, readPos, writePos, foundDev, queued, requeued>>
  BY DEF vars, SameWork, SkipHashmod, EndSieves, Dispatch, Finish, CheckCandi,
     NextIteration, ring, results, history
<1>2. /\ ToCome(foundDev)' <=> ToCome(foundDev)
      /\ foundHost' = foundHost => (ToCome(foundHost)' <=> ToCome(foundHost))
  BY <1>1 DEF ToCome, Ring!Remaining
<1>3. CASE Finish
  <2>1. /\ pc = "device" /\ pc' = "check"
        /\ foundHost' = IF hashed THEN foundDev ELSE << >>
    BY <1>3 DEF Finish, FetchedHashes
  <2>2. foundHost' \in Seq(HashNumbers)
    BY <2>1, EmptyToCome DEF HashInv
  <2>3. ToCome(foundHost)'
    <3>1. CASE hashed
      <4>1. ToCome(foundDev)
        BY <2>1, <3>1 DEF HashInv
      <4>2. QED
        BY <1>1, <2>1, <3>1, <4>1 DEF ToCome, Ring!Remaining
    <3>2. CASE ~hashed
      BY <2>1, <3>2 DEF ToCome
    <3>3. QED
      BY <3>1, <3>2
  <2>4. QED
    BY <1>1, <2>1, <2>2, <2>3 DEF HashInv, RingTyped
<1>4. CASE ~Finish
  <2>1. /\ UNCHANGED foundHost
        /\ \/ pc' \in {"top", "fetch", "check"} /\ pc \in {"top", "fetch", "check"}
           \/ pc' = "sieve" /\ ~hashed'
           \/ /\ pc' \in {"sieve", "fermat", "device"} /\ hashed' = hashed
              /\ pc \in {"sieve", "fermat", "device"}
           \/ pc' = pc /\ hashed' = hashed
    BY <1>4 DEF vars, SameWork, SkipHashmod, EndSieves, Dispatch, CheckCandi,
       NextIteration, results
  <2>2. QED
    BY <1>1, <1>2, <2>1 DEF HashInv, RingTyped
<1>5. QED
  BY <1>3, <1>4

LEMMA HashInvInductive == ~Cuda => (Spec => []HashInv)
<1> SUFFICES ASSUME ~Cuda PROVE Spec => []HashInv
  OBVIOUS
<1>1. Init => HashInv
  <2> SUFFICES ASSUME Init PROVE HashInv
    OBVIOUS
  <2>1. RingTyped
    BY RingSizes DEF Init, RingTyped, Ring!RingInit
  <2>2. QED
    BY <2>1, EmptyToCome DEF Init, HashInv
<1>2. BuffersInv /\ HashInv /\ [Next]_vars => HashInv'
  <2> SUFFICES ASSUME BuffersInv, HashInv, [Next]_vars PROVE HashInv'
    OBVIOUS
  <2>1. sieves \in 1 .. SW
    BY DEF BuffersInv
  <2>2. QED
    BY <2>1, NewWorkKeepsHashes, FetchKeepsHashes, StartKeepsHashes,
       SieveKeepsHashes, OthersKeepHashes DEF Next
<1>3. QED
  BY <1>1, <1>2, BuffersInvInductive, PTL DEF Spec

(***************************************************************************)
(* OpenCL: a hash is put into the ring at most once.                       *)
(***************************************************************************)
THEOREM HashesQueuedOnce == ~Cuda => (Spec => []HashQueuedOnce)
<1>1. HashInv => HashQueuedOnce
  BY DEF HashInv, HashQueuedOnce
<1>2. QED
  BY <1>1, HashInvInductive, PTL

(***************************************************************************)
(* OpenCL: the ring is never full when a hash is put into it.              *)
(***************************************************************************)
THEOREM RingHasRoom == ~Cuda => (Spec => []RingNeverFull)
<1>1. HashInv => RingNeverFull
  <2> SUFFICES ASSUME HashInv, pc = "fetch", foundHost # << >>,
                      Ring!NextPos(writePos) = readPos
               PROVE  FALSE
    BY DEF RingNeverFull
  <2>1. /\ Ring!Remaining + Len(foundHost) < HashesPerSieve * SW + MaxFound
        /\ foundHost \in Seq(HashNumbers) /\ RingTyped
    BY DEF HashInv, ToCome
  <2>2. Len(foundHost) \in Nat /\ Len(foundHost) >= 1
    BY <2>1, EmptySeq
  <2>3. Ring!Remaining = PW - 1
    BY <2>1, RemainingBounds
  <2>4. QED
    BY <2>1, <2>2, <2>3, RingSizes
<1>2. QED
  BY <1>1, HashInvInductive, PTL

-----------------------------------------------------------------------------
(***************************************************************************)
(* The slots whose hashes wait, and how the operations of the ring change  *)
(* which they are.                                                         *)
(***************************************************************************)
LEMMA PushWaiting ==
  ASSUME RingTyped, NEW h, Ring!Push(h)
  PROVE  /\ UNCHANGED readPos
         /\ \/ UNCHANGED <<slots, writePos>> /\ Ring!Waiting' = Ring!Waiting
            \/ /\ slots' = [slots EXCEPT ![writePos] = h]
               /\ writePos \notin Ring!Waiting
               /\ Ring!Waiting' = Ring!Waiting \union {writePos}
<1>1. CASE Ring!PushStored(h)
  <2>1. /\ slots' = [slots EXCEPT ![writePos] = h] /\ readPos' = readPos
        /\ writePos' = Ring!NextPos(writePos) /\ writePos' # readPos
    BY <1>1 DEF Ring!PushStored
  <2>2. /\ writePos' = IF writePos + 1 < PW THEN writePos + 1 ELSE 0
        /\ readPos \in 0 .. PW - 1 /\ writePos \in 0 .. PW - 1 /\ PW \in Nat
    BY <2>1, NextPosWraps, RingSizes DEF RingTyped
  <2>3. writePos \notin Ring!Waiting
    BY <2>2 DEF Ring!Waiting, Ring!Slots
  <2>4. \A i \in 0 .. PW - 1 :
           i \in Ring!Waiting' <=> i \in Ring!Waiting \/ i = writePos
    BY <2>1, <2>2 DEF Ring!Waiting, Ring!Slots
  <2>5. Ring!Waiting \subseteq 0 .. PW - 1 /\ Ring!Waiting' \subseteq 0 .. PW - 1
    BY DEF Ring!Waiting, Ring!Slots
  <2>6. Ring!Waiting' = Ring!Waiting \union {writePos}
    BY <2>2, <2>4, <2>5
  <2>7. QED
    BY <2>1, <2>3, <2>6
<1>2. CASE Ring!PushDropped(h)
  BY <1>2 DEF Ring!PushDropped, Ring!ringVars, Ring!Waiting
<1>3. QED
  BY <1>1, <1>2 DEF Ring!Push

LEMMA PopWaiting ==
  ASSUME RingTyped, readPos # writePos,
         readPos' = Ring!NextPos(readPos), writePos' = writePos
  PROVE  /\ readPos \in Ring!Waiting
         /\ Ring!Waiting' = Ring!Waiting \ {readPos}
<1>1. /\ readPos' = IF readPos + 1 < PW THEN readPos + 1 ELSE 0
      /\ readPos \in 0 .. PW - 1 /\ writePos \in 0 .. PW - 1 /\ PW \in Nat
  BY NextPosWraps, RingSizes DEF RingTyped
<1>2. readPos \in Ring!Waiting
  BY <1>1 DEF Ring!Waiting, Ring!Slots
<1>3. \A i \in 0 .. PW - 1 :
         i \in Ring!Waiting' <=> i \in Ring!Waiting /\ i # readPos
  BY <1>1 DEF Ring!Waiting, Ring!Slots
<1>4. Ring!Waiting \subseteq 0 .. PW - 1 /\ Ring!Waiting' \subseteq 0 .. PW - 1
  BY DEF Ring!Waiting, Ring!Slots
<1>5. QED
  BY <1>2, <1>3, <1>4

LEMMA ClearWaiting ==
  ASSUME RingTyped, Ring!Clear
  PROVE  Ring!Waiting' = {}
BY RingSizes DEF RingTyped, Ring!Clear, Ring!Waiting, Ring!Slots

-----------------------------------------------------------------------------
(***************************************************************************)
(* Shares, in the OpenCL build.  The slot that a candidate names holds a   *)
(* hash of the current work, for every candidate that still can become a   *)
(* share.  Candidates of older works remain only in device buffers that    *)
(* the host does not fetch any more: those of the sieves that did not run  *)
(* in this iteration.                                                      *)
(***************************************************************************)
FreshOutputs == {o \in Outputs : /\ pc \in {"sieve", "fermat", "device"}
                                 /\ o[2] = widx /\ o[1] < sieve}

OfThisWork == {c \in Cand : slots[c.hid].work = work}

CandidatesOfWork ==
    /\ \A o \in Outputs : outHost[o] \in Seq(OfThisWork)
    /\ \A o \in FreshOutputs : outDev[o] \in Seq(OfThisWork)
    /\ \A p \in Pipelines : buf[p] \in [{0, 1} -> Seq(OfThisWork)]
    /\ finalHost \in Seq(OfThisWork) /\ candis \in Seq(OfThisWork)

WaitingOfWork == \A i \in Ring!Waiting : slots[i].work = work

ShareInv ==
    /\ CandidatesOfWork
    /\ WaitingOfWork
    /\ pc = "top" => candis = << >>
    /\ ShareMatchesWork

LEMMA EmptyOfWork == << >> \in Seq(OfThisWork)
OBVIOUS

(***************************************************************************)
(* New work drops every candidate and every hash of the old one.           *)
(***************************************************************************)
LEMMA NewWorkKeepsShares ==
  ASSUME HashInv, ShareInv, NewWork
  PROVE  ShareInv'
<1>1. /\ pc = "top" /\ pc' = "fetch" /\ Ring!Clear
      /\ outHost' = [o \in Outputs |-> << >>]
      /\ buf' = [p \in Pipelines |-> [k \in {0, 1} |-> << >>]]
      /\ finalHost' = << >> /\ candis' = candis /\ share' = NoShare
  BY DEF NewWork, ForgetFinal
<1>2. candis = << >>
  BY <1>1 DEF ShareInv
<1>3. Ring!Waiting' = {}
  BY <1>1, ClearWaiting DEF HashInv
<1>4. FreshOutputs' = {}
  BY <1>1 DEF FreshOutputs
<1>5. CandidatesOfWork'
  BY <1>1, <1>2, <1>4 DEF CandidatesOfWork
<1>6. QED
  BY <1>1, <1>3, <1>5 DEF ShareInv, WaitingOfWork, ShareMatchesWork

(***************************************************************************)
(* A hash that enters the ring is of this work: whatever slot it takes.    *)
(***************************************************************************)
LEMMA FetchKeepsShares ==
  ASSUME TypeInv, HashInv, ShareInv, FetchHash
  PROVE  ShareInv'
<1> DEFINE h == Head(foundHost)
<1>1. /\ pc = "fetch" /\ foundHost # << >> /\ Ring!Push(h)
      /\ UNCHANGED <<pc, work, outHost, buf, finalHost, candis, share>>
  BY DEF FetchHash, pipes
<1>2. h.work = work
  <2>1. foundHost \in Seq(HashNumbers) /\ ToCome(foundHost)
    BY <1>1 DEF HashInv
  <2>2. 1 \in 1 .. Len(foundHost) /\ h = foundHost[1]
    BY <1>1, <2>1, EmptySeq, HeadTailProperties
  <2>3. QED
    BY <2>1, <2>2 DEF ToCome
<1> HIDE DEF h
<1>3. /\ RingTyped /\ slots \in [0 .. PW - 1 -> Hash \union {NoHash}]
  BY DEF HashInv, TypeInv, TypeOK, Ring!RingTypeOK, Ring!Slots
<1>4. \A i \in 0 .. PW - 1 : slots[i].work = work => slots'[i].work = work
  BY <1>1, <1>2, <1>3, PushWaiting
<1>5. OfThisWork \subseteq OfThisWork'
  BY <1>1, <1>4 DEF OfThisWork, Cand
<1>6. Seq(OfThisWork) \subseteq Seq(OfThisWork')
  BY <1>5, SeqMonotonic
<1>7. CandidatesOfWork'
  <2>1. FreshOutputs' = {}
    BY <1>1 DEF FreshOutputs
  <2>2. ASSUME NEW p \in Pipelines
        PROVE  buf'[p] \in [{0, 1} -> Seq(OfThisWork')]
    <3>1. buf'[p] = buf[p] /\ buf[p] \in [{0, 1} -> Seq(OfThisWork)]
      BY <1>1 DEF ShareInv, CandidatesOfWork
    <3>2. QED
      BY <1>6, <3>1
  <2>3. QED
    BY <1>1, <1>6, <2>1, <2>2 DEF ShareInv, CandidatesOfWork
<1>8. WaitingOfWork'
  <2>1. ASSUME NEW i \in Ring!Waiting' PROVE slots'[i].work = work
    <3>1. i \in 0 .. PW - 1
      BY DEF Ring!Waiting, Ring!Slots
    <3>2. CASE i \in Ring!Waiting
      BY <1>4, <3>1, <3>2 DEF ShareInv, WaitingOfWork
    <3>3. CASE i \notin Ring!Waiting
      <4>1. i = writePos /\ slots' = [slots EXCEPT ![writePos] = h]
        BY <1>1, <1>3, <3>3, PushWaiting
      <4>2. QED
        BY <1>2, <1>3, <3>1, <4>1
    <3>4. QED
      BY <3>2, <3>3
  <2>2. QED
    BY <1>1, <2>1 DEF WaitingOfWork
<1>9. QED
  BY <1>1, <1>7, <1>8 DEF ShareInv, ShareMatchesWork

(***************************************************************************)
(* A sieve runs on a hash that waited: its candidates are of this work.    *)
(***************************************************************************)
LEMMA SieveKeepsShares ==
  ASSUME TypeInv, HashInv, ShareInv, RunSieve
  PROVE  ShareInv'
<1>1. /\ pc = "sieve" /\ pc' = "sieve"
      /\ UNCHANGED <<work, ridx, outHost, buf, finalHost, candis, share>>
  BY DEF RunSieve, pipes
<1>2. /\ sieve' = sieve + 1 /\ readPos # writePos
      /\ readPos' = Ring!NextPos(readPos) /\ UNCHANGED <<slots, writePos>>
  BY RunSieveWrites
<1>3. readPos \in Ring!Waiting /\ Ring!Waiting' = Ring!Waiting \ {readPos}
  BY <1>2, PopWaiting DEF HashInv
<1>4. OfThisWork' = OfThisWork
  BY <1>1, <1>2 DEF OfThisWork
<1>5. ASSUME NEW o \in FreshOutputs'
      PROVE  outDev'[o] \in Seq(OfThisWork)
  <2> DEFINE W == {c \in Sieved : c.hid = readPos /\ c.hash = slots[readPos]}
  <2>1. o \in Outputs /\ o[2] = widx /\ o[1] < sieve + 1
    BY <1>1, <1>2 DEF FreshOutputs, widx
  <2>2. CASE o[1] = sieve
    <3>1. outDev'[o] \in Seq(W)
      BY <2>1, <2>2, RunSieveWrites
    <3>2. W \subseteq OfThisWork
      BY <1>3 DEF Sieved, OfThisWork, ShareInv, WaitingOfWork
    <3> HIDE DEF W
    <3>3. Seq(W) \subseteq Seq(OfThisWork)
      BY <3>2, SeqMonotonic
    <3>4. QED
      BY <3>1, <3>3
  <2>3. CASE o[1] # sieve
    <3>1. o[1] \in Int /\ sieve \in Int
      <4>1. o[1] \in 0 .. SW - 1
        BY <2>1, OutputParts
      <4>2. sieve \in 0 .. sieves
        BY DEF TypeInv, TypeOK
      <4>3. QED
        BY <4>1, <4>2
    <3>2. o \in FreshOutputs
      BY <1>1, <2>1, <2>3, <3>1 DEF FreshOutputs
    <3>3. outDev'[o] = outDev[o]
      BY <2>1, <2>3, RunSieveWrites
    <3>4. QED
      BY <3>2, <3>3 DEF ShareInv, CandidatesOfWork
  <2>4. QED
    BY <2>2, <2>3
<1>6. CandidatesOfWork'
  BY <1>1, <1>4, <1>5 DEF ShareInv, CandidatesOfWork
<1>7. QED
  BY <1>1, <1>2, <1>3, <1>6 DEF ShareInv, WaitingOfWork, ShareMatchesWork

(***************************************************************************)
(* The pipelines pass on the candidates that they are given.               *)
(***************************************************************************)
LEMMA DispatchKeepsShares ==
  ASSUME TypeInv, ShareInv, Dispatch
  PROVE  ShareInv'
<1>1. /\ pc = "fermat" /\ pc' = "device" /\ candis' = finalHost /\ finalHost' = << >>
      /\ outHost' = [o \in Outputs |-> HandedOver(o)]
      /\ UNCHANGED <<work, ridx, slots, readPos, writePos, sieve, outDev, share>>
  BY DEF Dispatch, ring
<1>2. OfThisWork' = OfThisWork /\ Ring!Waiting' = Ring!Waiting
  BY <1>1 DEF OfThisWork, Ring!Waiting
<1>3. FreshOutputs' = FreshOutputs
  BY <1>1 DEF FreshOutputs, widx
<1>4. \A p \in Pipelines : buf'[p] \in [{0, 1} -> Seq(OfThisWork)]
  BY DispatchJoins DEF ShareInv, CandidatesOfWork
<1>5. \A o \in Outputs : outHost'[o] \in Seq(OfThisWork)
  <2>1. TAKE o \in Outputs
  <2>2. outHost'[o] = << >> \/ outHost'[o] = outHost[o]
    BY <1>1 DEF HandedOver
  <2>3. QED
    BY <2>2, EmptyOfWork DEF ShareInv, CandidatesOfWork
<1>6. CandidatesOfWork'
  BY <1>1, <1>2, <1>3, <1>4, <1>5, EmptyOfWork DEF ShareInv, CandidatesOfWork
<1>7. QED
  BY <1>1, <1>2, <1>6 DEF ShareInv, WaitingOfWork, ShareMatchesWork

(***************************************************************************)
(* The host fetches what the sieves of this iteration wrote, and only that. *)
(***************************************************************************)
LEMMA FinishKeepsShares ==
  ASSUME TypeInv, ShareInv, Finish, ~Cuda
  PROVE  ShareInv'
<1>1. /\ pc = "device" /\ pc' = "check"
      /\ outHost' = [o \in Outputs |-> Fetched(o)]
      /\ UNCHANGED <<work, slots, readPos, writePos, candis, share>>
  BY DEF Finish, ring
<1>2. OfThisWork' = OfThisWork /\ Ring!Waiting' = Ring!Waiting
  BY <1>1 DEF OfThisWork, Ring!Waiting
<1>3. FreshOutputs' = {}
  BY <1>1 DEF FreshOutputs
<1>4. \A o \in Outputs : outHost'[o] \in Seq(OfThisWork)
  <2>1. TAKE o \in Outputs
  <2>2. CASE o[2] = widx /\ o[1] < sieve
    <3>1. o \in FreshOutputs
      BY <1>1, <2>2 DEF FreshOutputs
    <3>2. QED
      BY <1>1, <2>2, <3>1 DEF Fetched, ShareInv, CandidatesOfWork
  <2>3. CASE ~(o[2] = widx /\ o[1] < sieve)
    BY <1>1, <2>3 DEF Fetched, ShareInv, CandidatesOfWork
  <2>4. QED
    BY <2>2, <2>3
<1>5. ASSUME NEW p \in Pipelines, NEW b \in 1 .. bsize[p]
      PROVE  Passed(p, b) \in OfThisWork
  <2>1. /\ b \in 1 .. Len(buf[p][ridx]) /\ Passed(p, b) \in Cand
        /\ Passed(p, b).hid = buf[p][ridx][b].hid
    BY <1>1, PassedTyped
  <2>2. buf[p][ridx] \in Seq(OfThisWork)
    BY DEF ShareInv, CandidatesOfWork, TypeInv, TypeOK
  <2>3. buf[p][ridx][b] \in OfThisWork
    BY <2>1, <2>2
  <2>4. QED
    BY <2>1, <2>3 DEF OfThisWork
<1>6. /\ finalHost' \in Seq(OfThisWork)
      /\ \A p \in Pipelines :
           \E kept \in InAnyOrder(Again(p)) :
              /\ buf'[p] = [buf[p] EXCEPT ![widx] = Survivors(p, kept)]
              /\ Survivors(p, kept) \in Seq(OfThisWork)
  BY <1>5, FinishWrites DEF Again
<1>7. ASSUME NEW p \in Pipelines
      PROVE  buf'[p] \in [{0, 1} -> Seq(OfThisWork)]
  <2>1. PICK kept \in InAnyOrder(Again(p)) :
          /\ buf'[p] = [buf[p] EXCEPT ![widx] = Survivors(p, kept)]
          /\ Survivors(p, kept) \in Seq(OfThisWork)
    BY <1>6
  <2>2. buf[p] \in [{0, 1} -> Seq(OfThisWork)]
    BY DEF ShareInv, CandidatesOfWork
  <2>3. QED
    BY <2>1, <2>2
<1>8. CandidatesOfWork'
  BY <1>1, <1>2, <1>3, <1>4, <1>6, <1>7 DEF ShareInv, CandidatesOfWork
<1>9. QED
  BY <1>1, <1>2, <1>8 DEF ShareInv, WaitingOfWork, ShareMatchesWork

(***************************************************************************)
(* A candidate is checked with the hash in its slot, which is of this work. *)
(***************************************************************************)
LEMMA CheckKeepsShares ==
  ASSUME ShareInv, CheckCandi
  PROVE  ShareInv'
<1>1. /\ pc = "check" /\ pc' = "check" /\ candis # << >> /\ candis' = Tail(candis)
      /\ \/ share' = NoShare
         \/ share' = [hash |-> slots[Head(candis).hid], merkle |-> work]
      /\ UNCHANGED <<work, slots, readPos, writePos, outHost, buf, finalHost>>
  BY DEF CheckCandi, ring, results
<1>2. OfThisWork' = OfThisWork /\ Ring!Waiting' = Ring!Waiting /\ FreshOutputs' = {}
  BY <1>1 DEF OfThisWork, Ring!Waiting, FreshOutputs
<1>3. Head(candis) \in OfThisWork /\ Tail(candis) \in Seq(OfThisWork)
  BY <1>1, HeadTailProperties DEF ShareInv, CandidatesOfWork
<1>4. ShareMatchesWork'
  BY <1>1, <1>3 DEF ShareMatchesWork, OfThisWork
<1>5. CandidatesOfWork'
  BY <1>1, <1>2, <1>3 DEF ShareInv, CandidatesOfWork
<1>6. QED
  BY <1>1, <1>2, <1>4, <1>5 DEF ShareInv, WaitingOfWork

(***************************************************************************)
(* The other steps leave the candidates where they are.                    *)
(***************************************************************************)
LEMMA OthersKeepShares ==
  ASSUME ShareInv,
         \/ UNCHANGED vars
         \/ SameWork \/ RejectHash \/ StartHashmod \/ SkipHashmod
         \/ EndSieves \/ NextIteration
  PROVE  ShareInv'
<1>1. /\ UNCHANGED <<work, slots, readPos, writePos, outDev, outHost, buf,
                     finalHost, candis>>
      /\ share' \in {share, NoShare}
  BY DEF vars, SameWork, RejectHash, StartHashmod, SkipHashmod, EndSieves,
     NextIteration, ring, results, pipes
<1>2. OfThisWork' = OfThisWork /\ Ring!Waiting' = Ring!Waiting
  BY <1>1 DEF OfThisWork, Ring!Waiting
<1>3. FreshOutputs' \subseteq FreshOutputs
  <2>1. CASE StartHashmod \/ SkipHashmod
    <3>1. sieve' = 0
      BY <2>1 DEF StartHashmod, SkipHashmod
    <3>2. QED
      BY <3>1, OutputParts, RingSizes DEF FreshOutputs
  <2>2. CASE SameWork \/ RejectHash \/ NextIteration
    BY <2>2 DEF SameWork, RejectHash, NextIteration, FreshOutputs
  <2>3. CASE UNCHANGED vars \/ EndSieves
    BY <2>3 DEF vars, EndSieves, FreshOutputs, widx
  <2>4. QED
    BY <2>1, <2>2, <2>3
<1>4. CandidatesOfWork'
  BY <1>1, <1>2, <1>3 DEF ShareInv, CandidatesOfWork
<1>5. pc' = "top" => candis' = << >>
  BY <1>1 DEF vars, SameWork, RejectHash, StartHashmod, SkipHashmod, EndSieves,
     NextIteration, ShareInv
<1>6. QED
  BY <1>1, <1>2, <1>4, <1>5 DEF ShareInv, WaitingOfWork, ShareMatchesWork

LEMMA ShareInvInductive == ~Cuda => (Spec => []ShareInv)
<1> SUFFICES ASSUME ~Cuda PROVE Spec => []ShareInv
  OBVIOUS
<1>1. Init => ShareInv
  <2> SUFFICES ASSUME Init PROVE ShareInv
    OBVIOUS
  <2>1. Ring!Waiting = {} /\ FreshOutputs = {}
    BY RingSizes DEF Init, Ring!RingInit, Ring!Waiting, Ring!Slots, FreshOutputs
  <2>2. CandidatesOfWork
    BY <2>1 DEF Init, CandidatesOfWork
  <2>3. QED
    BY <2>1, <2>2 DEF Init, ShareInv, WaitingOfWork, ShareMatchesWork
<1>2. TypeInv /\ HashInv /\ ShareInv /\ [Next]_vars => ShareInv'
  BY NewWorkKeepsShares, FetchKeepsShares, SieveKeepsShares, DispatchKeepsShares,
     FinishKeepsShares, CheckKeepsShares, OthersKeepShares DEF Next
<1>3. QED
  BY <1>1, <1>2, TypeInvInductive, HashInvInductive, PTL DEF Spec

(***************************************************************************)
(* OpenCL: a share names a hash of the work whose merkle root it is sent   *)
(* with, also when the work changed while candidates were being tested.    *)
(***************************************************************************)
THEOREM SharesMatchWork == ~Cuda => (Spec => []ShareMatchesWork)
<1>1. ShareInv => ShareMatchesWork
  BY DEF ShareInv
<1>2. QED
  BY <1>1, ShareInvInductive, PTL

-----------------------------------------------------------------------------
(***************************************************************************)
(* Candidates that enter a pipeline, in the OpenCL build.  A hash that was *)
(* queued waits in one slot of the ring, or is being sieved, or has its    *)
(* candidates in the pipelines: never two of these.  The candidates that   *)
(* the host holds and those that it is about to fetch are of different     *)
(* hashes.                                                                 *)
(***************************************************************************)
WaitingHashes == {slots[i] : i \in Ring!Waiting}
EnteredHashes == {e[2] : e \in entered}
Unused == queued \ (WaitingHashes \union EnteredHashes)

\* The hashes of the candidates that the host holds.
FoundHashes == UNION {{outHost[o][j].hash : j \in 1 .. Len(outHost[o])} : o \in Outputs}

From(H) == {c \in Cand : c.hash \in H}

QueueInv ==
    /\ \A i, j \in Ring!Waiting : i # j => slots[i] # slots[j]
    /\ WaitingHashes \subseteq queued /\ EnteredHashes \subseteq queued
    /\ WaitingHashes \intersect EnteredHashes = {}

EnterInv ==
    /\ QueueInv
    /\ \A o \in Outputs : outHost[o] \in Seq(From(Unused))
    /\ \A o \in FreshOutputs : outDev[o] \in Seq(From(Unused \ FoundHashes))
    /\ CandidateEntersOnce

LEMMA FromMonotonic ==
  ASSUME NEW H, NEW K, H \subseteq K
  PROVE  Seq(From(H)) \subseteq Seq(From(K))
<1>1. From(H) \subseteq From(K)
  BY DEF From
<1>2. QED
  BY <1>1, SeqMonotonic

LEMMA FoundAreUnused ==
  ASSUME EnterInv
  PROVE  /\ FoundHashes \subseteq Unused
         /\ \A o \in Outputs : outHost[o] \in Seq(From(FoundHashes))
<1>1. ASSUME NEW o \in Outputs, NEW j \in 1 .. Len(outHost[o])
      PROVE  /\ outHost[o][j] \in Cand
             /\ outHost[o][j].hash \in Unused
             /\ outHost[o][j].hash \in FoundHashes
  <2>1. outHost[o] \in Seq(From(Unused))
    BY DEF EnterInv
  <2>2. outHost[o][j] \in From(Unused)
    BY <2>1
  <2>3. QED
    BY <2>2 DEF From, FoundHashes
<1>2. FoundHashes \subseteq Unused
  BY <1>1 DEF FoundHashes
<1>3. ASSUME NEW o \in Outputs
      PROVE  outHost[o] \in Seq(From(FoundHashes))
  <2>1. outHost[o] \in Seq(From(Unused))
    BY DEF EnterInv
  <2>2. \A j \in 1 .. Len(outHost[o]) : outHost[o][j] \in From(FoundHashes)
    BY <1>1 DEF From
  <2>3. QED
    BY <2>1, <2>2
<1>4. QED
  BY <1>2, <1>3

(***************************************************************************)
(* New work: nothing waits, and the host holds no candidates.              *)
(***************************************************************************)
LEMMA NewWorkKeepsEntries ==
  ASSUME HashInv, EnterInv, NewWork
  PROVE  EnterInv'
<1>1. /\ pc' = "fetch" /\ Ring!Clear /\ outHost' = [o \in Outputs |-> << >>]
      /\ UNCHANGED <<queued, entered, reentered>>
  BY DEF NewWork, history
<1>2. Ring!Waiting' = {} /\ FreshOutputs' = {}
  BY <1>1, ClearWaiting DEF HashInv, FreshOutputs
<1>3. WaitingHashes' = {} /\ EnteredHashes' = EnteredHashes
  BY <1>1, <1>2 DEF WaitingHashes, EnteredHashes
<1>4. QueueInv'
  BY <1>1, <1>2, <1>3 DEF EnterInv, QueueInv
<1>5. QED
  BY <1>1, <1>2, <1>4 DEF EnterInv, CandidateEntersOnce

(***************************************************************************)
(* A hash that enters the ring was not queued before.                      *)
(***************************************************************************)
LEMMA FetchKeepsEntries ==
  ASSUME TypeInv, HashInv, EnterInv, FetchHash
  PROVE  EnterInv'
<1> DEFINE h == Head(foundHost)
<1>1. /\ pc = "fetch" /\ pc' = "fetch" /\ foundHost # << >> /\ Ring!Push(h)
      /\ queued' = queued \union {h}
      /\ UNCHANGED <<outHost, entered, reentered>>
  BY DEF FetchHash
<1>2. h \notin queued
  <2>1. foundHost \in Seq(HashNumbers) /\ ToCome(foundHost)
    BY <1>1 DEF HashInv
  <2>2. 1 \in 1 .. Len(foundHost) /\ h = foundHost[1]
    BY <1>1, <2>1, EmptySeq, HeadTailProperties
  <2>3. QED
    BY <2>1, <2>2 DEF ToCome
<1> HIDE DEF h
<1>3. /\ RingTyped /\ slots \in [0 .. PW - 1 -> Hash \union {NoHash}]
      /\ Ring!Waiting \subseteq 0 .. PW - 1 /\ writePos \in 0 .. PW - 1
  BY DEF HashInv, RingTyped, TypeInv, TypeOK, Ring!RingTypeOK, Ring!Slots, Ring!Waiting
<1>4. \/ UNCHANGED slots /\ Ring!Waiting' = Ring!Waiting
      \/ /\ slots' = [slots EXCEPT ![writePos] = h]
         /\ writePos \notin Ring!Waiting
         /\ Ring!Waiting' = Ring!Waiting \union {writePos}
  BY <1>1, <1>3, PushWaiting
<1>5. \A i \in Ring!Waiting' : \/ i \in Ring!Waiting /\ slots'[i] = slots[i]
                               \/ i = writePos /\ slots'[i] = h
  BY <1>3, <1>4
<1>6. WaitingHashes' \subseteq WaitingHashes \union {h} /\ EnteredHashes' = EnteredHashes
  BY <1>1, <1>5 DEF WaitingHashes, EnteredHashes
<1>7. \A i \in Ring!Waiting : slots[i] # h
  BY <1>2 DEF EnterInv, QueueInv, WaitingHashes
<1>8. \A i, j \in Ring!Waiting' : i # j => slots'[i] # slots'[j]
  BY <1>5, <1>7 DEF EnterInv, QueueInv
<1>9. QueueInv'
  BY <1>1, <1>2, <1>6, <1>8 DEF EnterInv, QueueInv
<1>10. Unused \subseteq Unused'
  BY <1>1, <1>2, <1>6 DEF Unused
<1>11. \A o \in Outputs : outHost'[o] \in Seq(From(Unused'))
  <2>1. Seq(From(Unused)) \subseteq Seq(From(Unused'))
    BY <1>10, FromMonotonic
  <2>2. QED
    BY <1>1, <2>1 DEF EnterInv
<1>12. FreshOutputs' = {}
  BY <1>1 DEF FreshOutputs
<1>13. QED
  BY <1>1, <1>9, <1>11, <1>12 DEF EnterInv, CandidateEntersOnce, From

(***************************************************************************)
(* A sieve takes its hash out of the ring: no other slot holds it, and the *)
(* host holds no candidates of it yet.                                     *)
(***************************************************************************)
LEMMA SieveKeepsEntries ==
  ASSUME TypeInv, HashInv, EnterInv, RunSieve
  PROVE  EnterInv'
<1>1. /\ pc = "sieve" /\ pc' = "sieve"
      /\ UNCHANGED <<ridx, outHost, queued, entered, reentered>>
  BY DEF RunSieve, history
<1>2. /\ sieve' = sieve + 1 /\ readPos # writePos
      /\ readPos' = Ring!NextPos(readPos) /\ UNCHANGED <<slots, writePos>>
  BY RunSieveWrites
<1>3. readPos \in Ring!Waiting /\ Ring!Waiting' = Ring!Waiting \ {readPos}
  BY <1>2, PopWaiting DEF HashInv
<1> DEFINE h == slots[readPos]
<1>4. WaitingHashes' = WaitingHashes \ {h} /\ h \in WaitingHashes
  BY <1>2, <1>3 DEF WaitingHashes, EnterInv, QueueInv
<1>5. EnteredHashes' = EnteredHashes /\ FoundHashes' = FoundHashes
  BY <1>1 DEF EnteredHashes, FoundHashes
<1> HIDE DEF h
<1>6. h \notin FoundHashes /\ FoundHashes \subseteq Unused
  BY <1>4, FoundAreUnused DEF Unused
<1>7. Unused' = Unused \union {h}
  BY <1>1, <1>4, <1>5 DEF Unused, EnterInv, QueueInv
<1>8. QueueInv'
  BY <1>1, <1>2, <1>3, <1>4, <1>5 DEF EnterInv, QueueInv
<1>9. \A o \in Outputs : outHost'[o] \in Seq(From(Unused'))
  <2>1. Seq(From(Unused)) \subseteq Seq(From(Unused'))
    BY <1>7, FromMonotonic
  <2>2. QED
    BY <1>1, <2>1 DEF EnterInv
<1>10. ASSUME NEW o \in FreshOutputs'
       PROVE  outDev'[o] \in Seq(From(Unused' \ FoundHashes'))
  <2>1. o \in Outputs /\ o[2] = widx /\ o[1] < sieve + 1
    BY <1>1, <1>2 DEF FreshOutputs, widx
  <2>2. CASE o[1] = sieve
    <3> DEFINE W == {c \in Sieved : c.hid = readPos /\ c.hash = slots[readPos]}
    <3>1. outDev'[o] \in Seq(W)
      BY <2>1, <2>2, RunSieveWrites
    <3>2. W \subseteq From(Unused' \ FoundHashes')
      BY <1>5, <1>6, <1>7 DEF Sieved, From, h
    <3> HIDE DEF W
    <3>3. Seq(W) \subseteq Seq(From(Unused' \ FoundHashes'))
      BY <3>2, SeqMonotonic
    <3>4. QED
      BY <3>1, <3>3
  <2>3. CASE o[1] # sieve
    <3>1. o[1] \in Int /\ sieve \in Int
      <4>1. o[1] \in 0 .. SW - 1
        BY <2>1, OutputParts
      <4>2. sieve \in 0 .. sieves
        BY DEF TypeInv, TypeOK
      <4>3. QED
        BY <4>1, <4>2
    <3>2. o \in FreshOutputs
      BY <1>1, <2>1, <2>3, <3>1 DEF FreshOutputs
    <3>3. outDev'[o] = outDev[o]
      BY <2>1, <2>3, RunSieveWrites
    <3>4. Seq(From(Unused \ FoundHashes)) \subseteq Seq(From(Unused' \ FoundHashes'))
      <4>1. Unused \ FoundHashes \subseteq Unused' \ FoundHashes'
        BY <1>5, <1>7
      <4>2. QED
        BY <4>1, FromMonotonic
    <3>5. QED
      BY <3>2, <3>3, <3>4 DEF EnterInv
  <2>4. QED
    BY <2>2, <2>3
<1>11. QED
  BY <1>1, <1>8, <1>9, <1>10 DEF EnterInv, CandidateEntersOnce, From

(***************************************************************************)
(* What enters the pipelines was held by the host, and the host then holds *)
(* nothing: the hashes of what the device still has did not enter.         *)
(***************************************************************************)
LEMMA DispatchKeepsEntries ==
  ASSUME TypeInv, BuffersInv, EnterInv, Dispatch
  PROVE  EnterInv'
<1> DEFINE new == UNION {{CandId(p, c) : c \in ToSet(Avail(p)) \ {Junk}} :
                           p \in Pipelines}
<1>1. /\ pc = "fermat" /\ pc' = "device"
      /\ entered' = entered \union new
      /\ reentered' = (reentered \/ new \intersect entered # {})
      /\ UNCHANGED <<ridx, slots, readPos, writePos, sieve, outDev, queued>>
  BY DEF Dispatch, ring
<1>2. ASSUME NEW e \in new
      PROVE  e[2] \in FoundHashes
  <2>1. PICK p \in Pipelines : \E c \in ToSet(Avail(p)) : e = CandId(p, c)
    OBVIOUS
  <2>2. PICK c \in ToSet(Avail(p)) : e = CandId(p, c)
    BY <2>1
  <2>3. sieves \in 1 .. SW /\ ridx \in {0, 1}
    BY DEF TypeInv, TypeOK
  <2>4. Avail(p) \in Seq(From(FoundHashes))
    BY <2>3, FoundAreUnused, AvailIsSeq
  <2>5. c \in From(FoundHashes)
    BY <2>2, <2>4 DEF ToSet
  <2>6. QED
    BY <2>2, <2>5 DEF CandId, From
<1> HIDE DEF new
<1>3. FoundHashes \subseteq Unused
  BY FoundAreUnused
<1>4. Ring!Waiting' = Ring!Waiting
  BY <1>1 DEF Ring!Waiting
<1>5. WaitingHashes' = WaitingHashes
  BY <1>1, <1>4 DEF WaitingHashes
<1>6. EnteredHashes \subseteq EnteredHashes'
      /\ EnteredHashes' \subseteq EnteredHashes \union FoundHashes
  BY <1>1, <1>2 DEF EnteredHashes
<1>7. QueueInv'
  BY <1>1, <1>3, <1>4, <1>5, <1>6 DEF EnterInv, QueueInv, Unused
<1>8. CandidateEntersOnce'
  <2>1. \A e \in entered : e[2] \in EnteredHashes
    BY DEF EnteredHashes
  <2>2. new \intersect entered = {}
    BY <1>2, <1>3, <2>1 DEF Unused
  <2>3. ~reentered
    BY DEF EnterInv, CandidateEntersOnce
  <2>4. ~reentered'
    BY <1>1, <2>2, <2>3, Zenon
  <2>5. QED
    BY <2>4 DEF CandidateEntersOnce
<1>9. \A o \in Outputs : outHost'[o] = << >>
  BY <1>1, DispatchKeepsBuffers DEF BuffersInv, EmptyHalf
<1>10. FoundHashes' = {}
  BY <1>9 DEF FoundHashes
<1>11. FreshOutputs' = FreshOutputs
  BY <1>1 DEF FreshOutputs, widx
<1>12. Seq(From(Unused \ FoundHashes)) \subseteq Seq(From(Unused' \ FoundHashes'))
  <2>1. Unused \ FoundHashes \subseteq Unused' \ FoundHashes'
    BY <1>1, <1>5, <1>6, <1>10 DEF Unused
  <2>2. QED
    BY <2>1, FromMonotonic
<1>13. \A o \in FreshOutputs' : outDev'[o] \in Seq(From(Unused' \ FoundHashes'))
  BY <1>1, <1>11, <1>12 DEF EnterInv
<1>14. \A o \in Outputs : outHost'[o] \in Seq(From(Unused'))
  <2>1. << >> \in Seq(From(Unused'))
    OBVIOUS
  <2>2. QED
    BY <1>9, <2>1
<1>15. QED
  BY <1>7, <1>8, <1>13, <1>14 DEF EnterInv, From

(***************************************************************************)
(* The host fetches what the sieves of this iteration wrote.               *)
(***************************************************************************)
LEMMA FinishKeepsEntries ==
  ASSUME EnterInv, Finish, ~Cuda
  PROVE  EnterInv'
<1>1. /\ pc = "device" /\ pc' = "check"
      /\ outHost' = [o \in Outputs |-> Fetched(o)]
      /\ UNCHANGED <<slots, readPos, writePos, queued, entered, reentered>>
  BY DEF Finish, ring, history
<1>2. Ring!Waiting' = Ring!Waiting /\ FreshOutputs' = {}
  BY <1>1 DEF Ring!Waiting, FreshOutputs
<1>3. WaitingHashes' = WaitingHashes /\ EnteredHashes' = EnteredHashes
  BY <1>1, <1>2 DEF WaitingHashes, EnteredHashes
<1>4. QueueInv' /\ Unused' = Unused
  BY <1>1, <1>2, <1>3 DEF EnterInv, QueueInv, Unused
<1>5. \A o \in Outputs : outHost'[o] \in Seq(From(Unused))
  <2>1. TAKE o \in Outputs
  <2>2. CASE o[2] = widx /\ o[1] < sieve
    <3>1. o \in FreshOutputs
      BY <1>1, <2>2 DEF FreshOutputs
    <3>2. outHost'[o] = outDev[o]
      BY <1>1, <2>2 DEF Fetched
    <3>3. Seq(From(Unused \ FoundHashes)) \subseteq Seq(From(Unused))
      BY FromMonotonic
    <3>4. QED
      BY <3>1, <3>2, <3>3 DEF EnterInv
  <2>3. CASE ~(o[2] = widx /\ o[1] < sieve)
    BY <1>1, <2>3 DEF Fetched, EnterInv
  <2>4. QED
    BY <2>2, <2>3
<1>6. QED
  BY <1>1, <1>2, <1>4, <1>5 DEF EnterInv, CandidateEntersOnce, From

(***************************************************************************)
(* The other steps leave the hashes and the sieves' results alone.         *)
(***************************************************************************)
LEMMA OthersKeepEntries ==
  ASSUME EnterInv,
         \/ UNCHANGED vars
         \/ SameWork \/ RejectHash \/ StartHashmod \/ SkipHashmod
         \/ EndSieves \/ CheckCandi \/ NextIteration
  PROVE  EnterInv'
<1>1. UNCHANGED <<slots, readPos, writePos, outDev, outHost, queued, entered,
                  reentered>>
  BY DEF vars, SameWork, RejectHash, StartHashmod, SkipHashmod, EndSieves,
     CheckCandi, NextIteration, ring, results, history
<1>2. Ring!Waiting' = Ring!Waiting /\ FoundHashes' = FoundHashes
  BY <1>1 DEF Ring!Waiting, FoundHashes
<1>3. WaitingHashes' = WaitingHashes /\ EnteredHashes' = EnteredHashes
  BY <1>1, <1>2 DEF WaitingHashes, EnteredHashes
<1>4. QueueInv' /\ Unused' = Unused
  BY <1>1, <1>2, <1>3 DEF EnterInv, QueueInv, Unused
<1>5. FreshOutputs' \subseteq FreshOutputs
  <2>1. CASE StartHashmod \/ SkipHashmod
    <3>1. sieve' = 0
      BY <2>1 DEF StartHashmod, SkipHashmod
    <3>2. QED
      BY <3>1, OutputParts, RingSizes DEF FreshOutputs
  <2>2. CASE SameWork \/ RejectHash \/ CheckCandi \/ NextIteration
    BY <2>2 DEF SameWork, RejectHash, CheckCandi, NextIteration, FreshOutputs
  <2>3. CASE UNCHANGED vars \/ EndSieves
    BY <2>3 DEF vars, EndSieves, FreshOutputs, widx
  <2>4. QED
    BY <2>1, <2>2, <2>3
<1>6. QED
  BY <1>1, <1>2, <1>4, <1>5 DEF EnterInv, CandidateEntersOnce, From

LEMMA EnterInvInductive == ~Cuda => (Spec => []EnterInv)
<1> SUFFICES ASSUME ~Cuda PROVE Spec => []EnterInv
  OBVIOUS
<1>1. Init => EnterInv
  <2> SUFFICES ASSUME Init PROVE EnterInv
    OBVIOUS
  <2>1. Ring!Waiting = {} /\ FreshOutputs = {}
    BY RingSizes DEF Init, Ring!RingInit, Ring!Waiting, Ring!Slots, FreshOutputs
  <2>2. WaitingHashes = {} /\ EnteredHashes = {}
    BY <2>1 DEF Init, WaitingHashes, EnteredHashes
  <2>3. QED
    BY <2>1, <2>2 DEF Init, EnterInv, QueueInv, CandidateEntersOnce
<1>2. TypeInv /\ BuffersInv /\ HashInv /\ EnterInv /\ [Next]_vars => EnterInv'
  BY NewWorkKeepsEntries, FetchKeepsEntries, SieveKeepsEntries,
     DispatchKeepsEntries, FinishKeepsEntries, OthersKeepEntries DEF Next
<1>3. QED
  BY <1>1, <1>2, TypeInvInductive, BuffersInvInductive, HashInvInductive, PTL
  DEF Spec

(***************************************************************************)
(* OpenCL: a candidate that a sieve found enters its pipeline at most once. *)
(***************************************************************************)
THEOREM CandidatesEnterOnce == ~Cuda => (Spec => []CandidateEntersOnce)
<1>1. EnterInv => CandidateEntersOnce
  BY DEF EnterInv
<1>2. QED
  BY <1>1, EnterInvInductive, PTL

=============================================================================
