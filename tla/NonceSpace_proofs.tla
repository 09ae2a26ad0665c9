------------------------- MODULE NonceSpace_proofs -------------------------
(***************************************************************************)
(* No header is hashed twice, and a hash keeps its work and time, for any  *)
(* number of devices, works and rolls of the time, and any width of a      *)
(* nonce that satisfies NonceAssumption.                                   *)
(*                                                                         *)
(* The invariant orders what was hashed: every header hashed so far has a  *)
(* time of the stride of one device, and lies behind that device's own     *)
(* header.  A launch only adds headers that do not lie behind it.          *)
(***************************************************************************)
EXTENDS NonceSpace, TLAPS

Headers == [work : Nat, time : Nat, nonce : 0 .. Nonces - 1]

NonceTypeOK ==
    /\ step \in [Miners -> {"work", "hashes", "sieves"}]
    /\ blockheader \in [Miners -> Headers]
    /\ numHashCoeff \in [Miners -> 0 .. MaxCoeff]
    /\ scan \in [Miners -> [work : Nat, time : Nat]]

(***************************************************************************)
(* The times of device t, and the headers that it has behind it.           *)
(***************************************************************************)
Stride(t, time) == \E k \in Nat : time = t + k * mThreads

Behind(work, time, nonce, h) ==
    \/ work < h.work
    \/ work = h.work /\ time < h.time
    \/ work = h.work /\ time = h.time /\ nonce < h.nonce

HasWork == \A t \in Miners : step[t] # "work" => blockheader[t].work > 0

InStride == \A t \in Miners :
    blockheader[t].work > 0 => Stride(t, blockheader[t].time)

ScannedBehind == \A w, tm, n \in Nat : <<w, tm, n>> \in scanned =>
    \E t \in Miners : Stride(t, tm) /\ Behind(w, tm, n, blockheader[t])

ScannedTyped == scanned \subseteq Nat \X Nat \X Nat

ScanTimed == \A t \in Miners : scan[t] # NothingFound =>
    /\ scan[t].work = blockheader[t].work
    /\ scan[t].time = blockheader[t].time

NonceInv ==
    /\ NonceTypeOK /\ HasWork /\ InStride /\ ScannedTyped
    /\ ScannedBehind /\ ScanTimed
    /\ ScannedOnce /\ FoundTimeIsHashed

(***************************************************************************)
(* Two devices never share a time: k * m + i = l * m + j, with i, j < m.   *)
(***************************************************************************)
LEMMA DivisionUnique ==
  ASSUME NEW m \in Nat \ {0}, NEW i \in 0 .. m - 1, NEW j \in 0 .. m - 1,
         NEW k \in Nat, NEW l \in Nat, i + k * m = j + l * m
  PROVE  i = j
OBVIOUS

LEMMA StridesDisjoint ==
  ASSUME NEW s \in Miners, NEW t \in Miners, NEW time \in Nat,
         Stride(s, time), Stride(t, time)
  PROVE  s = t
<1>1. mThreads \in Nat \ {0}
  BY NonceAssumption
<1>2. PICK k \in Nat : time = s + k * mThreads
  BY DEF Stride
<1>3. PICK l \in Nat : time = t + l * mThreads
  BY DEF Stride
<1>4. s \in 0 .. mThreads - 1 /\ t \in 0 .. mThreads - 1
  BY DEF Miners
<1>5. s + k * mThreads = t + l * mThreads
  BY <1>2, <1>3
<1>6. QED
  BY ONLY <1>1, <1>4, <1>5, k \in Nat, l \in Nat, DivisionUnique

LEMMA StrideGoesOn ==
  ASSUME NEW t \in Miners, NEW time \in Nat, Stride(t, time)
  PROVE  /\ time + mThreads \in Nat /\ time + mThreads > time
         /\ Stride(t, time + mThreads)
<1>1. mThreads \in Nat \ {0}
  BY NonceAssumption
<1>2. PICK k \in Nat : time = t + k * mThreads
  BY DEF Stride
<1>3. k + 1 \in Nat /\ time + mThreads = t + (k + 1) * mThreads
  BY <1>1, <1>2 DEF Miners
<1>4. Stride(t, time + mThreads)
  BY <1>3 DEF Stride
<1>5. QED
  BY <1>1, <1>4

LEMMA StrideBegins ==
  ASSUME NEW t \in Miners
  PROVE  Stride(t, t)
<1>1. t = t + 0 * mThreads
  BY NonceAssumption DEF Miners
<1>2. QED
  BY <1>1 DEF Stride

(***************************************************************************)
(* The conversion to int keeps the products that occur: numhash, rounded   *)
(* up, is positive and below half of the nonces.                           *)
(***************************************************************************)
LEMMA ToIntKeeps ==
  ASSUME NEW x \in Int, - HalfNonces < x, x < HalfNonces
  PROVE  ToInt(x) = x
<1>1. HalfNonces \in Nat \ {0} /\ Nonces = 2 * HalfNonces
  BY NonceAssumption DEF Nonces
<1>2. CASE x >= 0
  <2>1. x % Nonces = x
    BY <1>1, <1>2
  <2>2. QED
    BY <1>1, <2>1 DEF ToInt
<1>3. CASE x < 0
  <2>1. x % Nonces = x + Nonces
    BY <1>1, <1>3
  <2>2. QED
    BY <1>1, <2>1, <1>3 DEF ToInt
<1>4. QED
  BY <1>2, <1>3

LEMMA NumhashKept ==
  ASSUME NonceTypeOK, NEW t \in Miners,
         NEW wanted \in (- MaxSpare) .. MaxWanted
  PROVE  /\ Numhash(t, wanted) \in Int
         /\ Numhash(t, wanted) <= MaxWanted * MaxCoeff
<1>1. /\ numHashCoeff[t] \in 0 .. MaxCoeff
      /\ MaxWanted \in Nat /\ MaxSpare \in Nat /\ MaxCoeff \in Nat
      /\ HalfNonces \in Nat \ {0} /\ mLSize \in Nat
  BY NonceAssumption DEF NonceTypeOK
<1> DEFINE c == numHashCoeff[t]
           x == wanted * c
<1>2. wanted \in Int /\ c \in Nat /\ c <= MaxCoeff /\ x \in Int
  BY <1>1
<1>3. x <= MaxWanted * MaxCoeff
  <2>1. CASE wanted >= 0
    <3>1. wanted * c <= wanted * MaxCoeff
      BY <1>1, <1>2, <2>1
    <3>2. wanted * MaxCoeff <= MaxWanted * MaxCoeff
      BY <1>1, <1>2
    <3>3. QED
      BY <1>1, <1>2, <3>1, <3>2
  <2>2. CASE wanted < 0
    <3>1. wanted * c <= 0 /\ MaxWanted * MaxCoeff >= 0
      BY <1>1, <1>2, <2>2
    <3>2. QED
      BY <1>1, <1>2, <3>1
  <2>3. QED
    BY <1>2, <2>1, <2>2
<1>4. - x <= MaxSpare * MaxCoeff
  <2>1. CASE wanted < 0
    <3>1. (- wanted) * c <= (- wanted) * MaxCoeff
      BY <1>1, <1>2, <2>1
    <3>2. (- wanted) * MaxCoeff <= MaxSpare * MaxCoeff
      BY <1>1, <1>2
    <3>3. (- wanted) * c = - x
      BY <1>2
    <3>4. QED
      BY <1>1, <1>2, <3>1, <3>2, <3>3
  <2>2. CASE wanted >= 0
    <3>1. wanted * c >= 0 /\ MaxSpare * MaxCoeff >= 0
      BY <1>1, <1>2, <2>2
    <3>2. QED
      BY <1>1, <1>2, <3>1
  <2>3. QED
    BY <1>2, <2>1, <2>2
<1>5. - HalfNonces < x /\ x < HalfNonces
  BY <1>1, <1>2, <1>3, <1>4, NonceAssumption
<1>6. Numhash(t, wanted) = x
  BY <1>2, <1>5, ToIntKeeps DEF Numhash
<1>7. QED
  BY <1>2, <1>3, <1>6

LEMMA RoundedUpFits ==
  ASSUME NonceTypeOK, NEW t \in Miners,
         NEW wanted \in (- MaxSpare) .. MaxWanted, Numhash(t, wanted) > 0
  PROVE  RoundedUp(Numhash(t, wanted)) \in 1 .. HalfNonces - 1
<1> DEFINE x == Numhash(t, wanted)
<1>1. x \in Nat /\ x > 0 /\ x <= MaxWanted * MaxCoeff
  BY NumhashKept
<1>2. /\ mLSize \in Nat \ {0} /\ HalfNonces \in Nat
      /\ MaxWanted * MaxCoeff \in Nat
      /\ MaxWanted * MaxCoeff + mLSize < HalfNonces
  BY NonceAssumption
<1>3. x % mLSize \in 0 .. mLSize - 1
  BY <1>1, <1>2
<1>4. QED
  BY <1>1, <1>2, <1>3 DEF RoundedUp

(***************************************************************************)
(* What is behind a header stays behind when the header moves on.          *)
(***************************************************************************)
MovesOn(h, g) ==
    \/ h.work < g.work
    \/ h.work = g.work /\ h.time < g.time
    \/ h.work = g.work /\ h.time = g.time /\ h.nonce <= g.nonce

LEMMA BehindStays ==
  ASSUME NEW h \in Headers, NEW g \in Headers, MovesOn(h, g),
         NEW w \in Nat, NEW tm \in Nat, NEW n \in Nat, Behind(w, tm, n, h)
  PROVE  Behind(w, tm, n, g)
<1>1. /\ h.work \in Nat /\ h.time \in Nat /\ h.nonce \in Int
      /\ g.work \in Nat /\ g.time \in Nat /\ g.nonce \in Int
  BY NonceAssumption DEF Headers, Nonces
<1>2. QED
  BY <1>1 DEF MovesOn, Behind

LEMMA ScannedStaysBehind ==
  ASSUME NonceTypeOK, NonceTypeOK', ScannedBehind, NEW t \in Miners,
         \A s \in Miners : s # t => blockheader'[s] = blockheader[s],
         MovesOn(blockheader[t], blockheader'[t]),
         NEW w \in Nat, NEW tm \in Nat, NEW n \in Nat,
         <<w, tm, n>> \in scanned
  PROVE  \E s \in Miners : Stride(s, tm) /\ Behind(w, tm, n, blockheader'[s])
<1>1. PICK s \in Miners : Stride(s, tm) /\ Behind(w, tm, n, blockheader[s])
  BY DEF ScannedBehind
<1>2. blockheader[s] \in Headers /\ blockheader'[s] \in Headers
  BY DEF NonceTypeOK
<1>3. CASE s = t
  BY <1>1, <1>2, <1>3, BehindStays
<1>4. CASE s # t
  BY <1>1, <1>4
<1>5. QED
  BY <1>3, <1>4

(***************************************************************************)
(* The header of a launch: it moved on, and its nonces do not wrap around. *)
(***************************************************************************)
LEMMA RolledHeader ==
  ASSUME NEW t \in Miners, NEW h \in Headers, Stride(t, h.time)
  PROVE  /\ Rolled(h) \in Headers /\ Rolled(h).work = h.work
         /\ Rolled(h).nonce <= HalfNonces
         /\ Stride(t, Rolled(h).time)
         /\ \/ Rolled(h) = h
            \/ Rolled(h).time > h.time
<1>1. /\ HalfNonces \in Nat \ {0} /\ Nonces = 2 * HalfNonces
      /\ mThreads \in Nat
  BY NonceAssumption DEF Nonces
<1>2. h.work \in Nat /\ h.time \in Nat /\ h.nonce \in 0 .. Nonces - 1
  BY DEF Headers
<1>3. CASE h.nonce > HalfNonces
  <2>1. Rolled(h) = [h EXCEPT !.time = @ + mThreads, !.nonce = 1]
    BY <1>3 DEF Rolled
  <2>2. /\ Rolled(h) = [work |-> h.work, time |-> h.time + mThreads, nonce |-> 1]
    BY <2>1 DEF Headers
  <2>3. /\ h.time + mThreads \in Nat /\ h.time + mThreads > h.time
        /\ Stride(t, h.time + mThreads)
    BY <1>2, StrideGoesOn
  <2>4. 1 \in 0 .. Nonces - 1 /\ 1 <= HalfNonces
    BY <1>1
  <2>5. QED
    BY <1>2, <2>2, <2>3, <2>4 DEF Headers
<1>4. CASE ~(h.nonce > HalfNonces)
  <2>1. Rolled(h) = h
    BY <1>4 DEF Rolled
  <2>2. h.nonce <= HalfNonces
    BY <1>1, <1>2, <1>4
  <2>3. QED
    BY <2>1, <2>2
<1>5. QED
  BY <1>3, <1>4

LEMMA AdvancedHeader ==
  ASSUME NEW h \in Headers, h.nonce <= HalfNonces,
         NEW n \in 1 .. HalfNonces - 1
  PROVE  /\ Advanced(h, n) = [work |-> h.work, time |-> h.time,
                              nonce |-> h.nonce + n]
         /\ Advanced(h, n) \in Headers
         /\ \A i \in 0 .. n - 1 : (h.nonce + i) % Nonces = h.nonce + i
<1>1. HalfNonces \in Nat \ {0} /\ Nonces = 2 * HalfNonces
  BY NonceAssumption DEF Nonces
<1>2. h.work \in Nat /\ h.time \in Nat /\ h.nonce \in 0 .. Nonces - 1
  BY DEF Headers
<1>3. \A i \in 0 .. n : /\ h.nonce + i \in 0 .. Nonces - 1
                        /\ (h.nonce + i) % Nonces = h.nonce + i
  <2>1. TAKE i \in 0 .. n
  <2>2. h.nonce + i \in 0 .. Nonces - 1
    BY <1>1, <1>2
  <2>3. QED
    BY <1>1, <2>2
<1>4. n \in 0 .. n /\ \A i \in 0 .. n - 1 : i \in 0 .. n
  BY <1>1
<1>5. Advanced(h, n) = [work |-> h.work, time |-> h.time,
                        nonce |-> h.nonce + n]
  BY <1>3, <1>4 DEF Advanced, Headers
<1>6. QED
  BY <1>2, <1>3, <1>4, <1>5 DEF Headers

(***************************************************************************)
(* A launch hashes only headers that nobody hashed before, and afterwards  *)
(* they are behind the device's header.                                    *)
(***************************************************************************)
LEMMA LaunchKeepsInv ==
  ASSUME NonceInv, NEW t \in Miners,
         NEW wanted \in (- MaxSpare) .. MaxWanted, LaunchHashmod(t, wanted)
  PROVE  NonceInv'
<1> DEFINE n == RoundedUp(Numhash(t, wanted))
           b == blockheader[t]
           h == Rolled(b)
           ids == {<<h.work, h.time, (h.nonce + i) % Nonces>> : i \in 0 .. n - 1}
<1>1. /\ NonceTypeOK /\ HasWork /\ InStride /\ ScannedTyped
      /\ ScannedBehind /\ ScanTimed /\ ScannedOnce /\ FoundTimeIsHashed
  BY DEF NonceInv
<1>2. /\ step[t] = "hashes" /\ step' = [step EXCEPT ![t] = "sieves"]
      /\ FetchFound(t)
      /\ Numhash(t, wanted) > 0
      /\ scanned' = scanned \union ids
      /\ rescanned' = (rescanned \/ ids \intersect scanned # {})
      /\ scan' = [scan EXCEPT ![t] = [work |-> h.work, time |-> h.time]]
      /\ blockheader' = [blockheader EXCEPT ![t] = Advanced(h, n)]
      /\ numHashCoeff' = numHashCoeff
  BY DEF LaunchHashmod, At
<1>3. b \in Headers /\ b.work > 0 /\ b.work \in Nat /\ b.time \in Nat
  BY <1>1, <1>2 DEF NonceTypeOK, HasWork, Headers
<1>4. Stride(t, b.time)
  BY <1>1, <1>3 DEF InStride
<1>5. n \in 1 .. HalfNonces - 1
  BY <1>1, <1>2, RoundedUpFits
<1>6. /\ h \in Headers /\ h.work = b.work /\ h.nonce <= HalfNonces
      /\ Stride(t, h.time)
      /\ h = b \/ h.time > b.time
  BY <1>3, <1>4, RolledHeader
<1> DEFINE g == Advanced(h, n)
<1>7. /\ g = [work |-> h.work, time |-> h.time, nonce |-> h.nonce + n]
      /\ g \in Headers
      /\ \A i \in 0 .. n - 1 : (h.nonce + i) % Nonces = h.nonce + i
  BY <1>5, <1>6, AdvancedHeader
<1>8. /\ h.work \in Nat /\ h.time \in Nat /\ h.nonce \in Nat
      /\ HalfNonces \in Nat /\ n \in Nat
  BY <1>5, <1>6, NonceAssumption DEF Headers, Nonces
<1> HIDE DEF g, h, n
<1>9. \A id \in ids : \E i \in 0 .. n - 1 :
         id = <<h.work, h.time, h.nonce + i>> /\ h.nonce + i \in Nat
  <2>1. TAKE id \in ids
  <2>2. PICK i \in 0 .. n - 1 : id = <<h.work, h.time, (h.nonce + i) % Nonces>>
    OBVIOUS
  <2>3. id = <<h.work, h.time, h.nonce + i>> /\ h.nonce + i \in Nat
    BY <1>7, <1>8, <2>2
  <2>4. QED
    BY <2>3
<1> HIDE DEF ids
<1>10. MovesOn(b, g)
  BY <1>3, <1>5, <1>6, <1>7, <1>8 DEF MovesOn, Headers
<1>11. NonceTypeOK'
  <2>1. blockheader' \in [Miners -> Headers]
    BY <1>1, <1>2, <1>7 DEF NonceTypeOK, g, h, n
  <2>2. scan' \in [Miners -> [work : Nat, time : Nat]]
    BY <1>1, <1>2, <1>8 DEF NonceTypeOK
  <2>3. step' \in [Miners -> {"work", "hashes", "sieves"}]
    BY <1>1, <1>2 DEF NonceTypeOK
  <2>4. QED
    BY <1>1, <1>2, <2>1, <2>2, <2>3 DEF NonceTypeOK
<1>12. /\ blockheader'[t] = g /\ step'[t] = "sieves"
       /\ \A s \in Miners : s # t => /\ blockheader'[s] = blockheader[s]
                                     /\ step'[s] = step[s]
                                     /\ scan'[s] = scan[s]
       /\ scan'[t] = [work |-> h.work, time |-> h.time]
  BY <1>1, <1>2 DEF NonceTypeOK, g, h, n
<1>13. HasWork' /\ InStride'
  <2>1. g.work > 0 /\ Stride(t, g.time)
    BY <1>3, <1>6, <1>7
  <2>2. QED
    BY <1>1, <1>12, <2>1 DEF HasWork, InStride
<1>14. ScannedTyped'
  BY <1>1, <1>2, <1>8, <1>9 DEF ScannedTyped
<1>15. ScannedBehind'
  <2> SUFFICES ASSUME NEW w \in Nat, NEW tm \in Nat, NEW x \in Nat,
                      <<w, tm, x>> \in scanned'
               PROVE  \E s \in Miners : /\ Stride(s, tm)
                                        /\ Behind(w, tm, x, blockheader'[s])
    BY DEF ScannedBehind
  <2>1. CASE <<w, tm, x>> \in scanned
    BY <1>1, <1>10, <1>11, <1>12, <2>1, ScannedStaysBehind
  <2>2. CASE <<w, tm, x>> \in ids
    <3>1. PICK i \in 0 .. n - 1 : <<w, tm, x>> = <<h.work, h.time, h.nonce + i>>
      BY <1>9, <2>2
    <3>2. w = g.work /\ tm = g.time /\ x < g.nonce
      BY <1>7, <1>8, <3>1
    <3>3. Stride(t, tm) /\ Behind(w, tm, x, g)
      BY <1>6, <1>7, <3>1, <3>2 DEF Behind
    <3>4. QED
      BY <1>12, <3>3
  <2>3. QED
    BY <1>2, <2>1, <2>2
<1>16. ScanTimed'
  <2>1. scan'[t].work = g.work /\ scan'[t].time = g.time
    BY <1>7, <1>12
  <2>2. QED
    BY <1>1, <1>12, <2>1 DEF ScanTimed
<1>17. ScannedOnce'
  <2> SUFFICES ASSUME NEW id \in ids, id \in scanned
               PROVE  FALSE
    BY <1>1, <1>2 DEF ScannedOnce
  <2>1. PICK i \in 0 .. n - 1 :
          id = <<h.work, h.time, h.nonce + i>> /\ h.nonce + i \in Nat
    BY <1>9
  <2>2. PICK s \in Miners :
          /\ Stride(s, h.time)
          /\ Behind(h.work, h.time, h.nonce + i, blockheader[s])
    BY <1>1, <1>8, <2>1 DEF ScannedBehind
  <2>3. s = t
    BY <1>6, <1>8, <2>2, StridesDisjoint
  <2>4. Behind(h.work, h.time, h.nonce + i, b)
    BY <2>2, <2>3
  <2>5. ~Behind(h.work, h.time, h.nonce + i, b)
    BY <1>3, <1>6, <1>8 DEF Behind
  <2>6. QED
    BY <2>4, <2>5
<1>18. FoundTimeIsHashed'
  BY <1>1, <1>2 DEF FetchFound, ScanTimed, FoundTimeIsHashed
<1>19. QED
  BY <1>11, <1>13, <1>14, <1>15, <1>16, <1>17, <1>18 DEF NonceInv

(***************************************************************************)
(* New work starts the header over, beyond everything that the device      *)
(* hashed for the old work, and forgets the last launch.                   *)
(***************************************************************************)
LEMMA NewHeaderKeepsInv ==
  ASSUME NonceInv, NEW t \in Miners, NewHeader(t)
  PROVE  NonceInv'
<1> DEFINE g == [work |-> blockheader[t].work + 1, time |-> t, nonce |-> 1]
<1>1. /\ NonceTypeOK /\ HasWork /\ InStride /\ ScannedTyped
      /\ ScannedBehind /\ ScanTimed /\ ScannedOnce /\ FoundTimeIsHashed
  BY DEF NonceInv
<1>2. blockheader[t] \in Headers /\ blockheader[t].work \in Nat /\ t \in Nat
  BY <1>1, NonceAssumption DEF NonceTypeOK, Headers, Miners
<1>3. /\ step' = [step EXCEPT ![t] = "hashes"]
      /\ blockheader' = [blockheader EXCEPT ![t] = g]
      /\ scan' = [scan EXCEPT ![t] = NothingFound]
      /\ UNCHANGED <<numHashCoeff, scanned, rescanned, mistimed>>
  BY <1>1, <1>2 DEF NewHeader, At, nonceHistory, NonceTypeOK, Headers
<1>4. g \in Headers /\ g.work > 0 /\ Stride(t, g.time)
      /\ MovesOn(blockheader[t], g)
  <2>1. 1 \in 0 .. Nonces - 1
    BY NonceAssumption DEF Nonces
  <2>2. QED
    BY <1>2, <2>1, StrideBegins DEF Headers, MovesOn
<1> HIDE DEF g
<1>5. NonceTypeOK'
  BY <1>1, <1>3, <1>4 DEF NonceTypeOK, NothingFound
<1>6. /\ blockheader'[t] = g /\ scan'[t] = NothingFound
      /\ \A s \in Miners : s # t => /\ blockheader'[s] = blockheader[s]
                                    /\ step'[s] = step[s]
                                    /\ scan'[s] = scan[s]
  BY <1>1, <1>3 DEF NonceTypeOK
<1>7. HasWork' /\ InStride'
  BY <1>1, <1>4, <1>6 DEF HasWork, InStride
<1>8. ScannedBehind'
  BY <1>1, <1>3, <1>4, <1>5, <1>6, ScannedStaysBehind DEF ScannedBehind
<1>9. ScanTimed'
  BY <1>1, <1>6 DEF ScanTimed
<1>10. ScannedTyped' /\ ScannedOnce' /\ FoundTimeIsHashed'
  BY <1>1, <1>3 DEF ScannedTyped, ScannedOnce, FoundTimeIsHashed
<1>11. QED
  BY <1>5, <1>7, <1>8, <1>9, <1>10 DEF NonceInv

(***************************************************************************)
(* The other steps leave headers, launches and what was hashed alone.      *)
(***************************************************************************)
LEMMA OtherStepsKeepInv ==
  ASSUME NonceInv, NEW t \in Miners,
         NEW wanted \in (- MaxSpare) .. MaxWanted,
         \/ SameHeader(t) \/ NoLaunch(t, wanted)
         \/ RanOut(t) \/ EnoughHashes(t)
  PROVE  NonceInv'
<1>1. /\ NonceTypeOK /\ HasWork /\ InStride /\ ScannedTyped
      /\ ScannedBehind /\ ScanTimed /\ ScannedOnce /\ FoundTimeIsHashed
  BY DEF NonceInv
<1>2. UNCHANGED <<blockheader, scan, scanned, rescanned>>
  BY DEF SameHeader, NoLaunch, RanOut, EnoughHashes, nonceHistory
<1>3. NonceTypeOK' /\ HasWork'
  <2>1. CASE SameHeader(t)
    BY <1>1, <2>1 DEF SameHeader, At, NonceTypeOK, HasWork
  <2>2. CASE NoLaunch(t, wanted)
    BY <1>1, <2>2 DEF NoLaunch, At, NonceTypeOK, HasWork
  <2>3. CASE RanOut(t)
    <3>1. /\ numHashCoeff[t] \in 0 .. MaxCoeff
          /\ CoeffStep \in Nat /\ MaxCoeff \in Nat
      BY <1>1, NonceAssumption DEF NonceTypeOK
    <3>2. numHashCoeff[t] + CoeffStep \in 0 .. MaxCoeff
      BY <2>3, <3>1 DEF RanOut
    <3>3. QED
      BY <1>1, <2>3, <3>2 DEF RanOut, At, NonceTypeOK, HasWork
  <2>4. CASE EnoughHashes(t)
    BY <1>1, <2>4 DEF EnoughHashes, At, NonceTypeOK, HasWork
  <2>5. QED
    BY <2>1, <2>2, <2>3, <2>4
<1>4. InStride' /\ ScannedTyped' /\ ScannedBehind' /\ ScanTimed'
      /\ ScannedOnce'
  BY <1>1, <1>2 DEF InStride, ScannedTyped, ScannedBehind, ScanTimed,
       ScannedOnce
<1>5. FoundTimeIsHashed'
  BY <1>1 DEF SameHeader, NoLaunch, RanOut, EnoughHashes, nonceHistory,
       FetchFound, ScanTimed, FoundTimeIsHashed
<1>6. QED
  BY <1>3, <1>4, <1>5 DEF NonceInv

LEMMA NonceInvInductive == NonceSpec => []NonceInv
<1>1. NonceInit => NonceInv
  <2> SUFFICES ASSUME NonceInit PROVE NonceInv
    OBVIOUS
  <2>1. /\ CoeffStep \in 0 .. MaxCoeff /\ 0 \in 0 .. Nonces - 1
    BY NonceAssumption DEF Nonces
  <2>2. NonceTypeOK
    BY <2>1 DEF NonceInit, NonceTypeOK, Headers, NothingFound
  <2>3. QED
    BY <2>2 DEF NonceInit, NonceInv, HasWork, InStride, ScannedTyped,
         ScannedBehind, ScanTimed, ScannedOnce, FoundTimeIsHashed
<1>2. NonceInv /\ [NonceNext]_nonceVars => NonceInv'
  <2> SUFFICES ASSUME NonceInv, [NonceNext]_nonceVars PROVE NonceInv'
    OBVIOUS
  <2>1. CASE UNCHANGED nonceVars
    BY <2>1 DEF nonceVars, nonceHistory, NonceInv, NonceTypeOK, HasWork,
         InStride, ScannedTyped, ScannedBehind, ScanTimed, ScannedOnce,
         FoundTimeIsHashed
  <2>2. CASE NonceNext
    <3>1. 0 \in (- MaxSpare) .. MaxWanted
      BY NonceAssumption
    <3>2. QED
      BY <2>2, <3>1, LaunchKeepsInv, NewHeaderKeepsInv, OtherStepsKeepInv
         DEF NonceNext
  <2>3. QED
    BY <2>1, <2>2
<1>3. QED
  BY <1>1, <1>2, PTL DEF NonceSpec

(***************************************************************************)
(* No header is hashed twice, by one device or by two.                     *)
(***************************************************************************)
THEOREM HeadersScannedOnce == NonceSpec => []ScannedOnce
<1>1. NonceInv => ScannedOnce
  BY DEF NonceInv
<1>2. QED
  BY <1>1, NonceInvInductive, PTL

(***************************************************************************)
(* What hashmod found keeps the work and the time that it was found with.  *)
(***************************************************************************)
THEOREM FoundTimesHashed == NonceSpec => []FoundTimeIsHashed
<1>1. NonceInv => FoundTimeIsHashed
  BY DEF NonceInv
<1>2. QED
  BY <1>1, NonceInvInductive, PTL

=============================================================================
