-------------------------------- MODULE Sieve --------------------------------
(***************************************************************************)
(* One sieve on the GPU: setup_sieve, the kernel sieve for both kinds of   *)
(* chains, s_sieve, and setup_fermat for what s_sieve found (sieve.cu and  *)
(* fermat.cu), with the constants XPMClient::Initialize computes for them. *)
(*                                                                         *)
(* Position x of a stripe stands for the multiplier SIZE*BITS*(stripe +    *)
(* STRIPES/2) + x.  In line l of the first sieve it is marked if a prime   *)
(* divides shash * multiplier * 2^l - 1, in the second one if it divides   *)
(* shash * multiplier * 2^l + 1.                                           *)
(*                                                                         *)
(* The groups of threads (one per line and stripe) and the threads of a    *)
(* group only ever set bits of their own sieve between two barriers, so    *)
(* they advance together here, a round of primes at a time.                *)
(***************************************************************************)
EXTENDS Integers, FiniteSets, Sequences

LOCAL INSTANCE FiniteSetsExt
LOCAL INSTANCE Functions

CONSTANTS
    N,            \* words of a hash (12); setup_fermat's numbers have N - 1
    HashBits,     \* bits of a word of a number (32)
    BITS,         \* bits of a word of the sieve (32)
    SIZE,         \* words of a stripe
    STRIPES,      \* twice the number of stripes
    WIDTH,        \* lines
    TARGET,       \* length of the chains that are sieved for
    Depth,        \* mDepth: length of the chains that are tested
    LSIZE,        \* threads of a group
    nps_all,      \* logarithms of the primes in each of the first rounds
    NLIFO,        \* batches of primes that a thread has fetched ahead (4)
    Batches,      \* SCOUNT/LSIZE: batches of primes
    mPrimorial,   \* primes whose product divides every hash, minus one (13)
    Hashes,       \* bound: hashes times their multipliers (shash)
    Roundoffs     \* what the float quotient is off by

MP == INSTANCE MultiPrecision
    WITH WordBits <- HashBits, TableBits <- HashBits \div 4,
         Size320 <- N - 2, Size352 <- N - 1

S1RUNS == Len(nps_all)
PCOUNT == LSIZE * Batches
WINDOW == SIZE * BITS

\* The first rounds use up exactly one batch.
ASSUME SieveAssumption ==
    /\ {N - 3, HashBits, BITS, SIZE, WIDTH, TARGET, Depth, LSIZE, NLIFO, Batches}
         \subseteq Nat \ {0}
    /\ STRIPES % 2 = 0 /\ mPrimorial \in Nat
    /\ nps_all \in Seq(Nat)
    /\ MapThenSumSet(LAMBDA b : 2 ^ nps_all[b], 1 .. S1RUNS) = LSIZE
    /\ \A b \in 1 .. S1RUNS : LSIZE % 2 ^ nps_all[b] = 0
    /\ Depth <= TARGET /\ TARGET <= WIDTH

\* With the limits that Initialize sets for the multipliers every number that is
\* tested has room: 256 + 36 bits, 26 for the index and 20 lines in 352.
ASSUME HashesAssumption ==
    \A h \in Hashes : h \in Nat /\ h * WINDOW * STRIPES * 2 ^ WIDTH < MP!B ^ (N - 1)

\* What is left when the float quotient is corrected twice in either direction.
ASSUME RoundoffAssumption == Roundoffs \subseteq {-1, 0, 1, 2}

VARIABLES
    shash,        \* the hash times its multiplier
    primorialIdx, \* which table of primes fits it
    roundoff,     \* what the quotients are off by
    phase,        \* "setup", "first", "load", "batch", "search" or "done"
    offset,       \* offset1 and offset2: per sieve, line and prime
    b, poff,      \* the next of the first rounds, and its first prime
    lifo,         \* the batches fetched ahead (plifo, fiplifo, olifo)
    ahead,        \* the batch that pprimes points at
    ip, lpos,     \* the batch to sieve with, and the place it should be in
    sieve,        \* marked positions, per sieve, line and stripe
    found         \* candidates: fermat_t and the pipeline they are for

sieveVars == <<shash, primorialIdx, roundoff, phase, offset, b, poff, lifo, ahead,
               ip, lpos, sieve, found>>

-----------------------------------------------------------------------------
Kinds == {1, 2}
Lines == 0 .. WIDTH - 1
StripeIds == 0 .. (STRIPES \div 2) - 1

\* gPrimes, as far as it is needed.
Prime(x) == x > 1 /\ \A d \in 2 .. x - 1 : x % d # 0 \/ d * d > x
PrimeTable ==
    LET next[i \in 0 .. PCOUNT + mPrimorial + 1] ==
          IF i = 0 THEN 2
          ELSE LET last == next[i - 1]
               IN  CHOOSE x \in last + 1 .. 2 * last :
                     Prime(x) /\ \A y \in last + 1 .. x - 1 : ~Prime(y)
    IN  next
gPrimes == [i \in 0 .. PCOUNT + mPrimorial + 1 |-> PrimeTable[i]]

\* primeBuf2[primorialIdx].
Primes(i) == gPrimes[mPrimorial + primorialIdx + 1 + i]

\* dumpSieveConstants: the first batch whose primes fit at most so many times
\* into a stripe.  It counts from the last prime of the primorial, one prime
\* before the first that is sieved with.
FirstBatch(times) ==
    Min({Batches} \union
        {i \in 0 .. Batches - 1 : WINDOW \div gPrimes[mPrimorial + i * LSIZE] <= times})
SIEVERANGE1 == FirstBatch(2)
SIEVERANGE2 == FirstBatch(1)
SIEVERANGE3 == FirstBatch(0)

-----------------------------------------------------------------------------
\* int_invert: Euclid's algorithm, three of its steps to a turn of the loop.
int_invert(a, nPrime) ==
    LET euclid[s \in Int \X Int \X Int \X Int] ==
          IF s[2] <= 1 THEN s[4]
          ELSE euclid[<<s[2], s[1] % s[2], s[4], s[3] - (s[1] \div s[2]) * s[4]>>]
    IN  (euclid[<<nPrime, a % nPrime, 0, 1>>] + nPrime) % nPrime

\* mod32: the words of the hash against the powers of the word size, which the
\* host left in modulosBuf reduced by the prime.
mod32(data, prime) ==
    MapThenSumSet(LAMBDA i : data[i] * (MP!B ^ i % prime), 0 .. N - 2) % prime

\* The inverse for the next line: half of it modulo the prime.
Halved(inv, prime) == IF inv % 2 = 1 THEN (inv + prime) \div 2 ELSE inv \div 2

\* A prime that divides the hash itself divides no number of a chain; it gets
\* offset zero and marks the multiples of itself all the same.
Offsets(prime) ==
    LET rest == mod32(MP!WordsOf(shash, N - 1), prime)
        inverse[l \in Lines] ==
          IF l = 0 THEN int_invert(rest, prime) ELSE Halved(inverse[l - 1], prime)
    IN  IF rest = 0 THEN [k \in Kinds |-> [l \in Lines |-> 0]]
        ELSE [k \in Kinds |->
                [l \in Lines |-> IF k = 1 THEN inverse[l] ELSE prime - inverse[l]]]

\* Numbers a hash can be: multiples of the primorial of its table.
Primorial(i) == FoldFunctionOnSet(LAMBDA x, y : x * y, 1, gPrimes, 0 .. mPrimorial + i)

SieveInit ==
    /\ primorialIdx \in {0, 1}
    /\ shash \in {h \in Hashes : h % Primorial(primorialIdx) = 0}
    /\ roundoff \in Roundoffs
    /\ phase = "setup"
    /\ offset = <<>>
    /\ b = 1 /\ poff = 0
    /\ lifo = [i \in 0 .. NLIFO - 1 |-> 0] /\ ahead = 0
    /\ ip = 1 /\ lpos = 0
    /\ sieve = [k \in Kinds |-> [l \in Lines |-> [s \in StripeIds |-> {}]]]
    /\ found = {}

setup_sieve ==
    /\ phase = "setup"
    /\ LET of == [i \in 0 .. PCOUNT - 1 |-> Offsets(Primes(i))]
       IN  offset' = [k \in Kinds |-> [l \in Lines |-> [i \in 0 .. PCOUNT - 1 |-> of[i][k][l]]]]
    /\ phase' = "first"
    /\ UNCHANGED <<shash, primorialIdx, roundoff, b, poff, lifo, ahead, ip, lpos,
                   sieve, found>>

-----------------------------------------------------------------------------
\* The stripe's first multiplier.
Entry(s) == WINDOW * (s + STRIPES \div 2)

\* The first multiple in the stripe, from a quotient made with floats.
Position(from, prime, s) ==
    LET quotient == (Entry(s) \div prime) + roundoff
        raw == from + quotient * prime - Entry(s)
        Up(x) == IF x < 0 THEN x + prime ELSE x
        Down(x) == IF x >= prime THEN x - prime ELSE x
    IN  Down(Down(Up(Up(raw))))

Inside(S) == {x \in S : x < WINDOW}

\* Four positions a time, a step apart, for as long as the last of them is
\* inside, and three of them once more.  Whole turns move by words if they are
\* whole words, else by bits.
ByFours(x, step) ==
    LET Turn(v, r) == IF (4 * step) % BITS = 0
                      THEN (v \div BITS + r * ((4 * step) \div BITS)) * BITS + (v % BITS)
                      ELSE v + r * 4 * step
        turns == CHOOSE r \in 0 .. WINDOW :
                   /\ Turn(x + 3 * step, r) >= WINDOW
                   /\ r > 0 => Turn(x + 3 * step, r - 1) < WINDOW
    IN  {Turn(x + j * step, r) : j \in 0 .. 3, r \in 0 .. turns - 1}
          \union Inside({Turn(x + j * step, turns) : j \in 0 .. 2})

\* A first round: every prime has LSIZE >> nps threads, which share its multiples.
First(from, i, var, s) ==
    UNION {ByFours(Position(from, Primes(i), s) + t * Primes(i), var * Primes(i)) :
             t \in 0 .. var - 1}

FirstRound ==
    /\ phase = "first"
    /\ b <= S1RUNS
    /\ LET nps == nps_all[b]
           var == LSIZE \div 2 ^ nps
       IN  /\ sieve' = [k \in Kinds |-> [l \in Lines |-> [s \in StripeIds |->
                 sieve[k][l][s] \union
                   UNION {First(offset[k][l][i], i, var, s) :
                            i \in poff .. poff + 2 ^ nps - 1}]]]
           /\ poff' = poff + 2 ^ nps
    /\ b' = b + 1
    /\ UNCHANGED <<shash, primorialIdx, roundoff, phase, offset, lifo, ahead, ip,
                   lpos, found>>

\* The next batches are fetched ahead.
Prefetch ==
    /\ phase = "first"
    /\ b > S1RUNS
    /\ lifo' = [i \in 0 .. NLIFO - 1 |-> i + 1]
    /\ ahead' = NLIFO
    /\ phase' = "batch"
    /\ UNCHANGED <<shash, primorialIdx, roundoff, offset, b, poff, ip, lpos, sieve,
                   found>>

\* Two positions a time, and one of them once more.
ByTwos(x, prime) ==
    LET turns == CHOOSE r \in 0 .. WINDOW :
                   /\ x + prime + r * 2 * prime >= WINDOW
                   /\ r > 0 => x + prime + (r - 1) * 2 * prime < WINDOW
    IN  {x + j * prime + r * 2 * prime : j \in 0 .. 1, r \in 0 .. turns - 1}
          \union Inside({x + turns * 2 * prime})

\* At most so many positions.
UpTo(times, x, prime) == Inside({x + j * prime : j \in 0 .. times - 1})

\* How a thread marks the multiples of the prime it has in batch ip.
Hits(x, prime) ==
    CASE ip < SIEVERANGE1 -> ByTwos(x, prime)
      [] ip >= SIEVERANGE1 /\ ip < SIEVERANGE2 -> UpTo(3, x, prime)
      [] ip >= SIEVERANGE2 /\ ip < SIEVERANGE3 -> UpTo(2, x, prime)
      [] OTHER -> UpTo(1, x, prime)

\* The place in the ring is filled before pprimes moves on.
RefilledEarly ==
    IF ip + NLIFO < Batches THEN [lifo EXCEPT ![lpos] = ahead] ELSE lifo

\* The place in the ring is filled again while there are batches.
Refilled ==
    IF ip + NLIFO < Batches THEN [lifo EXCEPT ![lpos] = ahead + 1] ELSE lifo

\* One prime for every thread.
SieveBatch ==
    /\ phase = "batch"
    /\ ip < Batches
    /\ sieve' = [k \in Kinds |-> [l \in Lines |-> [s \in StripeIds |->
                   sieve[k][l][s] \union
                     UNION {LET i == LSIZE * lifo[lpos] + id
                            IN  Hits(Position(offset[k][l][i], Primes(i), s), Primes(i)) :
                              id \in 0 .. LSIZE - 1}]]]
    /\ lifo' = Refilled
    /\ ahead' = IF ip + NLIFO < Batches THEN ahead + 1 ELSE ahead
    /\ ip' = ip + 1
    /\ lpos' = (lpos + 1) % NLIFO
    /\ UNCHANGED <<shash, primorialIdx, roundoff, phase, offset, b, poff, found>>

EndSieve ==
    /\ phase = "batch"
    /\ ip >= Batches
    /\ phase' = "search"
    /\ UNCHANGED <<shash, primorialIdx, roundoff, offset, b, poff, lifo, ahead, ip,
                   lpos, sieve, found>>

-----------------------------------------------------------------------------
\* A search for bi-twin chains that forgets the last number of an odd length.
NeededEven(type, start) ==
    (IF type = 2 THEN {1, 2} ELSE {type + 1})
      \X {start + j : j \in 0 .. (IF type = 2 THEN TARGET \div 2 ELSE TARGET) - 1}

\* s_sieve looks at every word of the stripes: lines that the candidates of the
\* three types must be clear in, from their first line on.
Needed(type, start) ==
    CASE type = 0 -> {<<1, start + j>> : j \in 0 .. TARGET - 1}
      [] type = 1 -> {<<2, start + j>> : j \in 0 .. TARGET - 1}
      [] type = 2 -> ({1, 2} \X {start + j : j \in 0 .. (TARGET \div 2) - 1})
                       \union (IF TARGET % 2 = 1 THEN {<<1, start + (TARGET \div 2)>>} ELSE {})

Layers(type) == IF type = 2 THEN (TARGET \div 2) + (TARGET % 2) ELSE TARGET

\* The clear bits of word w of stripe s.
Unmarked(type, start, s, w) ==
    {bit \in 0 .. BITS - 1 :
        \A n \in Needed(type, start) : w * BITS + bit \notin sieve[n[1]][n[2]][s]}

Bits(x) == CHOOSE n \in 0 .. 30 : x < 2 ^ n /\ (n > 0 => x >= 2 ^ (n - 1))

\* The pipeline of a candidate, its first line forgotten.
PipelineOfFirstLine(index, start, type) ==
    IF Bits(shash) + Bits(index) + (IF type = 2 THEN 1 ELSE Depth) <= HashBits * (N - 2)
    THEN 0 ELSE 1

\* The pipeline of a candidate, from the size of the largest number tested.
Pipeline(index, start, type) ==
    LET doublings == IF type = 2 THEN (Depth \div 2) + (Depth % 2) ELSE Depth
        maxSize == Bits(shash) + Bits(index) + start + doublings
    IN  IF maxSize <= HashBits * (N - 2) THEN 0 ELSE 1

\* The highest clear bit of a word makes a candidate.
s_sieve ==
    /\ phase = "search"
    /\ found' =
         {LET bit == Max(Unmarked(c.type, c.start, c.s, c.w))
              index == bit + (c.s * SIZE + c.w) * BITS + SIZE * BITS * (STRIPES \div 2)
          IN  [index |-> index, origin |-> c.start, type |-> c.type,
               pipeline |-> Pipeline(index, c.start, c.type)] :
            c \in {c \in [type : 0 .. 2, start : Lines, s : StripeIds, w : 0 .. SIZE - 1] :
                     /\ c.start <= WIDTH - Layers(c.type)
                     /\ Unmarked(c.type, c.start, c.s, c.w) # {}}}
    /\ phase' = "done"
    /\ UNCHANGED <<shash, primorialIdx, roundoff, offset, b, poff, lifo, ahead, ip,
                   lpos, sieve>>

SieveNext == setup_sieve \/ FirstRound \/ Prefetch \/ SieveBatch \/ EndSieve \/ s_sieve

-----------------------------------------------------------------------------
\* The number that a candidate's Fermat test number chainpos is about: the line,
\* and which neighbour of the multiple of shash.
LineOf(c, chainpos) == c.origin + (IF c.type < 2 THEN chainpos ELSE chainpos \div 2)
AboveOf(c, chainpos) == c.type = 1 \/ (c.type = 2 /\ chainpos % 2 = 1)

\* shl that forgets the bits of the word below.
ShlWords(data, size, bits) == [i \in 0 .. size - 1 |-> (data[i] * 2 ^ bits) % MP!B]

\* shl: up by less than a word.
shl(data, size, bits) ==
    [i \in 0 .. size - 1 |->
        ((data[i] * 2 ^ bits) % MP!B)
          + (IF i = 0 THEN 0 ELSE data[i - 1] \div 2 ^ (HashBits - bits))]

\* setup_fermat: the last step changes the lowest word only.
Shifted(c, chainpos) ==
    LET m == MP!mulProductScan352to32(MP!WordsOf(shash, N - 1), c.index)
        line == LineOf(c, chainpos)
    IN  IF line = 0 THEN m ELSE shl(m, N - 1, line)
setup_fermat(c, chainpos) ==
    [Shifted(c, chainpos) EXCEPT
        ![0] = (@ + (IF AboveOf(c, chainpos) THEN 1 ELSE -1)) % MP!B]

-----------------------------------------------------------------------------
\* Reference: member chainpos of the chain that a candidate stands for.
Member(c, chainpos) ==
    shash * c.index * 2 ^ LineOf(c, chainpos) + (IF AboveOf(c, chainpos) THEN 1 ELSE -1)

\* A position is marked exactly if one of the primes divides the number it
\* stands for (or the hash and the multiplier): the shared first rounds, the
\* batches fetched ahead, the number of hits taken from the range of a batch and
\* the corrected quotients together miss no multiple and mark nothing else.
MarksAreMultiples ==
    phase \in {"search", "done"} =>
        \A k \in Kinds, l \in Lines, s \in StripeIds, x \in 0 .. WINDOW - 1 :
            LET number == shash * (Entry(s) + x) * 2 ^ l + (IF k = 1 THEN -1 ELSE 1)
            IN  x \in sieve[k][l][s] <=>
                  \E i \in 0 .. PCOUNT - 1 :
                      \/ number % Primes(i) = 0
                      \/ shash % Primes(i) = 0 /\ (Entry(s) + x) % Primes(i) = 0

\* No prime of the table divides any number of the chain that a candidate is
\* tested for, whatever its type: the lines that s_sieve looks at are those of
\* the numbers that setup_fermat builds.
CandidatesSurvive ==
    \A c \in found, chainpos \in 0 .. TARGET - 1, i \in 0 .. PCOUNT - 1 :
        Member(c, chainpos) % Primes(i) # 0

\* setup_fermat builds that number, unless the -1 has to borrow: the code takes
\* it off the lowest word only.
NumberIsMember ==
    \A c \in found, chainpos \in 0 .. Depth - 1 :
        \/ MP!ValueOf(setup_fermat(c, chainpos), N - 1) = Member(c, chainpos)
        \/ Shifted(c, chainpos)[0] = 0 /\ ~AboveOf(c, chainpos)

\* A candidate of the first pipeline has all its numbers in N - 2 words, which
\* is all that fermat_kernel320 reads of them.
FitsPipeline ==
    \A c \in found, chainpos \in 0 .. Depth - 1 :
        c.pipeline = 0 => setup_fermat(c, chainpos)[N - 2] = 0

=============================================================================
