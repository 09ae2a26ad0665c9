----------------------------- MODULE HashSearch -----------------------------
(***************************************************************************)
(* What hashmod looks for in a hash, and what the host makes of it         *)
(* (bhashmodUsePrecalc in xpm/cuda/sha256.cu, and the fetch in             *)
(* PrimeMiner::Mining).                                                    *)
(*                                                                         *)
(* The candidates of a hash are multiples of hash * multiplier, which must *)
(* be divisible by a whole primorial.  The device finds the small primes   *)
(* that divide the hash, by sums of limbs (24 bits) times constants, in 32 *)
(* bits; it reports the hash with every primorial for which the product of *)
(* the other primes is short.  The host trusts nothing: it computes the    *)
(* hash again and divides.                                                 *)
(*                                                                         *)
(* The hash itself (SHA-256) is any number with its highest bit set.       *)
(***************************************************************************)
EXTENDS Arithmetic, Sequences

CONSTANTS
    SumBits,      \* width of a word and of a sum (32)
    LimbBits,     \* bits of a limb (24)
    HashSize,     \* words of a hash (8)
    SmallPrimes,  \* gPrimes, as far as HashPrimorial
    Primorials,   \* numbers of the primorials (13, 14, 15), from 0
    LIMIT,        \* for each of them: most bits of a multiplier, plus one
    SearchHashes  \* the hashes of a run

\* The primes in order; their double fits a word.
ASSUME SearchAssumption ==
    /\ {SumBits, LimbBits, HashSize} \subseteq Nat \ {0}
    /\ SumBits >= 5 /\ LimbBits <= SumBits
    /\ SmallPrimes \in Seq(2 .. Pow2[SumBits - 1] - 1) /\ SmallPrimes[1] = 2
    /\ \A j \in 1 .. Len(SmallPrimes) : \A d \in 2 .. SmallPrimes[j] - 1 :
          SmallPrimes[j] % d # 0
    /\ \A i, j \in 1 .. Len(SmallPrimes) : i < j => SmallPrimes[i] < SmallPrimes[j]
    /\ Primorials \in Seq(Nat) /\ LIMIT \in [1 .. Len(Primorials) -> Nat]
    /\ \A k \in 1 .. Len(Primorials) : Primorials[k] < Len(SmallPrimes)

ASSUME SearchHashesAssumption ==
    SearchHashes \subseteq Pow2[SumBits * HashSize - 1] .. Pow2[SumBits * HashSize] - 1

VARIABLES
    hash,      \* a hash with its highest bit set
    searched,  \* the kernel has looked at it
    reports,   \* what it reported and the host has not fetched yet
    numbers,   \* what the host accepted: shash and its primorial
    rejected   \* what the host did not accept

searchVars == <<hash, searched, reports, numbers, rejected>>

-----------------------------------------------------------------------------
Positions == 0 .. Len(SmallPrimes) - 1
PrimeAt(j) == SmallPrimes[j + 1]

Product(S) ==
    ProductUpTo([j \in Positions |-> IF j \in S THEN PrimeAt(j) ELSE 1], Len(SmallPrimes))
WholePrimorial(k) == Product(0 .. k)

\* What 2^i lacks to a multiple of d.
Lacking(d, i) == d - 1 - ((Pow2[i] - 1) % d)

\* The first i for which findMultiplierForConstantDivision succeeds.
Found(maxDividendBits, d, i) ==
    LET nc == (((Pow2[maxDividendBits] - 1) \div d) * d) - 1
    IN  Pow2[i] > nc * Lacking(d, i)

ShiftFor(maxDividendBits, d) ==
    CHOOSE i \in 0 .. 2 * maxDividendBits :
        /\ Found(maxDividendBits, d, i)
        /\ \A j \in 0 .. i - 1 : ~Found(maxDividendBits, d, j)

\* Dividends of one bit less, unless that needs no shift beyond the word.
Shift(d) ==
    IF ShiftFor(SumBits - 1, d) < SumBits THEN ShiftFor(SumBits, d)
                                          ELSE ShiftFor(SumBits - 1, d)

\* The tables offsets32 and multipliers32.
offsets32 == [j \in Positions \ {0} |-> Shift(PrimeAt(j)) - SumBits]
multipliers32 ==
    [j \in Positions \ {0} |->
        LET i == SumBits + offsets32[j]
        IN  (Pow2[i] + Lacking(PrimeAt(j), i)) \div PrimeAt(j)]

\* check24: the high half of X * multiplier, shifted, times the divisor.
check24(X, divisor, inversedMultiplier, offset) ==
    X = (divisor * (((X * inversedMultiplier) \div Pow2[SumBits]) \div Pow2[offset]))
          % Pow2[SumBits]

\* The limbs of a hash; the last one may reach beyond its words (state[8] = 0).
Limbs == ((SumBits * HashSize) + LimbBits - 1) \div LimbBits
Limb(i) == (hash \div Pow2[LimbBits * i]) % Pow2[LimbBits]

\* The table of the moduli read one entry too early.
ModuloShifted(d, i) == Pow2[LimbBits * (IF i > 1 THEN i - 1 ELSE i)] % d

\* modulos24: the value of a limb modulo d (but for i = 0 the code has no entry).
Modulo(d, i) == Pow2[LimbBits * i] % d

\* The sum of sum24, before it is cut to a word.
WholeSum(d) == SumUpTo([i \in 0 .. Limbs - 1 |-> Limb(i) * Modulo(d, i)], Limbs)

sum24(d) == WholeSum(d) % Pow2[SumBits]

\* primorialBitField, as a set of positions; 2 is tested by the lowest bit.
DividingPrimes ==
    {j \in Positions :
        IF j = 0 THEN hash % 2 = 0
        ELSE check24(sum24(PrimeAt(j)), PrimeAt(j), multipliers32[j], offsets32[j])}

\* prod13, prod14 and prod15: the primes of the primorial that do not divide.
Prod(k) == Product((0 .. Primorials[k]) \ DividingPrimes)

MultiplierBits(x) ==
    CHOOSE n \in 0 .. SumBits * HashSize :
        Pow2[n] > x /\ (n = 0 \/ Pow2[n - 1] <= x)

\* The primorials with a short multiplier, but none with the multiplier of one
\* reported before (p14Unique, p15Unique).
Reported ==
    LET upTo[n \in Nat] ==
          IF n = 0 THEN {}
          ELSE upTo[n - 1] \union
                 {k \in {n} : /\ MultiplierBits(Prod(k)) < LIMIT[k]
                              /\ \A l \in upTo[n - 1] : Prod(l) # Prod(k)}
    IN  upTo[Len(Primorials)]

-----------------------------------------------------------------------------
SearchInit ==
    /\ hash \in SearchHashes /\ searched = FALSE
    /\ reports = {} /\ numbers = {} /\ rejected = {}

\* The kernel, for one nonce: a report is a nonce and a bit field.
bhashmodUsePrecalc ==
    /\ ~searched /\ searched' = TRUE
    /\ reports' = {[primorialIdx |-> Primorials[k], field |-> DividingPrimes] :
                     k \in Reported}
    /\ UNCHANGED <<hash, numbers, rejected>>

\* realPrimorial: the primes of the field, up to the primorial.
RealPrimorial(r) == Product(r.field \intersect (0 .. r.primorialIdx))

\* The host checks a report with the hash it computed itself, and makes the
\* number to be sieved of it.
FetchReport(r) ==
    /\ reports' = reports \ {r}
    /\ IF hash % RealPrimorial(r) = 0
       THEN /\ numbers' = numbers \union
                 {[primorialIdx |-> r.primorialIdx,
                   shash |-> hash * (WholePrimorial(r.primorialIdx) \div RealPrimorial(r))]}
            /\ UNCHANGED rejected
       ELSE /\ rejected' = rejected \union {r}
            /\ UNCHANGED numbers
    /\ UNCHANGED <<hash, searched>>

SearchNext == bhashmodUsePrecalc \/ \E r \in reports : FetchReport(r)

SearchSpec == SearchInit /\ [][SearchNext]_searchVars

-----------------------------------------------------------------------------
\* A sum is cut when it does not fit a word.  The comment in sha256.cu warns of
\* it for 53 and 67 ("can produce wrong results").
SumCut == \E j \in Positions \ {0} : WholeSum(PrimeAt(j)) >= Pow2[SumBits]

\* What the device reports is of use: unless a sum was cut it names exactly the
\* primes that divide the hash, and the host accepts it; what the host accepts is
\* divisible by the whole primorial (the sieve only looks at larger primes), and
\* no number is sieved for two reports.
ReportsUsable ==
    /\ \/ SumCut
       \/ /\ rejected = {}
          /\ \A r \in reports : r.field = {j \in Positions : hash % PrimeAt(j) = 0}
    /\ \A n \in numbers : n.shash % WholePrimorial(n.primorialIdx) = 0
    /\ \A n, o \in numbers : n # o => n.shash # o.shash

=============================================================================
