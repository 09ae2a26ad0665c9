------------------------------ MODULE PrimeChain ------------------------------
(***************************************************************************)
(* The host's test of a candidate (prime.cpp, called by "check candis" in  *)
(* PrimeMiner::Mining): how long is its chain of probable primes, and is   *)
(* it a block?  The GPU has tested the first mDepth numbers of the chain,  *)
(* and the host starts behind them (base).                                 *)
(*                                                                         *)
(* The length is a fixed-point number: the numbers that passed, and as     *)
(* fraction how far the first one that did not was from passing.           *)
(***************************************************************************)
EXTENDS Integers

CONSTANTS
    nFractionalBits,  \* 24
    MaxZeros,         \* trailing zeros of n - 1 that are made use of (9)
    Depths,           \* values of mDepth (2 to 5, from the configured cpuload)
    ChainOrigins,     \* bound: hash.shash * multi
    BlockTargets      \* bound: nBits of a block, as a fixed-point length

ASSUME ChainAssumption ==
    /\ {nFractionalBits, MaxZeros} \subseteq Nat \ {0}
    /\ Depths \subseteq Nat
    /\ \A x \in ChainOrigins : x \in Nat \ {0, 2} /\ x % 2 = 0

VARIABLES
    chainorg, nCandidateType, mDepth,  \* what is tested
    testing,                           \* "first", "twin", "below", "above", "done"
    mpzOriginMinusOne, mpzOriginPlusOne,
    nChainSeq,
    nChainLength

originVars == <<chainorg, nCandidateType, mDepth>>
chainVars == <<originVars, testing, mpzOriginMinusOne, mpzOriginPlusOne, nChainSeq,
               nChainLength>>

-----------------------------------------------------------------------------
One == 2 ^ nFractionalBits
nTargetMinLength == 6
TargetGetLength(nBits) == nBits \div One
TargetIncrementLength(nBits) == nBits + One
WithFraction(nLength, fraction) == TargetGetLength(nLength) * One + fraction

\* Products (in three steps, for TLC's integers) and powers modulo n.
MulMod(x, y, n) ==
    LET Step(acc, digit) == (acc * 128 + x * digit) % n
    IN  Step(Step(Step(0, y \div 16384), (y \div 128) % 128), y % 128)
PowMod(x, k, n) ==
    LET p[i \in 0 .. k] ==
          IF i = 0 THEN 1 % n
          ELSE LET half == p[i \div 2]
                   square == MulMod(half, half, n)
               IN  IF i % 2 = 1 THEN MulMod(square, x, n) ELSE square
    IN  p[k]

TrailingZeros(x) == CHOOSE z \in 0 .. 30 : x % 2 ^ z = 0 /\ x % 2 ^ (z + 1) # 0

\* mpzR: 2^((n-1)/2), with some of the squarings done by a shift of the base.
mpzR(n) ==
    LET all == TrailingZeros(n - 1)
        nTrailingZeros == IF all > MaxZeros THEN MaxZeros ELSE all
        mpzBase == PowMod(2, 2 ^ (nTrailingZeros - 1), n)
    IN  PowMod(mpzBase % n, (n - 1) \div 2 ^ nTrailingZeros, n)

\* The fraction for a number that failed, from the remainder of Fermat's test.
FractionalLength(n) ==
    LET r == mpzR(n) IN ((n - MulMod(r, r, n)) * One) \div n

FermatProbablePrimalityTestFast(n) == mpzR(n) \in {1, n - 1}

\* The test of 2p + 1 and 2p - 1, for probable primes p.
EulerLagrangeLifchitzPrimalityTestFast(n, fSophieGermain) ==
    LET passing == IF fSophieGermain THEN {<<7, 1>>, <<3, n - 1>>}
                                     ELSE {<<5, n - 1>>, <<1, 1>>}
    IN  <<n % 8, mpzR(n)>> \in passing

-----------------------------------------------------------------------------
\* Number k of a chain: the line and the neighbour of the multiple of chainorg.
ChainMember(k) ==
    LET line == IF nCandidateType = 2 THEN k \div 2 ELSE k
        above == nCandidateType = 1 \/ (nCandidateType = 2 /\ k % 2 = 1)
    IN  chainorg * 2 ^ line + (IF above THEN 1 ELSE -1)

\* What the GPU demands of each of the first mDepth numbers.
PassesFermat(n) == PowMod(2, n - 1, n) = 1

ChainInit ==
    /\ chainorg \in ChainOrigins /\ nCandidateType \in 0 .. 2 /\ mDepth \in Depths
    /\ \A k \in 0 .. mDepth - 1 : PassesFermat(ChainMember(k))
    /\ testing = "first"
    /\ mpzOriginMinusOne = 0 /\ mpzOriginPlusOne = 0
    /\ nChainSeq = 0 /\ nChainLength = 0

\* The lines skipped, and the numbers counted for them: a bi-twin chain starts
\* at a whole line, so the last number of an odd depth is tested again.
base == IF nCandidateType = 2 THEN mDepth \div 2 ELSE mDepth
SkippedAll == mDepth
Skipped == IF nCandidateType = 2 THEN mDepth - (mDepth % 2) ELSE mDepth

Below(line) == (chainorg - 1) * 2 ^ line + (2 ^ line - 1)
Above(line) == (chainorg + 1) * 2 ^ line - (2 ^ line - 1)

\* The first number behind the skipped ones, for a chain of each type.
FirstNumber ==
    /\ testing = "first"
    /\ mpzOriginMinusOne' = Below(base)
    /\ mpzOriginPlusOne' = Above(base)
    /\ LET n == IF nCandidateType = 1 THEN mpzOriginPlusOne' ELSE mpzOriginMinusOne'
       IN  IF FermatProbablePrimalityTestFast(n)
           THEN /\ testing' = <<"below", "above", "twin">>[nCandidateType + 1]
                /\ nChainLength' = TargetIncrementLength(Skipped * One)
           ELSE /\ testing' = "done"
                /\ nChainLength' = WithFraction(Skipped * One, FractionalLength(n))
    /\ nChainSeq' = base + (IF nCandidateType = 2 THEN 2 ELSE 1)
    /\ UNCHANGED originVars

\* Its twin.
TwinNumber ==
    /\ testing = "twin"
    /\ IF FermatProbablePrimalityTestFast(mpzOriginPlusOne)
       THEN /\ testing' = "below"
            /\ nChainLength' = TargetIncrementLength(nChainLength)
       ELSE /\ testing' = "done"
            /\ nChainLength' =
                 WithFraction(nChainLength, FractionalLength(mpzOriginPlusOne))
    /\ UNCHANGED <<originVars, mpzOriginMinusOne, mpzOriginPlusOne, nChainSeq>>

\* A later number, with fFastFail: then no fraction is made.
TestNumber(n, fSophieGermain, fFastFail, next) ==
    IF EulerLagrangeLifchitzPrimalityTestFast(n, fSophieGermain)
    THEN /\ testing' = next
         /\ nChainLength' = TargetIncrementLength(nChainLength)
    ELSE /\ testing' = "done"
         /\ nChainLength' = IF fFastFail THEN nChainLength
                            ELSE WithFraction(nChainLength, FractionalLength(n))

NumberBelow ==
    /\ testing = "below"
    /\ mpzOriginMinusOne' = 2 * mpzOriginMinusOne + 1
    /\ TestNumber(mpzOriginMinusOne', TRUE, nChainSeq < 4,
                  IF nCandidateType = 2 THEN "above" ELSE "below")
    /\ nChainSeq' = IF nCandidateType = 2 THEN nChainSeq ELSE nChainSeq + 1
    /\ UNCHANGED <<originVars, mpzOriginPlusOne>>

NumberAbove ==
    /\ testing = "above"
    /\ mpzOriginPlusOne' = 2 * mpzOriginPlusOne - 1
    /\ TestNumber(mpzOriginPlusOne', FALSE, nChainSeq < 4,
                  IF nCandidateType = 2 THEN "below" ELSE "above")
    /\ nChainSeq' = nChainSeq + (IF nCandidateType = 2 THEN 2 ELSE 1)
    /\ UNCHANGED <<originVars, mpzOriginMinusOne>>

ChainNext == FirstNumber \/ TwinNumber \/ NumberBelow \/ NumberAbove

ChainSpec == ChainInit /\ [][ChainNext]_chainVars

\* What the test returns for a block's nBits.
ProbablePrimeChainTestFast(nBits) == nChainLength >= nBits

-----------------------------------------------------------------------------
\* Reference: the numbers of the chain before the first composite one.  (No
\* root exceeds n / 64 + 16.)
IsPrime(n) == \A d \in 2 .. (n \div 64) + 16 : d >= n \/ n % d # 0
LeadingPrimes ==
    CHOOSE k \in 0 .. 30 : ~IsPrime(ChainMember(k)) /\ \A l \in 0 .. k - 1 : IsPrime(ChainMember(l))
ExactLength ==
    LET n == ChainMember(LeadingPrimes)
    IN  LeadingPrimes * One + ((n - PowMod(2, n - 1, n)) * One) \div n

\* For a candidate that the GPU passed rightly the host finds the length of the
\* whole chain, wherever it starts and although every number has a test of its
\* own form.  (Unless the first composite number of the chain is a pseudoprime.)
\* In particular no such candidate is counted as an error of the GPU (a length
\* below mDepth).  It takes nothing for a block whose length, with its fraction,
\* does not reach the target, and for targets of nTargetMinLength or more
\* everything that does: shorter chains may lose their fraction to fFastFail.
ChainLengthExact ==
    testing = "done" /\ ~PassesFermat(ChainMember(LeadingPrimes)) =>
        /\ TargetGetLength(nChainLength) = LeadingPrimes
        /\ \A nBits \in BlockTargets :
             /\ ProbablePrimeChainTestFast(nBits) => ExactLength >= nBits
             /\ ExactLength >= nBits /\ nBits >= nTargetMinLength * One
                  => ProbablePrimeChainTestFast(nBits)

=============================================================================
