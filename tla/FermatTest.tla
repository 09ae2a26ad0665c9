------------------------------ MODULE FermatTest ------------------------------
(***************************************************************************)
(* The Fermat test of one candidate on the GPU (FermatTest320 and          *)
(* FermatTest352 in fermat.cu, their arithmetic in procs.cu): does         *)
(* 2^(e-1) mod e equal 1?  The exponent is consumed from the top in        *)
(* windows of windowSize bits; every power of two that a window needs is   *)
(* made in Montgomery form from one division done at the start.            *)
(*                                                                         *)
(* Three carry chains of the code can lose a carry.  The history variable  *)
(* lost collects which of them did, so that the properties can say that    *)
(* nothing else goes wrong.                                                *)
(***************************************************************************)
EXTENDS MultiPrecision, FiniteSetsExt

CONSTANT windowSize    \* bits of the exponent per step (7)

\* A window lies in at most two words, and its power is a whole number of them.
ASSUME WindowAssumption ==
    /\ windowSize \in 1 .. WordBits
    /\ Pow2[windowSize] % WordBits = 0

pow2ws == Pow2[windowSize]

\* Words of the dividend beyond those of the divisor, of the part of the
\* quotient that is multiplied, and registers for the quotient (5, 6 and 8).
Extra == pow2ws \div WordBits + 1
QuotientWords == Extra + 1
QuotientSize == Extra + 3

Kernels == {"320", "352"}

VARIABLES
    kernel,      \* which of the two kernels runs
    e,           \* the candidate
    pc,          \* "begin", "divide", "loop" or "done"
    ds, dv, q,   \* divisor, dividend and quotient of the division
    cycles,      \* cycles of the division still to run
    remaining,   \* bits of the exponent still to consume
    squared,     \* squarings done for the current window
    redcl,       \* the power so far, in Montgomery form
    lost         \* history: which carry chains lost a carry

division == <<ds, dv, q, cycles>>
fermatVars == <<kernel, e, pc, ds, dv, q, cycles, remaining, squared, redcl, lost>>

size == IF kernel = "320" THEN Size320 ELSE Size352

-----------------------------------------------------------------------------
\* The procedures of the kernel that runs.
mulProductScan320to192(x, y) ==
    ProductScan(x, y, Size320, QuotientWords, Size320)
mulProductScan352to192(x, y) ==
    ProductScan(x, y, Size352, QuotientWords, Size352)

monSqr(op, mod, invm) ==
    IF kernel = "320" THEN monSqr320(op, mod, invm) ELSE monSqr352(op, mod, invm)
monMul(x, y, mod, invm) ==
    IF kernel = "320" THEN monMul320(x, y, mod, invm)
                      ELSE monMul352(x, y, mod, invm)
redcHalf(op, mod, invm) ==
    IF kernel = "320" THEN redcHalf320(op, mod, invm) ELSE redcHalf352(op, mod, invm)
mulProductScan(x, y) ==
    IF kernel = "320" THEN mulProductScan320to192(x, y)
                      ELSE mulProductScan352to192(x, y)

-----------------------------------------------------------------------------
\* Division of a power of two by a candidate of n words, word by word.

\* The words of a number moved up by k words, zeros entering below.
ShiftWords(a, n, k) == [i \in 0 .. n - 1 |-> IF i < k THEN 0 ELSE a[i - k]]

\* The top n words of a dividend, and the dividend with these replaced.
Top(a, n) == [i \in 0 .. n - 1 |-> a[Extra + i]]
WithTop(a, t) == [i \in DOMAIN a |-> IF i < Extra THEN a[i] ELSE t[i - Extra]]

\* The divisor without leading zero words and bits, and the dividend, a power of
\* two with zeros below, shifted by the same bits: divide<..>reg before its loop.
UsedWords(n) == CHOOSE k \in 1 .. n : e[k - 1] # 0 /\ \A i \in k .. n - 1 : e[i] = 0
ShiftCount(n) == WordBits - BitLength(e[UsedWords(n) - 1])
Normalised(n) ==
    WordsOf(ValueOf(ShiftWords(e, n, n - UsedWords(n)), n) * Pow2[ShiftCount(n)], n)
Dividend(n) ==
    [i \in 0 .. n + Extra - 1 |-> IF i = n + Extra - 1 THEN Pow2[ShiftCount(n)] ELSE 0]

\* A cycle estimates a word of the quotient from the top words, subtracts the
\* multiple and moves up by a word; if that borrowed, it corrects the estimate
\* once or twice.
Estimate(n) ==
    LET top == n + Extra - 1
    IN  IF dv[top] = ds[n - 1] THEN B - 1
        ELSE ((dv[top] * B + dv[top - 1]) \div ds[n - 1]) % B

Cycle(n) ==
    LET diff == subMul([i \in 0 .. n |-> dv[Extra - 1 + i]], ds, Estimate(n), n)
        moved == [i \in DOMAIN dv |->
                    IF i = 0 THEN 0
                    ELSE IF i < Extra THEN dv[i - 1] ELSE diff[i - Extra]]
        once == add(Top(moved, n), ds, n)
        twice == add(once, ds, n)
        corrections == IF diff[n] = 0 THEN 0
                       ELSE IF once[n - 1] > ds[n - 1] THEN 2 ELSE 1
        Wrong(a, sum) == ValueOf(sum, n) # (ValueOf(a, n) + ValueOf(ds, n)) % Weight[n]
    IN  /\ dv' = CASE corrections = 0 -> moved
                   [] corrections = 1 -> WithTop(moved, once)
                   [] corrections = 2 -> WithTop(moved, twice)
        /\ q' = [i \in 0 .. QuotientSize - 1 |->
                   IF i = 0 THEN (Estimate(n) - corrections) % B ELSE q[i - 1]]
        /\ lost' = IF \/ corrections >= 1 /\ Wrong(Top(moved, n), once)
                      \/ corrections = 2 /\ Wrong(once, twice)
                   THEN lost \union {"add"} ELSE lost

\* divide480to320reg and divide512to352reg: a word of the quotient per cycle, the
\* number of bits of the candidate as result.
DivideBegin(n) ==
    /\ ds' = Normalised(n)
    /\ dv' = Dividend(n)
    /\ cycles' = Min({n + Extra - UsedWords(n), QuotientSize})
    /\ remaining' = WordBits * UsedWords(n) - ShiftCount(n)

divide480to320reg == IF pc = "begin" THEN DivideBegin(Size320) ELSE Cycle(Size320)
divide512to352reg == IF pc = "begin" THEN DivideBegin(Size352) ELSE Cycle(Size352)
divide == IF kernel = "320" THEN divide480to320reg ELSE divide512to352reg

-----------------------------------------------------------------------------
\* 2^(WordBits*size + shiftCount) mod e: the quotient is shifted down, multiplied
\* with e, and the product negated word by word.
Negated(a) == [i \in DOMAIN a |-> IF i = 0 THEN (B - a[0]) % B ELSE B - 1 - a[i]]
redcify(shiftCount) ==
    Negated(mulProductScan(e,
        WordsOf(ValueOf(q, QuotientSize) \div Pow2[pow2ws - shiftCount], QuotientSize)))

\* The increment that ends redcify does not reach the second word.
RedcifyLost(result) == result[0] = 0 /\ \E i \in 1 .. size - 1 : result[i] # B - 1

\* Bits of e instead of e - 1.
getFromBitfieldOfE(bitOffset, bitSize) ==
    (ValueOf(e, size) \div Pow2[bitOffset]) % Pow2[bitSize]

\* Bits of e - 1, from the word they begin in and the one they end in.
getFromBitfield(bitOffset, bitSize) ==
    LET lLoLimb == bitOffset \div WordBits
        lHiLimb == (bitOffset + bitSize) \div WordBits
        lo == IF lLoLimb = 0 THEN e[0] - 1 ELSE e[lLoLimb]
        hi == IF lHiLimb \in {lLoLimb, size} THEN 0 ELSE e[lHiLimb]
    IN  ((lo + B * hi) \div Pow2[bitOffset % WordBits]) % Pow2[bitSize]

\* Montgomery's last step, and whether its subtraction lost a borrow.
SubLost(m) ==
    m.exceeds /\ ValueOf(sub(m.words, e, size), size)
                   # (ValueOf(m.words, size) - ValueOf(e, size)) % Weight[size]

Chain(name, happened) == IF happened THEN {name} ELSE {}

-----------------------------------------------------------------------------
\* Odd candidates; at most the top word is empty, as in the benchmark.
Candidates(n) ==
    {WordsOf(x, n) : x \in {y \in Weight[n - 2] .. Weight[n] - 1 : y % 2 = 1 /\ y > 1}}

FermatTestInit ==
    /\ kernel \in Kernels
    /\ e \in Candidates(size)
    /\ pc = "begin"
    /\ ds = [i \in 0 .. size - 1 |-> 0]
    /\ dv = [i \in 0 .. size + Extra - 1 |-> 0]
    /\ q = [i \in 0 .. QuotientSize - 1 |-> 0]
    /\ cycles = 0
    /\ remaining = 0
    /\ squared = 0
    /\ redcl = [i \in 0 .. size - 1 |-> 0]
    /\ lost = {}

Begin ==
    /\ pc = "begin"
    /\ divide
    /\ pc' = "divide"
    /\ UNCHANGED <<kernel, e, q, squared, redcl, lost>>

DivideCycle ==
    /\ pc = "divide"
    /\ cycles > 0
    /\ divide
    /\ cycles' = cycles - 1
    /\ UNCHANGED <<kernel, e, pc, ds, remaining, squared, redcl>>

\* 2 in Montgomery form is the power to begin with; the top bit of e - 1 is done.
FirstPower ==
    /\ pc = "divide"
    /\ cycles = 0
    /\ redcl' = redcify(1)
    /\ lost' = lost \union Chain("redcify", RedcifyLost(redcl'))
    /\ remaining' = remaining - 1
    /\ pc' = "loop"
    /\ UNCHANGED <<kernel, e, division, squared>>

\* The bits of the current window.
bits == Min({remaining, windowSize})

Square ==
    /\ pc = "loop"
    /\ remaining > 0
    /\ squared < bits
    /\ LET m == monSqr(redcl, e, invert_limb(e[0]))
       IN  /\ redcl' = Reduced(m, e, size)
           /\ lost' = lost \union Chain("sub", SubLost(m))
    /\ squared' = squared + 1
    /\ UNCHANGED <<kernel, e, pc, division, remaining>>

\* The window's power of two is multiplied in, and the window is left behind.
Multiply ==
    /\ pc = "loop"
    /\ remaining > 0
    /\ squared = bits
    /\ \E power \in {redcify(getFromBitfield(remaining - bits, bits))} :
         LET m == monMul(redcl, power, e, invert_limb(e[0]))
         IN  /\ redcl' = Reduced(m, e, size)
             /\ lost' = lost \union Chain("redcify", RedcifyLost(power))
                             \union Chain("sub", SubLost(m))
    /\ remaining' = remaining - windowSize
    /\ squared' = 0
    /\ UNCHANGED <<kernel, e, pc, division>>

\* Back from Montgomery form.
Finish ==
    /\ pc = "loop"
    /\ remaining <= 0
    /\ LET m == redcHalf(redcl, e, invert_limb(e[0]))
       IN  /\ redcl' = Reduced(m, e, size)
           /\ lost' = lost \union Chain("sub", SubLost(m))
    /\ pc' = "done"
    /\ UNCHANGED <<kernel, e, division, remaining, squared>>

FermatTestNext == Begin \/ DivideCycle \/ FirstPower \/ Square \/ Multiply \/ Finish

\* The verdict of fermat320 and fermat352: all words of the result but the
\* lowest are zero, and the lowest is one.
fermat == \A i \in 0 .. size - 1 : redcl[i] = IF i = 0 THEN 1 ELSE 0

\* The test by itself, for its benchmark.
FermatTestSpec == FermatTestInit /\ [][FermatTestNext]_fermatVars

-----------------------------------------------------------------------------
\* Reference: 2^k mod m.
Power(k, m) ==
    LET p[i \in 0 .. k] ==
          IF i = 0 THEN 1 % m
          ELSE LET half == p[i \div 2] IN (half * half * (IF i % 2 = 1 THEN 2 ELSE 1)) % m
    IN  p[k]

\* In the loop the power stands for 2 to the bits of e - 1 consumed so far, with
\* the squarings of the current window, in Montgomery form, unless a carry was
\* lost: division, windows, Montgomery products and conditional subtractions
\* agree with each other.
PowerOfPrefix ==
    pc = "loop" /\ lost = {} =>
        LET v == ValueOf(e, size)
            prefix == (v - 1) \div Pow2[Max({remaining, 0})]
        IN  ValueOf(redcl, size) % v = Power(prefix * Pow2[squared] + WordBits * size, v)

\* The verdict is that of Fermat's test, so a prime is never refused and a
\* composite number passes only if it is a pseudoprime, unless one of the three
\* chains lost a carry.
VerdictUnlessCarryLost ==
    pc = "done" /\ lost = {} =>
        (fermat <=> Power(ValueOf(e, size) - 1, ValueOf(e, size)) = 1)

\* Numbers that the host makes for the benchmark of this kernel: one bit in the
\* top word, or in the word below it under an empty one.
BenchmarkNumber ==
    \E k \in {size - 2, size - 1} :
        /\ e[k] \in {Pow2[i] : i \in 0 .. WordBits - 1}
        /\ \A i \in k + 1 .. size - 1 : e[i] = 0

\* What the host checks in the benchmark of the Fermat kernels ("results
\* differ!"): for its numbers the result is mpz_powm(2, e - 1, e).
ResultIsPowm ==
    pc = "done" /\ BenchmarkNumber =>
        ValueOf(redcl, size) = Power(ValueOf(e, size) - 1, ValueOf(e, size))

=============================================================================
