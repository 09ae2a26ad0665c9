---------------------------- MODULE MultiPrecision ----------------------------
(***************************************************************************)
(* The multi-word arithmetic of the Fermat kernels (procs.cu, fermat.cu).  *)
(*                                                                         *)
(* A number is a function from 0 .. n-1 to machine words, least            *)
(* significant word first.  Products are scanned column by column with two *)
(* double words: accLow sums the low halves of the word products of the    *)
(* column, accHi the high halves, and what exceeds a word of accLow moves  *)
(* into the next column.  The source unrolls every column; the loops that  *)
(* wrote it are in codegen/generic.cpp.  A word has 32 bits there and      *)
(* WordBits bits here, a double word always twice as many.                 *)
(***************************************************************************)
EXTENDS Arithmetic

CONSTANTS
    WordBits,     \* bits of a word (32)
    TableBits,    \* bits of an entry of binvert_limb_table (8)
    Size320,      \* words of a number in the smaller family (10)
    Size352       \* words of a number in the larger family (11)

B == Pow2[WordBits]
Word == 0 .. B - 1

\* Two Newton steps bring an inverse from TableBits to all bits of a word.  The
\* halves of all the products of two columns fit a double word together: what
\* Montgomery's reduction adds up for one word.
ASSUME WordAssumption ==
    /\ TableBits \in Nat \ {0}
    /\ WordBits = 4 * TableBits
    /\ {Size320, Size352} \subseteq Nat \ {0, 1}
    /\ 4 * Size320 <= B /\ 4 * Size352 <= B

Number(n) == [0 .. n - 1 -> Word]

\* B ^ i, what a one in word i is worth.
Weight[i \in Nat] == IF i = 0 THEN 1 ELSE B * Weight[i - 1]

\* Reference: the integer a number stands for, and back (modulo B^n).
ValueOf(a, n) == SumUpTo([i \in 0 .. n - 1 |-> a[i] * Weight[i]], n)

WordsOf(x, n) == [i \in 0 .. n - 1 |-> (x \div Weight[i]) % B]

BitLength(x) == CHOOSE k \in 0 .. 2 * WordBits : x < Pow2[k] /\ (k = 0 \/ x >= Pow2[k - 1])

-----------------------------------------------------------------------------
\* One word of a subtraction chain, and the borrow the code derives from it by
\* comparing the new word with the old one.
SubWord(x, y, borrow) == (x - (y + borrow)) % B
BorrowSeen(new, old) == IF new > old THEN 1 ELSE 0

\* a - b over n words.
sub(a, b, n) ==
    LET r[i \in 0 .. n - 1] ==
          IF i = 0 THEN SubWord(a[0], b[0], 0)
          ELSE SubWord(a[i], b[i], BorrowSeen(r[i - 1], a[i - 1]))
    IN  [i \in 0 .. n - 1 |-> r[i]]

\* One word of an addition chain, and the carry the code derives from it by
\* comparing the sum with one of the terms.
AddWord(x, y, carry) == (x + y + carry) % B
CarrySeen(new, term) == IF new < term THEN 1 ELSE 0

\* dv + ds over n words.
add(dv, ds, n) ==
    LET r[i \in 0 .. n - 1] ==
          IF i = 0 THEN AddWord(dv[0], ds[0], 0)
          ELSE AddWord(dv[i], ds[i], CarrySeen(r[i - 1], ds[i - 1]))
    IN  [i \in 0 .. n - 1 |-> r[i]]

\* dv - m * ds over n + 1 words.  In each word up to three terms are taken off
\* one after the other, and the borrows of the three are summed.
subMul(dv, ds, m, n) ==
    LET lo(i) == (ds[i] * m) % B
        hi(i) == (ds[i] * m) \div B
        Off(s, x) == [word |-> (s.word - x) % B,
                      borrow |-> s.borrow + (IF s.word < x THEN 1 ELSE 0)]
        r[i \in 0 .. n] ==
          IF i = 0 THEN Off([word |-> dv[0], borrow |-> 0], lo(0))
          ELSE LET carry0 == r[i - 1].borrow
                   afterHi == Off([word |-> dv[i], borrow |-> 0], hi(i - 1))
               IN  Off(IF i < n THEN Off(afterHi, lo(i)) ELSE afterHi, carry0)
    IN  [i \in 0 .. n |-> r[i].word]

-----------------------------------------------------------------------------
\* The products x[j] * y[i - j] that fall into column i.
Column(i, n1, n2) == {j \in 0 .. n1 - 1 : 0 <= i - j /\ i - j < n2}

LowSum(x, y, i, S) ==
    SumUpTo([j \in 0 .. i |-> IF j \in S THEN (x[j] * y[i - j]) % B ELSE 0], i + 1)
HighSum(x, y, i, S) ==
    SumUpTo([j \in 0 .. i |-> IF j \in S THEN (x[j] * y[i - j]) \div B ELSE 0], i + 1)

\* The end of a column that forgets what exceeds a word of accLow.
NextLowForgetful(acc) == acc.high % (B * B)

\* The end of a column: accHi += accLow >> 32; accLow = accHi; accHi = 0.
NextLow(acc) == (acc.high + acc.low \div B) % (B * B)

\* The words of a product whose columns have the given sums of halves.
ScanColumns(low, high, size) ==
    LET acc[i \in 0 .. size - 1] ==
          [low |-> (low[i] + (IF i = 0 THEN 0 ELSE NextLow(acc[i - 1]))) % (B * B),
           high |-> high[i] % (B * B)]
    IN  [i \in 0 .. size - 1 |-> acc[i].low % B]

\* mulProductScan<n1>to<n2>: the lowest size words of op1 * op2.
ProductScan(op1, op2, n1, n2, size) ==
    ScanColumns([i \in 0 .. size - 1 |-> LowSum(op1, op2, i, Column(i, n1, n2))],
                [i \in 0 .. size - 1 |-> HighSum(op1, op2, i, Column(i, n1, n2))],
                size)

\* A column of a square: the products of different words are added twice.
Pairs(i, n) == {j \in Column(i, n, n) : j < i - j}
Middle(i, n) == {j \in Column(i, n, n) : j = i - j}
SquareLow(op, n) ==
    [i \in 0 .. 2 * n - 1 |->
        2 * LowSum(op, op, i, Pairs(i, n)) + LowSum(op, op, i, Middle(i, n))]
SquareHigh(op, n) ==
    [i \in 0 .. 2 * n - 1 |->
        2 * HighSum(op, op, i, Pairs(i, n)) + HighSum(op, op, i, Middle(i, n))]

\* sqrProductScan: all words of op * op.
SquareScan(op, n) == ScanColumns(SquareLow(op, n), SquareHigh(op, n), 2 * n)

-----------------------------------------------------------------------------
\* Minus the inverse of an odd word modulo B.  The table holds the inverses
\* modulo 2^TableBits; every Newton step doubles the number of right bits.
binvert_limb_table(limb) ==
    CHOOSE x \in 0 .. Pow2[TableBits] - 1 : (x * limb) % Pow2[TableBits] = 1
NewtonStep(inv, limb) == (2 * inv - inv * inv * limb) % B
invert_limb(limb) ==
    (- NewtonStep(NewtonStep(binvert_limb_table(limb % Pow2[TableBits]), limb), limb)) % B

\* Montgomery reduction, interleaved with the columns of the number reduced,
\* whose low and high halves are given per column.  invValue[i] is chosen so
\* that the lowest word of column i < n becomes zero.  The result keeps the
\* last n words; when it exceeds them, mod is subtracted once.
NoColumn == [low |-> 0, high |-> 0, inv |-> [j \in {} |-> 0]]

MontgomeryColumn(low, high, mod, invm, n, i, before) ==
    LET known == Column(i, n, n) \ {i}
        accLow == (low[i] + NextLow(before) + LowSum(before.inv, mod, i, known)) % (B * B)
        accHi == high[i] + HighSum(before.inv, mod, i, known)
        digit == (invm * (accLow % B)) % B
    IN  IF i < n
        THEN [low |-> (accLow + ((digit * mod[0]) % B)) % (B * B),
              high |-> (accHi + (digit * mod[0]) \div B) % (B * B),
              inv |-> [j \in 0 .. i |-> IF j = i THEN digit ELSE before.inv[j]]]
        ELSE [low |-> accLow, high |-> accHi % (B * B), inv |-> before.inv]

Montgomery(low, high, mod, invm, n) ==
    LET col[i \in 0 .. 2 * n - 2] ==
          MontgomeryColumn(low, high, mod, invm, n, i, IF i = 0 THEN NoColumn ELSE col[i - 1])
        last == NextLow(col[2 * n - 2])
        words == [i \in 0 .. n - 1 |-> (IF i = n - 1 THEN last ELSE col[n + i].low) % B]
    IN  [words |-> words, exceeds |-> last \div B # 0]

\* The conditional subtraction that ends monSqr, monMul and redcHalf.
Reduced(m, mod, n) == IF m.exceeds THEN sub(m.words, mod, n) ELSE m.words

-----------------------------------------------------------------------------
\* The unrolled procedures, by the sizes they were generated for.
monSqr320(op, mod, invm) ==
    Montgomery(SquareLow(op, Size320), SquareHigh(op, Size320), mod, invm, Size320)
monSqr352(op, mod, invm) ==
    Montgomery(SquareLow(op, Size352), SquareHigh(op, Size352), mod, invm, Size352)

ProductLow(x, y, n) == [i \in 0 .. 2 * n - 2 |-> LowSum(x, y, i, Column(i, n, n))]
ProductHigh(x, y, n) == [i \in 0 .. 2 * n - 2 |-> HighSum(x, y, i, Column(i, n, n))]

monMul320(x, y, mod, invm) ==
    Montgomery(ProductLow(x, y, Size320), ProductHigh(x, y, Size320),
               mod, invm, Size320)
monMul352(x, y, mod, invm) ==
    Montgomery(ProductLow(x, y, Size352), ProductHigh(x, y, Size352),
               mod, invm, Size352)

\* The number to reduce, entering a column late.
HalfHighLate(op, n) == [i \in 0 .. 2 * n - 2 |-> IF i < n THEN op[i] ELSE 0]

\* The number to reduce enters one word per column, a column ahead in accHi.
HalfLow(op, n) == [i \in 0 .. 2 * n - 2 |-> IF i = 0 THEN op[0] ELSE 0]
HalfHigh(op, n) == [i \in 0 .. 2 * n - 2 |-> IF i + 1 < n THEN op[i + 1] ELSE 0]

redcHalf320(op, mod, invm) ==
    Montgomery(HalfLow(op, Size320), HalfHigh(op, Size320), mod, invm, Size320)
redcHalf352(op, mod, invm) ==
    Montgomery(HalfLow(op, Size352), HalfHigh(op, Size352), mod, invm, Size352)

sqrProductScan320(op) == SquareScan(op, Size320)
sqrProductScan352(op) == SquareScan(op, Size352)

mulProductScan320to320(x, y) == ProductScan(x, y, Size320, Size320, 2 * Size320)
mulProductScan352to352(x, y) == ProductScan(x, y, Size352, Size352, 2 * Size352)

\* By a single word; the result keeps the size of the number.
mulProductScan352to32(x, word) ==
    ProductScan(x, [i \in {0} |-> word], Size352, 1, Size352)

=============================================================================
