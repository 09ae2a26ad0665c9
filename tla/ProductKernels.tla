---------------------------- MODULE ProductKernels ----------------------------
(***************************************************************************)
(* The unrolled products of procs.cu, and the kernels of benchmarks.cu     *)
(* that repeat one of them (squareBenchmark, multiplyBenchmark): the high  *)
(* half of every product becomes the first factor of the next one.  The    *)
(* host (cudaMultiplyBenchmark) compares the last product with GMP's.      *)
(***************************************************************************)
EXTENDS MultiPrecision

CONSTANTS
    Repeats,        \* products that a benchmark kernel computes (512)
    Factors352      \* bound: factors tried in products of Size352 words

ASSUME ProductAssumption ==
    /\ Repeats \in Nat
    /\ Factors352 \subseteq 0 .. Weight[Size352] - 1

VARIABLES
    bench,       \* the kernel that runs
    op1, op2,    \* its factors
    factor,      \* history: the first factor of the last product
    product,     \* the last product
    repeatNum

benchVars == <<bench, op1, op2, factor, product, repeatNum>>

-----------------------------------------------------------------------------
BenchSize(kernel) == IF kernel \in {"sqr320", "mul320"} THEN Size320 ELSE Size352

\* The small family is tried with all numbers, the large one with some factors;
\* a square has its second factor at zero.
BenchInit ==
    /\ bench \in {"sqr320", "sqr352", "mul320", "mul352"}
    /\ \E x \in 0 .. Weight[BenchSize(bench)] - 1,
          y \in CASE bench = "mul320" -> 0 .. Weight[Size320] - 1
                  [] bench = "mul352" -> Factors352
                  [] OTHER -> {0} :
          /\ bench = "mul352" => x \in Factors352
          /\ op1 = WordsOf(x, BenchSize(bench))
          /\ op2 = WordsOf(y, BenchSize(bench))
    /\ factor = op1
    /\ product = [i \in 0 .. 2 * BenchSize(bench) - 1 |-> 0]
    /\ repeatNum = 0

Repeat(scan) ==
    /\ repeatNum < Repeats
    /\ product' = scan
    /\ op1' = [i \in DOMAIN op1 |-> product'[i + BenchSize(bench)]]
    /\ factor' = op1
    /\ repeatNum' = repeatNum + 1
    /\ UNCHANGED <<bench, op2>>

squareBenchmark320 == bench = "sqr320" /\ Repeat(sqrProductScan320(op1))
squareBenchmark352 == bench = "sqr352" /\ Repeat(sqrProductScan352(op1))
multiplyBenchmark320 == bench = "mul320" /\ Repeat(mulProductScan320to320(op1, op2))
multiplyBenchmark352 == bench = "mul352" /\ Repeat(mulProductScan352to352(op1, op2))

BenchNext ==
    \/ squareBenchmark320 \/ squareBenchmark352
    \/ multiplyBenchmark320 \/ multiplyBenchmark352

\* A benchmark by itself.
BenchSpec == BenchInit /\ [][BenchNext]_benchVars

-----------------------------------------------------------------------------
\* The scanned product is the product of the numbers: the double words that sum
\* the columns lose no carry, neither within a column nor to the next one, and
\* a square counts each pair of words twice and no word of the middle twice.
\* This is what the host compares with GMP.
ProductExact ==
    repeatNum > 0 =>
        LET n == BenchSize(bench)
            second == IF bench \in {"sqr320", "sqr352"} THEN factor ELSE op2
        IN  ValueOf(product, 2 * n) = ValueOf(factor, n) * ValueOf(second, n)

=============================================================================
