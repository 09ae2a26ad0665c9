---------------------------- MODULE Kernels_proofs ----------------------------
(***************************************************************************)
(* The kernels that are built from the multi-word arithmetic, for words of *)
(* any width and numbers of any size: the benchmarks of the products, and  *)
(* the Fermat test of a candidate.  And the search for hashes, for any     *)
(* primes, limits, width of the sums and size of the limbs: that check24   *)
(* decides divisibility by multiplying, and what the reports are good for. *)
(***************************************************************************)
EXTENDS MultiPrecision_proofs, ProductKernels, FermatTest, HashSearch

-----------------------------------------------------------------------------
(***************************************************************************)
(* The words of a number below the weight of the next word.                *)
(***************************************************************************)
LEMMA WordsAreNumber ==
  ASSUME NEW n \in Nat, NEW x \in Nat
  PROVE  WordsOf(x, n) \in Number(n)
<1>1. ASSUME NEW i \in 0 .. n - 1 PROVE (x \div Weight[i]) % B \in Word
  <2>1. Weight[i] \in Nat /\ Weight[i] > 0
    BY WeightFacts
  <2>2. x \div Weight[i] \in Nat
    BY <2>1, Division
  <2>3. QED
    BY <2>2, BaseFacts, Division DEF Word
<1>2. QED
  BY <1>1 DEF WordsOf, Number

-----------------------------------------------------------------------------
(***************************************************************************)
(* Benchmarks of the products.  The factors are whole numbers of the       *)
(* kernel's size, and a product has twice as many words.                   *)
(***************************************************************************)
BenchInv ==
    /\ bench \in {"sqr320", "sqr352", "mul320", "mul352"}
    /\ op1 \in Number(BenchSize(bench))
    /\ op2 \in Number(BenchSize(bench))
    /\ factor \in Number(BenchSize(bench))
    /\ product \in Number(2 * BenchSize(bench))
    /\ repeatNum \in Nat
    /\ ProductExact

LEMMA BenchSizes ==
  ASSUME NEW k
  PROVE  BenchSize(k) \in Nat \ {0} /\ 2 * BenchSize(k) <= B
BY BaseFacts DEF BenchSize

LEMMA InitBenchInv ==
  ASSUME BenchInit
  PROVE  BenchInv
<1> DEFINE n == BenchSize(bench)
<1>1. n \in Nat /\ 2 * n \in Nat /\ \A i \in Nat : Weight[i] \in Nat
  BY BenchSizes, WeightFacts
<1>2. \E x, y \in Nat : op1 = WordsOf(x, n) /\ op2 = WordsOf(y, n)
  <2>1. PICK x \in 0 .. Weight[n] - 1,
             y \in CASE bench = "mul320" -> 0 .. Weight[Size320] - 1
                     [] bench = "mul352" -> Factors352
                     [] OTHER -> {0} : op1 = WordsOf(x, n) /\ op2 = WordsOf(y, n)
    BY DEF BenchInit
  <2>2. x \in Nat
    BY <1>1
  <2>3. y \in Nat
    <3>1. Factors352 \subseteq Nat
      BY <1>1, ProductAssumption, BaseFacts
    <3>2. CASE bench = "mul320"
      BY <1>1, <3>2, BaseFacts
    <3>3. CASE bench = "mul352"
      BY <3>1, <3>3
    <3>4. CASE bench # "mul320" /\ bench # "mul352"
      BY <3>4
    <3>5. QED
      BY <3>2, <3>3, <3>4
  <2>4. QED
    BY <2>1, <2>2, <2>3
<1>3. op1 \in Number(n) /\ op2 \in Number(n)
  BY <1>1, <1>2, WordsAreNumber
<1>4. product \in Number(2 * n)
  BY BaseFacts DEF BenchInit, Number, Word
<1>5. QED
  BY <1>3, <1>4 DEF BenchInit, BenchInv, ProductExact

(***************************************************************************)
(* The high half of a product is a factor again.                           *)
(***************************************************************************)
LEMMA UpperHalf ==
  ASSUME NEW n \in Nat, NEW p \in Number(2 * n)
  PROVE  [i \in 0 .. n - 1 |-> p[i + n]] \in Number(n)
<1>1. \A i \in 0 .. n - 1 : i + n \in 0 .. 2 * n - 1
  OBVIOUS
<1>2. QED
  BY <1>1 DEF Number

(***************************************************************************)
(* Every kernel keeps the invariant, if what it scans has the value of the *)
(* product.                                                                *)
(***************************************************************************)
LEMMA RepeatKeepsInv ==
  ASSUME BenchInv, NEW scan, Repeat(scan), scan \in Number(2 * BenchSize(bench)),
         ValueOf(scan, 2 * BenchSize(bench))
            = ValueOf(op1, BenchSize(bench))
                * ValueOf(IF bench \in {"sqr320", "sqr352"} THEN op1 ELSE op2,
                          BenchSize(bench))
  PROVE  BenchInv'
<1> DEFINE n == BenchSize(bench)
<1>1. n \in Nat
  BY BenchSizes
<1>2. /\ product' = scan /\ factor' = op1 /\ bench' = bench /\ op2' = op2
      /\ repeatNum' = repeatNum + 1 /\ BenchSize(bench)' = n
      /\ op1' = [i \in DOMAIN op1 |-> scan[i + n]]
  BY DEF Repeat, BenchSize
<1>3. DOMAIN op1 = 0 .. n - 1
  BY DEF BenchInv, Number
<1>4. op1' \in Number(n)
  BY <1>1, <1>2, <1>3, UpperHalf
<1>5. ProductExact'
  BY <1>2 DEF ProductExact
<1>6. QED
  BY <1>2, <1>4, <1>5 DEF BenchInv

LEMMA BenchInvInductive ==
  ASSUME BenchInv, [BenchNext]_benchVars
  PROVE  BenchInv'
<1>1. CASE squareBenchmark320
  <2>1. bench = "sqr320" /\ BenchSize(bench) = Size320 /\ op1 \in Number(Size320)
    BY <1>1 DEF squareBenchmark320, BenchSize, BenchInv
  <2>2. /\ sqrProductScan320(op1) \in Number(2 * Size320)
        /\ ValueOf(sqrProductScan320(op1), 2 * Size320)
              = ValueOf(op1, Size320) * ValueOf(op1, Size320)
    BY <2>1, BaseFacts, SquareScanExact DEF sqrProductScan320
  <2>3. QED
    BY <1>1, <2>1, <2>2, RepeatKeepsInv DEF squareBenchmark320
<1>2. CASE squareBenchmark352
  <2>1. bench = "sqr352" /\ BenchSize(bench) = Size352 /\ op1 \in Number(Size352)
    BY <1>2 DEF squareBenchmark352, BenchSize, BenchInv
  <2>2. /\ sqrProductScan352(op1) \in Number(2 * Size352)
        /\ ValueOf(sqrProductScan352(op1), 2 * Size352)
              = ValueOf(op1, Size352) * ValueOf(op1, Size352)
    BY <2>1, BaseFacts, SquareScanExact DEF sqrProductScan352
  <2>3. QED
    BY <1>2, <2>1, <2>2, RepeatKeepsInv DEF squareBenchmark352
<1>3. CASE multiplyBenchmark320
  <2>1. /\ bench = "mul320" /\ BenchSize(bench) = Size320
        /\ op1 \in Number(Size320) /\ op2 \in Number(Size320)
    BY <1>3 DEF multiplyBenchmark320, BenchSize, BenchInv
  <2>2. /\ mulProductScan320to320(op1, op2) \in Number(2 * Size320)
        /\ ValueOf(mulProductScan320to320(op1, op2), 2 * Size320)
              = ValueOf(op1, Size320) * ValueOf(op2, Size320)
    <3>1. Size320 \in Nat /\ Size320 > 0 /\ 2 * Size320 \in Nat
          /\ Size320 + Size320 <= 2 * Size320
      BY BaseFacts
    <3>2. QED
      BY <2>1, <3>1, BaseFacts, ProductScanExact DEF mulProductScan320to320
  <2>3. QED
    BY <1>3, <2>1, <2>2, RepeatKeepsInv DEF multiplyBenchmark320
<1>4. CASE multiplyBenchmark352
  <2>1. /\ bench = "mul352" /\ BenchSize(bench) = Size352
        /\ op1 \in Number(Size352) /\ op2 \in Number(Size352)
    BY <1>4 DEF multiplyBenchmark352, BenchSize, BenchInv
  <2>2. /\ mulProductScan352to352(op1, op2) \in Number(2 * Size352)
        /\ ValueOf(mulProductScan352to352(op1, op2), 2 * Size352)
              = ValueOf(op1, Size352) * ValueOf(op2, Size352)
    <3>1. Size352 \in Nat /\ Size352 > 0 /\ 2 * Size352 \in Nat
          /\ Size352 + Size352 <= 2 * Size352
      BY BaseFacts
    <3>2. QED
      BY <2>1, <3>1, BaseFacts, ProductScanExact DEF mulProductScan352to352
  <2>3. QED
    BY <1>4, <2>1, <2>2, RepeatKeepsInv DEF multiplyBenchmark352
<1>5. CASE UNCHANGED benchVars
  BY <1>5 DEF benchVars, BenchInv, ProductExact, BenchSize
<1>6. QED
  BY <1>1, <1>2, <1>3, <1>4, <1>5 DEF BenchNext

(***************************************************************************)
(* What the host compares with GMP: every product of the benchmark kernels *)
(* is the product of its factors.                                          *)
(***************************************************************************)
THEOREM ProductsExact == BenchSpec => []ProductExact
<1>1. BenchInit => BenchInv
  BY InitBenchInv
<1>2. BenchInv /\ [BenchNext]_benchVars => BenchInv'
  BY BenchInvInductive
<1>3. BenchInv => ProductExact
  BY DEF BenchInv
<1>4. QED
  BY <1>1, <1>2, <1>3, PTL DEF BenchSpec

-----------------------------------------------------------------------------
(***************************************************************************)
(* The division of the Fermat kernels, in terms of the values of its       *)
(* numbers: T is the weight of the divisor's words, W that of its top one. *)
(***************************************************************************)
LEMMA RestIs ==
  ASSUME NEW T \in Nat, T > 0, NEW x \in 0 .. T - 1, NEW y \in Int, NEW k \in Int, y = x + k * T
  PROVE  y % T = x
<1>1. y % T \in 0 .. T - 1 /\ Cong(y % T, y, T)
  BY CongModulo
<1>2. Cong(y, x, T)
  BY CongMultiple
<1>3. Cong(y % T, x, T)
  BY <1>1, <1>2, CongJoin
<1>4. QED
  BY <1>1, <1>3, CongUnique

\* Quotient and rest are unique.
LEMMA QuotientIs ==
  ASSUME NEW T \in Nat, T > 0, NEW a \in 0 .. T - 1, NEW b \in 0 .. T - 1,
         NEW h \in Int, NEW k \in Int, a + h * T = b + k * T
  PROVE  a = b /\ h = k
<1>1. b = a + (h - k) * T
  <2>1. (h - k) * T = h * T - k * T
    OBVIOUS
  <2>2. h * T \in Int /\ k * T \in Int
    OBVIOUS
  <2>3. QED
    BY <2>1, <2>2
<1>2. a = b
  <2> DEFINE c == h - k
  <2>1. a \in Int /\ b \in Int /\ c \in Int /\ T \in Int /\ b = a + c * T
    BY <1>1
  <2> HIDE DEF c
  <2>2. Cong(b, a, T)
    BY <2>1, CongMultiple
  <2>3. QED
    BY <2>2, CongUnique
<1>3. h = k
  <2>1. SUFFICES ASSUME h # k PROVE FALSE
    BY <1>2
  <2>2. (h - k) * T = 0
    <3>1. (h - k) * T \in Int
      OBVIOUS
    <3>2. QED
      BY <1>1, <1>2, <3>1
  <2>3. \A x \in Int : x # 0 /\ x * T = 0 => FALSE
    <3>1. ASSUME NEW x \in Int, x > 0 PROVE x * T >= T
      <4>1. PICK d \in Nat : x = 1 + d
        BY <3>1
      <4>2. (1 + d) * T = T + d * T /\ d * T \in Nat
        OBVIOUS
      <4>3. QED
        BY <4>1, <4>2
    <3>2. ASSUME NEW x \in Int, x < 0 PROVE x * T <= -T
      <4>1. PICK d \in Nat : x = -1 - d
        BY <3>2
      <4>2. (-1 - d) * T = -T - d * T /\ d * T \in Nat
        OBVIOUS
      <4>3. QED
        BY <4>1, <4>2
    <3>3. QED
      BY <3>1, <3>2
  <2>4. QED
    BY <2>1, <2>2, <2>3
<1>4. QED
  BY <1>2, <1>3

\* The estimate of a word of the quotient: never too small, and at most two too
\* large, because the divisor's top word has its highest bit.
LEMMA EstimateIsNear ==
  ASSUME NEW W \in Nat, W >= 1, NEW D \in Nat, NEW R \in Nat, R < D,
         NEW d1 \in Word, 2 * d1 >= B, NEW dd \in 0 .. W - 1, D = d1 * W + dd,
         NEW r1 \in Word, NEW r0 \in Word, r1 * W <= R,
         NEW z \in 0 .. W - 1, R * B = (r1 * B + r0) * W + z,
         NEW g, g = IF r1 = d1 THEN B - 1 ELSE ((r1 * B + r0) \div d1) % B
  PROVE  /\ g \in Word
         /\ R * B - g * D < D
         /\ R * B - g * D > W - B * W
         /\ R * B - g * D + 2 * D >= 0
<1>1. B \in Nat /\ B >= 2 /\ d1 \in Nat /\ d1 >= 1 /\ d1 < B /\ r1 \in Nat /\ r0 \in Nat /\ r0 < B
      /\ W \in Nat /\ dd \in Nat /\ dd < W /\ z \in Nat /\ z < W
  BY BaseFacts DEF Word
<1> DEFINE T == B * W
           P == d1 * W
<1>2. T \in Nat /\ P \in Nat /\ P >= W /\ 2 * P >= T /\ T >= 2 * W
  <2>1. T \in Nat /\ P \in Nat
    BY <1>1
  <2>2. P >= W
    <3>1. PICK x \in Nat : d1 = 1 + x
      BY <1>1
    <3>2. (1 + x) * W = W + x * W /\ x * W \in Nat
      BY <1>1
    <3>3. QED
      BY <2>1, <3>1, <3>2
  <2>3. 2 * P >= T
    <3>1. PICK x \in Nat : 2 * d1 = B + x
      BY <1>1
    <3>2. (B + x) * W = B * W + x * W /\ x * W \in Nat
      BY <1>1
    <3>3. 2 * (d1 * W) = (2 * d1) * W
      BY <1>1
    <3>4. QED
      BY <2>1, <3>1, <3>2, <3>3
  <2>4. T >= 2 * W
    <3>1. PICK x \in Nat : B = 2 + x
      BY <1>1
    <3>2. (2 + x) * W = 2 * W + x * W /\ x * W \in Nat
      BY <1>1
    <3>3. QED
      BY <2>1, <3>1, <3>2
  <2>5. QED
    BY <2>1, <2>2, <2>3, <2>4
<1>3. D = P + dd
  OBVIOUS
<1>4. CASE r1 = d1
  <2>1. g = B - 1 /\ g \in Word
    BY <1>1, <1>4 DEF Word
  <2>2. R >= P
    BY <1>4
  <2> HIDE DEF T, P
  <2>3. PICK a \in Nat : D = R + a /\ a >= 1 /\ a <= W - 1
    <3>1. D - R \in Nat /\ D = R + (D - R) /\ D - R >= 1 /\ D - R <= W - 1
      BY <1>1, <1>2, <1>3, <2>2
    <3>2. QED
      BY <3>1
  <2>4. R * B - g * D = D - B * a
    <3>1. (B - 1) * (R + a) = B * R + B * a - (R + a) /\ R * B = B * R
      BY <1>1
    <3>2. B * R \in Nat /\ B * a \in Nat
      BY <1>1
    <3>3. g * D = B * R + B * a - D
      BY <2>1, <2>3, <3>1
    <3>4. QED
      BY <3>1, <3>2, <3>3
  <2>5. B * a >= 1 /\ B * a <= T - B /\ B * a \in Nat
    <3>1. PICK x \in Nat : a = 1 + x
      BY <2>3
    <3>2. B * (1 + x) = B + B * x /\ B * x \in Nat
      BY <1>1
    <3>3. PICK y \in Nat : W - 1 = a + y
      <4>1. (W - 1) - a \in Nat /\ W - 1 = a + ((W - 1) - a)
        BY <1>1, <2>3
      <4>2. QED
        BY <4>1
    <3>4. B * (W - 1) = B * W - B /\ B * (a + y) = B * a + B * y /\ B * y \in Nat
          /\ B * W \in Nat /\ B * a \in Nat
      BY <1>1
    <3>5. QED
      BY <1>1, <3>1, <3>2, <3>3, <3>4 DEF T
  <2>6. R * B - g * D < D /\ R * B - g * D > W - T /\ R * B - g * D + 2 * D >= 0
    BY <1>1, <1>2, <1>3, <2>4, <2>5
  <2>7. QED
    BY <2>1, <2>6 DEF T
<1>5. CASE r1 # d1
  <2> DEFINE x == r1 * B + r0
             g0 == x \div d1
  <2>1. r1 < d1
    <3>1. SUFFICES ASSUME r1 > d1 PROVE FALSE
      BY <1>1, <1>5
    <3>2. PICK y \in Nat : r1 = d1 + 1 + y
      <4>1. r1 - d1 - 1 \in Nat /\ r1 = d1 + 1 + (r1 - d1 - 1)
        BY <1>1, <3>1
      <4>2. QED
        BY <4>1
    <3>3. (d1 + 1 + y) * W = d1 * W + W + y * W /\ y * W \in Nat
      BY <1>1
    <3>4. r1 * W >= P + W
      BY <1>2, <3>2, <3>3
    <3>5. QED
      BY <1>1, <1>2, <1>3, <3>4
  <2>2. x \in Nat /\ x < d1 * B
    <3>1. PICK y \in Nat : d1 = r1 + 1 + y
      <4>1. d1 - r1 - 1 \in Nat /\ d1 = r1 + 1 + (d1 - r1 - 1)
        BY <1>1, <2>1
      <4>2. QED
        BY <4>1
    <3>2. (r1 + 1 + y) * B = r1 * B + B + y * B /\ y * B \in Nat /\ r1 * B \in Nat
      BY <1>1
    <3>3. QED
      BY <1>1, <3>1, <3>2
  <2>3. g0 \in Nat /\ x % d1 \in 0 .. d1 - 1 /\ x = d1 * g0 + (x % d1)
    <3> HIDE DEF x
    <3>1. QED
      BY <1>1, <2>2, Division
  <2>4. g0 < B
    <3> HIDE DEF x
    <3>1. B * d1 = d1 * B
      BY <1>1
    <3>2. x < B * d1
      BY <2>2, <3>1
    <3>3. QED
      BY <1>1, <2>2, <3>2, SmallQuotient
  <2>5. g = g0
    <3>1. g = g0 % B
      BY <1>5
    <3> HIDE DEF g0
    <3>2. g0 \in 0 .. B - 1 /\ g0 \in Int /\ g0 = g0 + 0 * B /\ B > 0
      BY <1>1, <2>3, <2>4
    <3>3. g0 % B = g0
      BY <1>1, <3>2, RestIs
    <3>4. QED
      BY <3>1, <3>3
  <2> DEFINE s == x % d1
  <2>6. R * B = x * W + z
    OBVIOUS
  <2>7. x = d1 * g + s /\ s \in Nat /\ s <= d1 - 1 /\ g \in Nat /\ g <= B - 1
    <3>1. s \in 0 .. d1 - 1 /\ x = d1 * g0 + s
      BY <2>3
    <3> HIDE DEF g0, x, s
    <3>2. QED
      BY <1>1, <2>3, <2>4, <2>5, <3>1
  <2> HIDE DEF g0, x, s
  <2>8. R * B - g * D = s * W + z - g * dd
    <3>1. (d1 * g + s) * W = g * (d1 * W) + s * W
      BY <1>1, <2>7
    <3>2. g * (P + dd) = g * P + g * dd
      BY <1>1, <1>2, <2>7
    <3>3. g * P \in Nat /\ g * dd \in Nat /\ s * W \in Nat
      BY <1>1, <1>2, <2>7
    <3>4. R * B = g * P + s * W + z
      BY <2>7, <2>6, <3>1
    <3>5. g * D = g * P + g * dd
      BY <1>3, <3>2
    <3> HIDE DEF P
    <3>6. QED
      BY <1>1, <3>3, <3>4, <3>5
  <2>9. s * W <= P - W /\ s * W \in Nat
    <3>1. PICK y \in Nat : d1 - 1 = s + y
      <4>1. (d1 - 1) - s \in Nat /\ d1 - 1 = s + ((d1 - 1) - s)
        BY <1>1, <2>7
      <4>2. QED
        BY <4>1
    <3>2. (d1 - 1) * W = d1 * W - W /\ (s + y) * W = s * W + y * W /\ y * W \in Nat
          /\ s * W \in Nat
      BY <1>1, <2>7
    <3>3. QED
      BY <1>1, <3>1, <3>2
  <2>10. g * dd <= T - W - B + 1 /\ g * dd \in Nat
    <3>1. PICK y \in Nat : B - 1 = g + y
      <4>1. (B - 1) - g \in Nat /\ B - 1 = g + ((B - 1) - g)
        BY <1>1, <2>7
      <4>2. QED
        BY <4>1
    <3>2. PICK v \in Nat : W - 1 = dd + v
      <4>1. (W - 1) - dd \in Nat /\ W - 1 = dd + ((W - 1) - dd)
        BY <1>1
      <4>2. QED
        BY <4>1
    <3>3. (B - 1) * (W - 1) = B * W - W - B + 1
      BY <1>1
    <3>4. (g + y) * (dd + v) = g * dd + g * v + y * dd + y * v
      BY <1>1, <2>7
    <3>5. g * dd \in Nat /\ g * v \in Nat /\ y * dd \in Nat /\ y * v \in Nat
      BY <1>1, <2>7
    <3>6. g * dd + g * v + y * dd + y * v = T - W - B + 1
      BY <3>1, <3>2, <3>3, <3>4
    <3> HIDE DEF T
    <3>7. QED
      BY <1>1, <1>2, <3>5, <3>6
  <2>11. R * B - g * D < D /\ R * B - g * D > W - T /\ R * B - g * D + 2 * D >= 0
    <3> HIDE DEF T, P
    <3>1. QED
      BY <1>1, <1>2, <1>3, <2>8, <2>9, <2>10
  <2>12. g \in Word
    BY <1>1, <2>7 DEF Word
  <2>13. QED
    BY <2>11, <2>12 DEF T
<1>6. QED
  BY <1>4, <1>5

\* The words of the difference tell whether the estimate was too large.
LEMMA DifferenceTells ==
  ASSUME NEW T \in Nat, T >= 1, NEW W \in Nat, W >= 1, W <= T, NEW d \in Int, d > W - T, d < T,
         NEW l \in 0 .. T - 1, NEW h \in Word, NEW b \in 0 .. 3,
         l + h * T = d + b * (B * T)
  PROVE  /\ h = 0 <=> d >= 0
         /\ d >= 0 => l = d
         /\ d < 0 => l = T + d
<1>1. B \in Nat /\ B >= 2 /\ h \in Nat /\ h <= B - 1 /\ l \in Nat /\ l <= T - 1
  BY BaseFacts DEF Word
<1> DEFINE M == B * T
<1>2. M \in Nat /\ M >= T /\ l + h * T < M /\ l + h * T >= 0
  <2>1. PICK x \in Nat : B = 1 + x
    BY <1>1
  <2>2. (1 + x) * T = T + x * T /\ x * T \in Nat
    BY <1>1
  <2>3. PICK y \in Nat : B - 1 = h + y
    <3>1. (B - 1) - h \in Nat /\ B - 1 = h + ((B - 1) - h)
      BY <1>1
    <3>2. QED
      BY <3>1
  <2>4. (h + y) * T = h * T + y * T /\ y * T \in Nat /\ h * T \in Nat
    BY <1>1
  <2>5. (B - 1) * T = M - T /\ M \in Nat
    BY <1>1
  <2>6. QED
    BY <1>1, <2>1, <2>2, <2>3, <2>4, <2>5
<1>3. l + h * T = d + b * M
  OBVIOUS
<1> DEFINE V == l + h * T
<1>4. V = d + b * M /\ V < M /\ V >= 0 /\ V \in Int
  BY <1>2, <1>3
<1>5. b \in {0, 1, 2, 3}
  OBVIOUS
<1>6. CASE d >= 0
  <2>1. V = d
    <3> HIDE DEF V, M
    <3>1. b = 0
      BY <1>2, <1>4, <1>5, <1>6
    <3>2. 0 * M = 0
      BY <1>2
    <3>3. QED
      BY <1>4, <3>1, <3>2
  <2>2. l + h * T = d + 0 * T
    <3>1. 0 * T = 0
      OBVIOUS
    <3>2. QED
      BY <2>1, <3>1
  <2>3. d \in 0 .. T - 1 /\ h \in Int /\ T > 0
    BY <1>1, <1>6
  <2>4. l = d /\ h = 0
    BY <2>2, <2>3, QuotientIs
  <2>5. QED
    BY <1>6, <2>4
<1>7. CASE d < 0
  <2>1. V = d + M
    <3> HIDE DEF V, M
    <3>1. b = 1
      BY <1>2, <1>4, <1>5, <1>7
    <3>2. 1 * M = M
      BY <1>2
    <3>3. QED
      BY <1>4, <3>1, <3>2
  <2>2. l + h * T = (T + d) + (B - 1) * T
    <3>1. (B - 1) * T = M - T
      BY <1>1
    <3> HIDE DEF M
    <3>2. QED
      BY <1>2, <2>1, <3>1
  <2>3. T + d \in 0 .. T - 1 /\ h \in Int /\ T > 0 /\ B - 1 \in Int
    BY <1>1, <1>7
  <2>4. l = T + d /\ h = B - 1
    <3> DEFINE c == T + d
               k == B - 1
    <3>1. c \in 0 .. T - 1 /\ h \in Int /\ k \in Int /\ T > 0 /\ l + h * T = c + k * T
      BY <2>2, <2>3
    <3> HIDE DEF c, k
    <3>2. l = c /\ h = k
      BY <3>1, QuotientIs
    <3>3. QED
      BY <3>2 DEF c, k
  <2>5. QED
    BY <1>1, <1>7, <2>4
<1>8. QED
  BY <1>6, <1>7

\* The sum after one correction tells whether a second one is needed.
LEMMA SumTells ==
  ASSUME NEW T \in Nat, NEW W \in Nat, W >= 1, NEW D \in Nat, D < T, 2 * D >= T,
         NEW d \in Int, d > W - T, d < 0, d + 2 * D >= 0,
         NEW once \in 0 .. T - 1, once = ((T + d) + D) % T,
         NEW t1 \in Nat, NEW x \in 0 .. W - 1, once = x + t1 * W,
         NEW d1 \in Nat, NEW dd \in 0 .. W - 1, D = dd + d1 * W
  PROVE  /\ t1 > d1 <=> d + D < 0
         /\ d + D >= 0 => once = d + D
         /\ d + D < 0 => (once + D) % T = d + 2 * D
<1>1. T > 0 /\ D > 0
  OBVIOUS
<1>2. \A a, b \in Nat : a > b => a * W >= b * W + W
  <2>1. ASSUME NEW a \in Nat, NEW b \in Nat, a > b PROVE a * W >= b * W + W
    <3>1. PICK y \in Nat : a = b + 1 + y
      <4>1. a - b - 1 \in Nat /\ a = b + 1 + (a - b - 1)
        BY <2>1
      <4>2. QED
        BY <4>1
    <3>2. (b + 1 + y) * W = b * W + W + y * W /\ y * W \in Nat /\ b * W \in Nat
      OBVIOUS
    <3>3. QED
      BY <3>1, <3>2
  <2>2. QED
    BY <2>1
<1> DEFINE p == t1 * W
           r == d1 * W
<1>3. p \in Nat /\ r \in Nat /\ once = x + p /\ D = dd + r
      /\ (t1 > d1 => p >= r + W) /\ (d1 > t1 => r >= p + W) /\ (t1 = d1 => p = r)
  BY <1>2
<1>4. CASE d + D >= 0
  <2>1. d + D \in 0 .. T - 1 /\ (T + d) + D = (d + D) + 1 * T
    BY <1>4
  <2>2. once = d + D
    BY <1>1, <2>1, RestIs
  <2> HIDE DEF p, r
  <2>3. ~(t1 > d1)
    BY <1>3, <2>2
  <2>4. QED
    BY <1>4, <2>2, <2>3
<1>5. CASE d + D < 0
  <2>1. (T + d) + D \in 0 .. T - 1 /\ (T + d) + D = ((T + d) + D) + 0 * T
    BY <1>5
  <2>2. once = (T + d) + D
    BY <1>1, <2>1, RestIs
  <2>3. t1 > d1
    <3> HIDE DEF p, r
    <3>1. QED
      BY <1>3, <2>2
  <2>4. d + 2 * D \in 0 .. T - 1 /\ once + D = (d + 2 * D) + 1 * T
    BY <1>5, <2>2
  <2>5. (once + D) % T = d + 2 * D
    BY <1>1, <2>4, RestIs
  <2>6. QED
    BY <1>5, <2>3, <2>5
<1>6. QED
  BY <1>4, <1>5

-----------------------------------------------------------------------------
\* Sizes of the window and of the division's registers.
LEMMA ExtraFacts ==
    /\ pow2ws \in Nat /\ pow2ws >= 2
    /\ Extra \in Nat /\ Extra >= 2
    /\ pow2ws = WordBits * (Extra - 1)
    /\ QuotientWords = Extra + 1 /\ QuotientSize = Extra + 3
<1>1. WordBits \in Nat /\ WordBits >= 4
  BY WordAssumption
<1>2. windowSize \in Nat /\ windowSize >= 1 /\ pow2ws = Pow2[windowSize] /\ pow2ws % WordBits = 0
  BY <1>1, WindowAssumption DEF pow2ws
<1>3. pow2ws \in Nat /\ pow2ws >= 2
  <2>1. Pow2[1] <= Pow2[windowSize]
    BY <1>2, Pow2Grows
  <2>2. Pow2[0 + 1] = 2 * Pow2[0] /\ Pow2[0] = 1 /\ Pow2[windowSize] \in Nat
    BY <1>2, Pow2Facts
  <2>3. QED
    BY <1>2, <2>1, <2>2
<1> DEFINE k == pow2ws \div WordBits
<1>4. k \in Nat /\ pow2ws = WordBits * k + (pow2ws % WordBits)
  BY <1>1, <1>3, Division
<1>5. Extra = k + 1 /\ QuotientWords = Extra + 1 /\ QuotientSize = Extra + 3
  BY DEF Extra, QuotientWords, QuotientSize
<1> HIDE DEF k
<1>6. k # 0
  <2>1. WordBits * 0 = 0
    BY <1>1
  <2>2. QED
    BY <1>2, <1>3, <1>4, <2>1
<1>7. Extra - 1 = k
  BY <1>4, <1>5
<1>8. QED
  BY <1>1, <1>2, <1>3, <1>4, <1>5, <1>6, <1>7

\* The top words of a dividend, and the dividend with these replaced.
LEMMA TopWords ==
  ASSUME NEW n \in Nat, NEW a \in Number(n + Extra)
  PROVE  Top(a, n) \in Number(n)
<1>1. \A i \in 0 .. n - 1 : Extra + i \in 0 .. (n + Extra) - 1
  BY ExtraFacts
<1>2. QED
  BY <1>1 DEF Top, Number

\* Replacing the top words leaves those below as they were.
LEMMA TopReplaced ==
  ASSUME NEW n \in Nat, NEW a \in Number(n + Extra), NEW t \in Number(n)
  PROVE  /\ WithTop(a, t) \in Number(n + Extra)
         /\ \A i \in 0 .. Extra - 1 : WithTop(a, t)[i] = a[i]
         /\ Top(WithTop(a, t), n) = t
<1>1. Extra \in Nat
  BY ExtraFacts
<1>2. DOMAIN a = 0 .. (n + Extra) - 1
  BY DEF Number
<1>3. \A i \in 0 .. (n + Extra) - 1 : i >= Extra => i - Extra \in 0 .. n - 1
  BY <1>1
<1>4. WithTop(a, t) = [i \in 0 .. (n + Extra) - 1 |-> IF i < Extra THEN a[i] ELSE t[i - Extra]]
  BY <1>2 DEF WithTop
<1>5. WithTop(a, t) \in Number(n + Extra)
  <2>1. ASSUME NEW i \in 0 .. (n + Extra) - 1
        PROVE  (IF i < Extra THEN a[i] ELSE t[i - Extra]) \in Word
    <3>1. a[i] \in Word
      BY DEF Number
    <3>2. i >= Extra => t[i - Extra] \in Word
      BY <1>3 DEF Number
    <3>3. QED
      BY <1>1, <3>1, <3>2
  <2>2. QED
    BY <1>4, <2>1 DEF Number
<1>6. \A i \in 0 .. Extra - 1 : WithTop(a, t)[i] = a[i]
  BY <1>1, <1>4
<1>7. \A i \in 0 .. n - 1 : WithTop(a, t)[Extra + i] = t[i]
  <2>1. \A i \in 0 .. n - 1 : /\ Extra + i \in 0 .. (n + Extra) - 1 /\ ~(Extra + i < Extra)
                              /\ (Extra + i) - Extra = i
    BY <1>1
  <2>2. QED
    BY <1>4, <2>1
<1>8. Top(WithTop(a, t), n) = t
  BY <1>7 DEF Top, Number
<1>9. QED
  BY <1>5, <1>6, <1>8

\* A cycle's difference, and the dividend moved up by a word.
Difference(n) == subMul([i \in 0 .. n |-> dv[Extra - 1 + i]], ds, Estimate(n), n)
\* The dividend moved up by a word, with the difference in its top words.
Moved(n) ==
    [i \in DOMAIN dv |-> IF i = 0 THEN 0
                         ELSE IF i < Extra THEN dv[i - 1] ELSE Difference(n)[i - Extra]]

\* Dividend and divisor between two cycles: the words of the dividend below its
\* top n are zero, the divisor has its highest bit.
Dividing(n) ==
    /\ ds \in Number(n) /\ 2 * ds[n - 1] >= B
    /\ dv \in Number(n + Extra) /\ \A i \in 0 .. Extra - 1 : dv[i] = 0
    /\ ValueOf(Top(dv, n), n) < ValueOf(ds, n)

\* The words from which a cycle estimates are the topmost of the numbers.
LEMMA TopOfNumber ==
  ASSUME NEW n \in Nat \ {0}, NEW a \in Number(n)
  PROVE  /\ a[n - 1] \in Word /\ Weight[n - 1] \in Nat /\ Weight[n - 1] >= 1
         /\ Weight[n] = B * Weight[n - 1]
         /\ ValueOf(a, n - 1) \in 0 .. Weight[n - 1] - 1
         /\ ValueOf(a, n) = ValueOf(a, n - 1) + a[n - 1] * Weight[n - 1]
<1>1. n - 1 \in Nat /\ (n - 1) + 1 = n
  OBVIOUS
<1>2. Words(a, (n - 1) + 1)
  BY <1>1 DEF Words, Number
<1> DEFINE k == n - 1
<1>3. k \in Nat /\ Words(a, k + 1) /\ k + 1 = n
  BY <1>1, <1>2
<1> HIDE DEF k
<1>4. /\ ValueOf(a, k) \in 0 .. Weight[k] - 1 /\ a[k] \in Word
      /\ ValueOf(a, k + 1) = ValueOf(a, k) + a[k] * Weight[k]
  BY <1>3, ValueNext
<1>5. Weight[k] \in Nat /\ Weight[k] >= 1 /\ Weight[k + 1] = B * Weight[k]
  BY <1>3, WeightFacts
<1>6. QED
  BY <1>3, <1>4, <1>5 DEF k

\* The estimate of a cycle is at most two too large, and never too small.
LEMMA EstimateExact ==
  ASSUME NEW n \in Nat \ {0, 1}, Dividing(n)
  PROVE  LET R == ValueOf(Top(dv, n), n)
             D == ValueOf(ds, n)
             d == R * B - Estimate(n) * D
         IN  /\ Estimate(n) \in Word
             /\ d < D /\ d > Weight[n - 1] - Weight[n] /\ d + 2 * D >= 0
<1> DEFINE t == Top(dv, n)
           W == Weight[n - 1]
           W2 == Weight[n - 2]
           R == ValueOf(t, n)
           D == ValueOf(ds, n)
           r1 == t[n - 1]
           r0 == t[n - 2]
           d1 == ds[n - 1]
           y == ValueOf(t, n - 2)
           z == B * y
           dd == ValueOf(ds, n - 1)
           g == Estimate(n)
<1>1. n \in Nat \ {0} /\ n - 2 \in Nat /\ (n - 2) + 1 = n - 1 /\ B \in Nat /\ B >= 2
  BY BaseFacts
<1>2. ds \in Number(n) /\ dv \in Number(n + Extra) /\ t \in Number(n) /\ 2 * d1 >= B /\ R < D
  BY <1>1, TopWords DEF Dividing
<1>3. g = IF r1 = d1 THEN B - 1 ELSE ((r1 * B + r0) \div d1) % B
  <2>1. Extra \in Nat
    BY ExtraFacts
  <2>2. n - 1 \in 0 .. n - 1 /\ n - 2 \in 0 .. n - 1
    BY <1>1
  <2>3. Extra + (n - 1) = n + Extra - 1 /\ Extra + (n - 2) = n + Extra - 1 - 1
    BY <1>1, <2>1
  <2>4. r1 = dv[n + Extra - 1] /\ r0 = dv[n + Extra - 1 - 1]
    BY <2>2, <2>3 DEF Top
  <2>5. g = IF dv[n + Extra - 1] = d1 THEN B - 1
            ELSE ((dv[n + Extra - 1] * B + dv[n + Extra - 1 - 1]) \div d1) % B
    BY <1>1, <2>1 DEF Estimate
  <2> HIDE DEF r1, r0, g, d1
  <2>6. QED
    BY <2>4, <2>5
<1> HIDE DEF t
<1>4. /\ d1 \in Word /\ W \in Nat /\ W >= 1 /\ Weight[n] = B * W
      /\ dd \in 0 .. W - 1 /\ D = dd + d1 * W
  BY <1>1, <1>2, TopOfNumber
<1>5. /\ r1 \in Word /\ ValueOf(t, n - 1) \in 0 .. W - 1 /\ R = ValueOf(t, n - 1) + r1 * W
  BY <1>1, <1>2, TopOfNumber
<1>6. /\ y \in 0 .. W2 - 1 /\ r0 \in Word /\ ValueOf(t, n - 1) = y + r0 * W2
      /\ W2 \in Nat /\ W2 >= 1 /\ W = B * W2
  <2> DEFINE k == n - 2
  <2>1. k \in Nat /\ k + 1 = n - 1 /\ Words(t, k + 1)
    BY <1>1, <1>2 DEF Words, Number
  <2> HIDE DEF k
  <2>2. /\ ValueOf(t, k) \in 0 .. Weight[k] - 1 /\ t[k] \in Word
        /\ ValueOf(t, k + 1) = ValueOf(t, k) + t[k] * Weight[k]
    BY <2>1, ValueNext
  <2>3. Weight[k] \in Nat /\ Weight[k] >= 1 /\ Weight[k + 1] = B * Weight[k]
    BY <2>1, WeightFacts
  <2>4. QED
    BY <2>1, <2>2, <2>3 DEF k
<1> DEFINE V == ValueOf(t, n - 1)
<1>7. V \in Nat /\ V < W /\ V = y + r0 * W2 /\ R = V + r1 * W /\ D = d1 * W + dd
  <2> HIDE DEF W, W2, y, r0, r1, d1, R, D, dd
  <2>1. V \in Nat /\ V < W /\ V = y + r0 * W2 /\ R = V + r1 * W
    BY <1>4, <1>5, <1>6
  <2>2. d1 * W \in Nat /\ dd \in Nat /\ D = dd + d1 * W
    BY <1>1, <1>4 DEF Word
  <2>3. QED
    BY <2>1, <2>2
<1> HIDE DEF W, W2, V, y, r0, r1, d1, R, D, dd, g
<1>8. /\ W \in Nat /\ W2 \in Nat /\ r0 \in Nat /\ r1 \in Nat /\ y \in Nat /\ y <= W2 - 1
      /\ dd \in Nat /\ d1 \in Nat
  BY <1>1, <1>4, <1>5, <1>6 DEF Word
<1>9. r1 * W <= R /\ R \in Nat /\ D \in Nat
  <2>1. r1 * W \in Nat /\ d1 * W \in Nat
    BY <1>8
  <2>2. QED
    BY <1>7, <1>8, <2>1
<1>10. z \in 0 .. W - 1
  <2>1. PICK x \in Nat : W2 = y + 1 + x
    <3>1. W2 - 1 - y \in Nat /\ W2 = y + 1 + (W2 - 1 - y)
      BY <1>8
    <3>2. QED
      BY <3>1
  <2>2. B * (y + 1 + x) = B * y + B + B * x /\ B * x \in Nat /\ B * y \in Nat
    BY <1>1, <1>8
  <2>3. QED
    BY <1>1, <1>6, <1>8, <2>1, <2>2
<1>11. R * B = (r1 * B + r0) * W + z
  <2>1. (V + r1 * W) * B = V * B + (r1 * B) * W
    BY <1>1, <1>7, <1>8
  <2>2. (y + r0 * W2) * B = B * y + r0 * (B * W2)
    BY <1>1, <1>8
  <2>3. (r1 * B + r0) * W = (r1 * B) * W + r0 * W
    BY <1>1, <1>8
  <2>4. (r1 * B) * W \in Nat /\ r0 * W \in Nat /\ B * y \in Nat
    BY <1>1, <1>8
  <2>5. V * B = B * y + r0 * W
    BY <1>6, <1>7, <2>2
  <2>6. R * B = (B * y + r0 * W) + (r1 * B) * W
    BY <1>7, <2>1, <2>5
  <2>7. QED
    BY <2>3, <2>4, <2>6
<1> HIDE DEF z
<1>12. g \in Word /\ R * B - g * D < D /\ R * B - g * D > W - B * W /\ R * B - g * D + 2 * D >= 0
  <2>1. d1 \in Word /\ r1 \in Word /\ r0 \in Word /\ 2 * d1 >= B /\ W >= 1 /\ R < D
        /\ dd \in 0 .. W - 1
    BY <1>2, <1>4, <1>5, <1>6
  <2>2. W \in Nat /\ D \in Nat /\ R \in Nat /\ D = d1 * W + dd /\ r1 * W <= R
    BY <1>7, <1>8, <1>9
  <2>3. QED
    BY <2>1, <2>2, <1>3, <1>10, <1>11, EstimateIsNear
<1>13. QED
  BY <1>4, <1>12 DEF W, R, D, g, t

\* The top words with the divisor added once and twice, and how often a cycle
\* needs it.
Once(n) == add(Top(Moved(n), n), ds, n)
Twice(n) == add(Once(n), ds, n)
Corrections(n) ==
    IF Difference(n)[n] = 0 THEN 0 ELSE IF Once(n)[n - 1] > ds[n - 1] THEN 2 ELSE 1

\* An addition of the divisor that keeps its carries.
AddKept(a, sum, n) == ValueOf(sum, n) = (ValueOf(a, n) + ValueOf(ds, n)) % Weight[n]

\* A cycle that loses no carry, corrected not at all, once or twice.
CycleKept(n) ==
    /\ dv' = CASE Corrections(n) = 0 -> Moved(n)
               [] Corrections(n) = 1 -> WithTop(Moved(n), Once(n))
               [] Corrections(n) = 2 -> WithTop(Moved(n), Twice(n))
    /\ q' = [i \in 0 .. QuotientSize - 1 |->
               IF i = 0 THEN (Estimate(n) - Corrections(n)) % B ELSE q[i - 1]]
    /\ Corrections(n) >= 1 => AddKept(Top(Moved(n), n), Once(n), n)
    /\ Corrections(n) = 2 => AddKept(Once(n), Twice(n), n)

\* A cycle after which no carry is lost lost none itself.
LEMMA CycleParts ==
  ASSUME NEW n, Cycle(n), lost' = {}
  PROVE  lost = {} /\ CycleKept(n)
<1>1. /\ dv' = CASE Corrections(n) = 0 -> Moved(n)
                 [] Corrections(n) = 1 -> WithTop(Moved(n), Once(n))
                 [] Corrections(n) = 2 -> WithTop(Moved(n), Twice(n))
      /\ q' = [i \in 0 .. QuotientSize - 1 |->
                 IF i = 0 THEN (Estimate(n) - Corrections(n)) % B ELSE q[i - 1]]
  BY DEF Cycle, Corrections, Moved, Once, Twice, Difference
<1>2. lost' = IF \/ Corrections(n) >= 1 /\ ~AddKept(Top(Moved(n), n), Once(n), n)
                 \/ Corrections(n) = 2 /\ ~AddKept(Once(n), Twice(n), n)
              THEN lost \union {"add"} ELSE lost
  BY DEF Cycle, Corrections, Moved, Once, Twice, Difference, AddKept
<1>3. lost \union {"add"} # {}
  OBVIOUS
<1>4. /\ lost = {}
      /\ Corrections(n) >= 1 => AddKept(Top(Moved(n), n), Once(n), n)
      /\ Corrections(n) = 2 => AddKept(Once(n), Twice(n), n)
  BY <1>2, <1>3
<1>5. QED
  BY <1>1, <1>4 DEF CycleKept

\* What the difference leaves in the words of the dividend.
LEMMA DifferenceExact ==
  ASSUME NEW n \in Nat \ {0, 1}, Dividing(n)
  PROVE  LET d == ValueOf(Top(dv, n), n) * B - Estimate(n) * ValueOf(ds, n)
         IN  /\ Moved(n) \in Number(n + Extra)
             /\ \A i \in 0 .. Extra - 1 : Moved(n)[i] = 0
             /\ Difference(n)[n] = 0 <=> d >= 0
             /\ d >= 0 => ValueOf(Top(Moved(n), n), n) = d
             /\ d < 0 => ValueOf(Top(Moved(n), n), n) = Weight[n] + d
<1> DEFINE a == [i \in 0 .. n |-> dv[Extra - 1 + i]]
           t == Top(dv, n)
           R == ValueOf(t, n)
           D == ValueOf(ds, n)
           g == Estimate(n)
           d == R * B - g * D
           u == Difference(n)
           T == Weight[n]
           W == Weight[n - 1]
<1>1. n \in Nat /\ n \in Nat \ {0} /\ B \in Nat /\ B >= 2 /\ Extra \in Nat /\ Extra >= 2
      /\ 1 + n = n + 1
  BY BaseFacts, ExtraFacts
<1>2. ds \in Number(n) /\ dv \in Number(n + Extra) /\ t \in Number(n) /\ R < D
      /\ \A i \in 0 .. Extra - 1 : dv[i] = 0
  BY <1>1, TopWords DEF Dividing
<1>3. Words(a, 1 + n) /\ ValueOf(a, 1 + n) = B * R
  <2>1. Words(t, n)
    BY <1>2 DEF Words, Number
  <2>2. a[0] = 0 /\ 0 \in Word
    <3>1. Extra - 1 + 0 \in 0 .. Extra - 1 /\ 0 \in 0 .. n
      BY <1>1
    <3>2. QED
      BY <1>1, <1>2, <3>1 DEF Word
  <2>3. ASSUME NEW i \in 0 .. n - 1 PROVE a[1 + i] = t[i]
    <3>1. 1 + i \in 0 .. n /\ Extra - 1 + (1 + i) = Extra + i
      BY <1>1
    <3>2. QED
      BY <3>1 DEF Top
  <2> HIDE DEF a, t
  <2>4. Words(a, 1 + n) /\ ValueOf(a, 1 + n) = a[0] + B * ValueOf(t, n)
    BY <1>1, <2>1, <2>2, <2>3, ValueMoved
  <2>5. ValueOf(t, n) \in Nat
    <3>1. ValueOf(t, n) \in 0 .. Weight[n] - 1
      BY <1>1, <1>2, ValueBound
    <3>2. QED
      BY <1>1, <3>1, WeightFacts
  <2>6. B * ValueOf(t, n) \in Nat
    BY <1>1, <2>5
  <2>7. QED
    BY <2>2, <2>4, <2>6
<1>4. /\ g \in Word /\ d < D /\ d > W - T /\ d + 2 * D >= 0
  BY EstimateExact
<1>5. /\ T \in Nat /\ T >= 1 /\ W \in Nat /\ W >= 1 /\ W <= T /\ T = B * W
      /\ D \in Nat /\ D < T /\ R \in Nat
  <2>1. D \in 0 .. T - 1 /\ R \in 0 .. T - 1
    BY <1>1, <1>2, ValueBound
  <2>2. W \in Nat /\ W >= 1 /\ T = B * W
    BY <1>1, <1>2, TopOfNumber
  <2>3. PICK x \in Nat : B = 1 + x
    BY <1>1
  <2> HIDE DEF T, W, D, R
  <2>4. (1 + x) * W = W + x * W /\ x * W \in Nat
    BY <2>2
  <2>5. QED
    BY <2>1, <2>2, <2>3, <2>4
<1>6. PICK b \in 0 .. 3 :
         ValueOf(u, n + 1) + g * D = ValueOf(a, n + 1) + b * Weight[n + 1]
  <2> HIDE DEF a, g
  <2>1. u = subMul(a, ds, g, n)
    BY DEF Difference, a, g
  <2>2. Words(a, n + 1)
    BY <1>1, <1>3
  <2> HIDE DEF u
  <2>3. \E b \in 0 .. 3 :
           ValueOf(subMul(a, ds, g, n), n + 1) + g * ValueOf(ds, n)
              = ValueOf(a, n + 1) + b * Weight[n + 1]
    BY <1>1, <1>2, <1>4, <2>2, SubMulExact
  <2>4. QED
    BY <2>1, <2>3
<1>7. u \in Number(n + 1)
  <2> HIDE DEF a, g
  <2>1. u = subMul(a, ds, g, n)
    BY DEF Difference, a, g
  <2>2. Words(a, n + 1)
    BY <1>1, <1>3
  <2>3. subMul(a, ds, g, n) \in Number(n + 1)
    BY <1>1, <1>2, <1>4, <2>2, SubMulExact
  <2>4. QED
    BY <2>1, <2>3
<1> DEFINE l == ValueOf(u, n)
           h == u[n]
<1>8. /\ l \in 0 .. T - 1 /\ h \in Word /\ ValueOf(u, n + 1) = l + h * T
      /\ Weight[n + 1] = B * T
  <2>1. Words(u, n + 1)
    BY <1>7 DEF Words, Number
  <2>2. QED
    BY <1>1, <2>1, ValueNext, WeightFacts
<1>9. l + h * T = d + b * (B * T)
  <2>1. ValueOf(a, n + 1) = B * R
    BY <1>1, <1>3
  <2> HIDE DEF a, u, R, D, g, T, l, h
  <2>2. (l + h * T) + g * D = B * R + b * (B * T)
    BY <1>6, <1>8, <2>1
  <2>3. R * B = B * R /\ R * B \in Nat /\ g * D \in Nat /\ h * T \in Nat /\ l \in Nat
        /\ b * (B * T) \in Nat
    <3>1. h \in Nat /\ g \in Nat /\ l \in Nat /\ b \in Nat
      BY <1>1, <1>4, <1>5, <1>8 DEF Word
    <3>2. B * T \in Nat
      BY <1>1, <1>5
    <3>3. \A x, y \in Nat : x * y \in Nat /\ x * y = y * x
      BY SMT
    <3>4. QED
      BY <1>1, <1>5, <3>1, <3>2, <3>3
  <2>4. QED
    BY <2>2, <2>3
<1>10. d \in Int
  <2> HIDE DEF R, D, g
  <2>1. g \in Nat
    BY <1>1, <1>4 DEF Word
  <2>2. QED
    BY <1>1, <1>5, <2>1
<1>11. (h = 0 <=> d >= 0) /\ (d >= 0 => l = d) /\ (d < 0 => l = T + d)
  <2> HIDE DEF d, D, T, W, l, h, u, a
  <2>1. d > W - T /\ d < T
    BY <1>4, <1>5, <1>10
  <2>2. QED
    BY <1>5, <1>8, <1>9, <1>10, <2>1, DifferenceTells
<1>12. /\ Moved(n) \in Number(n + Extra)
       /\ \A i \in 0 .. Extra - 1 : Moved(n)[i] = 0
       /\ \A i \in 0 .. n - 1 : Moved(n)[Extra + i] = u[i]
  <2>1. DOMAIN dv = 0 .. (n + Extra) - 1
    BY <1>2 DEF Number
  <2> HIDE DEF u
  <2>2. Moved(n) = [i \in 0 .. (n + Extra) - 1 |->
                      IF i = 0 THEN 0 ELSE IF i < Extra THEN dv[i - 1] ELSE u[i - Extra]]
    BY <2>1 DEF Moved, u
  <2>3. \A i \in 0 .. Extra - 1 : Moved(n)[i] = 0
    <3>1. ASSUME NEW i \in 0 .. Extra - 1 PROVE Moved(n)[i] = 0
      <4>1. i \in 0 .. (n + Extra) - 1 /\ i < Extra
        BY <1>1
      <4>2. CASE i = 0
        BY <2>2, <4>1, <4>2
      <4>3. CASE i # 0
        <5>1. i - 1 \in 0 .. Extra - 1
          BY <1>1, <4>3
        <5>2. QED
          BY <1>2, <2>2, <4>1, <4>3, <5>1
      <4>4. QED
        BY <4>2, <4>3
    <3>2. QED
      BY <3>1
  <2>4. \A i \in 0 .. n - 1 : Moved(n)[Extra + i] = u[i]
    <3>1. ASSUME NEW i \in 0 .. n - 1 PROVE Moved(n)[Extra + i] = u[i]
      <4>1. /\ Extra + i \in 0 .. (n + Extra) - 1 /\ ~(Extra + i < Extra) /\ Extra + i # 0
            /\ (Extra + i) - Extra = i
        BY <1>1
      <4>2. QED
        BY <2>2, <4>1
    <3>2. QED
      BY <3>1
  <2>5. ASSUME NEW i \in 0 .. (n + Extra) - 1 PROVE Moved(n)[i] \in Word
    <3>1. CASE i < Extra
      <4>1. i \in 0 .. Extra - 1 /\ 0 \in Word
        BY <1>1, <3>1 DEF Word
      <4>2. QED
        BY <2>3, <4>1
    <3>2. CASE i >= Extra
      <4>1. i - Extra \in 0 .. n - 1 /\ Extra + (i - Extra) = i /\ i - Extra \in 0 .. (n + 1) - 1
        BY <1>1, <3>2
      <4>2. u[i - Extra] \in Word
        BY <1>7, <4>1 DEF Number
      <4>3. Moved(n)[Extra + (i - Extra)] = u[i - Extra]
        BY <2>4, <4>1
      <4>4. QED
        BY <4>1, <4>2, <4>3
    <3>3. QED
      BY <1>1, <3>1, <3>2
  <2>6. Moved(n) \in Number(n + Extra)
    <3> DEFINE mv == Moved(n)
    <3>1. mv = [i \in 0 .. (n + Extra) - 1 |-> mv[i]]
      BY <2>2
    <3> HIDE DEF mv
    <3>2. QED
      BY <2>5, <3>1 DEF mv, Number
  <2>7. QED
    BY <2>3, <2>4, <2>6
<1>13. ValueOf(Top(Moved(n), n), n) = l
  <2>1. Top(Moved(n), n) = [i \in 0 .. n - 1 |-> u[i]]
    BY <1>12 DEF Top
  <2> HIDE DEF u
  <2>2. ValueOf([i \in 0 .. n - 1 |-> u[i]], n) = ValueOf(u, n)
    BY DEF ValueOf
  <2>3. QED
    BY <2>1, <2>2
<1>14. QED
  BY <1>11, <1>12, <1>13

\* The dividend after a cycle: the difference plus the divisor, as often as the
\* estimate was corrected, is below the divisor again.
LEMMA CorrectionsExact ==
  ASSUME NEW n \in Nat \ {0, 1}, Dividing(n), CycleKept(n), ds' = ds
  PROVE  LET d == ValueOf(Top(dv, n), n) * B - Estimate(n) * ValueOf(ds, n)
         IN  /\ Corrections(n) \in 0 .. 2
             /\ dv' \in Number(n + Extra)
             /\ \A i \in 0 .. Extra - 1 : dv'[i] = 0
             /\ ValueOf(Top(dv', n), n) = d + Corrections(n) * ValueOf(ds, n)
             /\ d + Corrections(n) * ValueOf(ds, n) >= 0
             /\ d + Corrections(n) * ValueOf(ds, n) < ValueOf(ds, n)
<1> DEFINE R == ValueOf(Top(dv, n), n)
           D == ValueOf(ds, n)
           g == Estimate(n)
           d == R * B - g * D
           T == Weight[n]
           W == Weight[n - 1]
           m == Top(Moved(n), n)
           c == Corrections(n)
<1>1. n \in Nat /\ n \in Nat \ {0} /\ B \in Nat /\ B >= 2 /\ 2 * ds[n - 1] >= B
      /\ ds \in Number(n) /\ dv \in Number(n + Extra)
  BY BaseFacts DEF Dividing
<1>2. g \in Word /\ d < D /\ d > W - T /\ d + 2 * D >= 0
  BY EstimateExact
<1>3. /\ Moved(n) \in Number(n + Extra)
      /\ \A i \in 0 .. Extra - 1 : Moved(n)[i] = 0
      /\ Difference(n)[n] = 0 <=> d >= 0
      /\ d >= 0 => ValueOf(m, n) = d
      /\ d < 0 => ValueOf(m, n) = T + d
  BY DifferenceExact
<1>4. m \in Number(n)
  BY <1>1, <1>3, TopWords
<1>5. Once(n) \in Number(n) /\ Twice(n) \in Number(n)
  <2>1. Once(n) \in Number(n)
    BY <1>1, <1>4, AddIsNumber DEF Once
  <2>2. QED
    BY <1>1, <2>1, AddIsNumber DEF Twice
<1> DEFINE d1 == ds[n - 1]
           dd == ValueOf(ds, n - 1)
           t1 == Once(n)[n - 1]
           x == ValueOf(Once(n), n - 1)
           once == ValueOf(Once(n), n)
<1>6. /\ d1 \in Word /\ W \in Nat /\ W >= 1 /\ T = B * W
      /\ dd \in 0 .. W - 1 /\ D = dd + d1 * W
  BY <1>1, TopOfNumber
<1>7. /\ t1 \in Word /\ x \in 0 .. W - 1 /\ once = x + t1 * W
  BY <1>1, <1>5, TopOfNumber
<1>8. T \in Nat /\ D \in 0 .. T - 1 /\ once \in 0 .. T - 1 /\ R \in 0 .. T - 1
  <2>1. Top(dv, n) \in Number(n)
    BY <1>1, TopWords
  <2>2. QED
    BY <1>1, <1>5, <2>1, ValueBound, WeightFacts
<1>9. 2 * D >= T
  <2> HIDE DEF D, T, W, d1, dd
  <2>1. PICK y \in Nat : 2 * d1 = B + y
    <3>1. d1 \in Nat /\ 2 * d1 >= B
      BY <1>1, <1>6 DEF d1, Word
    <3>2. 2 * d1 - B \in Nat /\ 2 * d1 = B + (2 * d1 - B)
      BY <1>1, <3>1
    <3>3. QED
      BY <3>2
  <2>2. (B + y) * W = B * W + y * W /\ y * W \in Nat /\ B * W \in Nat
    BY <1>1, <1>6
  <2>3. 2 * (d1 * W) = (2 * d1) * W /\ d1 * W \in Nat
    BY <1>1, <1>6 DEF Word
  <2>4. QED
    BY <1>1, <1>6, <2>1, <2>2, <2>3
<1>10. d \in Int
  <2> HIDE DEF R, D, g
  <2>1. g \in Nat
    BY <1>1, <1>2 DEF Word
  <2>2. QED
    BY <1>1, <1>8, <2>1
<1>11. c = IF Difference(n)[n] = 0 THEN 0 ELSE IF t1 > d1 THEN 2 ELSE 1
  BY DEF Corrections
<1>12. Top(dv', n) = IF c = 0 THEN m ELSE IF c = 1 THEN Once(n) ELSE Twice(n)
  <2>1. dv' = IF c = 0 THEN Moved(n)
              ELSE IF c = 1 THEN WithTop(Moved(n), Once(n)) ELSE WithTop(Moved(n), Twice(n))
    BY <1>11 DEF CycleKept
  <2>2. Top(WithTop(Moved(n), Once(n)), n) = Once(n)
    BY <1>1, <1>3, <1>5, TopReplaced
  <2>3. Top(WithTop(Moved(n), Twice(n)), n) = Twice(n)
    BY <1>1, <1>3, <1>5, TopReplaced
  <2> HIDE DEF c
  <2>4. QED
    BY <2>1, <2>2, <2>3
<1>13. dv' \in Number(n + Extra) /\ \A i \in 0 .. Extra - 1 : dv'[i] = 0
  <2>1. dv' = Moved(n) \/ \E t \in {Once(n), Twice(n)} : dv' = WithTop(Moved(n), t)
    BY <1>11 DEF CycleKept
  <2>2. ASSUME NEW t \in {Once(n), Twice(n)}
        PROVE  /\ WithTop(Moved(n), t) \in Number(n + Extra)
               /\ \A i \in 0 .. Extra - 1 : WithTop(Moved(n), t)[i] = Moved(n)[i]
    BY <1>1, <1>3, <1>5, TopReplaced
  <2>3. QED
    BY <1>3, <2>1, <2>2
<1>14. c >= 1 => once = (ValueOf(m, n) + D) % T
  BY DEF CycleKept, AddKept
<1>15. c = 2 => ValueOf(Twice(n), n) = (once + D) % T
  BY DEF CycleKept, AddKept
<1> HIDE DEF c, m, D, R, d, T, W, g, t1, d1, x, dd, once
<1>16. c \in 0 .. 2 /\ ValueOf(Top(dv', n), n) = d + c * D /\ d + c * D >= 0 /\ d + c * D < D
  <2>1. CASE d >= 0
    <3>1. c = 0
      BY <1>3, <1>11, <2>1
    <3>2. ValueOf(Top(dv', n), n) = d
      BY <1>3, <1>12, <2>1, <3>1
    <3>3. 0 * D = 0
      BY <1>8
    <3>4. QED
      BY <1>2, <1>10, <2>1, <3>1, <3>2, <3>3
  <2>2. CASE d < 0
    <3>1. c = IF t1 > d1 THEN 2 ELSE 1
      BY <1>3, <1>10, <1>11, <2>2
    <3>2. once = ((T + d) + D) % T
      BY <1>3, <1>14, <2>2, <3>1
    <3>3. T \in Nat /\ W \in Nat /\ D \in Nat /\ D < T /\ t1 \in Nat /\ d1 \in Nat
      BY <1>1, <1>6, <1>7, <1>8 DEF Word
    <3>4. /\ t1 > d1 <=> d + D < 0
          /\ d + D >= 0 => once = d + D
          /\ d + D < 0 => (once + D) % T = d + 2 * D
      <4>1. /\ W >= 1 /\ 2 * D >= T /\ d \in Int /\ d > W - T /\ d < 0 /\ d + 2 * D >= 0
            /\ once \in 0 .. T - 1 /\ x \in 0 .. W - 1 /\ once = x + t1 * W
            /\ dd \in 0 .. W - 1 /\ D = dd + d1 * W
        BY <1>2, <1>6, <1>7, <1>8, <1>9, <1>10, <2>2
      <4>2. QED
        BY <3>2, <3>3, <4>1, SumTells
    <3>5. 1 * D = D /\ 2 * D \in Nat
      BY <3>3
    <3>6. CASE d + D >= 0
      <4>1. c = 1
        BY <1>10, <3>1, <3>3, <3>4, <3>6
      <4>2. ValueOf(Top(dv', n), n) = once
        BY <1>12, <4>1 DEF once
      <4>3. QED
        BY <1>10, <2>2, <3>3, <3>4, <3>5, <3>6, <4>1, <4>2
    <3>7. CASE d + D < 0
      <4>1. c = 2
        BY <3>1, <3>4, <3>7
      <4>2. ValueOf(Top(dv', n), n) = d + 2 * D
        BY <1>12, <1>15, <3>4, <3>7, <4>1
      <4>3. QED
        BY <1>2, <1>10, <3>3, <3>5, <3>7, <4>1, <4>2
    <3>8. QED
      BY <1>10, <3>3, <3>6, <3>7
  <2>3. QED
    BY <1>10, <2>1, <2>2
<1>17. QED
  BY <1>13, <1>16 DEF c, D, R, d, g

\* A cycle makes one more word of the quotient.
LEMMA CycleExact ==
  ASSUME NEW n \in Nat \ {0, 1}, Dividing(n), CycleKept(n), ds' = ds,
         q \in Number(QuotientSize), ValueOf(q, QuotientSize) < Weight[QuotientSize - 1]
  PROVE  /\ Dividing(n)'
         /\ q' \in Number(QuotientSize)
         /\ \E digit \in Word :
               /\ ValueOf(q', QuotientSize) = digit + B * ValueOf(q, QuotientSize)
               /\ ValueOf(Top(dv, n), n) * B
                     = digit * ValueOf(ds, n) + ValueOf(Top(dv', n), n)
<1> DEFINE R == ValueOf(Top(dv, n), n)
           R2 == ValueOf(Top(dv', n), n)
           D == ValueOf(ds, n)
           g == Estimate(n)
           c == Corrections(n)
           d == R * B - g * D
           s == QuotientSize
           digit == (g - c) % B
<1>1. n \in Nat /\ n \in Nat \ {0} /\ B \in Nat /\ B >= 2 /\ s - 1 \in Nat /\ 1 + (s - 1) = s
      /\ s \in Nat \ {0}
  BY BaseFacts, ExtraFacts
<1>2. ds \in Number(n) /\ dv \in Number(n + Extra) /\ 2 * ds[n - 1] >= B
  BY DEF Dividing
<1>3. /\ c \in 0 .. 2
      /\ dv' \in Number(n + Extra) /\ \A i \in 0 .. Extra - 1 : dv'[i] = 0
      /\ R2 = d + c * D /\ d + c * D >= 0 /\ d + c * D < D
  BY CorrectionsExact
<1>4. D \in Nat /\ R \in Nat /\ g \in Nat /\ g < B
  <2>1. Top(dv, n) \in Number(n)
    BY <1>1, <1>2, TopWords
  <2>2. D \in 0 .. Weight[n] - 1 /\ R \in 0 .. Weight[n] - 1 /\ Weight[n] \in Nat
    BY <1>1, <1>2, <2>1, ValueBound, WeightFacts
  <2>3. g \in Word
    BY EstimateExact
  <2> HIDE DEF g, D, R
  <2>4. QED
    BY <1>1, <2>2, <2>3 DEF Word
<1>5. R2 < D
  <2> HIDE DEF R2, d, c, D
  <2>1. QED
    BY <1>3
<1>6. Dividing(n)'
  BY <1>2, <1>3, <1>5 DEF Dividing
<1>7. q' = [i \in 0 .. s - 1 |-> IF i = 0 THEN digit ELSE q[i - 1]]
  BY DEF CycleKept
<1> HIDE DEF R, R2, D, g, c, s
<1>8. digit = g - c /\ digit \in Word /\ R * B = digit * D + R2
  <2>1. R * B = (g - c) * D + R2 /\ R * B \in Nat /\ R2 < D /\ R2 >= 0 /\ R2 \in Int
    <3>1. (g - c) * D = g * D - c * D /\ g * D \in Nat /\ c * D \in Nat /\ R * B \in Nat
      BY <1>1, <1>3, <1>4
    <3>2. d \in Int
      BY <3>1
    <3>3. QED
      BY <1>3, <3>1, <3>2
  <2> DEFINE k == g - c
  <2>2. k \in Int /\ k < B
    BY <1>1, <1>3, <1>4
  <2>3. k >= 0
    <3>1. SUFFICES ASSUME k < 0 PROVE FALSE
      BY <2>2
    <3>2. PICK y \in Nat : k = -1 - y
      <4>1. -1 - k \in Nat /\ k = -1 - (-1 - k)
        BY <2>2, <3>1
      <4>2. QED
        BY <4>1
    <3> HIDE DEF k
    <3>3. (-1 - y) * D = -D - y * D /\ y * D \in Nat
      BY <1>4
    <3>4. R * B = k * D + R2
      BY <2>1 DEF k
    <3>5. QED
      BY <1>4, <2>1, <3>2, <3>3, <3>4
  <2>4. digit = k
    <3>1. k \in 0 .. B - 1 /\ k \in Int /\ 0 \in Int /\ k = k + 0 * B /\ B > 0
      BY <1>1, <2>2, <2>3
    <3> HIDE DEF k
    <3>2. k % B = k
      BY <1>1, <3>1, RestIs
    <3>3. QED
      BY <3>2 DEF k
  <2>5. digit \in Word
    BY <1>1, <2>2, <2>3, <2>4 DEF Word
  <2>6. QED
    BY <2>1, <2>4, <2>5
<1> HIDE DEF digit
<1>9. q \in Number(s) /\ ValueOf(q, s) < Weight[s - 1]
  BY DEF s
<1>10. Words(q, s - 1) /\ ValueOf(q, s - 1) = ValueOf(q, s)
  <2>1. Words(q, s - 1)
    <3>1. \A i \in 0 .. (s - 1) - 1 : i \in 0 .. s - 1
      BY <1>1
    <3>2. \A i \in 0 .. s - 1 : q[i] \in Word
      BY <1>9 DEF Number
    <3>3. QED
      BY <3>1, <3>2 DEF Words
  <2>2. /\ q[s - 1] \in Word /\ Weight[s - 1] \in Nat
        /\ ValueOf(q, s - 1) \in 0 .. Weight[s - 1] - 1
        /\ ValueOf(q, s) = ValueOf(q, s - 1) + q[s - 1] * Weight[s - 1]
    BY <1>1, <1>9, TopOfNumber
  <2> DEFINE x == q[s - 1]
             w == Weight[s - 1]
             V == ValueOf(q, s - 1)
  <2>3. x \in Nat /\ w \in Nat /\ V \in Nat /\ V + x * w < w /\ ValueOf(q, s) = V + x * w
    <3>1. x \in Nat
      BY <1>1, <2>2 DEF Word
    <3>2. QED
      BY <1>9, <2>2, <3>1
  <2> HIDE DEF x, w, V
  <2>4. x * w = 0
    <3>1. CASE x = 0
      <4>1. 0 * w = 0
        BY <2>3
      <4>2. QED
        BY <3>1, <4>1
    <3>2. CASE x # 0
      <4>1. PICK y \in Nat : x = 1 + y
        <5>1. x - 1 \in Nat /\ x = 1 + (x - 1)
          BY <2>3, <3>2
        <5>2. QED
          BY <5>1
      <4>2. (1 + y) * w = w + y * w /\ y * w \in Nat
        BY <2>3
      <4>3. QED
        BY <2>3, <4>1, <4>2
    <3>3. QED
      BY <3>1, <3>2
  <2>5. ValueOf(q, s) = V
    BY <2>3, <2>4
  <2>6. QED
    BY <2>1, <2>5 DEF V
<1>11. q' \in Number(s) /\ ValueOf(q', s) = digit + B * ValueOf(q, s)
  <2>1. q'[0] = digit
    BY <1>1, <1>7
  <2>2. ASSUME NEW i \in 0 .. (s - 1) - 1 PROVE q'[1 + i] = q[i]
    <3>1. 1 + i \in 0 .. s - 1 /\ 1 + i # 0 /\ (1 + i) - 1 = i
      BY <1>1
    <3>2. QED
      BY <1>7, <3>1
  <2> DEFINE b == q'
             m == s - 1
  <2>3. m \in Nat /\ Words(q, m) /\ b[0] \in Word /\ \A i \in 0 .. m - 1 : b[1 + i] = q[i]
    BY <1>1, <1>8, <1>10, <2>1, <2>2
  <2> HIDE DEF b, m
  <2>4. Words(b, 1 + m) /\ ValueOf(b, 1 + m) = b[0] + B * ValueOf(q, m)
    BY <2>3, ValueMoved
  <2>5. 1 + m = s /\ b = q' /\ m = s - 1
    BY <1>1 DEF b, m
  <2>6. b = [i \in 0 .. s - 1 |-> b[i]]
    BY <1>7, <2>5
  <2>7. \A i \in 0 .. s - 1 : b[i] \in Word
    BY <2>4, <2>5 DEF Words
  <2>8. b \in Number(s)
    BY <2>6, <2>7 DEF Number
  <2>9. QED
    BY <1>10, <2>1, <2>4, <2>5, <2>8
<1>12. QED
  BY <1>6, <1>8, <1>11 DEF R, R2, D, s

-----------------------------------------------------------------------------
(***************************************************************************)
(* The candidate, its bits, and the numbers that the division begins with. *)
(***************************************************************************)
LEMMA CandidateFacts ==
  ASSUME NEW n \in Nat \ {0, 1}, e \in Candidates(n)
  PROVE  /\ e \in Number(n)
         /\ ValueOf(e, n) \in Nat /\ ValueOf(e, n) < Weight[n]
         /\ ValueOf(e, n) % 2 = 1 /\ ValueOf(e, n) >= 3
         /\ ValueOf(e, n) >= Weight[n - 2]
         /\ \A i \in 0 .. n - 1 : ValueOf(e, n) # Weight[i]
<1>1. n \in Nat /\ n - 2 \in Nat /\ \A i \in Nat : Weight[i] \in Nat /\ Weight[i] >= 1
  BY WeightFacts
<1>2. PICK x \in Weight[n - 2] .. Weight[n] - 1 : x % 2 = 1 /\ x > 1 /\ e = WordsOf(x, n)
  BY DEF Candidates
<1>3. x \in Nat /\ x \in 0 .. Weight[n] - 1 /\ Weight[n] \in Nat /\ Weight[n] > 0
      /\ x >= Weight[n - 2] /\ x < Weight[n]
  BY <1>1, <1>2
<1>4. e \in Number(n) /\ ValueOf(e, n) = x % Weight[n]
  BY <1>1, <1>2, <1>3, WordsOfValue
<1>5. x % Weight[n] = x
  <2>1. x = x + 0 * Weight[n]
    BY <1>3
  <2>2. QED
    BY <1>3, <2>1, RestIs
<1>6. \A i \in 0 .. n - 1 : x # Weight[i]
  <2>1. ASSUME NEW i \in 0 .. n - 1, x = Weight[i] PROVE FALSE
    <3>1. CASE i = 0
      BY <1>2, <2>1, <3>1, WeightFacts
    <3>2. CASE i # 0
      <4>1. i \in Nat \ {0}
        BY <3>2
      <4>2. PICK h \in Nat : Weight[i] = 2 * h
        BY <4>1, WeightsAreEven
      <4>3. QED
        BY <1>2, <2>1, <4>2
    <3>3. QED
      BY <3>1, <3>2
  <2>2. QED
    BY <2>1
<1>7. x >= 3
  <2>1. x # 2
    BY <1>2
  <2>2. QED
    BY <1>2, <1>3, <2>1
<1>8. QED
  BY <1>2, <1>3, <1>4, <1>5, <1>6, <1>7

\* At most the top word of a candidate is empty.
LEMMA UsedWordsExact ==
  ASSUME NEW n \in Nat \ {0, 1}, e \in Candidates(n)
  PROVE  /\ UsedWords(n) \in {n - 1, n}
         /\ e[UsedWords(n) - 1] \in Word \ {0}
         /\ \A i \in UsedWords(n) .. n - 1 : e[i] = 0
<1> DEFINE Used(k) == e[k - 1] # 0 /\ \A i \in k .. n - 1 : e[i] = 0
<1>1. e \in Number(n) /\ ValueOf(e, n) >= Weight[n - 2]
  BY CandidateFacts
<1>2. n \in Nat \ {0} /\ n - 1 \in 1 .. n /\ n \in 1 .. n /\ (n - 1) - 1 = n - 2 /\ n - 2 \in Nat
  OBVIOUS
<1>3. e[n - 1] # 0 \/ e[n - 2] # 0
  <2>1. SUFFICES ASSUME e[n - 1] = 0, e[n - 2] = 0 PROVE FALSE
    OBVIOUS
  <2>2. Words(e, n) /\ n - 2 \in 0 .. n /\ \A i \in n - 2 .. n - 1 : e[i] = 0
    BY <1>1, <1>2, <2>1 DEF Words, Number
  <2>3. ValueOf(e, n) = ValueOf(e, n - 2)
    BY <1>2, <2>2, ValuePadded
  <2>4. Words(e, n - 2)
    BY <1>2, <2>2 DEF Words
  <2>5. ValueOf(e, n - 2) \in 0 .. Weight[n - 2] - 1 /\ Weight[n - 2] \in Nat
    BY <1>2, <2>4, ValueOfWords, WeightFacts
  <2>6. QED
    BY <1>1, <2>3, <2>5
<1>4. \E k \in {n - 1, n} : Used(k)
  <2>1. CASE e[n - 1] # 0
    <3>1. Used(n)
      BY <1>2, <2>1
    <3>2. QED
      BY <3>1
  <2>2. CASE e[n - 1] = 0
    <3>1. e[n - 2] # 0
      BY <1>3, <2>2
    <3>2. \A i \in n - 1 .. n - 1 : e[i] = 0
      BY <1>2, <2>2
    <3>3. Used(n - 1)
      BY <1>2, <3>1, <3>2
    <3>4. QED
      BY <3>3
  <2>3. QED
    BY <2>1, <2>2
<1>5. UsedWords(n) \in 1 .. n /\ Used(UsedWords(n))
  <2>1. \E k \in 1 .. n : Used(k)
    BY <1>2, <1>4
  <2>2. UsedWords(n) = CHOOSE k \in 1 .. n : Used(k)
    BY DEF UsedWords
  <2> HIDE DEF Used
  <2>3. QED
    BY <2>1, <2>2
<1> DEFINE u == UsedWords(n)
<1>6. u \in {n - 1, n}
  <2>1. SUFFICES ASSUME u < n - 1 PROVE FALSE
    BY <1>2, <1>5
  <2>2. n - 1 \in u .. n - 1 /\ n - 2 \in u .. n - 1
    BY <1>2, <1>5, <2>1
  <2>3. QED
    BY <1>3, <1>5, <2>2
<1>7. e[u - 1] \in Word
  <2>1. u - 1 \in 0 .. n - 1
    BY <1>5
  <2> HIDE DEF u
  <2>2. QED
    BY <1>1, <2>1 DEF Number
<1>8. QED
  BY <1>5, <1>6, <1>7

\* The top word of a candidate in use, and how far it is moved up.
TopUsed(n) == e[UsedWords(n) - 1]

\* The top word of the candidate in use, moved up by ShiftCount, has its highest bit.
LEMMA ShiftCountExact ==
  ASSUME NEW n \in Nat \ {0, 1}, e \in Candidates(n)
  PROVE  /\ ShiftCount(n) \in 0 .. WordBits - 1
         /\ Pow2[ShiftCount(n)] \in Word /\ Pow2[ShiftCount(n)] >= 1
         /\ TopUsed(n) \in Word /\ TopUsed(n) >= 1
         /\ 2 * (TopUsed(n) * Pow2[ShiftCount(n)]) >= B
         /\ (TopUsed(n) + 1) * Pow2[ShiftCount(n)] <= B
         /\ BitLength(TopUsed(n)) = WordBits - ShiftCount(n)
<1> DEFINE t == TopUsed(n)
           b == BitLength(t)
           s == ShiftCount(n)
<1>1. t \in Word \ {0}
  BY UsedWordsExact DEF TopUsed
<1>2. B \in Nat /\ B >= 2 /\ WordBits \in Nat /\ WordBits >= 4 /\ B = Pow2[WordBits]
  BY BaseFacts, WordAssumption DEF B
<1>3. s = WordBits - b
  BY DEF ShiftCount, TopUsed
<1> HIDE DEF t, b, s
<1>4. b \in 1 .. WordBits /\ Pow2[b - 1] <= t /\ t < Pow2[b] /\ t \in Nat /\ t >= 1
  <2>1. b \in 1 .. WordBits /\ Pow2[b - 1] <= t /\ t < Pow2[b]
    BY <1>1, BitLengthExact DEF b
  <2>2. QED
    BY <1>1, <1>2, <2>1 DEF Word
<1>5. s \in 0 .. WordBits - 1 /\ s \in Nat /\ b \in Nat /\ b - 1 \in Nat /\ b + s = WordBits
      /\ WordBits = ((b - 1) + s) + 1 /\ (b - 1) + s \in Nat
  BY <1>2, <1>3, <1>4
<1> DEFINE p == Pow2[s]
           x == Pow2[b - 1]
           y == Pow2[b]
<1>6. p \in Nat /\ p >= 1 /\ x \in Nat /\ y \in Nat
  BY <1>5, Pow2Facts
<1>7. y * p = B
  BY <1>2, <1>5, Pow2Plus
<1>8. 2 * (x * p) = B
  <2>1. Pow2[(b - 1) + s] = x * p
    BY <1>5, Pow2Plus
  <2>2. Pow2[((b - 1) + s) + 1] = 2 * Pow2[(b - 1) + s]
    BY <1>5, Pow2Facts
  <2>3. QED
    BY <1>2, <1>5, <2>1, <2>2
<1>9. x <= t /\ t + 1 <= y
  BY <1>4, <1>6
<1> HIDE DEF p, x, y
<1>10. 2 * (t * p) >= B
  <2>1. PICK z \in Nat : t = x + z
    <3>1. t - x \in Nat /\ t = x + (t - x)
      BY <1>4, <1>6, <1>9
    <3>2. QED
      BY <3>1
  <2>2. (x + z) * p = x * p + z * p /\ z * p \in Nat /\ x * p \in Nat
    BY <1>6
  <2>3. QED
    BY <1>2, <1>8, <2>1, <2>2
<1>11. (t + 1) * p <= B
  <2>1. PICK z \in Nat : y = (t + 1) + z
    <3>1. y - (t + 1) \in Nat /\ y = (t + 1) + (y - (t + 1))
      BY <1>4, <1>6, <1>9
    <3>2. QED
      BY <3>1
  <2>2. ((t + 1) + z) * p = (t + 1) * p + z * p /\ z * p \in Nat /\ (t + 1) * p \in Nat
    BY <1>4, <1>6
  <2>3. QED
    BY <1>7, <2>1, <2>2
<1>12. p \in Word
  <2>1. (t + 1) * p >= 2 * p
    <3>1. PICK z \in Nat : t = 1 + z
      <4>1. t - 1 \in Nat /\ t = 1 + (t - 1)
        BY <1>4
      <4>2. QED
        BY <4>1
    <3>2. ((1 + z) + 1) * p = 2 * p + z * p /\ z * p \in Nat
      BY <1>6
    <3>3. QED
      BY <1>6, <3>1, <3>2
  <2>2. (t + 1) * p \in Nat
    BY <1>4, <1>6
  <2>3. QED
    BY <1>2, <1>6, <1>11, <2>1, <2>2 DEF Word
<1>13. b = WordBits - s
  BY <1>2, <1>3, <1>4
<1>14. QED
  BY <1>1, <1>4, <1>5, <1>6, <1>10, <1>11, <1>12, <1>13 DEF p, t, s, b

\* The candidate moved up so that its top word is not empty.
Raised(n) == ShiftWords(e, n, n - UsedWords(n))

\* The candidate moved up by whole words.
LEMMA RaisedExact ==
  ASSUME NEW n \in Nat \ {0, 1}, e \in Candidates(n)
  PROVE  /\ Raised(n) \in Number(n)
         /\ ValueOf(Raised(n), n) = ValueOf(e, n) * Weight[n - UsedWords(n)]
         /\ Raised(n)[n - 1] = TopUsed(n)
         /\ ValueOf(Raised(n), n) # Weight[n - 1]
<1> DEFINE v == ValueOf(e, n)
           a == Raised(n)
           u == UsedWords(n)
<1>1. /\ e \in Number(n) /\ v \in Nat /\ \A i \in 0 .. n - 1 : v # Weight[i]
  BY CandidateFacts
<1>2. u \in {n - 1, n} /\ \A i \in u .. n - 1 : e[i] = 0
  BY UsedWordsExact
<1>3. n \in Nat /\ n - 1 \in Nat /\ n \in Nat \ {0} /\ n - 1 \in 0 .. n - 1 /\ n - 2 \in 0 .. n - 1
      /\ B \in Nat /\ B >= 2 /\ 0 \in Word
  BY BaseFacts DEF Word
<1>4. Weight[0] = 1 /\ Weight[1] = B
  <2>1. Weight[0 + 1] = B * Weight[0] /\ Weight[0] = 1
    BY WeightFacts
  <2>2. QED
    BY <1>3, <2>1
<1>5. CASE u = n
  <2>1. n - u = 0
    BY <1>3, <1>5
  <2>2. a = [i \in 0 .. n - 1 |-> e[i]]
    <3>1. \A i \in 0 .. n - 1 : ~(i < 0) /\ i - 0 = i
      BY <1>3
    <3>2. a = [i \in 0 .. n - 1 |-> IF i < 0 THEN 0 ELSE e[i - 0]]
      BY <2>1 DEF Raised, ShiftWords
    <3>3. QED
      BY <3>1, <3>2
  <2>3. a = e
    BY <1>1, <2>2 DEF Number
  <2>4. v * Weight[n - u] = v
    BY <1>1, <1>4, <2>1
  <2>5. TopUsed(n) = e[n - 1]
    BY <1>5 DEF TopUsed
  <2>6. v # Weight[n - 1]
    BY <1>1, <1>3
  <2>7. QED
    BY <1>1, <2>3, <2>4, <2>5, <2>6
<1>6. CASE u = n - 1
  <2>1. n - u = 1
    BY <1>3, <1>6
  <2>2. a = [i \in 0 .. n - 1 |-> IF i < 1 THEN 0 ELSE e[i - 1]]
    BY <2>1 DEF Raised, ShiftWords
  <2>3. Words(e, n - 1)
    BY <1>1, <1>3 DEF Words, Number
  <2>4. a[0] = 0 /\ \A i \in 0 .. (n - 1) - 1 : a[1 + i] = e[i]
    <3>1. ASSUME NEW i \in 0 .. (n - 1) - 1 PROVE a[1 + i] = e[i]
      <4>1. 1 + i \in 0 .. n - 1 /\ ~(1 + i < 1) /\ (1 + i) - 1 = i
        BY <1>3
      <4>2. QED
        BY <2>2, <4>1
    <3>2. 0 \in 0 .. n - 1
      BY <1>3
    <3>3. QED
      BY <2>2, <3>1, <3>2
  <2> HIDE DEF a
  <2>5. Words(a, 1 + (n - 1)) /\ ValueOf(a, 1 + (n - 1)) = a[0] + B * ValueOf(e, n - 1)
    BY <1>3, <2>3, <2>4, ValueMoved
  <2>6. 1 + (n - 1) = n
    BY <1>3
  <2>7. a \in Number(n)
    <3>1. a = [i \in 0 .. n - 1 |-> a[i]]
      BY <2>2
    <3>2. \A i \in 0 .. n - 1 : a[i] \in Word
      BY <2>5, <2>6 DEF Words
    <3>3. QED
      BY <3>1, <3>2 DEF Number
  <2>8. v = ValueOf(e, n - 1) /\ ValueOf(e, n - 1) \in Nat
    <3>1. e[n - 1] = 0
      BY <1>2, <1>3, <1>6
    <3>2. /\ ValueOf(e, n - 1) \in 0 .. Weight[n - 1] - 1
          /\ v = ValueOf(e, n - 1) + e[n - 1] * Weight[n - 1]
          /\ Weight[n - 1] \in Nat
      BY <1>1, <1>3, TopOfNumber
    <3>3. 0 * Weight[n - 1] = 0
      BY <3>2
    <3>4. QED
      BY <3>1, <3>2, <3>3
  <2>9. ValueOf(a, n) = B * v /\ B * v = v * Weight[n - u]
    <3>1. ValueOf(a, n) = 0 + B * v
      BY <2>4, <2>5, <2>6, <2>8
    <3>2. B * v \in Nat /\ B * v = v * B
      BY <1>1, <1>3
    <3>3. QED
      BY <1>4, <2>1, <3>1, <3>2
  <2>10. a[n - 1] = TopUsed(n)
    <3>1. n - 2 \in 0 .. (n - 1) - 1 /\ 1 + (n - 2) = n - 1 /\ u - 1 = n - 2
      BY <1>3, <1>6
    <3>2. a[1 + (n - 2)] = e[n - 2]
      BY <2>4, <3>1
    <3>3. QED
      BY <3>1, <3>2 DEF TopUsed
  <2>11. B * v # Weight[n - 1]
    <3>1. SUFFICES ASSUME B * v = Weight[n - 1] PROVE FALSE
      OBVIOUS
    <3> DEFINE k == n - 2
    <3>2. k \in Nat /\ k + 1 = n - 1 /\ k \in 0 .. n - 1
      BY <1>3
    <3> HIDE DEF k
    <3>3. Weight[k + 1] = B * Weight[k] /\ Weight[k] \in Nat
      BY <3>2, WeightFacts
    <3> DEFINE w == Weight[k]
    <3>4. B * v = B * w /\ w \in Nat /\ v # w
      BY <1>1, <3>1, <3>2, <3>3
    <3> HIDE DEF w, v
    <3>5. \A x, y \in Nat : x > y => B * x > B * y
      <4>1. ASSUME NEW x \in Nat, NEW y \in Nat, x > y PROVE B * x > B * y
        <5>1. PICK z \in Nat : x = y + 1 + z
          <6>1. x - y - 1 \in Nat /\ x = y + 1 + (x - y - 1)
            BY <4>1
          <6>2. QED
            BY <6>1
        <5>2. B * (y + 1 + z) = B * y + B + B * z /\ B * z \in Nat /\ B * y \in Nat
          BY <1>3
        <5>3. QED
          BY <1>3, <5>1, <5>2
      <4>2. QED
        BY <4>1
    <3>6. v \in Nat /\ (v > w \/ w > v)
      BY <1>1, <3>4 DEF v
    <3>7. B * v \in Nat /\ B * w \in Nat
      BY <1>3, <3>4, <3>6
    <3>8. QED
      BY <3>4, <3>5, <3>6, <3>7
  <2>12. QED
    BY <2>7, <2>9, <2>10, <2>11 DEF a
<1>7. QED
  BY <1>2, <1>5, <1>6

\* The divisor has the highest bit of its words; the candidate divides it.
Factor(n) == Weight[n - UsedWords(n)] * Pow2[ShiftCount(n)]

\* The divisor is a multiple of the candidate, and above the dividend's top words.
LEMMA NormalisedExact ==
  ASSUME NEW n \in Nat \ {0, 1}, e \in Candidates(n)
  PROVE  /\ Normalised(n) \in Number(n)
         /\ ValueOf(Normalised(n), n) = ValueOf(e, n) * Factor(n)
         /\ Factor(n) \in Nat /\ Factor(n) >= 1
         /\ 2 * Normalised(n)[n - 1] >= B
         /\ Pow2[ShiftCount(n)] * Weight[n - 1] < ValueOf(Normalised(n), n)
<1> DEFINE v == ValueOf(e, n)
           a == Raised(n)
           u == UsedWords(n)
           s == ShiftCount(n)
           N == ValueOf(a, n)
           p == Pow2[s]
           W == Weight[n - 1]
           f == Weight[n - u]
           t == TopUsed(n)
           x == N * p
           b == WordsOf(x, n)
           lo == ValueOf(a, n - 1)
           lb == ValueOf(b, n - 1)
           tb == b[n - 1]
<1>1. n \in Nat /\ n \in Nat \ {0} /\ B \in Nat /\ B >= 2
  BY BaseFacts
<1>2. a \in Number(n) /\ N = v * f /\ a[n - 1] = t /\ N # W
  BY RaisedExact
<1>3. /\ W \in Nat /\ W >= 1 /\ Weight[n] = B * W
      /\ lo \in 0 .. W - 1 /\ N = lo + a[n - 1] * W
  BY <1>1, <1>2, TopOfNumber
<1>4. p \in Word /\ p >= 1 /\ t \in Word /\ t >= 1 /\ 2 * (t * p) >= B /\ (t + 1) * p <= B
  BY ShiftCountExact
<1>5. v \in Nat /\ f \in Nat /\ f >= 1
  <2>1. n - u \in Nat
    BY <1>1, UsedWordsExact
  <2>2. QED
    BY <2>1, CandidateFacts, WeightFacts
<1>6. b = Normalised(n)
  BY DEF Normalised, Raised
<1> HIDE DEF a, N, p, W, f, t, lo, v, b, lb, tb
<1>7. t \in Nat /\ p \in Nat /\ lo \in Nat /\ lo <= W - 1 /\ N = lo + t * W
  BY <1>1, <1>2, <1>3, <1>4 DEF Word
<1>8. N >= W + 1 /\ N \in Nat /\ N <= (t + 1) * W - 1
  <2>1. PICK z \in Nat : t = 1 + z
    <3>1. t - 1 \in Nat /\ t = 1 + (t - 1)
      BY <1>4, <1>7
    <3>2. QED
      BY <3>1
  <2>2. (1 + z) * W = W + z * W /\ z * W \in Nat /\ (t + 1) * W = t * W + W /\ t * W \in Nat
    BY <1>3, <1>7
  <2>3. QED
    BY <1>2, <1>3, <1>7, <2>1, <2>2
<1>9. x \in Nat /\ x > p * W /\ x < B * W /\ x >= (t * p) * W
  <2>1. x \in Nat
    BY <1>7, <1>8
  <2>2. x > p * W
    <3>1. PICK z \in Nat : N = W + 1 + z
      <4>1. N - W - 1 \in Nat /\ N = W + 1 + (N - W - 1)
        BY <1>3, <1>8
      <4>2. QED
        BY <4>1
    <3>2. (W + 1 + z) * p = p * W + p + z * p /\ z * p \in Nat /\ p * W \in Nat
      BY <1>3, <1>7
    <3>3. QED
      BY <1>4, <1>7, <3>1, <3>2
  <2>3. x < B * W
    <3>1. PICK z \in Nat : (t + 1) * W = N + 1 + z
      <4>1. (t + 1) * W \in Nat
        BY <1>3, <1>7
      <4>2. (t + 1) * W - N - 1 \in Nat /\ (t + 1) * W = N + 1 + ((t + 1) * W - N - 1)
        BY <1>8, <4>1
      <4>3. QED
        BY <4>2
    <3>2. (N + 1 + z) * p = N * p + p + z * p /\ z * p \in Nat
      BY <1>7, <1>8
    <3>3. ((t + 1) * W) * p = ((t + 1) * p) * W
      BY <1>3, <1>7
    <3>4. PICK y \in Nat : B = (t + 1) * p + y
      <4>1. (t + 1) * p \in Nat
        BY <1>7
      <4>2. B - (t + 1) * p \in Nat /\ B = (t + 1) * p + (B - (t + 1) * p)
        BY <1>1, <1>4, <4>1
      <4>3. QED
        BY <4>2
    <3> DEFINE c == (t + 1) * p
    <3>5. c \in Nat /\ B = c + y
      BY <1>7, <3>4
    <3>6. x + p + z * p = c * W
      BY <3>1, <3>2, <3>3
    <3> HIDE DEF c, x
    <3>7. (c + y) * W = c * W + y * W /\ y * W \in Nat /\ c * W \in Nat
      BY <1>3, <3>5
    <3>8. QED
      BY <1>4, <1>7, <2>1, <3>2, <3>5, <3>6, <3>7
  <2>4. x >= (t * p) * W
    <3>1. (lo + t * W) * p = lo * p + (t * p) * W /\ lo * p \in Nat /\ (t * p) * W \in Nat
      BY <1>3, <1>7
    <3>2. QED
      BY <1>7, <3>1
  <2>5. QED
    BY <2>1, <2>2, <2>3, <2>4
<1>10. x = v * Factor(n) /\ Factor(n) \in Nat /\ Factor(n) >= 1
  <2>1. Factor(n) = f * p
    BY DEF Factor, f, p
  <2>2. (v * f) * p = v * (f * p) /\ f * p \in Nat
    BY <1>5, <1>7
  <2>3. f * p >= 1
    <3>1. f # 0 /\ p # 0
      BY <1>4, <1>5
    <3>2. \A y, z \in Nat : y # 0 /\ z # 0 => y * z >= 1
      <4>1. ASSUME NEW y \in Nat, NEW z \in Nat, y # 0, z # 0 PROVE y * z >= 1
        <5>1. PICK w \in Nat : y = 1 + w
          <6>1. y - 1 \in Nat /\ y = 1 + (y - 1)
            BY <4>1
          <6>2. QED
            BY <6>1
        <5>2. (1 + w) * z = z + w * z /\ w * z \in Nat
          OBVIOUS
        <5>3. QED
          BY <4>1, <5>1, <5>2
      <4>2. QED
        BY <4>1
    <3>3. QED
      BY <1>5, <1>7, <3>1, <3>2
  <2>4. QED
    BY <1>2, <2>1, <2>2, <2>3
<1> HIDE DEF x
<1>11. b \in Number(n) /\ ValueOf(b, n) = x
  <2>1. b \in Number(n) /\ ValueOf(b, n) = x % Weight[n]
    BY <1>1, <1>9, WordsOfValue DEF b
  <2>2. x \in 0 .. Weight[n] - 1 /\ x = x + 0 * Weight[n] /\ Weight[n] \in Nat /\ Weight[n] > 0
    <3>1. B * W \in Nat
      BY <1>1, <1>3
    <3>2. QED
      BY <1>3, <1>9, <3>1
  <2>3. x % Weight[n] = x
    BY <2>2, RestIs
  <2>4. QED
    BY <2>1, <2>3
<1>12. 2 * tb >= B
  <2>1. tb \in Word /\ lb \in 0 .. W - 1 /\ x = lb + tb * W
    BY <1>1, <1>11, TopOfNumber DEF tb, lb, W
  <2>2. tb \in Nat /\ lb \in Nat /\ lb <= W - 1
    BY <1>1, <1>3, <2>1 DEF Word
  <2> DEFINE m == t * p
  <2>3. m \in Nat /\ x >= m * W /\ 2 * m >= B
    BY <1>4, <1>7, <1>9
  <2> HIDE DEF m
  <2>4. tb >= m
    <3>1. SUFFICES ASSUME tb < m PROVE FALSE
      BY <2>2, <2>3
    <3>2. PICK z \in Nat : m = tb + 1 + z
      <4>1. m - tb - 1 \in Nat /\ m = tb + 1 + (m - tb - 1)
        BY <2>2, <2>3, <3>1
      <4>2. QED
        BY <4>1
    <3>3. (tb + 1 + z) * W = tb * W + W + z * W /\ z * W \in Nat /\ tb * W \in Nat
      BY <1>3, <2>2
    <3>4. QED
      BY <1>3, <2>1, <2>2, <2>3, <3>2, <3>3
  <2>5. QED
    BY <1>1, <2>2, <2>3, <2>4
<1>13. QED
  BY <1>6, <1>9, <1>10, <1>11, <1>12 DEF v, tb, p, W

\* The smaller of two numbers.
LEMMA MinOfTwo ==
  ASSUME NEW a \in Int, NEW b \in Int
  PROVE  Min({a, b}) = IF a <= b THEN a ELSE b
<1>1. Min({a, b}) = CHOOSE x \in {a, b} : \A y \in {a, b} : x <= y
  BY DEF Min
<1>2. QED
  BY <1>1

\* Weights grow with the word.
LEMMA WeightGrows ==
  ASSUME NEW a \in Nat, NEW b \in Nat, a <= b
  PROVE  Weight[a] <= Weight[b]
<1> DEFINE d == b - a
<1>1. d \in Nat /\ b = a + d
  OBVIOUS
<1> HIDE DEF d
<1>2. Weight[a + d] = Weight[a] * Weight[d]
  BY <1>1, WeightPlus
<1>3. Weight[a] \in Nat /\ Weight[d] \in Nat /\ Weight[d] >= 1
  BY <1>1, WeightFacts
<1>4. PICK z \in Nat : Weight[d] = 1 + z
  <2>1. Weight[d] - 1 \in Nat /\ Weight[d] = 1 + (Weight[d] - 1)
    BY <1>3
  <2>2. QED
    BY <2>1
<1>5. \A x \in Nat : x * (1 + z) = x + x * z /\ x * z \in Nat
  BY SMT
<1>6. QED
  BY <1>1, <1>2, <1>3, <1>4, <1>5

\* A product is monotonic in a factor.
LEMMA TimesGrows ==
  ASSUME NEW a \in Nat, NEW b \in Nat, NEW c \in Nat, a <= b
  PROVE  a * c \in Nat /\ b * c \in Nat /\ a * c <= b * c
<1> DEFINE d == b - a
<1>1. d \in Nat /\ b = a + d
  OBVIOUS
<1> HIDE DEF d
<1>2. (a + d) * c = a * c + d * c /\ d * c \in Nat /\ a * c \in Nat
  BY <1>1
<1>3. QED
  BY <1>1, <1>2

-----------------------------------------------------------------------------
\* The power of two that the dividend stands for, without the zeros below it.
Leading(n) == Pow2[ShiftCount(n)] * Weight[n - 1]

\* After k cycles the quotient has k words.
Divided(n, k) ==
    ValueOf(q, QuotientSize) * ValueOf(ds, n) + ValueOf(Top(dv, n), n) = Leading(n) * Weight[k]

\* Between two cycles: the words of the quotient made so far, and the rest.
DivisionInv(n) ==
    /\ Dividing(n)
    /\ ds = Normalised(n)
    /\ q \in Number(QuotientSize)
    /\ cycles \in Nat
    /\ \E k \in Nat : k + cycles = n + Extra - UsedWords(n) /\ Divided(n, k)

\* The quotient: of a power of two by the candidate.
QuotientReady(n) ==
    \E rest \in 0 .. ValueOf(e, n) - 1 :
        ValueOf(q, QuotientSize) * ValueOf(e, n) + rest = Weight[n] * Pow2[pow2ws]

\* The leading power of two is a natural number.
LEMMA LeadingIsNat ==
  ASSUME NEW n \in Nat \ {0, 1}, e \in Candidates(n)
  PROVE  Leading(n) \in Nat
<1>1. Pow2[ShiftCount(n)] \in Nat
  <2>1. Pow2[ShiftCount(n)] \in 0 .. B - 1 /\ B \in Nat
    BY ShiftCountExact, BaseFacts DEF Word
  <2>2. QED
    BY <2>1
<1>2. Weight[n - 1] \in Nat
  BY WeightFacts
<1>3. \A x, y \in Nat : x * y \in Nat
  BY SMT
<1>4. QED
  BY <1>1, <1>2, <1>3 DEF Leading

\* What depends on the candidate only stays with it.
LEMMA CandidateStays ==
  ASSUME NEW n, e' = e
  PROVE  /\ UsedWords(n)' = UsedWords(n) /\ ShiftCount(n)' = ShiftCount(n)
         /\ Normalised(n)' = Normalised(n) /\ Leading(n)' = Leading(n)
<1>1. UsedWords(n)' = UsedWords(n)
  BY DEF UsedWords
<1>2. ShiftCount(n)' = ShiftCount(n)
  BY <1>1 DEF ShiftCount
<1>3. Normalised(n)' = Normalised(n)
  BY <1>1, <1>2 DEF Normalised, ShiftWords
<1>4. QED
  BY <1>1, <1>2, <1>3 DEF Leading

\* The dividend is the power of two, with zeros in the words below.
LEMMA DividendExact ==
  ASSUME NEW n \in Nat \ {0, 1}, e \in Candidates(n)
  PROVE  /\ Dividend(n) \in Number(n + Extra)
         /\ \A i \in 0 .. Extra - 1 : Dividend(n)[i] = 0
         /\ ValueOf(Top(Dividend(n), n), n) = Leading(n)
<1> DEFINE p == Pow2[ShiftCount(n)]
           a == Dividend(n)
           t == Top(a, n)
<1>1. n \in Nat \ {0} /\ n - 1 \in Nat /\ Extra \in Nat /\ 0 \in Word /\ p \in Word
  BY ExtraFacts, BaseFacts, ShiftCountExact DEF Word
<1> HIDE DEF p
<1>2. a = [i \in 0 .. (n + Extra) - 1 |-> IF i = (n + Extra) - 1 THEN p ELSE 0]
  BY <1>1 DEF Dividend, p
<1>3. a \in Number(n + Extra)
  BY <1>1, <1>2 DEF Number
<1>4. \A i \in 0 .. Extra - 1 : a[i] = 0
  BY <1>1, <1>2
<1>5. t[n - 1] = p /\ \A i \in 0 .. (n - 1) - 1 : t[i] = 0
  <2>1. \A i \in 0 .. n - 1 : /\ Extra + i \in 0 .. (n + Extra) - 1
                              /\ Extra + i = (n + Extra) - 1 <=> i = n - 1
    BY <1>1
  <2>2. \A i \in 0 .. n - 1 : t[i] = a[Extra + i]
    BY DEF Top
  <2>3. \A i \in 0 .. n - 1 : t[i] = IF i = n - 1 THEN p ELSE 0
    BY <1>2, <2>1, <2>2
  <2> HIDE DEF t, a
  <2>4. n - 1 \in 0 .. n - 1 /\ \A i \in 0 .. (n - 1) - 1 : i \in 0 .. n - 1 /\ i # n - 1
    BY <1>1
  <2>5. QED
    BY <2>3, <2>4
<1>6. t \in Number(n)
  BY <1>1, <1>3, TopWords
<1> HIDE DEF t, a
<1>7. ValueOf(t, n - 1) = 0
  <2>1. 0 \in 0 .. n - 1
    BY <1>1
  <2>2. Words(t, n - 1)
    BY <1>1, <1>5 DEF Words
  <2>3. ValueOf(t, n - 1) = ValueOf(t, 0)
    BY <1>1, <1>5, <2>1, <2>2, ValuePadded
  <2>4. QED
    BY <2>3, SumZero DEF ValueOf
<1>8. ValueOf(t, n) = 0 + p * Weight[n - 1] /\ Weight[n - 1] \in Nat
  BY <1>1, <1>5, <1>6, <1>7, TopOfNumber
<1>9. p * Weight[n - 1] \in Nat
  BY <1>1, <1>8, BaseFacts DEF Word
<1>10. ValueOf(t, n) = Leading(n)
  BY <1>8, <1>9 DEF Leading, p
<1>11. QED
  BY <1>3, <1>4, <1>10 DEF t, a

\* divide<..>reg before its loop establishes the invariant of the division.
LEMMA DivisionBegins ==
  ASSUME NEW n \in Nat \ {0, 1}, e \in Candidates(n), DivideBegin(n), e' = e, q' = q,
         q = [i \in 0 .. QuotientSize - 1 |-> 0]
  PROVE  DivisionInv(n)' /\ remaining' = WordBits * UsedWords(n) - ShiftCount(n)
<1>1. /\ ds' = Normalised(n) /\ dv' = Dividend(n)
      /\ cycles' = Min({n + Extra - UsedWords(n), QuotientSize})
      /\ remaining' = WordBits * UsedWords(n) - ShiftCount(n)
  BY DEF DivideBegin
<1>2. Extra \in Nat /\ Extra >= 2 /\ QuotientSize = Extra + 3
  BY ExtraFacts
<1>3. UsedWords(n) \in {n - 1, n}
  BY UsedWordsExact
<1>4. cycles' = n + Extra - UsedWords(n) /\ cycles' \in Nat
  <2> DEFINE a == n + Extra - UsedWords(n)
  <2>1. a \in Nat /\ a <= QuotientSize
    BY <1>2, <1>3
  <2>2. cycles' = Min({a, QuotientSize})
    BY <1>1
  <2> HIDE DEF a
  <2>3. Min({a, QuotientSize}) = a
    BY <1>2, <2>1, MinOfTwo
  <2>4. QED
    BY <2>1, <2>2, <2>3 DEF a
<1>5. q' \in Number(QuotientSize) /\ ValueOf(q', QuotientSize) = 0
  <2>1. 0 \in Word
    BY BaseFacts DEF Word
  <2>2. q' \in Number(QuotientSize)
    BY <2>1 DEF Number
  <2>3. QuotientSize \in Nat /\ 0 \in 0 .. QuotientSize
    BY <1>2
  <2>4. Words(q', QuotientSize) /\ \A i \in 0 .. QuotientSize - 1 : q'[i] = 0
    BY <2>1 DEF Words
  <2> DEFINE a == q'
  <2>5. Words(a, QuotientSize) /\ \A i \in 0 .. QuotientSize - 1 : a[i] = 0
    BY <2>4
  <2> HIDE DEF a
  <2>6. ValueOf(a, QuotientSize) = ValueOf(a, 0)
    BY <2>3, <2>5, ValuePadded
  <2>7. ValueOf(a, 0) = 0
    BY SumZero DEF ValueOf
  <2>8. QED
    BY <2>2, <2>6, <2>7 DEF a
<1>6. /\ Normalised(n) \in Number(n) /\ 2 * Normalised(n)[n - 1] >= B
      /\ Leading(n) < ValueOf(Normalised(n), n)
  BY NormalisedExact DEF Leading
<1>7. /\ Dividend(n) \in Number(n + Extra) /\ \A i \in 0 .. Extra - 1 : Dividend(n)[i] = 0
      /\ ValueOf(Top(Dividend(n), n), n) = Leading(n)
  BY DividendExact
<1>8. Dividing(n)'
  <2>1. ds' \in Number(n) /\ 2 * ds'[n - 1] >= B
    BY <1>1, <1>6
  <2>2. dv' \in Number(n + Extra) /\ \A i \in 0 .. Extra - 1 : dv'[i] = 0
    BY <1>1, <1>7
  <2>3. ValueOf(Top(dv', n), n) < ValueOf(ds', n)
    BY <1>1, <1>6, <1>7
  <2>4. QED
    BY <2>1, <2>2, <2>3 DEF Dividing
<1>9. Leading(n) \in Nat /\ ValueOf(Normalised(n), n) \in Nat
  <2>1. Leading(n) \in Nat
    BY LeadingIsNat
  <2>2. ValueOf(Normalised(n), n) \in 0 .. Weight[n] - 1 /\ Weight[n] \in Nat
    BY <1>6, ValueBound, WeightFacts
  <2>3. QED
    BY <2>1, <2>2
<1>10. Divided(n, 0)'
  <2> DEFINE x == Leading(n)
             y == ValueOf(Normalised(n), n)
  <2>1. x \in Nat /\ y \in Nat
    BY <1>9
  <2> HIDE DEF x, y
  <2>2. 0 * y + x = x * 1
    BY <2>1
  <2>3. Weight[0] = 1
    BY WeightFacts
  <2>4. ValueOf(Top(dv', n), n) = x /\ ValueOf(ds', n) = y /\ ValueOf(q', QuotientSize) = 0
        /\ Leading(n)' = x
    BY <1>1, <1>5, <1>7, CandidateStays DEF x, y
  <2>5. QED
    BY <2>2, <2>3, <2>4 DEF Divided
<1>11. 0 \in Nat /\ 0 + cycles' = n + Extra - UsedWords(n)'
  <2>1. UsedWords(n)' = UsedWords(n)
    BY CandidateStays
  <2>2. QED
    BY <1>4, <2>1
<1>12. DivisionInv(n)'
  BY <1>1, <1>4, <1>5, <1>8, <1>10, <1>11, CandidateStays DEF DivisionInv
<1>13. QED
  BY <1>1, <1>12

-----------------------------------------------------------------------------
\* The words made so far fit below the quotient's top word.
LEMMA QuotientFits ==
  ASSUME NEW n \in Nat \ {0, 1}, e \in Candidates(n), DivisionInv(n), cycles > 0,
         NEW k \in Nat, k + cycles = n + Extra - UsedWords(n), Divided(n, k)
  PROVE  ValueOf(q, QuotientSize) < Weight[QuotientSize - 1]
<1> DEFINE V == ValueOf(q, QuotientSize)
           D == ValueOf(ds, n)
           R == ValueOf(Top(dv, n), n)
           c == Leading(n)
           w == Weight[k]
           z == Weight[QuotientSize - 1]
<1>1. ds = Normalised(n) /\ q \in Number(QuotientSize) /\ cycles \in Nat /\ ds \in Number(n)
      /\ dv \in Number(n + Extra) /\ n \in Nat
  BY DEF DivisionInv, Dividing
<1>2. Extra \in Nat /\ Extra >= 2 /\ QuotientSize = Extra + 3 /\ QuotientSize \in Nat
  BY ExtraFacts
<1>3. k \in Nat /\ k <= QuotientSize - 1 /\ QuotientSize - 1 \in Nat
  <2>1. UsedWords(n) \in {n - 1, n}
    BY UsedWordsExact
  <2>2. QED
    BY <1>1, <1>2, <2>1
<1>4. w \in Nat /\ w >= 1 /\ z \in Nat /\ w <= z
  BY <1>3, WeightGrows, WeightFacts
<1>5. c \in Nat /\ D \in Nat /\ c < D /\ V \in Nat /\ R \in Nat
  <2>1. c < D
    BY <1>1, NormalisedExact DEF Leading
  <2>2. c \in Nat
    BY LeadingIsNat
  <2>3. D \in 0 .. Weight[n] - 1 /\ Weight[n] \in Nat
    BY <1>1, ValueBound, WeightFacts
  <2>4. V \in 0 .. Weight[QuotientSize] - 1 /\ Weight[QuotientSize] \in Nat
    BY <1>1, <1>2, ValueBound, WeightFacts
  <2>5. R \in 0 .. Weight[n] - 1
    <3>1. Top(dv, n) \in Number(n)
      BY <1>1, TopWords
    <3>2. QED
      BY <1>1, <3>1, ValueBound
  <2>6. QED
    BY <2>1, <2>2, <2>3, <2>4, <2>5
<1>6. V * D + R = c * w
  BY DEF Divided
<1> HIDE DEF V, D, R, c, w, z
<1>7. V < w
  <2>1. SUFFICES ASSUME w <= V PROVE FALSE
    BY <1>4, <1>5
  <2>2. w * D \in Nat /\ V * D \in Nat /\ w * D <= V * D
    BY <1>4, <1>5, <2>1, TimesGrows
  <2>3. (c + 1) * w <= D * w /\ D * w \in Nat
    <3>1. c + 1 \in Nat /\ c + 1 <= D
      BY <1>5
    <3>2. QED
      BY <1>4, <1>5, <3>1, TimesGrows
  <2>4. (c + 1) * w = c * w + w /\ c * w \in Nat /\ D * w = w * D
    BY <1>4, <1>5
  <2>5. QED
    BY <1>4, <1>5, <1>6, <2>2, <2>3, <2>4
<1>8. V < z
  BY <1>4, <1>5, <1>7
<1>9. QED
  BY <1>8 DEF V, z

\* A cycle that keeps its carries keeps the invariant of the division.
LEMMA DivisionGoesOn ==
  ASSUME NEW n \in Nat \ {0, 1}, e \in Candidates(n), DivisionInv(n), cycles > 0,
         CycleKept(n), e' = e, ds' = ds, cycles' = cycles - 1
  PROVE  DivisionInv(n)'
<1>1. PICK k \in Nat : k + cycles = n + Extra - UsedWords(n) /\ Divided(n, k)
  BY DEF DivisionInv
<1>2. ValueOf(q, QuotientSize) < Weight[QuotientSize - 1]
  BY <1>1, QuotientFits
<1>3. /\ Dividing(n) /\ ds = Normalised(n) /\ q \in Number(QuotientSize) /\ cycles \in Nat
      /\ ds \in Number(n) /\ dv \in Number(n + Extra) /\ n \in Nat
  BY DEF DivisionInv, Dividing
<1>4. /\ Dividing(n)' /\ q' \in Number(QuotientSize)
      /\ \E digit \in Word :
            /\ ValueOf(q', QuotientSize) = digit + B * ValueOf(q, QuotientSize)
            /\ ValueOf(Top(dv, n), n) * B
                  = digit * ValueOf(ds, n) + ValueOf(Top(dv', n), n)
  BY <1>2, <1>3, CycleExact
<1>5. PICK digit \in Word :
         /\ ValueOf(q', QuotientSize) = digit + B * ValueOf(q, QuotientSize)
         /\ ValueOf(Top(dv, n), n) * B = digit * ValueOf(ds, n) + ValueOf(Top(dv', n), n)
  BY <1>4
<1> DEFINE V == ValueOf(q, QuotientSize)
           V2 == ValueOf(q', QuotientSize)
           D == ValueOf(ds, n)
           R == ValueOf(Top(dv, n), n)
           R2 == ValueOf(Top(dv', n), n)
           c == Leading(n)
           w == Weight[k]
<1>6. B \in Nat /\ digit \in Nat /\ D \in Nat /\ R \in Nat /\ R2 \in Nat /\ V \in Nat /\ c \in Nat
      /\ w \in Nat
  <2>1. B \in Nat /\ digit \in Nat
    BY BaseFacts DEF Word
  <2>2. Weight[n] \in Nat /\ Weight[QuotientSize] \in Nat /\ QuotientSize \in Nat /\ w \in Nat
    BY <1>3, ExtraFacts, WeightFacts
  <2>3. Top(dv, n) \in Number(n)
    BY <1>3, TopWords
  <2>4. Top(dv', n) \in Number(n)
    <3>1. dv' \in Number(n + Extra)
      BY <1>4 DEF Dividing
    <3>2. QED
      BY <1>3, <3>1, TopWords
  <2>5. D \in 0 .. Weight[n] - 1 /\ R \in 0 .. Weight[n] - 1
    BY <1>3, <2>3, ValueBound
  <2>6. R2 \in 0 .. Weight[n] - 1
    BY <1>3, <2>4, ValueBound
  <2>7. V \in 0 .. Weight[QuotientSize] - 1
    BY <1>3, <2>2, ValueBound
  <2>8. c \in Nat
    BY LeadingIsNat
  <2> HIDE DEF V, D, R, R2, c, w
  <2>9. QED
    BY <2>1, <2>2, <2>5, <2>6, <2>7, <2>8
<1>7. V * D + R = c * w /\ V2 = digit + B * V /\ R * B = digit * D + R2
  BY <1>1, <1>5 DEF Divided
<1>8. Weight[k + 1] = B * w
  BY WeightFacts
<1> HIDE DEF V, V2, D, R, R2, c, w
<1>9. V2 * D + R2 = c * (B * w)
  <2>1. (digit + B * V) * D = digit * D + (V * D) * B
    BY <1>6
  <2>2. (V * D + R) * B = (V * D) * B + R * B
    BY <1>6
  <2>3. c * (B * w) = (c * w) * B
    BY <1>6
  <2>4. digit * D \in Nat /\ (V * D) * B \in Nat /\ R * B \in Nat
    BY <1>6
  <2>5. (c * w) * B = (V * D) * B + R * B
    BY <1>7, <2>2
  <2>6. V2 * D = digit * D + (V * D) * B
    BY <1>7, <2>1
  <2>7. QED
    BY <1>6, <1>7, <2>3, <2>4, <2>5, <2>6
<1>10. Divided(n, k + 1)'
  <2>1. V2 * D + R2 = c * Weight[k + 1]
    BY <1>8, <1>9
  <2>2. Leading(n)' = Leading(n) /\ ValueOf(ds, n)' = ValueOf(ds, n)
    BY CandidateStays
  <2>3. QED
    BY <2>1, <2>2 DEF Divided, V2, D, R2, c
<1>11. k + 1 \in Nat /\ (k + 1) + cycles' = n + Extra - UsedWords(n)' /\ cycles' \in Nat
  <2>1. UsedWords(n)' = UsedWords(n)
    BY CandidateStays
  <2>2. cycles' = cycles - 1 /\ cycles \in Nat
    BY <1>3
  <2>3. (k + 1) + (cycles - 1) = k + cycles
    BY <2>2
  <2>4. QED
    BY <1>1, <2>1, <2>2, <2>3
<1>12. ds' = Normalised(n)'
  BY <1>3, CandidateStays
<1>13. QED
  BY <1>4, <1>10, <1>11, <1>12 DEF DivisionInv

\* When no cycle remains the quotient is that of a power of two by the candidate:
\* what both were moved up by cancels.
LEMMA DivisionEnds ==
  ASSUME NEW n \in Nat \ {0, 1}, e \in Candidates(n), DivisionInv(n), cycles = 0
  PROVE  QuotientReady(n)
<1> DEFINE u == UsedWords(n)
           k == n + Extra - u
           V == ValueOf(q, QuotientSize)
           v == ValueOf(e, n)
           f == Factor(n)
           R == ValueOf(Top(dv, n), n)
           X == Weight[n] * Pow2[pow2ws]
           p == Pow2[ShiftCount(n)]
<1>1. Divided(n, k) /\ k \in Nat
  <2>1. PICK m \in Nat : m + cycles = n + Extra - u /\ Divided(n, m)
    BY DEF DivisionInv
  <2>2. m = k
    BY <2>1
  <2>3. QED
    BY <2>1, <2>2
<1>2. /\ ds = Normalised(n) /\ q \in Number(QuotientSize) /\ Dividing(n)
      /\ ds \in Number(n) /\ dv \in Number(n + Extra) /\ R < ValueOf(ds, n) /\ n \in Nat
  BY DEF DivisionInv, Dividing
<1>3. ValueOf(ds, n) = v * f /\ f \in Nat /\ f >= 1
  BY <1>2, NormalisedExact
<1>4. v \in Nat /\ v >= 3
  BY CandidateFacts
<1>5. Extra \in Nat /\ Extra >= 2 /\ QuotientSize \in Nat /\ pow2ws = WordBits * (Extra - 1)
      /\ Extra - 1 \in Nat
  BY ExtraFacts
<1>6. u \in {n - 1, n}
  BY UsedWordsExact
<1>7. V \in Nat /\ R \in Nat
  <2>1. Top(dv, n) \in Number(n)
    BY <1>2, TopWords
  <2>2. V \in 0 .. Weight[QuotientSize] - 1 /\ R \in 0 .. Weight[n] - 1
    BY <1>2, <1>5, <2>1, ValueBound
  <2>3. Weight[QuotientSize] \in Nat /\ Weight[n] \in Nat
    BY <1>2, <1>5, WeightFacts
  <2> HIDE DEF V, R
  <2>4. QED
    BY <2>2, <2>3
<1>8. Leading(n) * Weight[k] = f * X /\ X \in Nat
  <2> DEFINE a == n - u
             b == n - 1
             c == Extra - 1
             x == Weight[a]
             y == Weight[b]
             z == Weight[c]
  <2>1. a \in Nat /\ b \in Nat /\ c \in Nat /\ k = a + (c + 1) /\ n = b + 1
    BY <1>2, <1>5, <1>6
  <2>2. z = Pow2[pow2ws]
    BY <1>5, WeightIsPow2
  <2> HIDE DEF a, b, c, k
  <2>3. Weight[a + (c + 1)] = x * Weight[c + 1]
    BY <2>1, WeightPlus
  <2>4. Weight[c + 1] = B * z /\ Weight[b + 1] = B * y /\ x \in Nat /\ y \in Nat /\ z \in Nat
    BY <2>1, WeightFacts
  <2>5. p \in Nat /\ B \in Nat
    <3>1. p \in 0 .. B - 1 /\ B \in Nat
      BY ShiftCountExact, BaseFacts DEF Word
    <3>2. QED
      BY <3>1
  <2>6. Leading(n) = p * y /\ f = x * p
    BY DEF Leading, Factor, p, y, a, b, x
  <2>7. Weight[k] = x * (B * z) /\ X = (B * y) * z
    BY <2>1, <2>2, <2>3, <2>4
  <2> HIDE DEF x, y, z, p, f, X
  <2>8. (p * y) * (x * (B * z)) = (x * p) * ((B * y) * z)
    BY <2>4, <2>5
  <2>9. X \in Nat
    BY <2>4, <2>5, <2>7
  <2>10. QED
    BY <2>6, <2>7, <2>8, <2>9
<1>9. V * (v * f) + R = f * X /\ R < v * f
  BY <1>1, <1>2, <1>3, <1>8 DEF Divided
<1> HIDE DEF V, v, f, R, X, k, u, p
<1> DEFINE rest == X - V * v
<1>10. rest \in Int /\ f * rest = R
  <2> DEFINE y == V * v
             h == f * y
             g == f * X
             i == f * rest
  <2>1. y \in Nat /\ h \in Nat /\ g \in Nat
    BY <1>3, <1>4, <1>7, <1>8
  <2>2. V * (v * f) = h
    BY <1>3, <1>4, <1>7
  <2>3. rest \in Int /\ i = g - h
    <3>1. rest = X - y
      OBVIOUS
    <3> HIDE DEF y, rest
    <3>2. rest \in Int
      BY <1>8, <2>1, <3>1
    <3>3. f * (X - y) = f * X - f * y
      BY <1>3, <1>8, <2>1
    <3>4. QED
      BY <3>1, <3>2, <3>3
  <2>4. h + R = g
    BY <1>9, <2>2
  <2> HIDE DEF y, h, g, i, rest
  <2>5. i = R
    BY <1>7, <2>1, <2>3, <2>4
  <2>6. QED
    BY <2>3, <2>5 DEF i
<1> HIDE DEF rest
<1>11. rest >= 0
  <2>1. SUFFICES ASSUME rest < 0 PROVE FALSE
    BY <1>10
  <2>2. PICK y \in Nat : rest = -1 - y
    <3>1. -1 - rest \in Nat /\ rest = -1 - (-1 - rest)
      BY <1>10, <2>1
    <3>2. QED
      BY <3>1
  <2>3. f * (-1 - y) = -f - f * y /\ f * y \in Nat
    BY <1>3
  <2>4. QED
    BY <1>3, <1>7, <1>10, <2>2, <2>3
<1>12. rest < v
  <2>1. SUFFICES ASSUME v <= rest PROVE FALSE
    BY <1>4, <1>10
  <2>2. rest \in Nat
    BY <1>10, <1>11
  <2>3. v * f <= rest * f
    BY <1>3, <1>4, <2>1, <2>2, TimesGrows
  <2>4. rest * f = f * rest /\ v * f \in Nat
    BY <1>3, <1>4, <2>2
  <2>5. QED
    BY <1>7, <1>9, <1>10, <2>3, <2>4
<1>13. V * v + rest = X
  <2>1. V * v \in Nat
    BY <1>4, <1>7
  <2>2. QED
    BY <1>8, <2>1 DEF rest
<1>14. rest \in 0 .. v - 1
  BY <1>4, <1>10, <1>11, <1>12
<1>15. QED
  BY <1>13, <1>14 DEF QuotientReady, V, v, X

\* The number of bits that the division returns.
LEMMA BitsExact ==
  ASSUME NEW n \in Nat \ {0, 1}, e \in Candidates(n)
  PROVE  LET length == WordBits * UsedWords(n) - ShiftCount(n)
         IN  /\ length \in Nat /\ length >= 2 /\ length <= WordBits * n
             /\ Pow2[length - 1] < ValueOf(e, n) /\ ValueOf(e, n) < Pow2[length]
<1> DEFINE v == ValueOf(e, n)
           u == UsedWords(n)
           s == ShiftCount(n)
           t == TopUsed(n)
           b == BitLength(t)
           k == u - 1
           w == Weight[k]
           lo == ValueOf(e, k)
           length == WordBits * u - s
<1>1. WordBits \in Nat /\ WordBits >= 4
  BY WordAssumption
<1>2. /\ e \in Number(n) /\ v \in Nat /\ v >= 3 /\ v % 2 = 1
  BY CandidateFacts
<1>3. u \in {n - 1, n} /\ \A i \in u .. n - 1 : e[i] = 0
  BY UsedWordsExact
<1>4. /\ s \in 0 .. WordBits - 1 /\ t \in Word /\ t >= 1 /\ b = WordBits - s
  BY ShiftCountExact
<1>5. k \in Nat /\ k + 1 = u /\ u \in Nat /\ u \in 0 .. n /\ n \in Nat /\ k <= n - 1 /\ u >= 1
  BY <1>3
<1>6. Words(e, n)
  BY <1>2 DEF Words, Number
<1>7. v = ValueOf(e, u)
  <2> HIDE DEF u
  <2>1. QED
    BY <1>3, <1>5, <1>6, ValuePadded
<1>8. lo \in 0 .. w - 1 /\ v = lo + t * w /\ w \in Nat
  <2>1. e[k] = t
    BY DEF TopUsed
  <2> HIDE DEF k, u, t
  <2>2. Words(e, k + 1)
    BY <1>5, <1>6 DEF Words
  <2>3. /\ lo \in 0 .. w - 1
        /\ ValueOf(e, k + 1) = lo + e[k] * w
    BY <1>5, <2>2, ValueNext
  <2>4. w \in Nat
    BY <1>5, WeightFacts
  <2>5. QED
    BY <1>5, <1>7, <2>1, <2>3, <2>4
<1>9. b \in 1 .. WordBits /\ Pow2[b - 1] <= t /\ t < Pow2[b] /\ t \in Nat
  <2> HIDE DEF t
  <2>1. t \in Word \ {0}
    BY <1>4
  <2>2. t \in Nat
    BY <2>1, BaseFacts DEF Word
  <2>3. QED
    BY <2>1, <2>2, BitLengthExact
<1>10. /\ WordBits * k \in Nat /\ w = Pow2[WordBits * k] /\ WordBits * u = WordBits * k + WordBits
       /\ WordBits * n \in Nat /\ WordBits * u <= WordBits * n
  <2> HIDE DEF k, u
  <2>1. WordBits * k \in Nat /\ w = Pow2[WordBits * k]
    BY <1>5, WeightIsPow2
  <2>2. WordBits * (k + 1) = WordBits * k + WordBits
    BY <1>1, <1>5
  <2>3. u * WordBits <= n * WordBits
    BY <1>1, <1>5, TimesGrows
  <2>4. \A x \in Nat : x * WordBits = WordBits * x /\ x * WordBits \in Nat
    BY <1>1
  <2>5. QED
    BY <1>5, <2>1, <2>2, <2>3, <2>4
<1> DEFINE m == WordBits * k
<1> HIDE DEF k, u, t, v, w, lo, b, s
<1>11. m \in Nat /\ length = m + b /\ length \in Nat /\ length - 1 = m + (b - 1) /\ b - 1 \in Nat
       /\ b \in Nat /\ length <= WordBits * n
  BY <1>1, <1>4, <1>9, <1>10
<1>12. Pow2[length] = Pow2[m] * Pow2[b] /\ Pow2[length - 1] = Pow2[m] * Pow2[b - 1]
  BY <1>11, Pow2Plus
<1> DEFINE x == Pow2[b - 1]
           y == Pow2[b]
<1>13. x \in Nat /\ y \in Nat /\ Pow2[m] = w /\ x <= t /\ t + 1 <= y
  BY <1>9, <1>10, <1>11, Pow2Facts
<1> HIDE DEF m, x, y, length
<1>14. x * w <= t * w /\ (t + 1) * w <= y * w /\ x * w \in Nat /\ y * w \in Nat /\ t * w \in Nat
  <2>1. t + 1 \in Nat
    BY <1>9
  <2>2. QED
    BY <1>8, <1>9, <1>13, <2>1, TimesGrows
<1>15. (t + 1) * w = t * w + w /\ x * w = w * x /\ y * w = w * y
  BY <1>8, <1>9, <1>13
<1>16. Pow2[length - 1] <= v /\ v < Pow2[length] /\ Pow2[length - 1] \in Nat
  <2>1. Pow2[length - 1] = x * w /\ Pow2[length] = y * w
    BY <1>12, <1>13, <1>15 DEF x, y
  <2>2. QED
    BY <1>8, <1>14, <1>15, <2>1
<1>17. length >= 2
  <2>1. SUFFICES ASSUME length <= 1 PROVE FALSE
    BY <1>11
  <2>2. length \in {0, 1}
    BY <1>11, <2>1
  <2>3. Pow2[0] = 1 /\ Pow2[0 + 1] = 2 * Pow2[0]
    BY Pow2Facts
  <2>4. Pow2[length] <= 2
    BY <2>2, <2>3
  <2>5. Pow2[length] \in Nat
    BY <1>11, Pow2Facts
  <2>6. QED
    BY <1>2, <1>16, <2>4, <2>5
<1>18. Pow2[length - 1] # v
  <2>1. length - 2 \in Nat /\ (length - 2) + 1 = length - 1
    BY <1>11, <1>17
  <2>2. Pow2[(length - 2) + 1] = 2 * Pow2[length - 2] /\ Pow2[length - 2] \in Nat
    BY <2>1, Pow2Facts
  <2> DEFINE h == Pow2[length - 2]
  <2>3. Pow2[length - 1] = 2 * h /\ h \in Nat
    BY <2>1, <2>2
  <2> HIDE DEF h
  <2>4. QED
    BY <1>2, <2>3
<1>19. QED
  BY <1>2, <1>11, <1>16, <1>17, <1>18 DEF length, v, u, s

-----------------------------------------------------------------------------
(***************************************************************************)
(* The powers of two in Montgomery form, from the quotient.                *)
(***************************************************************************)
\* A power of two is no multiple of the candidate.
LEMMA NoMultiple ==
  ASSUME NEW v \in Nat, v % 2 = 1, v >= 3, NEW k \in Nat, NEW z \in Nat, z * v = Pow2[k]
  PROVE  FALSE
<1>1. Pow2[k] \in Nat
  BY Pow2Facts
<1>2. Pow2[k] * 1 = 0 + z * v
  BY <1>1
<1>3. Cong(Pow2[k] * 1, 0, v)
  <2> DEFINE x == Pow2[k] * 1
  <2>1. x \in Int /\ 0 \in Int /\ z \in Int /\ v \in Int /\ x = 0 + z * v
    BY <1>1, <1>2
  <2> HIDE DEF x
  <2>2. Cong(x, 0, v)
    BY <2>1, CongMultiple
  <2>3. QED
    BY <2>2 DEF x
<1>4. Cong(1, 0, v)
  BY <1>3, OddCancels
<1>5. 1 \in 0 .. v - 1 /\ 0 \in 0 .. v - 1 /\ v > 0
  OBVIOUS
<1>6. 1 = 0
  BY <1>4, <1>5, CongUnique
<1>7. QED
  BY <1>6

\* The part of the quotient that a power of two is made from.
QuotientFor(s) == ValueOf(q, QuotientSize) \div Pow2[pow2ws - s]

\* That part times the candidate misses a power of two by less than the candidate.
LEMMA QuotientForExact ==
  ASSUME NEW n \in Nat \ {0, 1}, e \in Candidates(n), QuotientReady(n),
         q \in Number(QuotientSize), NEW s \in 0 .. pow2ws
  PROVE  /\ QuotientFor(s) \in Nat /\ QuotientFor(s) < Weight[QuotientWords]
         /\ \E rho \in 1 .. ValueOf(e, n) - 1 :
               QuotientFor(s) * ValueOf(e, n) + rho = Weight[n] * Pow2[s]
<1> DEFINE v == ValueOf(e, n)
           V == ValueOf(q, QuotientSize)
           d == pow2ws - s
           p == Pow2[d]
           z == V \div p
           r == V % p
           W == Weight[n]
           X == W * Pow2[s]
<1>1. v \in Nat /\ v >= 3 /\ v % 2 = 1 /\ v >= Weight[n - 2] /\ \A i \in 0 .. n - 1 : v # Weight[i]
  BY CandidateFacts
<1>2. /\ pow2ws \in Nat /\ Extra \in Nat /\ Extra >= 2 /\ pow2ws = WordBits * (Extra - 1)
      /\ QuotientWords = Extra + 1 /\ QuotientSize = Extra + 3 /\ QuotientSize \in Nat
  BY ExtraFacts
<1>3. PICK rest \in 0 .. v - 1 : V * v + rest = W * Pow2[pow2ws]
  BY DEF QuotientReady
<1>4. d \in Nat /\ s \in Nat /\ pow2ws = s + d
  BY <1>2
<1>5. p \in Nat /\ p >= 1 /\ Pow2[pow2ws] = Pow2[s] * p /\ W \in Nat /\ W >= 1 /\ Pow2[s] \in Nat
      /\ Pow2[s] >= 1
  <2> HIDE DEF d
  <2>1. Pow2[s + d] = Pow2[s] * Pow2[d]
    BY <1>4, Pow2Plus
  <2>2. Pow2[d] \in Nat /\ Pow2[d] # 0 /\ Pow2[s] \in Nat /\ Pow2[s] # 0
    BY <1>4, Pow2Facts
  <2>3. W \in Nat /\ W # 0
    BY WeightFacts
  <2>4. QED
    BY <1>4, <2>1, <2>2, <2>3
<1>6. V \in Nat
  <2>1. V \in 0 .. Weight[QuotientSize] - 1 /\ Weight[QuotientSize] \in Nat
    BY <1>2, ValueBound, WeightFacts
  <2> HIDE DEF V
  <2>2. QED
    BY <2>1
<1> HIDE DEF v, V, p, d
<1>7. z \in Nat /\ r \in 0 .. p - 1 /\ V = p * z + r
  BY <1>5, <1>6, Division
<1>8. X \in Nat
  <2>1. \A x, y \in Nat : x * y \in Nat
    BY SMT
  <2>2. QED
    BY <1>5, <2>1
<1>9. V * v + rest = X * p /\ rest \in Nat /\ rest < v
  <2>1. W * (Pow2[s] * p) = (W * Pow2[s]) * p
    BY <1>5
  <2>2. QED
    BY <1>1, <1>3, <1>5, <2>1
<1> DEFINE Y == z * v
           rho == X - Y
<1> HIDE DEF z, r, X
<1>10. Y \in Nat /\ rho \in Int /\ X = Y + rho
  <2>1. Y \in Nat
    BY <1>1, <1>7
  <2> HIDE DEF Y
  <2>2. QED
    BY <1>8, <2>1
<1>11. r * v + rest = p * rho /\ r * v \in Nat
  <2>1. (p * z + r) * v = p * (z * v) + r * v
    BY <1>1, <1>5, <1>7
  <2>2. r * v \in Nat /\ p * (z * v) \in Nat
    BY <1>1, <1>5, <1>7
  <2> HIDE DEF rho
  <2>3. (Y + rho) * p = p * Y + p * rho
    BY <1>5, <1>10
  <2>4. p * rho \in Int /\ p * Y \in Nat
    BY <1>5, <1>10
  <2>5. p * Y + r * v + rest = p * Y + p * rho
    BY <1>7, <1>9, <1>10, <2>1, <2>3
  <2> DEFINE a == p * Y
             b == r * v
             c == p * rho
  <2>6. a \in Nat /\ b \in Nat /\ c \in Int /\ a + b + rest = a + c
    BY <2>2, <2>4, <2>5
  <2> HIDE DEF a, b, c
  <2>7. b + rest = c
    BY <1>9, <2>6
  <2>8. QED
    BY <2>2, <2>7 DEF b, c
<1> HIDE DEF rho, Y
<1>12. rho >= 0
  <2>1. SUFFICES ASSUME rho < 0 PROVE FALSE
    BY <1>10
  <2>2. PICK y \in Nat : rho = -1 - y
    <3>1. -1 - rho \in Nat /\ rho = -1 - (-1 - rho)
      BY <1>10, <2>1
    <3>2. QED
      BY <3>1
  <2>3. p * (-1 - y) = -p - p * y /\ p * y \in Nat
    BY <1>5
  <2>4. QED
    BY <1>5, <1>9, <1>11, <2>2, <2>3
<1>13. rho < v
  <2>1. SUFFICES ASSUME v <= rho PROVE FALSE
    BY <1>1, <1>10
  <2>2. v * p <= rho * p /\ rho \in Nat
    BY <1>1, <1>5, <1>10, <1>12, <2>1, TimesGrows
  <2>3. rho * p = p * rho /\ v * p = p * v /\ p * v \in Nat
    BY <1>1, <1>5, <2>2
  <2>4. (r + 1) * v <= p * v
    <3>1. r + 1 \in Nat /\ r + 1 <= p
      BY <1>5, <1>7
    <3>2. QED
      BY <1>1, <1>5, <3>1, TimesGrows
  <2>5. (r + 1) * v = r * v + v
    BY <1>1, <1>7
  <2>6. QED
    BY <1>1, <1>9, <1>11, <2>2, <2>3, <2>4, <2>5
<1>14. rho # 0
  <2>1. SUFFICES ASSUME rho = 0 PROVE FALSE
    OBVIOUS
  <2>2. z * v = X
    BY <1>10, <2>1 DEF Y
  <2> DEFINE k == WordBits * n
             l == k + s
  <2>3. k \in Nat /\ W = Pow2[k]
    BY WeightIsPow2
  <2> HIDE DEF k
  <2>4. Pow2[k + s] = Pow2[k] * Pow2[s] /\ l \in Nat
    BY <1>4, <2>3, Pow2Plus
  <2>5. z * v = Pow2[l]
    BY <2>2, <2>3, <2>4 DEF X
  <2> HIDE DEF l
  <2>6. QED
    BY <1>1, <1>7, <2>4, <2>5, NoMultiple
<1>15. z < Weight[QuotientWords]
  <2> DEFINE Z == Weight[QuotientWords]
             w == Weight[n - 2]
  <2>1. SUFFICES ASSUME ~(z < Z) PROVE FALSE
    OBVIOUS
  <2>2. Z \in Nat /\ w \in Nat /\ w < v /\ Z >= 1
    <3>1. QuotientWords \in Nat /\ n - 2 \in Nat /\ n - 2 \in 0 .. n - 1
      BY <1>2
    <3>2. Z \in Nat /\ Z # 0 /\ w \in Nat
      BY <3>1, WeightFacts
    <3>3. v # w /\ v >= w
      BY <1>1, <3>1
    <3> HIDE DEF Z, w
    <3>4. QED
      BY <1>1, <3>2, <3>3
  <2>3. Z * w = W * Pow2[pow2ws]
    <3> DEFINE a == Extra - 1
               b == n - 2
    <3>1. a \in Nat /\ b \in Nat /\ n \in Nat /\ QuotientWords + b = n + a /\ QuotientWords \in Nat
      BY <1>2
    <3>2. Weight[a] = Pow2[pow2ws]
      BY <1>2, <3>1, WeightIsPow2
    <3> HIDE DEF a
    <3>3. Weight[n + a] = W * Weight[a]
      BY <3>1, WeightPlus
    <3>4. Weight[QuotientWords + b] = Z * w
      <4> HIDE DEF b
      <4>1. Weight[QuotientWords + b] = Weight[QuotientWords] * Weight[b]
        BY <3>1, WeightPlus
      <4>2. QED
        BY <4>1 DEF b
    <3>5. QED
      BY <3>1, <3>2, <3>3, <3>4
  <2>4. Pow2[s] <= Pow2[pow2ws] /\ Pow2[pow2ws] \in Nat
    BY <1>2, <1>4, Pow2Grows, Pow2Facts
  <2>5. X <= W * Pow2[pow2ws]
    <3> DEFINE a == Pow2[s]
               b == Pow2[pow2ws]
    <3>1. a \in Nat /\ b \in Nat /\ a <= b
      BY <1>5, <2>4
    <3> HIDE DEF a, b
    <3>2. a * W <= b * W /\ a * W = W * a /\ b * W = W * b
      BY <1>5, <3>1, TimesGrows
    <3>3. QED
      BY <3>2 DEF X, a, b
  <2> HIDE DEF Z, w
  <2>6. Z * v <= z * v /\ (w + 1) * Z <= v * Z
    BY <1>1, <1>7, <2>1, <2>2, TimesGrows
  <2>7. (w + 1) * Z = Z * w + Z /\ v * Z = Z * v /\ Z * w \in Nat /\ Z * v \in Nat
    BY <1>1, <2>2
  <2> DEFINE a == Z * w
             b == Z * v
             c == W * Pow2[pow2ws]
  <2>8. a \in Nat /\ b \in Nat /\ a + Z <= b /\ b <= Y
    <3>1. (w + 1) * Z = a + Z /\ v * Z = b /\ a \in Nat /\ b \in Nat
      BY <2>7
    <3> HIDE DEF a
    <3>2. b <= Y
      BY <2>6 DEF Y
    <3> HIDE DEF b
    <3>3. QED
      BY <2>6, <3>1, <3>2
  <2>9. a = c /\ X <= c
    BY <2>3, <2>5
  <2> HIDE DEF a, b, c
  <2>10. QED
    BY <1>8, <1>10, <1>12, <2>2, <2>8, <2>9
<1>16. rho \in 1 .. v - 1 /\ z * v + rho = X
  <2>1. rho \in 1 .. v - 1
    BY <1>1, <1>10, <1>12, <1>13, <1>14
  <2>2. QED
    BY <1>10, <2>1 DEF Y
<1>17. z = QuotientFor(s)
  BY DEF QuotientFor, z, V, p, d
<1>18. QED
  BY <1>7, <1>15, <1>16, <1>17 DEF v, X

-----------------------------------------------------------------------------
\* The procedures of the kernel that runs, for its size.
LEMMA SizeFacts ==
  ASSUME kernel \in Kernels
  PROVE  /\ size \in Nat \ {0, 1} /\ 4 * size <= B
         /\ \A x, y : mulProductScan(x, y) = ProductScan(x, y, size, QuotientWords, size)
         /\ \A x, mod, invm : monSqr(x, mod, invm)
               = Montgomery(SquareLow(x, size), SquareHigh(x, size), mod, invm, size)
         /\ \A x, y, mod, invm : monMul(x, y, mod, invm)
               = Montgomery(ProductLow(x, y, size), ProductHigh(x, y, size), mod, invm, size)
         /\ \A x, mod, invm : redcHalf(x, mod, invm)
               = Montgomery(HalfLow(x, size), HalfHigh(x, size), mod, invm, size)
<1>1. CASE kernel = "320"
  <2>1. size = Size320
    BY <1>1 DEF size
  <2>2. size \in Nat \ {0, 1} /\ 4 * size <= B
    BY <2>1, WordAssumption
  <2>3. QED
    BY <1>1, <2>1, <2>2 DEF mulProductScan, mulProductScan320to192, monSqr, monSqr320,
                            monMul, monMul320, redcHalf, redcHalf320
<1>2. CASE kernel # "320"
  <2>1. size = Size352
    BY <1>2 DEF size
  <2>2. size \in Nat \ {0, 1} /\ 4 * size <= B
    BY <2>1, WordAssumption
  <2>3. QED
    BY <1>2, <2>1, <2>2 DEF mulProductScan, mulProductScan352to192, monSqr, monSqr352,
                            monMul, monMul352, redcHalf, redcHalf352
<1>3. QED
  BY <1>1, <1>2

\* Negation word by word, whose increment reaches only the lowest word: right
\* unless that word is zero and another is not.
LEMMA NegatedExact ==
  ASSUME NEW n \in Nat \ {0, 1}, NEW a \in Number(n), NEW rho \in Nat, rho >= 1,
         rho < Weight[n], ValueOf(a, n) + rho = Weight[n]
  PROVE  /\ Negated(a) \in Number(n)
         /\ \/ Negated(a)[0] = 0 /\ \E i \in 1 .. n - 1 : Negated(a)[i] # B - 1
            \/ ValueOf(Negated(a), n) = rho
<1> DEFINE r == Negated(a)
           V == ValueOf(a, n)
           W == Weight[n]
<1>1. B \in Nat /\ B >= 2
  BY BaseFacts
<1>2. r = [i \in 0 .. n - 1 |-> IF i = 0 THEN (B - a[0]) % B ELSE B - 1 - a[i]]
  <2>1. DOMAIN a = 0 .. n - 1
    BY DEF Number
  <2>2. QED
    BY <2>1 DEF Negated
<1>3. \A i \in 0 .. n - 1 : a[i] \in 0 .. B - 1
  BY DEF Number, Word
<1> HIDE DEF r
<1>4. 0 \in 0 .. n - 1 /\ n \in Nat /\ \A i \in 1 .. n - 1 : i \in 0 .. n - 1 /\ i # 0
  OBVIOUS
<1>5. r[0] = (B - a[0]) % B /\ \A i \in 1 .. n - 1 : r[i] = B - 1 - a[i]
  BY <1>2, <1>4
<1>6. r[0] \in Word /\ (a[0] = 0 => r[0] = 0) /\ (a[0] # 0 => r[0] = B - a[0])
  <2> DEFINE x == a[0]
             y == B - x
  <2>1. x \in 0 .. B - 1 /\ y \in Int
    BY <1>1, <1>3, <1>4
  <2>2. r[0] = y % B
    BY <1>5
  <2>3. CASE x = 0
    <3>1. 0 \in 0 .. B - 1 /\ y = 0 + 1 * B /\ 1 \in Int /\ B > 0
      BY <1>1, <2>3
    <3> HIDE DEF y
    <3>2. y % B = 0
      BY <1>1, <2>1, <3>1, RestIs
    <3>3. QED
      BY <1>1, <2>2, <2>3, <3>2 DEF Word
  <2>4. CASE x # 0
    <3>1. y \in 0 .. B - 1 /\ y = y + 0 * B /\ 0 \in Int /\ B > 0
      BY <1>1, <2>1, <2>4
    <3> HIDE DEF y
    <3>2. y % B = y
      BY <1>1, <2>1, <3>1, RestIs
    <3>3. r[0] \in Word /\ r[0] = y
      BY <2>2, <3>1, <3>2 DEF Word
    <3>4. QED
      BY <2>4, <3>3 DEF y
  <2>5. QED
    BY <2>3, <2>4
<1>7. r \in Number(n)
  <2>1. ASSUME NEW i \in 0 .. n - 1 PROVE r[i] \in Word
    <3>1. CASE i = 0
      BY <1>6, <3>1
    <3>2. CASE i # 0
      <4>1. i \in 1 .. n - 1
        BY <3>2
      <4>2. r[i] = B - 1 - a[i]
        BY <1>5, <4>1
      <4>3. QED
        BY <1>1, <1>3, <4>2 DEF Word
    <3>3. QED
      BY <3>1, <3>2
  <2>2. r = [i \in 0 .. n - 1 |-> r[i]]
    BY <1>2
  <2>3. QED
    BY <2>1, <2>2 DEF Number
<1>8. V \in Nat /\ W \in Nat /\ V + rho = W
  <2>1. V \in 0 .. W - 1 /\ W \in Nat
    BY <1>4, ValueBound, WeightFacts
  <2> HIDE DEF V, W
  <2>2. V \in Nat /\ W \in Nat
    BY <2>1
  <2>3. QED
    BY <2>2 DEF V, W
<1>9. CASE a[0] # 0
  <2>1. r[0] = B - a[0]
    BY <1>6, <1>9
  <2>2. ValueOf(r, n) = W - V
    BY <1>5, <1>9, <2>1, ValueNegated
  <2> HIDE DEF V, W
  <2>3. ValueOf(r, n) = rho
    BY <1>8, <2>2
  <2>4. QED
    BY <1>7, <2>3 DEF r
<1>10. CASE a[0] = 0
  <2>1. SUFFICES ASSUME \A i \in 1 .. n - 1 : r[i] = B - 1 PROVE FALSE
    BY <1>6, <1>7, <1>10 DEF r
  <2>2. \A i \in 0 .. n - 1 : a[i] = 0
    <3>1. ASSUME NEW i \in 0 .. n - 1, i # 0 PROVE a[i] = 0
      <4>1. i \in 1 .. n - 1
        BY <3>1
      <4>2. B - 1 = B - 1 - a[i] /\ a[i] \in Int
        BY <1>3, <1>5, <2>1, <4>1
      <4>3. QED
        BY <1>1, <4>2
    <3>2. QED
      BY <1>10, <3>1
  <2>3. Words(a, n)
    BY DEF Words, Number
  <2>4. V = ValueOf(a, 0)
    <3>1. 0 \in 0 .. n
      OBVIOUS
    <3>2. QED
      BY <1>4, <2>2, <2>3, <3>1, ValuePadded
  <2>5. ValueOf(a, 0) = 0
    BY SumZero DEF ValueOf
  <2> HIDE DEF V
  <2>6. QED
    BY <1>8, <2>4, <2>5
<1>11. QED
  BY <1>9, <1>10

\* redcify: a power of two in Montgomery form, unless its negation lost a carry.
LEMMA RedcifyExact ==
  ASSUME kernel \in Kernels, e \in Candidates(size), QuotientReady(size),
         q \in Number(QuotientSize), NEW s \in 0 .. pow2ws
  PROVE  /\ redcify(s) \in Number(size)
         /\ \/ RedcifyLost(redcify(s))
            \/ Cong(ValueOf(redcify(s), size), Pow2[s] * Weight[size], ValueOf(e, size))
<1> DEFINE n == size
           v == ValueOf(e, n)
           W == Weight[n]
           z == QuotientFor(s)
           y == WordsOf(z, QuotientWords)
           y2 == WordsOf(z, QuotientSize)
           a == ProductScan(e, y, n, QuotientWords, n)
<1>1. n \in Nat \ {0, 1} /\ 2 * n <= B
  <2>1. size \in Nat \ {0, 1} /\ 4 * size <= B
    BY SizeFacts
  <2>2. B \in Nat
    BY BaseFacts
  <2>3. QED
    BY <2>1, <2>2
<1>2. mulProductScan(e, y2) = ProductScan(e, y2, n, QuotientWords, n)
  BY SizeFacts
<1>3. QuotientWords \in Nat /\ QuotientWords > 0 /\ QuotientWords <= QuotientSize /\ QuotientSize \in Nat
  BY ExtraFacts
<1> HIDE DEF n
<1>4. e \in Candidates(n) /\ QuotientReady(n)
  BY DEF n
<1>5. /\ e \in Number(n) /\ v \in Nat /\ v < W /\ v >= 3 /\ v % 2 = 1
  BY <1>1, <1>4, CandidateFacts
<1>6. W \in Nat /\ W > 0 /\ Weight[QuotientWords] \in Nat /\ Weight[QuotientWords] > 0
      /\ Pow2[s] \in Nat
  BY <1>1, <1>3, ExtraFacts, WeightFacts, Pow2Facts
<1>7. z \in Nat /\ z < Weight[QuotientWords]
  BY <1>1, <1>4, QuotientForExact
<1>8. PICK rho \in 1 .. v - 1 : z * v + rho = W * Pow2[s]
  BY <1>1, <1>4, QuotientForExact
<1>9. redcify(s) = Negated(a)
  <2>1. redcify(s) = Negated(mulProductScan(e, y2))
    BY DEF redcify, QuotientFor
  <2>2. \A j \in 0 .. QuotientWords - 1 : y2[j] = y[j]
    <3>1. \A j \in 0 .. QuotientWords - 1 : j \in 0 .. QuotientSize - 1
      BY <1>3
    <3> HIDE DEF z
    <3>2. QED
      BY <3>1 DEF WordsOf
  <2> HIDE DEF y, y2
  <2>3. ProductScan(e, y, n, QuotientWords, n) = ProductScan(e, y2, n, QuotientWords, n)
    BY <1>3, <2>2, ScanReads
  <2>4. QED
    BY <1>2, <2>1, <2>3
<1> HIDE DEF z, W, v
<1>10. y \in Number(QuotientWords) /\ ValueOf(y, QuotientWords) = z
  <2>1. y \in Number(QuotientWords) /\ ValueOf(y, QuotientWords) = z % Weight[QuotientWords]
    BY <1>3, <1>7, WordsOfValue
  <2> DEFINE w == Weight[QuotientWords]
  <2>2. w \in Nat /\ w > 0 /\ z \in 0 .. w - 1 /\ z \in Int /\ z = z + 0 * w /\ 0 \in Int
    BY <1>6, <1>7
  <2> HIDE DEF w
  <2>3. z % w = z
    BY <2>2, RestIs
  <2>4. QED
    BY <2>1, <2>3 DEF w
<1>11. a \in Number(n) /\ ValueOf(a, n) = (v * z) % W
  <2> HIDE DEF y
  <2>1. /\ ProductScan(e, y, n, QuotientWords, n) \in Number(n)
        /\ ValueOf(ProductScan(e, y, n, QuotientWords, n), n)
              = (ValueOf(e, n) * ValueOf(y, QuotientWords)) % Weight[n]
    BY <1>1, <1>3, <1>5, <1>10, ProductScanModulo
  <2>2. QED
    BY <1>10, <2>1 DEF v, W
<1> HIDE DEF a
<1>12. rho \in Nat /\ rho >= 1 /\ rho < v /\ W - rho \in 0 .. W - 1 /\ W - rho \in Int
  BY <1>5, <1>6
<1>13. ValueOf(a, n) + rho = W
  <2> DEFINE x == v * z
             d == W - rho
             k == Pow2[s] - 1
  <2>1. x \in Nat /\ k \in Int /\ z * v = x
    BY <1>5, <1>6, <1>7
  <2>2. x = d + k * W
    <3>1. (Pow2[s] - 1) * W = W * Pow2[s] - W /\ W * Pow2[s] \in Nat
      BY <1>6
    <3> DEFINE g == W * Pow2[s]
    <3>2. g \in Nat /\ k * W = g - W /\ x + rho = g
      BY <1>8, <2>1, <3>1
    <3> HIDE DEF g, x, k
    <3>3. QED
      BY <1>6, <1>12, <2>1, <3>2
  <2>3. d \in 0 .. W - 1
    BY <1>12
  <2> HIDE DEF x, d, k
  <2>4. x % W = d
    BY <1>6, <2>1, <2>2, <2>3, RestIs
  <2>5. ValueOf(a, n) = W - rho
    BY <1>11, <2>4 DEF x, d
  <2>6. QED
    BY <1>6, <1>12, <2>5
<1>14. /\ Negated(a) \in Number(n)
       /\ \/ Negated(a)[0] = 0 /\ \E i \in 1 .. n - 1 : Negated(a)[i] # B - 1
          \/ ValueOf(Negated(a), n) = rho
  <2>1. rho < Weight[n] /\ ValueOf(a, n) + rho = Weight[n]
    BY <1>5, <1>6, <1>12, <1>13 DEF W
  <2>2. QED
    BY <1>1, <1>11, <1>12, <2>1, NegatedExact
<1>15. Cong(rho, Pow2[s] * W, v)
  <2> DEFINE X == Pow2[s] * W
  <2>1. X \in Int /\ X = rho + z * v
    <3>1. Pow2[s] * W = W * Pow2[s] /\ X \in Int
      BY <1>6
    <3> DEFINE g == z * v
    <3>2. g \in Nat
      BY <1>5, <1>7
    <3>3. g + rho = X
      BY <1>8, <3>1
    <3> HIDE DEF X, g
    <3>4. X = rho + g
      BY <1>12, <3>2, <3>3
    <3>5. QED
      BY <3>1, <3>4 DEF g
  <2> HIDE DEF X
  <2>2. rho \in Int /\ z \in Int /\ v \in Int
    BY <1>5, <1>7, <1>12
  <2>3. Cong(X, rho, v)
    BY <2>1, <2>2, CongMultiple
  <2>4. Cong(rho, X, v)
    BY <2>1, <2>2, <2>3, CongSwap
  <2>5. QED
    BY <2>4 DEF X
<1>16. CASE Negated(a)[0] = 0 /\ \E i \in 1 .. n - 1 : Negated(a)[i] # B - 1
  BY <1>9, <1>14, <1>16 DEF RedcifyLost, n
<1>17. CASE ValueOf(Negated(a), n) = rho
  BY <1>9, <1>14, <1>15, <1>17 DEF n, v, W
<1>18. QED
  BY <1>14, <1>16, <1>17

-----------------------------------------------------------------------------
(***************************************************************************)
(* Windows of the exponent.                                                *)
(***************************************************************************)
\* A quotient is told by the rest it leaves.
LEMMA QuotientOf ==
  ASSUME NEW b \in Nat, b > 0, NEW y \in Nat, NEW g \in Nat, NEW h \in 0 .. b - 1, y = h + g * b
  PROVE  y \div b = g
<1> DEFINE k == y \div b
           r == y % b
<1>1. k \in Nat /\ r \in 0 .. b - 1 /\ y = b * k + r
  BY Division
<1> HIDE DEF k, r
<1>2. b * k = k * b /\ k * b \in Nat
  BY <1>1
<1>3. r + k * b = h + g * b
  BY <1>1, <1>2
<1>4. k \in Int /\ g \in Int
  BY <1>1
<1>5. k = g
  BY <1>1, <1>3, <1>4, QuotientIs
<1>6. QED
  BY <1>5 DEF k

\* Dividing by a product is dividing twice.
LEMMA QuotientTwice ==
  ASSUME NEW a \in Nat, a > 0, NEW b \in Nat, b > 0, NEW x \in Nat
  PROVE  x \div a \in Nat /\ x \div (a * b) = (x \div a) \div b
<1> DEFINE g == x \div a
           h == x % a
           k == g \div b
           r == g % b
           y == h + r * a
<1>1. g \in Nat /\ h \in 0 .. a - 1 /\ x = a * g + h
  BY Division
<1> HIDE DEF g, h
<1>2. k \in Nat /\ r \in 0 .. b - 1 /\ g = b * k + r
  BY <1>1, Division
<1> HIDE DEF k, r
<1> DEFINE c == a * b
<1>3. c \in Nat /\ c > 0
  <2>1. PICK z \in Nat : b = 1 + z
    <3>1. b - 1 \in Nat /\ b = 1 + (b - 1)
      OBVIOUS
    <3>2. QED
      BY <3>1
  <2>2. a * (1 + z) = a + a * z /\ a * z \in Nat
    BY <2>1
  <2>3. QED
    BY <2>1, <2>2
<1>4. y \in Nat /\ y < c
  <2>1. r + 1 \in Nat /\ r + 1 <= b /\ r \in Nat /\ h \in Nat /\ h < a
    BY <1>1, <1>2
  <2>2. (r + 1) * a <= b * a
    BY <2>1, TimesGrows
  <2>3. (r + 1) * a = r * a + a /\ b * a = c /\ r * a \in Nat
    BY <2>1
  <2> HIDE DEF c
  <2>4. QED
    BY <2>1, <2>2, <2>3
<1>5. x = y + k * c
  <2>1. a * (b * k + r) = k * (a * b) + r * a
    BY <1>1, <1>2
  <2>2. k * c \in Nat /\ r * a \in Nat
    BY <1>2, <1>3
  <2>3. x = (k * c + r * a) + h
    BY <1>1, <1>2, <2>1
  <2> HIDE DEF c
  <2>4. QED
    BY <1>1, <2>2, <2>3
<1> HIDE DEF y, c
<1>6. y \in 0 .. c - 1
  BY <1>3, <1>4
<1>7. x \div c = k
  BY <1>2, <1>3, <1>5, <1>6, QuotientOf
<1>8. QED
  BY <1>1, <1>7 DEF c, g, k

\* What lies above a window does not matter to it.
LEMMA WindowReads ==
  ASSUME NEW r \in Nat, NEW k \in Nat, NEW a \in Nat, NEW u \in Nat, NEW x \in Nat,
         x = a + Pow2[r + k] * u
  PROVE  (x \div Pow2[r]) % Pow2[k] = (a \div Pow2[r]) % Pow2[k]
<1> DEFINE p == Pow2[r]
           t == Pow2[k]
           g == a \div p
           h == a % p
           i == g + u * t
<1>1. p \in Nat /\ p > 0 /\ t \in Nat /\ t > 0 /\ Pow2[r + k] = p * t
  <2>1. Pow2[r] \in Nat \ {0} /\ Pow2[k] \in Nat \ {0}
    BY Pow2Facts
  <2>2. Pow2[r + k] = Pow2[r] * Pow2[k]
    BY Pow2Plus
  <2>3. QED
    BY <2>1, <2>2
<1> HIDE DEF p, t
<1>2. g \in Nat /\ h \in 0 .. p - 1 /\ a = p * g + h
  BY <1>1, Division
<1> HIDE DEF g, h
<1>3. i \in Nat /\ x = h + i * p
  <2>1. (g + u * t) * p = p * g + (p * t) * u
    BY <1>1, <1>2
  <2>2. u * t \in Nat /\ p * g \in Nat /\ (p * t) * u \in Nat
    BY <1>1, <1>2
  <2>3. x = (p * g + h) + (p * t) * u
    BY <1>1, <1>2
  <2> DEFINE b == p * g
             c == (p * t) * u
             d == i * p
  <2>4. b \in Nat /\ c \in Nat /\ x = (b + h) + c /\ d = b + c
    BY <2>1, <2>2, <2>3
  <2>5. i \in Nat
    BY <1>2, <2>2
  <2> HIDE DEF b, c, d, i
  <2>6. x = h + d
    BY <1>2, <2>4
  <2>7. QED
    BY <2>5, <2>6 DEF d
<1>4. x \div p = i
  <2> HIDE DEF i
  <2>1. QED
    BY <1>1, <1>2, <1>3, QuotientOf
<1>5. i % t = g % t
  <2>1. i \in Int /\ g \in Int /\ u \in Int /\ t \in Int /\ i = g + u * t
    BY <1>1, <1>2, <1>3
  <2> HIDE DEF i
  <2>2. Cong(i, g, t)
    BY <2>1, CongMultiple
  <2>3. QED
    BY <1>1, <2>1, <2>2, CongSameRest
<1>6. QED
  BY <1>4, <1>5 DEF p, t, g

-----------------------------------------------------------------------------
\* The words of e - 1: e is odd, so that only the lowest differs.
Lowered == [i \in 0 .. size - 1 |-> IF i = 0 THEN e[0] - 1 ELSE e[i]]

\* These words are those of the exponent.
LEMMA LoweredExact ==
  ASSUME kernel \in Kernels, e \in Candidates(size)
  PROVE  /\ Lowered \in Number(size)
         /\ ValueOf(Lowered, size) = ValueOf(e, size) - 1
<1> DEFINE n == size
           m == n - 1
           a == Lowered
           c == [i \in 0 .. m - 1 |-> e[1 + i]]
<1>1. n \in Nat \ {0, 1} /\ m \in Nat /\ n = 1 + m /\ n \in Nat \ {0} /\ n \in Nat
  BY SizeFacts
<1>2. a = [i \in 0 .. n - 1 |-> IF i = 0 THEN e[0] - 1 ELSE e[i]]
  BY DEF Lowered
<1> HIDE DEF n, a
<1>3. e \in Number(n) /\ ValueOf(e, n) % 2 = 1
  <2>1. e \in Candidates(n)
    BY DEF n
  <2>2. QED
    BY <1>1, <2>1, CandidateFacts
<1>4. e[0] % 2 = 1
  BY <1>1, <1>3, ValueIsOdd
<1>5. \A i \in 0 .. n - 1 : e[i] \in Word
  BY <1>3 DEF Number
<1>6. e[0] \in 0 .. B - 1 /\ B \in Nat /\ e[0] >= 1
  <2>1. 0 \in 0 .. n - 1
    BY <1>1
  <2>2. e[0] \in 0 .. B - 1 /\ B \in Nat
    BY <1>5, <2>1, BaseFacts DEF Word
  <2>3. e[0] # 0
    <3>1. 0 % 2 = 0
      OBVIOUS
    <3>2. QED
      BY <1>4, <3>1
  <2>4. QED
    BY <2>2, <2>3
<1>7. e[0] - 1 \in Word
  BY <1>6 DEF Word
<1>8. a \in Number(n)
  BY <1>2, <1>5, <1>7 DEF Number
<1> DEFINE b == a
<1>9. /\ Words(c, m) /\ \A i \in 0 .. m - 1 : e[1 + i] = c[i] /\ a[1 + i] = c[i]
  <2>1. \A i \in 0 .. m - 1 : 1 + i \in 0 .. n - 1 /\ 1 + i # 0
    BY <1>1
  <2> HIDE DEF m
  <2>2. \A i \in 0 .. m - 1 : c[i] = e[1 + i] /\ c[i] \in Word
    BY <1>5, <2>1
  <2>3. \A i \in 0 .. m - 1 : a[1 + i] = e[1 + i]
    BY <1>2, <2>1
  <2> HIDE DEF c
  <2>4. QED
    BY <2>2, <2>3 DEF Words
<1>10. a[0] = e[0] - 1 /\ e[0] \in Word /\ a[0] \in Word
  <2>1. 0 \in 0 .. n - 1
    BY <1>1
  <2>2. QED
    BY <1>2, <1>5, <1>7, <2>1
<1> HIDE DEF c, m
<1>11. ValueOf(e, 1 + m) = e[0] + B * ValueOf(c, m)
  BY <1>1, <1>9, <1>10, ValueMoved
<1>12. ValueOf(a, 1 + m) = a[0] + B * ValueOf(c, m)
  BY <1>1, <1>9, <1>10, ValueMoved
<1>13. ValueOf(c, m) \in Nat
  <2>1. ValueOf(c, m) \in 0 .. Weight[m] - 1 /\ Weight[m] \in Nat
    BY <1>1, <1>9, ValueOfWords, WeightFacts
  <2>2. QED
    BY <2>1
<1>14. ValueOf(a, n) = ValueOf(e, n) - 1
  <2> DEFINE x == ValueOf(c, m)
             y == B * x
  <2>1. y \in Nat
    BY <1>6, <1>13
  <2>2. ValueOf(e, n) = e[0] + y /\ ValueOf(a, n) = (e[0] - 1) + y
    BY <1>1, <1>10, <1>11, <1>12
  <2> HIDE DEF x, y
  <2>3. QED
    BY <1>6, <2>1, <2>2
<1>15. QED
  BY <1>8, <1>14 DEF a, n

\* A window of the exponent, read from the word it begins in and the next one.
LEMMA BitfieldExact ==
  ASSUME kernel \in Kernels, e \in Candidates(size), NEW o \in Nat, NEW k \in 1 .. windowSize,
         o + k < WordBits * size
  PROVE  getFromBitfield(o, k) = ((ValueOf(e, size) - 1) \div Pow2[o]) % Pow2[k]
<1> DEFINE n == size
           x == ValueOf(e, n) - 1
           a == Lowered
           L == o \div WordBits
           H == (o + k) \div WordBits
           r == o % WordBits
           m == n - L
           m1 == m - 1
           m2 == m1 - 1
           b == [i \in 0 .. m - 1 |-> a[L + i]]
           c == [i \in 0 .. m1 - 1 |-> a[L + 1 + i]]
           d == [i \in 0 .. m2 - 1 |-> a[L + 2 + i]]
           lo == IF L = 0 THEN e[0] - 1 ELSE e[L]
           hi == IF H \in {L, size} THEN 0 ELSE e[H]
<1>1. n \in Nat \ {0, 1} /\ n \in Nat
  BY SizeFacts
<1>2. WordBits \in Nat /\ WordBits > 0 /\ k \in Nat /\ k >= 1 /\ k <= WordBits
  BY WordAssumption, WindowAssumption
<1>3. L \in Nat /\ r \in 0 .. WordBits - 1 /\ o = WordBits * L + r /\ H \in Nat /\ r \in Nat
  <2>1. L \in Nat /\ r \in 0 .. WordBits - 1 /\ o = WordBits * L + r
    BY <1>2, Division
  <2>2. H \in Nat
    <3> DEFINE y == o + k
    <3>1. y \in Nat
      BY <1>2
    <3> HIDE DEF y
    <3>2. y \div WordBits \in Nat
      BY <1>2, <3>1, Division
    <3>3. QED
      BY <3>2 DEF y
  <2> HIDE DEF r, L, H
  <2>3. QED
    BY <1>2, <2>1, <2>2
<1>4. o + k < WordBits * n
  OBVIOUS
<1>5. a \in Number(n) /\ ValueOf(a, n) = x /\ e \in Number(n) /\ x \in Nat
  <2>1. a \in Number(n) /\ ValueOf(a, n) = x
    BY LoweredExact
  <2>2. e \in Number(n) /\ ValueOf(e, n) \in Nat /\ ValueOf(e, n) >= 3
    BY <1>1, CandidateFacts
  <2>3. QED
    BY <2>1, <2>2
<1>6. \A i \in 0 .. n - 1 : a[i] = IF i = 0 THEN e[0] - 1 ELSE e[i]
  BY DEF Lowered
<1>7. getFromBitfield(o, k) = ((lo + B * hi) \div Pow2[r]) % Pow2[k]
  BY DEF getFromBitfield
<1> HIDE DEF a, L, H, r, n, lo, hi, x
<1>8. L < n
  <2>1. WordBits * L < WordBits * n
    BY <1>1, <1>2, <1>3, <1>4
  <2>2. SUFFICES ASSUME n <= L PROVE FALSE
    BY <1>1, <1>3
  <2>3. n * WordBits <= L * WordBits
    BY <1>1, <1>2, <1>3, <2>2, TimesGrows
  <2>4. \A z \in Nat : z * WordBits = WordBits * z /\ z * WordBits \in Nat
    BY <1>2
  <2>5. QED
    BY <1>1, <1>3, <2>1, <2>3, <2>4
<1>9. m \in Nat /\ m1 \in Nat /\ m = 1 + m1 /\ n = L + m /\ L \in 0 .. n - 1
  BY <1>1, <1>3, <1>8
<1>10. lo = a[L] /\ lo \in Word
  <2>1. lo = a[L]
    BY <1>6, <1>9 DEF lo
  <2>2. a[L] \in Word
    BY <1>5, <1>9 DEF Number
  <2>3. QED
    BY <2>1, <2>2
<1>11. B \in Nat /\ B = Pow2[WordBits] /\ \A z \in Word : z \in Nat
  BY BaseFacts DEF B, Word
<1>12. /\ ValueOf(a, L) \in 0 .. Weight[L] - 1
       /\ ValueOf(b, m) \in 0 .. Weight[m] - 1
       /\ x = ValueOf(a, L) + Weight[L] * ValueOf(b, m)
       /\ Words(a, n)
  <2>1. Words(a, L + m)
    BY <1>5, <1>9 DEF Words, Number
  <2> HIDE DEF m
  <2>2. \A i \in 0 .. m - 1 : b[i] = a[L + i]
    OBVIOUS
  <2> HIDE DEF b
  <2>3. /\ ValueOf(a, L) \in 0 .. Weight[L] - 1
        /\ ValueOf(b, m) \in 0 .. Weight[m] - 1
        /\ ValueOf(a, L + m) = ValueOf(a, L) + Weight[L] * ValueOf(b, m)
    BY <1>3, <1>9, <2>1, <2>2, ValueSplit
  <2>4. QED
    BY <1>5, <1>9, <2>1, <2>3
<1> DEFINE V == ValueOf(b, m)
           w == Weight[L]
<1>13. V \in Nat /\ w \in Nat /\ w > 0
  <2>1. Weight[m] \in Nat /\ w \in Nat \ {0}
    BY <1>3, <1>9, WeightFacts
  <2>2. V \in 0 .. Weight[m] - 1
    BY <1>12
  <2> HIDE DEF V, w
  <2>3. QED
    BY <2>1, <2>2
<1>14. x \div Pow2[o] = V \div Pow2[r]
  <2> DEFINE p == Pow2[r]
             y == WordBits * L
             h == ValueOf(a, L)
  <2>1. y \in Nat /\ w = Pow2[y]
    BY <1>3, WeightIsPow2
  <2>2. o = y + r
    BY <1>3
  <2> HIDE DEF y
  <2>3. Pow2[o] = w * p /\ p \in Nat /\ p > 0
    <3>1. Pow2[y + r] = Pow2[y] * Pow2[r] /\ Pow2[r] \in Nat \ {0}
      BY <1>3, <2>1, Pow2Plus, Pow2Facts
    <3>2. QED
      BY <2>1, <2>2, <3>1
  <2>4. x = h + V * w /\ h \in 0 .. w - 1
    <3>1. w * V = V * w
      BY <1>13
    <3>2. x = h + w * V /\ h \in 0 .. w - 1
      BY <1>12
    <3>3. QED
      BY <3>1, <3>2
  <2> HIDE DEF p, h, V, w
  <2>5. x \div w = V
    BY <1>5, <1>13, <2>4, QuotientOf
  <2>6. x \div (w * p) = (x \div w) \div p
    BY <1>5, <1>13, <2>3, QuotientTwice
  <2>7. QED
    BY <2>3, <2>5, <2>6 DEF p
<1>15. /\ Words(c, m1) /\ ValueOf(b, 1 + m1) = lo + B * ValueOf(c, m1)
  <2> HIDE DEF m
  <2>1. \A i \in 0 .. m1 - 1 : 1 + i \in 0 .. m - 1 /\ L + (1 + i) \in 0 .. n - 1
                               /\ L + 1 + i = L + (1 + i)
    BY <1>1, <1>3, <1>9
  <2>2. 0 \in 0 .. m - 1 /\ L + 0 = L
    BY <1>3, <1>9
  <2> HIDE DEF m1
  <2>3. b[0] = lo /\ \A i \in 0 .. m1 - 1 : b[1 + i] = a[L + (1 + i)]
    BY <1>10, <2>1, <2>2
  <2>4. \A i \in 0 .. m1 - 1 : c[i] = a[L + (1 + i)]
    BY <2>1
  <2>5. \A j \in 0 .. n - 1 : a[j] \in Word
    BY <1>12 DEF Words
  <2> HIDE DEF b, c
  <2>6. Words(c, m1)
    BY <2>1, <2>4, <2>5 DEF Words
  <2>7. b[0] \in Word /\ \A i \in 0 .. m1 - 1 : b[1 + i] = c[i]
    BY <1>10, <2>3, <2>4
  <2>8. ValueOf(b, 1 + m1) = b[0] + B * ValueOf(c, m1)
    BY <1>9, <2>6, <2>7, ValueMoved
  <2>9. QED
    BY <2>3, <2>6, <2>8
<1> DEFINE C == ValueOf(c, m1)
<1>16. C \in Nat /\ V = lo + B * C
  <2>1. C \in 0 .. Weight[m1] - 1 /\ Weight[m1] \in Nat
    <3> HIDE DEF c, m1
    <3>1. QED
      BY <1>9, <1>15, ValueOfWords, WeightFacts
  <2>2. V = lo + B * C
    BY <1>9, <1>15
  <2> HIDE DEF C, V
  <2>3. QED
    BY <2>1, <2>2
<1>17. CASE r + k < WordBits
  <2>1. H = L
    <3> DEFINE y == o + k
               h == r + k
    <3>1. y \in Nat /\ h \in 0 .. WordBits - 1 /\ y = h + L * WordBits
      <4>1. WordBits * L = L * WordBits /\ L * WordBits \in Nat
        BY <1>2, <1>3
      <4>2. QED
        BY <1>2, <1>3, <1>17, <4>1
    <3>2. y \div WordBits = L
      <4> HIDE DEF y, h
      <4>1. QED
        BY <1>2, <1>3, <3>1, QuotientOf
    <3>3. QED
      BY <3>2 DEF H
  <2>2. hi = 0 /\ lo + B * 0 = lo
    BY <1>10, <1>11, <2>1 DEF hi
  <2> DEFINE f == WordBits - (r + k)
             u == Pow2[f] * C
             t == r + k
  <2>3. f \in Nat /\ t \in Nat /\ WordBits = t + f
    BY <1>2, <1>3, <1>17
  <2>4. B = Pow2[t] * Pow2[f] /\ Pow2[f] \in Nat /\ Pow2[t] \in Nat
    <3> HIDE DEF t, f
    <3>1. Pow2[t + f] = Pow2[t] * Pow2[f] /\ Pow2[f] \in Nat /\ Pow2[t] \in Nat
      BY <2>3, Pow2Plus, Pow2Facts
    <3>2. QED
      BY <1>11, <2>3, <3>1
  <2>5. u \in Nat /\ B * C = Pow2[t] * u
    <3> HIDE DEF t, f, C
    <3>1. (Pow2[t] * Pow2[f]) * C = Pow2[t] * (Pow2[f] * C) /\ Pow2[f] * C \in Nat
      BY <1>16, <2>4
    <3>2. QED
      BY <2>4, <3>1
  <2>6. lo \in Nat /\ V = lo + Pow2[r + k] * u
    BY <1>10, <1>11, <1>16, <2>5
  <2> HIDE DEF u, V
  <2>7. (V \div Pow2[r]) % Pow2[k] = (lo \div Pow2[r]) % Pow2[k]
    BY <1>2, <1>3, <1>13, <2>5, <2>6, WindowReads
  <2>8. QED
    BY <1>7, <1>14, <2>2, <2>7 DEF x, n
<1>18. CASE r + k >= WordBits
  <2>1. H = L + 1
    <3> DEFINE y == o + k
               h == r + k - WordBits
               g == L + 1
    <3>1. y \in Nat /\ h \in 0 .. WordBits - 1 /\ y = h + g * WordBits /\ g \in Nat
      <4>1. (L + 1) * WordBits = WordBits * L + WordBits /\ WordBits * L \in Nat
        BY <1>2, <1>3
      <4>2. QED
        BY <1>2, <1>3, <1>18, <4>1
    <3>2. y \div WordBits = g
      <4> HIDE DEF y, h, g
      <4>1. QED
        BY <1>2, <3>1, QuotientOf
    <3>3. QED
      BY <3>2 DEF H
  <2>2. L + 1 < n
    <3>1. WordBits * (L + 1) = WordBits * L + WordBits
      BY <1>2, <1>3
    <3>2. WordBits * (L + 1) < WordBits * n
      BY <1>1, <1>2, <1>3, <1>4, <1>18, <3>1
    <3>3. SUFFICES ASSUME n <= L + 1 PROVE FALSE
      BY <1>1, <1>3
    <3> DEFINE g == L + 1
    <3>4. g \in Nat /\ n <= g /\ WordBits * g < WordBits * n
      BY <1>3, <3>2, <3>3
    <3> HIDE DEF g
    <3>5. n * WordBits <= g * WordBits
      BY <1>1, <1>2, <3>4, TimesGrows
    <3>6. \A z \in Nat : z * WordBits = WordBits * z /\ z * WordBits \in Nat
      BY <1>2
    <3>7. QED
      BY <1>1, <3>4, <3>5, <3>6
  <2>3. L + 1 \in 0 .. n - 1 /\ L + 1 # L /\ L + 1 # n /\ L + 1 # 0
    BY <1>1, <1>3, <2>2
  <2>4. hi = a[L + 1] /\ hi \in Word
    <3>1. hi = e[L + 1]
      BY <2>1, <2>3 DEF hi, n
    <3>2. a[L + 1] = e[L + 1]
      BY <1>6, <2>3
    <3>3. a[L + 1] \in Word
      BY <1>12, <2>3 DEF Words
    <3>4. QED
      BY <3>1, <3>2, <3>3
  <2>5. m2 \in Nat /\ m1 = 1 + m2
    BY <1>1, <1>3, <1>9, <2>2
  <2>6. Words(d, m2) /\ C = hi + B * ValueOf(d, m2)
    <3>1. \A i \in 0 .. m2 - 1 : 1 + i \in 0 .. m1 - 1 /\ L + 2 + i \in 0 .. n - 1
                                 /\ L + 1 + (1 + i) = L + 2 + i
      BY <1>1, <1>3, <1>9, <2>5
    <3>2. 0 \in 0 .. m1 - 1 /\ L + 1 + 0 = L + 1
      BY <1>3, <2>5
    <3> HIDE DEF m1, m2
    <3>3. c[0] = hi /\ \A i \in 0 .. m2 - 1 : c[1 + i] = a[L + 2 + i]
      BY <2>4, <3>1, <3>2
    <3>4. \A i \in 0 .. m2 - 1 : d[i] = a[L + 2 + i]
      BY <3>1
    <3>5. \A j \in 0 .. n - 1 : a[j] \in Word
      BY <1>12 DEF Words
    <3> HIDE DEF c, d
    <3>6. Words(d, m2)
      BY <3>1, <3>4, <3>5 DEF Words
    <3>7. c[0] \in Word /\ \A i \in 0 .. m2 - 1 : c[1 + i] = d[i]
      BY <2>4, <3>3, <3>4
    <3>8. ValueOf(c, 1 + m2) = c[0] + B * ValueOf(d, m2)
      BY <2>5, <3>6, <3>7, ValueMoved
    <3>9. QED
      BY <2>5, <3>3, <3>6, <3>8
  <2> DEFINE D == ValueOf(d, m2)
  <2>7. D \in Nat /\ C = hi + B * D
    <3>1. D \in 0 .. Weight[m2] - 1 /\ Weight[m2] \in Nat
      <4> HIDE DEF d, m2
      <4>1. QED
        BY <2>5, <2>6, ValueOfWords, WeightFacts
    <3> HIDE DEF D
    <3>2. D \in Nat
      BY <3>1
    <3>3. QED
      BY <2>6, <3>2 DEF D
  <2> DEFINE t == r + k
             f == (WordBits + WordBits) - t
             u == Pow2[f] * D
             l == lo + B * hi
             W2 == WordBits + WordBits
  <2>8. f \in Nat /\ t \in Nat /\ W2 = t + f /\ W2 \in Nat
    BY <1>2, <1>3
  <2>9. B * B = Pow2[t] * Pow2[f] /\ Pow2[f] \in Nat /\ Pow2[t] \in Nat
    <3> HIDE DEF t, f
    <3>1. Pow2[t + f] = Pow2[t] * Pow2[f] /\ Pow2[f] \in Nat /\ Pow2[t] \in Nat
      BY <2>8, Pow2Plus, Pow2Facts
    <3>2. Pow2[WordBits + WordBits] = Pow2[WordBits] * Pow2[WordBits]
      BY <1>2, Pow2Plus
    <3>3. QED
      BY <1>11, <2>8, <3>1, <3>2
  <2> HIDE DEF C, D, V, f
  <2>10. l \in Nat /\ u \in Nat /\ V = l + Pow2[r + k] * u
    <3>1. lo \in Nat /\ hi \in Nat
      BY <1>10, <1>11, <2>4
    <3>2. B * (hi + B * D) = B * hi + (B * B) * D
      BY <1>11, <2>7, <3>1
    <3>3. (Pow2[t] * Pow2[f]) * D = Pow2[t] * (Pow2[f] * D) /\ Pow2[f] * D \in Nat
      <4> HIDE DEF t
      <4>1. QED
        BY <2>7, <2>9
    <3>4. B * hi \in Nat /\ (B * B) * D \in Nat
      BY <1>11, <2>7, <3>1
    <3> DEFINE y == B * hi
               g == (B * B) * D
    <3>5. y \in Nat /\ g \in Nat /\ g = Pow2[t] * u /\ V = lo + (y + g) /\ l = lo + y
      BY <1>16, <2>7, <2>9, <3>2, <3>3, <3>4
    <3>6. u \in Nat
      BY <3>3
    <3> HIDE DEF y, g, u, l
    <3>7. l \in Nat /\ V = l + g
      BY <3>1, <3>5
    <3>8. QED
      BY <3>5, <3>6, <3>7
  <2> HIDE DEF u, l
  <2>11. (V \div Pow2[r]) % Pow2[k] = (l \div Pow2[r]) % Pow2[k]
    BY <1>2, <1>3, <1>13, <2>10, WindowReads
  <2>12. QED
    BY <1>7, <1>14, <2>11 DEF x, n, l
<1>19. QED
  BY <1>2, <1>3, <1>17, <1>18

-----------------------------------------------------------------------------
(***************************************************************************)
(* The reference: repeated squaring gives the power of two.                *)
(***************************************************************************)
\* What a step of the squaring makes of the power to half the exponent.
Doubled(half, i, m) == (half * half * (IF i % 2 = 1 THEN 2 ELSE 1)) % m

\* A step of the reference is right if the power to half the exponent is.
LEMMA DoubledExact ==
  ASSUME NEW m \in Nat, m > 0, NEW i \in Nat, i # 0, NEW half, half = Pow2[i \div 2] % m
  PROVE  Doubled(half, i, m) = Pow2[i] % m
<1> DEFINE h == i \div 2
           f == IF i % 2 = 1 THEN 2 ELSE 1
           p == Pow2[h]
           x == half * half
           y == p * p
<1>1. h \in Nat /\ i = h + h + (i % 2) /\ i % 2 \in {0, 1}
  OBVIOUS
<1>2. p \in Nat /\ f \in Nat
  BY <1>1, Pow2Facts
<1>3. Pow2[i] = y * f /\ y \in Nat
  <2> DEFINE g == h + h
             r == i % 2
  <2>1. g \in Nat /\ r \in {0, 1} /\ i = g + r /\ f = IF r = 1 THEN 2 ELSE 1
    BY <1>1
  <2>2. Pow2[h + h] = Pow2[h] * Pow2[h]
    <3> HIDE DEF h
    <3>1. QED
      BY <1>1, Pow2Plus
  <2>3. Pow2[g] = y /\ y \in Nat
    BY <1>2, <2>2
  <2> HIDE DEF g, r, f, h, p, y
  <2>4. CASE r = 0
    BY <2>1, <2>3, <2>4
  <2>5. CASE r = 1
    <3>1. Pow2[g + 1] = 2 * Pow2[g]
      BY <2>1, Pow2Facts
    <3>2. i = g + 1 /\ f = 2
      BY <2>1, <2>5
    <3>3. Pow2[i] = 2 * y
      BY <2>3, <3>1, <3>2
    <3>4. 2 * y = y * 2
      BY <2>3
    <3>5. QED
      BY <2>3, <3>2, <3>3, <3>4
  <2>6. QED
    BY <2>1, <2>4, <2>5
<1> HIDE DEF h, p, f
<1>4. half \in Int /\ Cong(half, p, m)
  <2>1. p % m \in 0 .. m - 1 /\ Cong(p % m, p, m)
    BY <1>2, CongModulo
  <2>2. half = p % m
    BY DEF p, h
  <2>3. QED
    BY <2>1, <2>2
<1>5. Cong(x, y, m) /\ x \in Int /\ y \in Int
  <2>1. m \in Int /\ half \in Int /\ p \in Int
    BY <1>2, <1>4
  <2>2. Cong(half * half, p * p, m)
    BY <1>4, <2>1, CongTimes
  <2>3. half * half \in Int /\ p * p \in Int
    BY <2>1
  <2>4. QED
    BY <2>2, <2>3
<1> HIDE DEF x, y
<1>6. Cong(x * f, y * f, m)
  <2>1. m \in Int /\ f \in Int
    BY <1>2
  <2>2. Cong(f, f, m)
    BY <2>1, CongEqual
  <2>3. QED
    BY <1>5, <2>1, <2>2, CongTimes
<1>7. (x * f) % m = (y * f) % m
  <2> DEFINE a == x * f
             b == y * f
  <2>1. a \in Int /\ b \in Int /\ Cong(a, b, m)
    BY <1>2, <1>5, <1>6
  <2> HIDE DEF a, b
  <2>2. a % m = b % m
    BY <2>1, CongSameRest
  <2>3. QED
    BY <2>2 DEF a, b
<1>8. Doubled(half, i, m) = (x * f) % m
  BY DEF Doubled, x, f
<1>9. QED
  BY <1>3, <1>7, <1>8

\* Power(k, m) is the rest of a power of two.
LEMMA PowerExact ==
  ASSUME NEW k \in Nat, NEW m \in Nat, m > 0
  PROVE  Power(k, m) = Pow2[k] % m
<1> DEFINE Def(p) == p = [i \in 0 .. k |-> IF i = 0 THEN 1 % m ELSE Doubled(p[i \div 2], i, m)]
           s == CHOOSE p : Def(p)
           g == [i \in 0 .. k |-> Pow2[i] % m]
<1>1. \A i \in 0 .. k : i # 0 => i \div 2 \in 0 .. k /\ i \div 2 < i /\ i \div 2 \in Nat
  OBVIOUS
<1>2. Pow2[0] = 1
  BY Pow2Facts
<1>3. Def(g)
  <2>1. ASSUME NEW i \in 0 .. k, i # 0 PROVE g[i] = Doubled(g[i \div 2], i, m)
    <3>1. g[i] = Pow2[i] % m /\ g[i \div 2] = Pow2[i \div 2] % m
      BY <1>1, <2>1
    <3> HIDE DEF g
    <3>2. Doubled(g[i \div 2], i, m) = Pow2[i] % m
      BY <2>1, <3>1, DoubledExact
    <3>3. QED
      BY <3>1, <3>2
  <2>2. g[0] = 1 % m
    BY <1>2
  <2>3. g = [i \in 0 .. k |-> IF i = 0 THEN 1 % m ELSE Doubled(g[i \div 2], i, m)]
    BY <2>1, <2>2
  <2>4. QED
    BY <2>3
<1>4. Def(s)
  <2> HIDE DEF Def, g
  <2>1. QED
    BY <1>3
<1>5. Power(k, m) = s[k]
  BY DEF Power, Doubled
<1> HIDE DEF s
<1> DEFINE Right(i) == s[i] = Pow2[i] % m
           S == {j \in Nat : \A i \in 0 .. k : i <= j => Right(i)}
<1>6. 0 \in S
  <2>1. s[0] = 1 % m
    BY <1>4
  <2>2. \A i \in 0 .. k : i <= 0 => i = 0
    OBVIOUS
  <2>3. QED
    BY <1>2, <2>1, <2>2
<1>7. ASSUME NEW j \in Nat, j \in S PROVE j + 1 \in S
  <2>1. SUFFICES ASSUME NEW i \in 0 .. k, i = j + 1 PROVE Right(i)
    <3>1. \A i \in 0 .. k : i <= j + 1 => i <= j \/ i = j + 1
      OBVIOUS
    <3> HIDE DEF Right
    <3>2. QED
      BY <1>7, <2>1, <3>1
  <2>2. i # 0 /\ i \div 2 \in 0 .. k /\ i \div 2 <= j
    BY <1>1, <2>1
  <2>3. s[i \div 2] = Pow2[i \div 2] % m
    BY <1>7, <2>2
  <2>4. s[i] = Doubled(s[i \div 2], i, m)
    BY <1>4, <2>2
  <2>5. Doubled(s[i \div 2], i, m) = Pow2[i] % m
    BY <2>2, <2>3, DoubledExact
  <2>6. QED
    BY <2>4, <2>5
<1> HIDE DEF Right
<1>8. k \in S
  <2> HIDE DEF S
  <2>1. QED
    BY <1>6, <1>7, Induction
<1>9. Right(k)
  BY <1>8
<1>10. QED
  BY <1>5, <1>9 DEF Right

-----------------------------------------------------------------------------
(***************************************************************************)
(* The loop over the windows.                                              *)
(***************************************************************************)
LEMMA MaxOfTwo ==
  ASSUME NEW a \in Int, NEW b \in Int
  PROVE  Max({a, b}) = IF a >= b THEN a ELSE b
<1>1. Max({a, b}) = CHOOSE x \in {a, b} : \A y \in {a, b} : x >= y
  BY DEF Max
<1>2. QED
  BY <1>1

\* A number that stands for 2^k in Montgomery form, modulo the candidate.
StandsFor(x, k) ==
    /\ x \in Number(size)
    /\ Cong(ValueOf(x, size), Pow2[k] * Weight[size], ValueOf(e, size))

\* The inverse of the candidate's lowest word.
LEMMA InverseExact ==
  ASSUME kernel \in Kernels, e \in Candidates(size)
  PROVE  invert_limb(e[0]) \in Nat /\ (invert_limb(e[0]) * e[0] + 1) % B = 0
<1> DEFINE n == size
<1>1. n \in Nat \ {0, 1} /\ n \in Nat \ {0} /\ 0 \in 0 .. n - 1
  BY SizeFacts
<1>2. e \in Candidates(n)
  OBVIOUS
<1> HIDE DEF n
<1>3. e \in Number(n) /\ ValueOf(e, n) % 2 = 1
  BY <1>1, <1>2, CandidateFacts
<1>4. e[0] \in Word /\ e[0] % 2 = 1
  <2>1. e[0] % 2 = 1
    BY <1>1, <1>3, ValueIsOdd
  <2>2. QED
    BY <1>1, <1>3, <2>1 DEF Number
<1>5. invert_limb(e[0]) \in Word /\ (invert_limb(e[0]) * e[0] + 1) % B = 0
  BY <1>4, InvertLimbExact
<1>6. QED
  BY <1>5, BaseFacts DEF Word

\* The product of two powers in Montgomery form, reduced without losing a borrow.
LEMMA StandsForProduct ==
  ASSUME kernel \in Kernels, e \in Candidates(size), NEW k \in Nat, NEW l \in Nat,
         NEW x, NEW y, StandsFor(x, k), StandsFor(y, l), NEW m,
         Reduces(m, ValueOf(x, size) * ValueOf(y, size), e, size), ~SubLost(m)
  PROVE  StandsFor(Reduced(m, e, size), k + l)
<1> DEFINE n == size
           v == ValueOf(e, n)
           W == Weight[n]
           X == ValueOf(x, n)
           Y == ValueOf(y, n)
           R == ValueOf(Reduced(m, e, n), n)
           total == X * Y
           p == Pow2[k]
           r == Pow2[l]
<1>1. n \in Nat \ {0, 1} /\ n \in Nat /\ n \in Nat \ {0}
  BY SizeFacts
<1>2. SubKept(m, e, n)
  BY DEF SubLost, SubKept
<1>3. e \in Candidates(n) /\ x \in Number(n) /\ y \in Number(n)
      /\ Cong(X, p * W, v) /\ Cong(Y, r * W, v) /\ Reduces(m, total, e, n)
  BY DEF StandsFor
<1> HIDE DEF n
<1>4. e \in Number(n) /\ v \in Nat /\ v % 2 = 1
  BY <1>1, <1>3, CandidateFacts
<1>5. total \in Nat /\ total < W * W
  BY <1>1, <1>3, BelowSquare
<1>6. /\ X \in Int /\ Y \in Int /\ W \in Nat /\ p \in Nat /\ r \in Nat /\ v \in Int
  <2>1. X \in 0 .. W - 1 /\ Y \in 0 .. W - 1
    BY <1>1, <1>3, ValueBound
  <2>2. W \in Nat /\ p \in Nat /\ r \in Nat
    BY <1>1, WeightFacts, Pow2Facts
  <2>3. QED
    BY <1>4, <2>1, <2>2
<1>7. Reduced(m, e, n) \in Number(n) /\ Cong(W * R, total, v)
  <2> HIDE DEF total
  <2>1. QED
    BY <1>1, <1>2, <1>3, <1>4, <1>5, ReducedExact
<1>8. R \in Int
  <2>1. R \in 0 .. W - 1
    <3> DEFINE a == Reduced(m, e, n)
    <3>1. a \in Number(n)
      BY <1>7
    <3> HIDE DEF a
    <3>2. ValueOf(a, n) \in 0 .. Weight[n] - 1
      BY <1>1, <3>1, ValueBound
    <3>3. QED
      BY <3>2 DEF a
  <2>2. QED
    BY <1>6, <2>1
<1>9. Pow2[k + l] = p * r
  BY Pow2Plus
<1> DEFINE g == WordBits * n
<1>10. g \in Nat /\ W = Pow2[g]
  BY <1>1, WeightIsPow2
<1> HIDE DEF v, W, X, Y, R, p, r, g
<1> DEFINE c == (p * r) * W
<1>11. Cong(W * R, W * c, v)
  <2> DEFINE a == p * W
             b == r * W
             i == a * b
             j == W * c
             f == W * R
  <2>1. a \in Int /\ b \in Int
    BY <1>6
  <2>2. Cong(X, a, v) /\ Cong(Y, b, v)
    BY <1>3 DEF v, W, X, Y, p, r
  <2>3. i = j
    BY <1>6
  <2> HIDE DEF a, b
  <2>4. Cong(X * Y, a * b, v) /\ i \in Int
    BY <1>6, <2>1, <2>2, CongTimes
  <2>5. f \in Int /\ total \in Int
    BY <1>5, <1>6, <1>8
  <2>6. Cong(f, total, v)
    BY <1>7 DEF R
  <2>7. Cong(total, i, v)
    BY <2>4
  <2> HIDE DEF total, i, j, f
  <2>8. Cong(f, i, v)
    BY <1>6, <2>4, <2>5, <2>6, <2>7, CongJoin
  <2>9. QED
    BY <2>3, <2>8 DEF f, j
<1>12. Cong(R, c, v)
  <2>1. c \in Int
    BY <1>6
  <2> HIDE DEF c
  <2>2. v \in Nat /\ v % 2 = 1 /\ Cong(Pow2[g] * R, Pow2[g] * c, v)
    BY <1>4, <1>10, <1>11 DEF v
  <2>3. QED
    BY <1>8, <1>10, <2>1, <2>2, CongCancels
<1>13. Cong(R, Pow2[k + l] * W, v)
  BY <1>9, <1>12 DEF p, r
<1>14. QED
  BY <1>7, <1>13 DEF StandsFor, R, W, v, n

-----------------------------------------------------------------------------
\* The bits of e - 1 above a place.
Above(place) == (ValueOf(e, size) - 1) \div Pow2[place]

\* They are a natural number.
LEMMA AboveIsNat ==
  ASSUME kernel \in Kernels, e \in Candidates(size), NEW place \in Nat
  PROVE  Above(place) \in Nat
<1> DEFINE n == size
           x == ValueOf(e, n) - 1
<1>1. n \in Nat \ {0, 1}
  BY SizeFacts
<1>2. e \in Candidates(n)
  OBVIOUS
<1> HIDE DEF n
<1>3. x \in Nat
  <2>1. ValueOf(e, n) \in Nat /\ ValueOf(e, n) >= 3
    BY <1>1, <1>2, CandidateFacts
  <2>2. QED
    BY <2>1
<1> HIDE DEF x
<1> DEFINE p == Pow2[place]
<1>4. p \in Nat /\ p > 0
  <2>1. p \in Nat \ {0}
    BY Pow2Facts
  <2> HIDE DEF p
  <2>2. QED
    BY <2>1
<1> HIDE DEF p
<1>5. x \div p \in Nat
  BY <1>3, <1>4, Division
<1>6. QED
  BY <1>5 DEF Above, x, p, n

\* Leaving a window behind: the bits above it and its own are the bits above its end.
LEMMA WindowJoins ==
  ASSUME kernel \in Kernels, e \in Candidates(size), NEW o \in Nat, NEW k \in 1 .. windowSize,
         o + k < WordBits * size
  PROVE  /\ getFromBitfield(o, k) \in 0 .. pow2ws
         /\ Above(o) = Above(o + k) * Pow2[k] + getFromBitfield(o, k)
<1> DEFINE x == ValueOf(e, size) - 1
           y == Above(o)
           p == Pow2[o]
           t == Pow2[k]
           d == y \div t
           r == y % t
<1>1. k \in Nat /\ k <= windowSize /\ windowSize \in Nat
  BY WordAssumption, WindowAssumption
<1>2. y \in Nat /\ y = x \div p
  BY AboveIsNat DEF Above
<1>3. x \in Nat
  <2> DEFINE n == size
  <2>1. n \in Nat \ {0, 1}
    BY SizeFacts
  <2>2. e \in Candidates(n)
    OBVIOUS
  <2> HIDE DEF n
  <2>3. ValueOf(e, n) \in Nat /\ ValueOf(e, n) >= 3
    BY <2>1, <2>2, CandidateFacts
  <2>4. QED
    BY <2>3 DEF n
<1>4. getFromBitfield(o, k) = r
  BY <1>2, BitfieldExact
<1>5. p \in Nat /\ p > 0 /\ t \in Nat /\ t > 0 /\ Pow2[o + k] = p * t /\ t <= pow2ws
  <2>1. Pow2[o] \in Nat \ {0} /\ Pow2[k] \in Nat \ {0}
    BY <1>1, Pow2Facts
  <2>2. Pow2[o + k] = Pow2[o] * Pow2[k]
    BY <1>1, Pow2Plus
  <2>3. Pow2[k] <= Pow2[windowSize]
    BY <1>1, Pow2Grows
  <2>4. QED
    BY <2>1, <2>2, <2>3 DEF pow2ws
<1>6. Above(o + k) = x \div (p * t)
  BY <1>5 DEF Above
<1> HIDE DEF x, y, p, t
<1>7. Above(o + k) = d
  <2>1. x \div (p * t) = (x \div p) \div t
    BY <1>3, <1>5, QuotientTwice
  <2>2. QED
    BY <1>2, <1>6, <2>1
<1>8. d \in Nat /\ r \in 0 .. t - 1 /\ y = t * d + r
  BY <1>2, <1>5, Division
<1> HIDE DEF d, r
<1>9. t * d = d * t
  BY <1>5, <1>8
<1>10. r \in 0 .. pow2ws
  <2>1. pow2ws \in Nat
    BY ExtraFacts
  <2>2. QED
    BY <1>5, <1>8, <2>1
<1>11. QED
  BY <1>4, <1>7, <1>8, <1>9, <1>10 DEF y, t

\* The bits of the exponent that remain when the last window was left behind.
Place == IF remaining > 0 THEN remaining ELSE 0

\* Between two steps of the loop: the power so far, of the bits consumed.
LoopInv ==
    /\ q \in Number(QuotientSize) /\ QuotientReady(size)
    /\ remaining \in Int /\ remaining < WordBits * size
    /\ squared \in Nat
    /\ remaining > 0 => squared <= bits
    /\ remaining <= 0 => squared = 0
    /\ StandsFor(redcl, Above(Place) * Pow2[squared])

\* The window of a step.
LEMMA WindowFacts ==
  ASSUME NEW r \in Int, r > 0
  PROVE  LET b == Min({r, windowSize})
         IN  /\ b \in 1 .. windowSize /\ b \in Nat
             /\ r - b \in Nat
             /\ r - b = IF r - windowSize > 0 THEN r - windowSize ELSE 0
<1>1. windowSize \in Nat /\ windowSize >= 1
  BY WordAssumption, WindowAssumption
<1> DEFINE b == Min({r, windowSize})
<1>2. b = IF r <= windowSize THEN r ELSE windowSize
  BY <1>1, MinOfTwo
<1> HIDE DEF b
<1>3. /\ b \in 1 .. windowSize /\ b \in Nat
      /\ r - b \in Nat
      /\ r - b = IF r - windowSize > 0 THEN r - windowSize ELSE 0
  BY <1>1, <1>2
<1>4. QED
  BY <1>3 DEF b

\* What the loop's invariant says after a step, if the candidate stays.
LEMMA LoopStep ==
  ASSUME kernel' = kernel, e' = e, q' = q,
         q \in Number(QuotientSize), QuotientReady(size),
         remaining' \in Int, remaining' < WordBits * size, squared' \in Nat,
         remaining' > 0 => squared' <= bits', remaining' <= 0 => squared' = 0,
         NEW k, k = Above(Place') * Pow2[squared'], StandsFor(redcl', k)
  PROVE  LoopInv'
<1>1. size' = size
  BY DEF size
<1>2. QuotientReady(size)'
  BY <1>1 DEF QuotientReady
<1>3. StandsFor(redcl, Above(Place) * Pow2[squared])'
  BY <1>1 DEF StandsFor, Above
<1>4. QED
  BY <1>1, <1>2, <1>3 DEF LoopInv

\* The first power: 2, for the highest bit of e - 1.
LEMMA FirstPowerKeeps ==
  ASSUME kernel \in Kernels, e \in Candidates(size), DivisionInv(size), cycles = 0,
         remaining = WordBits * UsedWords(size) - ShiftCount(size), squared = 0,
         redcl' = redcify(1), ~RedcifyLost(redcl'), remaining' = remaining - 1,
         UNCHANGED <<kernel, e, division, squared>>
  PROVE  LoopInv'
<1> DEFINE n == size
           v == ValueOf(e, n)
           x == v - 1
           length == WordBits * UsedWords(n) - ShiftCount(n)
           j == length - 1
           p == Pow2[j]
<1>1. n \in Nat \ {0, 1} /\ n \in Nat
  BY SizeFacts
<1>2. e \in Candidates(n) /\ DivisionInv(n) /\ remaining = length
  OBVIOUS
<1>3. QuotientReady(size)
  <2> HIDE DEF n
  <2>1. QuotientReady(n)
    BY <1>1, <1>2, DivisionEnds
  <2>2. QED
    BY <2>1 DEF n
<1>4. q \in Number(QuotientSize)
  BY <1>2 DEF DivisionInv
<1>5. /\ length \in Nat /\ length >= 2 /\ length <= WordBits * n
      /\ Pow2[length - 1] < v /\ v < Pow2[length]
  <2> HIDE DEF n
  <2>1. LET l == WordBits * UsedWords(n) - ShiftCount(n)
        IN  /\ l \in Nat /\ l >= 2 /\ l <= WordBits * n
            /\ Pow2[l - 1] < ValueOf(e, n) /\ ValueOf(e, n) < Pow2[l]
    BY <1>1, <1>2, BitsExact
  <2>2. QED
    BY <2>1
<1>6. v \in Nat /\ v >= 3
  <2> HIDE DEF n
  <2>1. QED
    BY <1>1, <1>2, CandidateFacts
<1>7. WordBits * n \in Nat
  BY <1>1, WeightIsPow2
<1> HIDE DEF length, v
<1>8. j \in Nat /\ j >= 1 /\ j + 1 = length /\ j < WordBits * n /\ remaining' = j
  BY <1>2, <1>5, <1>7
<1>9. p \in Nat /\ p > 0 /\ Pow2[length] = 2 * p /\ p < v
  <2> HIDE DEF j
  <2>1. Pow2[j + 1] = 2 * Pow2[j] /\ Pow2[j] \in Nat \ {0}
    BY <1>8, Pow2Facts
  <2>2. p < v
    <3>1. Pow2[length - 1] < v
      BY <1>5
    <3>2. QED
      BY <3>1 DEF j
  <2>3. QED
    BY <1>8, <2>1, <2>2
<1>10. Above(j) = 1
  <2> DEFINE h == x - p
  <2>1. x \in Nat /\ 1 \in Nat /\ h \in 0 .. p - 1 /\ x = h + 1 * p
    <3> HIDE DEF p, j
    <3>1. QED
      BY <1>5, <1>6, <1>9
  <2> HIDE DEF x, p, h
  <2>2. x \div p = 1
    BY <1>9, <2>1, QuotientOf
  <2>3. QED
    BY <2>2 DEF Above, x, p, v
<1>11. StandsFor(redcl', 1)
  <2>1. 1 \in 0 .. pow2ws
    BY ExtraFacts
  <2>2. /\ redcify(1) \in Number(size)
        /\ \/ RedcifyLost(redcify(1))
           \/ Cong(ValueOf(redcify(1), size), Pow2[1] * Weight[size], ValueOf(e, size))
    BY <1>3, <1>4, <2>1, RedcifyExact
  <2>3. QED
    BY <2>2 DEF StandsFor
<1>12. Place' = j /\ squared' = 0 /\ squared' \in Nat /\ Above(Place') * Pow2[squared'] = 1
  <2> HIDE DEF j
  <2>1. Place' = j
    BY <1>8 DEF Place
  <2>2. Pow2[0] = 1
    BY Pow2Facts
  <2>3. QED
    BY <1>10, <2>1, <2>2
<1>13. remaining' \in Int /\ remaining' > 0 /\ remaining' < WordBits * size
  <2> HIDE DEF j
  <2>1. QED
    BY <1>8
<1>14. squared' <= bits'
  <2> DEFINE r == remaining'
  <2>1. r \in Int /\ r > 0
    BY <1>13
  <2>2. bits' = Min({r, windowSize})
    BY DEF bits
  <2> HIDE DEF r
  <2>3. bits' \in Nat
    BY <2>1, <2>2, WindowFacts
  <2>4. QED
    BY <1>12, <2>3
<1>15. kernel' = kernel /\ e' = e /\ q' = q
  BY DEF division
<1>16. QED
  BY <1>3, <1>4, <1>11, <1>12, <1>13, <1>14, <1>15, LoopStep

\* A squaring.
LEMMA SquareKeeps ==
  ASSUME kernel \in Kernels, e \in Candidates(size), LoopInv, remaining > 0, squared < bits,
         NEW m, m = monSqr(redcl, e, invert_limb(e[0])), ~SubLost(m),
         redcl' = Reduced(m, e, size), squared' = squared + 1,
         UNCHANGED <<kernel, e, division, remaining>>
  PROVE  LoopInv'
<1> DEFINE n == size
           a == Above(Place)
           k == a * Pow2[squared]
           s == squared + 1
           invm == invert_limb(e[0])
<1>1. n \in Nat \ {0, 1} /\ n \in Nat \ {0} /\ 4 * n <= B
  BY SizeFacts
<1>2. /\ q \in Number(QuotientSize) /\ QuotientReady(size)
      /\ remaining \in Int /\ remaining < WordBits * size /\ squared \in Nat
      /\ StandsFor(redcl, k)
  BY DEF LoopInv
<1>3. Place \in Nat
  BY <1>2 DEF Place
<1>4. a \in Nat
  BY <1>3, AboveIsNat
<1>5. k \in Nat /\ k + k = a * Pow2[s]
  <2> HIDE DEF a
  <2>1. Pow2[squared + 1] = 2 * Pow2[squared] /\ Pow2[squared] \in Nat
    BY <1>2, Pow2Facts
  <2> DEFINE p == Pow2[squared]
  <2>2. p \in Nat /\ Pow2[s] = 2 * p
    BY <2>1
  <2> HIDE DEF p, s
  <2>3. a * p \in Nat /\ a * (2 * p) = a * p + a * p
    BY <1>4, <2>2
  <2>4. QED
    BY <2>2, <2>3 DEF p
<1> HIDE DEF a, k
<1>6. Reduces(m, ValueOf(redcl, n) * ValueOf(redcl, n), e, n)
  <2>1. redcl \in Number(n)
    BY <1>2 DEF StandsFor
  <2>2. e \in Number(n)
    <3>1. e \in Candidates(n)
      OBVIOUS
    <3> HIDE DEF n
    <3>2. QED
      BY <1>1, <3>1, CandidateFacts
  <2>3. invm \in Nat /\ (invm * e[0] + 1) % B = 0
    BY InverseExact
  <2>4. m = Montgomery(SquareLow(redcl, n), SquareHigh(redcl, n), e, invm, n)
    BY SizeFacts
  <2> HIDE DEF n, invm
  <2>5. QED
    BY <1>1, <2>1, <2>2, <2>3, <2>4, SquareReduces
<1>7. StandsFor(redcl', k + k)
  <2>1. StandsFor(Reduced(m, e, size), k + k)
    BY <1>2, <1>5, <1>6, StandsForProduct
  <2>2. QED
    BY <2>1
<1>8. s \in Nat /\ squared' = s /\ s <= bits
  <2>1. bits \in Nat
    BY <1>2, WindowFacts DEF bits
  <2>2. QED
    BY <1>2, <2>1
<1>9. bits' = bits /\ Place' = Place /\ remaining' = remaining
  BY DEF bits, Place
<1>10. kernel' = kernel /\ e' = e /\ q' = q
  BY DEF division
<1> HIDE DEF s
<1>11. k + k = Above(Place') * Pow2[squared']
  BY <1>5, <1>8, <1>9 DEF a
<1>12. ~(remaining' <= 0)
  BY <1>2, <1>9
<1>13. QED
  BY <1>2, <1>7, <1>8, <1>9, <1>10, <1>11, <1>12, LoopStep

\* The multiplication by the power of a window.
LEMMA MultiplyKeeps ==
  ASSUME kernel \in Kernels, e \in Candidates(size), LoopInv, remaining > 0, squared = bits,
         NEW power, power = redcify(getFromBitfield(remaining - bits, bits)),
         ~RedcifyLost(power),
         NEW m, m = monMul(redcl, power, e, invert_limb(e[0])), ~SubLost(m),
         redcl' = Reduced(m, e, size), remaining' = remaining - windowSize, squared' = 0,
         UNCHANGED <<kernel, e, division>>
  PROVE  LoopInv'
<1> DEFINE n == size
           b == bits
           o == remaining - b
           w == getFromBitfield(o, b)
           k == Above(Place) * Pow2[squared]
           invm == invert_limb(e[0])
<1>1. n \in Nat \ {0, 1} /\ n \in Nat \ {0} /\ 4 * n <= B
  BY SizeFacts
<1>2. /\ q \in Number(QuotientSize) /\ QuotientReady(size)
      /\ remaining \in Int /\ remaining < WordBits * size /\ squared \in Nat
      /\ StandsFor(redcl, k)
  BY DEF LoopInv
<1>3. /\ b \in 1 .. windowSize /\ b \in Nat /\ o \in Nat
      /\ o = IF remaining - windowSize > 0 THEN remaining - windowSize ELSE 0
  BY <1>2, WindowFacts DEF bits
<1> HIDE DEF b
<1>4. o + b = remaining /\ o + b < WordBits * size /\ Place = o + b
  <2>1. o + b = remaining
    BY <1>2, <1>3
  <2>2. QED
    BY <1>2, <2>1 DEF Place
<1> HIDE DEF o
<1>5. w \in 0 .. pow2ws /\ Above(o) = Above(o + b) * Pow2[b] + w
  BY <1>3, <1>4, WindowJoins
<1> HIDE DEF w
<1>6. w \in Nat /\ power = redcify(w)
  BY <1>5, ExtraFacts DEF w, o, b
<1>7. StandsFor(power, w)
  <2>1. /\ redcify(w) \in Number(size)
        /\ \/ RedcifyLost(redcify(w))
           \/ Cong(ValueOf(redcify(w), size), Pow2[w] * Weight[size], ValueOf(e, size))
    BY <1>2, <1>5, RedcifyExact
  <2>2. QED
    BY <1>6, <2>1 DEF StandsFor
<1>8. k = Above(o + b) * Pow2[b] /\ k \in Nat
  <2>1. k = Above(o + b) * Pow2[b]
    BY <1>4 DEF b
  <2>2. Above(o + b) \in Nat /\ Pow2[b] \in Nat
    <3> DEFINE i == o + b
    <3>1. i \in Nat
      BY <1>3
    <3> HIDE DEF i
    <3>2. Above(i) \in Nat
      BY <3>1, AboveIsNat
    <3>3. QED
      BY <1>3, <3>2, Pow2Facts DEF i
  <2>3. \A x, y \in Nat : x * y \in Nat
    BY SMT
  <2>4. QED
    BY <2>1, <2>2, <2>3
<1> HIDE DEF k
<1>9. k + w = Above(o)
  BY <1>5, <1>8
<1>10. Reduces(m, ValueOf(redcl, n) * ValueOf(power, n), e, n)
  <2>1. redcl \in Number(n) /\ power \in Number(n)
    BY <1>2, <1>7 DEF StandsFor
  <2>2. e \in Number(n)
    <3>1. e \in Candidates(n)
      OBVIOUS
    <3> HIDE DEF n
    <3>2. QED
      BY <1>1, <3>1, CandidateFacts
  <2>3. invm \in Nat /\ (invm * e[0] + 1) % B = 0
    BY InverseExact
  <2>4. m = Montgomery(ProductLow(redcl, power, n), ProductHigh(redcl, power, n), e, invm, n)
    BY SizeFacts
  <2> HIDE DEF n, invm
  <2>5. QED
    BY <1>1, <2>1, <2>2, <2>3, <2>4, ProductReduces
<1>11. StandsFor(redcl', k + w)
  <2>1. StandsFor(Reduced(m, e, size), k + w)
    BY <1>2, <1>6, <1>7, <1>8, <1>10, StandsForProduct
  <2>2. QED
    BY <2>1
<1>12. remaining' \in Int /\ remaining' < WordBits * size /\ squared' = 0
  <2>1. windowSize \in Nat /\ remaining' = remaining - windowSize
    BY WordAssumption, WindowAssumption
  <2>2. WordBits * size \in Nat
    <3> HIDE DEF n
    <3>1. WordBits * n \in Nat
      BY <1>1, WeightIsPow2
    <3>2. QED
      BY <3>1 DEF n
  <2>3. QED
    BY <1>2, <2>1, <2>2
<1>13. Place' = o
  BY <1>3, <1>12 DEF Place, o
<1>14. k + w = Above(Place') * Pow2[squared']
  <2> DEFINE y == Above(o)
  <2>1. y \in Nat
    BY <1>3, AboveIsNat DEF o
  <2>2. Pow2[squared'] = 1
    BY <1>12, Pow2Facts
  <2>3. k + w = y /\ Above(Place') = y
    BY <1>9, <1>13
  <2> HIDE DEF y
  <2>4. y * 1 = y
    BY <2>1
  <2>5. QED
    BY <2>2, <2>3, <2>4
<1>15. remaining' > 0 => squared' <= bits'
  <2>1. SUFFICES ASSUME remaining' > 0 PROVE squared' <= bits'
    OBVIOUS
  <2> DEFINE r == remaining'
  <2>2. r \in Int /\ r > 0
    BY <1>12, <2>1
  <2>3. bits' = Min({r, windowSize})
    BY DEF bits
  <2> HIDE DEF r
  <2>4. bits' \in Nat
    BY <2>2, <2>3, WindowFacts
  <2>5. QED
    BY <1>12, <2>4
<1>16. kernel' = kernel /\ e' = e /\ q' = q /\ squared' \in Nat
  BY <1>12 DEF division
<1>17. QED
  BY <1>2, <1>11, <1>12, <1>14, <1>15, <1>16, LoopStep

-----------------------------------------------------------------------------
\* In the loop the power is that of the bits consumed.
LEMMA LoopMeansPrefix ==
  ASSUME kernel \in Kernels, e \in Candidates(size), LoopInv
  PROVE  LET v == ValueOf(e, size)
             prefix == (v - 1) \div Pow2[Max({remaining, 0})]
         IN  ValueOf(redcl, size) % v = Power(prefix * Pow2[squared] + WordBits * size, v)
<1> DEFINE n == size
           v == ValueOf(e, n)
           W == Weight[n]
           g == WordBits * n
           k == Above(Place) * Pow2[squared]
           R == ValueOf(redcl, n)
           i == k + g
<1>1. n \in Nat \ {0, 1} /\ n \in Nat
  BY SizeFacts
<1>2. e \in Candidates(n)
  OBVIOUS
<1>3. remaining \in Int /\ squared \in Nat /\ redcl \in Number(n) /\ Cong(R, Pow2[k] * W, v)
  BY DEF LoopInv, StandsFor
<1>4. Max({remaining, 0}) = Place /\ Place \in Nat
  <2>1. Max({remaining, 0}) = IF remaining >= 0 THEN remaining ELSE 0
    BY <1>3, MaxOfTwo
  <2>2. QED
    BY <1>3, <2>1 DEF Place
<1>5. ((v - 1) \div Pow2[Max({remaining, 0})]) * Pow2[squared] = k
  BY <1>4 DEF Above
<1>6. k \in Nat
  <2>1. Above(Place) \in Nat /\ Pow2[squared] \in Nat
    BY <1>3, <1>4, AboveIsNat, Pow2Facts
  <2>2. \A x, y \in Nat : x * y \in Nat
    BY SMT
  <2>3. QED
    BY <2>1, <2>2
<1> HIDE DEF n, k
<1>7. v \in Nat /\ v >= 3
  BY <1>1, <1>2, CandidateFacts
<1>8. g \in Nat /\ W = Pow2[g]
  BY <1>1, WeightIsPow2
<1>9. R \in Int
  <2>1. R \in 0 .. W - 1 /\ W \in Nat
    BY <1>1, <1>3, ValueBound, WeightFacts
  <2>2. QED
    BY <2>1
<1> HIDE DEF g, R, v, W
<1>10. Pow2[k] * W = Pow2[i] /\ i \in Nat /\ Pow2[i] \in Nat
  <2>1. Pow2[k + g] = Pow2[k] * Pow2[g] /\ i \in Nat
    BY <1>6, <1>8, Pow2Plus
  <2> HIDE DEF i
  <2>2. Pow2[i] \in Nat
    BY <2>1, Pow2Facts
  <2>3. QED
    BY <1>8, <2>1, <2>2 DEF i
<1> HIDE DEF i
<1>11. R % v = Pow2[i] % v
  <2> DEFINE y == Pow2[i]
  <2>1. y \in Int /\ Cong(R, y, v) /\ v > 0
    BY <1>3, <1>7, <1>10 DEF R, v, W
  <2> HIDE DEF y
  <2>2. R % v = y % v
    BY <1>7, <1>9, <2>1, CongSameRest
  <2>3. QED
    BY <2>2 DEF y
<1>12. Power(i, v) = Pow2[i] % v
  BY <1>7, <1>10, PowerExact
<1>13. QED
  BY <1>5, <1>11, <1>12 DEF n, v, R, i, g

\* Back from Montgomery form: the result is one exactly for a number that passes.
LEMMA FinishExact ==
  ASSUME kernel \in Kernels, e \in Candidates(size), LoopInv, remaining <= 0,
         NEW m, m = redcHalf(redcl, e, invert_limb(e[0])), ~SubLost(m)
  PROVE  (\A i \in 0 .. size - 1 : Reduced(m, e, size)[i] = IF i = 0 THEN 1 ELSE 0)
            <=> Power(ValueOf(e, size) - 1, ValueOf(e, size)) = 1
<1> DEFINE n == size
           v == ValueOf(e, n)
           W == Weight[n]
           X == ValueOf(redcl, n)
           r == Reduced(m, e, n)
           R == ValueOf(r, n)
           k == v - 1
           p == Pow2[k]
           g == WordBits * n
           invm == invert_limb(e[0])
<1>1. n \in Nat \ {0, 1} /\ n \in Nat /\ n \in Nat \ {0} /\ 4 * n <= B
  BY SizeFacts
<1>2. e \in Candidates(n) /\ SubKept(m, e, n)
  BY DEF SubLost, SubKept
<1>3. /\ remaining \in Int /\ squared = 0 /\ redcl \in Number(n)
      /\ Cong(X, Pow2[Above(Place) * Pow2[squared]] * W, v)
  BY DEF LoopInv, StandsFor
<1>4. v \in Nat /\ v >= 3 /\ v % 2 = 1 /\ e \in Number(n)
  <2> HIDE DEF n
  <2>1. QED
    BY <1>1, <1>2, CandidateFacts
<1>5. Above(Place) * Pow2[squared] = k
  <2>1. Place = 0 /\ Pow2[0] = 1
    BY <1>3, Pow2Facts DEF Place
  <2>2. k \in Nat /\ k \div 1 = k /\ k * 1 = k
    <3> HIDE DEF v
    <3>1. k \in Nat
      BY <1>4
    <3> HIDE DEF k
    <3>2. k \div 1 = k /\ k * 1 = k
      BY <3>1
    <3>3. QED
      BY <3>1, <3>2
  <2>3. Above(Place) = k \div 1
    BY <2>1 DEF Above
  <2>4. QED
    BY <1>3, <2>1, <2>2, <2>3
<1>6. Reduces(m, X, e, n)
  <2>1. invm \in Nat /\ (invm * e[0] + 1) % B = 0
    BY InverseExact
  <2>2. m = Montgomery(HalfLow(redcl, n), HalfHigh(redcl, n), e, invm, n)
    BY SizeFacts
  <2> HIDE DEF n, invm
  <2>3. QED
    BY <1>1, <1>3, <1>4, <2>1, <2>2, HalfReduces
<1> HIDE DEF n
<1>7. X \in Nat /\ X < W /\ W \in Nat /\ W >= 1
  <2>1. X \in 0 .. W - 1 /\ W \in Nat \ {0}
    BY <1>1, <1>3, ValueBound, WeightFacts
  <2> HIDE DEF X, W
  <2>2. QED
    BY <2>1
<1>8. X < W * W
  <2> HIDE DEF X, W
  <2>1. PICK z \in Nat : W = 1 + z
    <3>1. W - 1 \in Nat /\ W = 1 + (W - 1)
      BY <1>7
    <3>2. QED
      BY <3>1
  <2>2. W * (1 + z) = W + W * z /\ W * z \in Nat
    BY <1>7
  <2>3. QED
    BY <1>7, <2>1, <2>2
<1>9. /\ r \in Number(n)
      /\ Cong(W * R, X, v)
      /\ R <= v
  <2> HIDE DEF X
  <2>1. /\ Reduced(m, e, n) \in Number(n)
        /\ Cong(Weight[n] * ValueOf(Reduced(m, e, n), n), X, ValueOf(e, n))
        /\ X < Weight[n] => ValueOf(Reduced(m, e, n), n) <= ValueOf(e, n)
    BY <1>1, <1>2, <1>4, <1>6, <1>7, <1>8, ReducedExact
  <2>2. QED
    BY <1>7, <2>1
<1>10. R \in Nat
  <2> HIDE DEF r
  <2>1. R \in 0 .. W - 1
    BY <1>1, <1>9, ValueBound
  <2> HIDE DEF R, W
  <2>2. QED
    BY <1>7, <2>1
<1>11. g \in Nat /\ W = Pow2[g]
  BY <1>1, WeightIsPow2
<1>12. k \in Nat
  <2> HIDE DEF v
  <2>1. QED
    BY <1>4
<1>13. p \in Nat
  <2> HIDE DEF k
  <2>1. QED
    BY <1>12, Pow2Facts
<1>14. Cong(R, p, v)
  <2>1. Cong(X, p * W, v)
    BY <1>3, <1>5
  <2>2. Cong(W * R, X, v)
    BY <1>9
  <2> HIDE DEF v, W, X, R, p, g, k
  <2> DEFINE a == W * R
             b == p * W
             c == W * p
  <2>3. a \in Int /\ b \in Int /\ b = c
    BY <1>7, <1>10, <1>13
  <2> HIDE DEF a, b, c
  <2>4. Cong(a, b, v)
    <3>1. Cong(a, X, v) /\ Cong(X, b, v) /\ X \in Int /\ v \in Int
      BY <1>4, <1>7, <2>1, <2>2 DEF a, b
    <3>2. QED
      BY <2>3, <3>1, CongJoin
  <2>5. Cong(Pow2[g] * R, Pow2[g] * p, v)
    BY <1>11, <2>3, <2>4 DEF a, c
  <2>6. R \in Int /\ p \in Int
    BY <1>10, <1>13
  <2>7. QED
    BY <1>4, <1>11, <2>5, <2>6, CongCancels
<1>15. (R = 1) <=> (p % v = 1)
  <2> HIDE DEF v, R, p, k
  <2>1. v > 0 /\ R \in Int /\ p \in Int
    BY <1>4, <1>10, <1>13
  <2>2. R % v = p % v
    BY <1>4, <1>14, <2>1, CongSameRest
  <2>3. CASE R = v
    <3>1. R % v = 0
      <4>1. 0 \in 0 .. v - 1 /\ R = 0 + 1 * v /\ 1 \in Int
        BY <1>4, <2>3
      <4>2. QED
        BY <1>4, <2>1, <4>1, RestIs
    <3>2. QED
      BY <1>4, <2>2, <2>3, <3>1
  <2>4. CASE R # v
    <3>1. R % v = R
      <4>1. R \in 0 .. v - 1 /\ R = R + 0 * v /\ 0 \in Int
        BY <1>4, <1>9, <1>10, <2>4 DEF R, v
      <4>2. QED
        BY <1>4, <2>1, <4>1, RestIs
    <3>2. QED
      BY <2>2, <3>1
  <2>5. QED
    BY <2>3, <2>4
<1>16. Power(k, v) = p % v
  <2> HIDE DEF v, k
  <2>1. v > 0
    BY <1>4
  <2>2. QED
    BY <1>4, <1>12, <2>1, PowerExact
<1>17. (\A i \in 0 .. n - 1 : r[i] = IF i = 0 THEN 1 ELSE 0) <=> R = 1
  <2> HIDE DEF r
  <2>1. QED
    BY <1>1, <1>9, ValueIsOne
<1>18. (\A i \in 0 .. n - 1 : r[i] = IF i = 0 THEN 1 ELSE 0) <=> Power(k, v) = 1
  <2> HIDE DEF r, R, p, v, k
  <2>1. QED
    BY <1>15, <1>16, <1>17
<1>19. QED
  BY <1>18 DEF n

-----------------------------------------------------------------------------
(***************************************************************************)
(* The whole test, while no chain has lost a carry.                        *)
(***************************************************************************)
\* The verdict is that of Fermat's test.
VerdictRight ==
    fermat <=> Power(ValueOf(e, size) - 1, ValueOf(e, size)) = 1

\* What holds at each place of the kernel.
Progress ==
    /\ pc = "begin" => q = [i \in 0 .. QuotientSize - 1 |-> 0] /\ squared = 0
    /\ pc = "divide" => /\ DivisionInv(size)
                        /\ remaining = WordBits * UsedWords(size) - ShiftCount(size)
                        /\ squared = 0
    /\ pc = "loop" => LoopInv
    /\ pc = "done" => VerdictRight

\* The inductive invariant of the test.
FermatTestInv ==
    /\ kernel \in Kernels
    /\ e \in Candidates(size)
    /\ pc \in {"begin", "divide", "loop", "done"}
    /\ lost = {} => Progress

\* It holds at the start.
LEMMA InitFermatTestInv ==
  ASSUME FermatTestInit
  PROVE  FermatTestInv
BY DEF FermatTestInit, FermatTestInv, Progress

\* The begin of the division; a lost carry is not forgotten.
LEMMA BeginKeeps ==
  ASSUME FermatTestInv, Begin
  PROVE  FermatTestInv'
<1>1. /\ kernel \in Kernels /\ e \in Candidates(size) /\ pc = "begin" /\ pc' = "divide"
      /\ kernel' = kernel /\ e' = e /\ q' = q /\ squared' = squared /\ lost' = lost
  BY DEF Begin, FermatTestInv
<1>2. size' = size /\ size \in Nat \ {0, 1}
  BY <1>1, SizeFacts DEF size
<1>3. DivideBegin(size)
  BY <1>1 DEF Begin, divide, divide480to320reg, divide512to352reg, size, Kernels
<1>4. ASSUME lost' = {} PROVE Progress'
  <2>1. q = [i \in 0 .. QuotientSize - 1 |-> 0] /\ squared = 0
    BY <1>1, <1>4 DEF FermatTestInv, Progress
  <2>2. DivisionInv(size)' /\ remaining' = WordBits * UsedWords(size) - ShiftCount(size)
    BY <1>1, <1>2, <1>3, <2>1, DivisionBegins
  <2>3. (WordBits * UsedWords(size) - ShiftCount(size))' = WordBits * UsedWords(size) - ShiftCount(size)
    BY <1>1, <1>2, CandidateStays
  <2>4. QED
    BY <1>1, <2>1, <2>2, <2>3 DEF Progress
<1>5. QED
  BY <1>1, <1>2, <1>4 DEF FermatTestInv

\* A cycle of the division.
LEMMA DivideCycleKeeps ==
  ASSUME FermatTestInv, DivideCycle
  PROVE  FermatTestInv'
<1>1. /\ kernel \in Kernels /\ e \in Candidates(size) /\ pc = "divide" /\ pc' = pc
      /\ kernel' = kernel /\ e' = e /\ ds' = ds /\ squared' = squared /\ remaining' = remaining
      /\ cycles > 0 /\ cycles' = cycles - 1
  BY DEF DivideCycle, FermatTestInv
<1>2. size' = size /\ size \in Nat \ {0, 1}
  BY <1>1, SizeFacts DEF size
<1>3. Cycle(size)
  BY <1>1 DEF DivideCycle, divide, divide480to320reg, divide512to352reg, size, Kernels
<1>4. ASSUME lost' = {} PROVE Progress'
  <2>1. lost = {} /\ CycleKept(size)
    BY <1>3, <1>4, CycleParts
  <2>2. /\ DivisionInv(size) /\ squared = 0
        /\ remaining = WordBits * UsedWords(size) - ShiftCount(size)
    BY <1>1, <2>1 DEF FermatTestInv, Progress
  <2>3. DivisionInv(size)'
    BY <1>1, <1>2, <2>1, <2>2, DivisionGoesOn
  <2>4. (WordBits * UsedWords(size) - ShiftCount(size))' = WordBits * UsedWords(size) - ShiftCount(size)
    BY <1>1, <1>2, CandidateStays
  <2>5. QED
    BY <1>1, <2>2, <2>3, <2>4 DEF Progress
<1>5. QED
  BY <1>1, <1>2, <1>4 DEF FermatTestInv

\* What a step adds to the history of lost carries is empty if the history is.
LEMMA NothingLost ==
  ASSUME NEW S, NEW name, NEW happened, S \union Chain(name, happened) = {}
  PROVE  S = {} /\ ~happened
BY DEF Chain

\* The first power.
LEMMA FirstPowerStep ==
  ASSUME FermatTestInv, FirstPower
  PROVE  FermatTestInv'
<1>1. /\ kernel \in Kernels /\ e \in Candidates(size) /\ pc = "divide" /\ pc' = "loop"
      /\ kernel' = kernel /\ e' = e /\ cycles = 0 /\ redcl' = redcify(1)
      /\ lost' = lost \union Chain("redcify", RedcifyLost(redcl'))
      /\ remaining' = remaining - 1 /\ UNCHANGED <<kernel, e, division, squared>>
  BY DEF FirstPower, FermatTestInv
<1>2. size' = size
  BY <1>1 DEF size
<1>3. ASSUME lost' = {} PROVE Progress'
  <2>1. lost = {} /\ ~RedcifyLost(redcl')
    <3> DEFINE happened == RedcifyLost(redcl')
    <3>1. lost \union Chain("redcify", happened) = {}
      BY <1>1, <1>3
    <3> HIDE DEF happened
    <3>2. lost = {} /\ ~happened
      BY <3>1, NothingLost
    <3>3. QED
      BY <3>2 DEF happened
  <2>2. /\ DivisionInv(size) /\ squared = 0
        /\ remaining = WordBits * UsedWords(size) - ShiftCount(size)
    BY <1>1, <2>1 DEF FermatTestInv, Progress
  <2>3. LoopInv'
    BY <1>1, <2>1, <2>2, FirstPowerKeeps
  <2>4. QED
    BY <1>1, <2>3 DEF Progress
<1>4. QED
  BY <1>1, <1>2, <1>3 DEF FermatTestInv

\* A squaring.
LEMMA SquareStep ==
  ASSUME FermatTestInv, Square
  PROVE  FermatTestInv'
<1> DEFINE m == monSqr(redcl, e, invert_limb(e[0]))
<1>1. /\ kernel \in Kernels /\ e \in Candidates(size) /\ pc = "loop" /\ pc' = pc
      /\ kernel' = kernel /\ e' = e /\ remaining > 0 /\ squared < bits
      /\ redcl' = Reduced(m, e, size) /\ lost' = lost \union Chain("sub", SubLost(m))
      /\ squared' = squared + 1 /\ UNCHANGED <<kernel, e, division, remaining>>
  BY DEF Square, FermatTestInv
<1> HIDE DEF m
<1>2. size' = size
  BY <1>1 DEF size
<1>3. ASSUME lost' = {} PROVE Progress'
  <2>1. lost = {} /\ ~SubLost(m)
    BY <1>1, <1>3, NothingLost
  <2>2. LoopInv
    BY <1>1, <2>1 DEF FermatTestInv, Progress
  <2>3. LoopInv'
    BY <1>1, <2>1, <2>2, SquareKeeps DEF m
  <2>4. QED
    BY <1>1, <2>3 DEF Progress
<1>4. QED
  BY <1>1, <1>2, <1>3 DEF FermatTestInv

\* The multiplication by the power of a window.
LEMMA MultiplyStep ==
  ASSUME FermatTestInv, Multiply
  PROVE  FermatTestInv'
<1> DEFINE power == redcify(getFromBitfield(remaining - bits, bits))
           m == monMul(redcl, power, e, invert_limb(e[0]))
<1>1. /\ kernel \in Kernels /\ e \in Candidates(size) /\ pc = "loop" /\ pc' = pc
      /\ kernel' = kernel /\ e' = e /\ remaining > 0 /\ squared = bits
      /\ redcl' = Reduced(m, e, size)
      /\ lost' = lost \union Chain("redcify", RedcifyLost(power)) \union Chain("sub", SubLost(m))
      /\ squared' = 0 /\ remaining' = remaining - windowSize
      /\ UNCHANGED <<kernel, e, division>>
  BY DEF Multiply, FermatTestInv
<1> HIDE DEF power, m
<1>2. size' = size
  BY <1>1 DEF size
<1>3. ASSUME lost' = {} PROVE Progress'
  <2>1. lost = {} /\ ~RedcifyLost(power) /\ ~SubLost(m)
    <3>1. lost \union Chain("redcify", RedcifyLost(power)) = {} /\ ~SubLost(m)
      BY <1>1, <1>3, NothingLost
    <3>2. QED
      BY <3>1, NothingLost
  <2>2. LoopInv
    BY <1>1, <2>1 DEF FermatTestInv, Progress
  <2>3. LoopInv'
    BY <1>1, <2>1, <2>2, MultiplyKeeps DEF m, power
  <2>4. QED
    BY <1>1, <2>3 DEF Progress
<1>4. QED
  BY <1>1, <1>2, <1>3 DEF FermatTestInv

\* Back from Montgomery form.
LEMMA FinishStep ==
  ASSUME FermatTestInv, Finish
  PROVE  FermatTestInv'
<1> DEFINE m == redcHalf(redcl, e, invert_limb(e[0]))
<1>1. /\ kernel \in Kernels /\ e \in Candidates(size) /\ pc = "loop" /\ pc' = "done"
      /\ kernel' = kernel /\ e' = e /\ remaining <= 0
      /\ redcl' = Reduced(m, e, size) /\ lost' = lost \union Chain("sub", SubLost(m))
  BY DEF Finish, FermatTestInv
<1> HIDE DEF m
<1>2. size' = size
  BY <1>1 DEF size
<1>3. ASSUME lost' = {} PROVE Progress'
  <2>1. lost = {} /\ ~SubLost(m)
    BY <1>1, <1>3, NothingLost
  <2>2. LoopInv
    BY <1>1, <2>1 DEF FermatTestInv, Progress
  <2>3. (\A i \in 0 .. size - 1 : Reduced(m, e, size)[i] = IF i = 0 THEN 1 ELSE 0)
           <=> Power(ValueOf(e, size) - 1, ValueOf(e, size)) = 1
    BY <1>1, <2>1, <2>2, FinishExact DEF m
  <2>4. VerdictRight'
    BY <1>1, <1>2, <2>3 DEF VerdictRight, fermat
  <2>5. QED
    BY <1>1, <2>4 DEF Progress
<1>4. QED
  BY <1>1, <1>2, <1>3 DEF FermatTestInv

\* A step that changes nothing.
LEMMA StutterKeeps ==
  ASSUME FermatTestInv, UNCHANGED fermatVars
  PROVE  FermatTestInv'
<1>1. /\ kernel' = kernel /\ e' = e /\ pc' = pc /\ ds' = ds /\ dv' = dv /\ q' = q /\ cycles' = cycles
      /\ remaining' = remaining /\ squared' = squared /\ redcl' = redcl /\ lost' = lost
  BY DEF fermatVars
<1>2. size' = size
  BY <1>1 DEF size
<1>3. LoopInv' = LoopInv
  BY <1>1, <1>2 DEF LoopInv, QuotientReady, StandsFor, Above, Place, bits
<1>4. \A n : DivisionInv(n)' = DivisionInv(n)
  BY <1>1, CandidateStays DEF DivisionInv, Dividing, Divided
<1>5. UsedWords(size)' = UsedWords(size) /\ ShiftCount(size)' = ShiftCount(size)
  BY <1>1, <1>2 DEF UsedWords, ShiftCount
<1>6. VerdictRight' = VerdictRight
  BY <1>1, <1>2 DEF VerdictRight, fermat
<1>7. Progress' = Progress
  BY <1>1, <1>2, <1>3, <1>4, <1>5, <1>6 DEF Progress
<1>8. QED
  BY <1>1, <1>2, <1>7 DEF FermatTestInv

\* Every step keeps the invariant, and the invariant implies the properties.
LEMMA FermatTestInvInductive ==
  ASSUME FermatTestInv, [FermatTestNext]_fermatVars
  PROVE  FermatTestInv'
BY BeginKeeps, DivideCycleKeeps, FirstPowerStep, SquareStep, MultiplyStep, FinishStep, StutterKeeps
   DEF FermatTestNext

LEMMA FermatTestInvMeans ==
  ASSUME FermatTestInv
  PROVE  PowerOfPrefix /\ VerdictUnlessCarryLost
<1>1. PowerOfPrefix
  BY LoopMeansPrefix DEF FermatTestInv, Progress, PowerOfPrefix
<1>2. VerdictUnlessCarryLost
  BY DEF FermatTestInv, Progress, VerdictRight, VerdictUnlessCarryLost
<1>3. QED
  BY <1>1, <1>2

\* The invariant that the kernels keep (FermatTest320, FermatTest352): at each place
\* what the division, the windows and the products have made is exact, while no
\* chain has lost a carry.
THEOREM FermatTestKeepsInv == FermatTestSpec => []FermatTestInv
<1>1. FermatTestInit => FermatTestInv
  BY InitFermatTestInv
<1>2. FermatTestInv /\ [FermatTestNext]_fermatVars => FermatTestInv'
  BY FermatTestInvInductive
<1>3. QED
  BY <1>1, <1>2, PTL DEF FermatTestSpec

\* PowerOfPrefix for words of any width, numbers of any size and windows of any
\* size that fit: between two steps of the loop of FermatTest320 and FermatTest352
\* the power is that of the bits of e - 1 consumed, unless a chain lost a carry.
THEOREM PowersExact == FermatTestSpec => []PowerOfPrefix
<1>1. FermatTestInv => PowerOfPrefix
  BY FermatTestInvMeans
<1>2. QED
  BY <1>1, FermatTestKeepsInv, PTL

\* VerdictUnlessCarryLost for the same: fermat320 and fermat352 accept exactly the
\* candidates that pass Fermat's test, unless a chain lost a carry.
THEOREM VerdictExact == FermatTestSpec => []VerdictUnlessCarryLost
<1>1. FermatTestInv => VerdictUnlessCarryLost
  BY FermatTestInvMeans
<1>2. QED
  BY <1>1, FermatTestKeepsInv, PTL

-----------------------------------------------------------------------------
(***************************************************************************)
(* Products of finitely many factors.                                      *)
(***************************************************************************)
Factors(f, n) == \A i \in 0 .. n - 1 : f[i] \in Nat

LEMMA ProductRuns ==
  ASSUME NEW n \in Nat, NEW f, Factors(f, n)
  PROVE  \E G \in [Nat -> Nat] :
            /\ G[0] = 1
            /\ \A i \in 0 .. n - 1 : G[i + 1] = G[i] * f[i]
            /\ \A m \in 0 .. n : ProductUpTo(f, m) = G[m]
<1> DEFINE c == 1
           T == Nat
           h == [p \in Nat \X T |-> IF p[1] - 1 \in 0 .. n - 1 THEN p[2] * f[p[1] - 1] ELSE 0]
<1>1. PICK G \in [Nat -> T] : Recurs(G, c, h)
  <2>1. h \in [Nat \X T -> T] /\ c \in T
    <3>1. \A x, y \in Nat : x * y \in Nat
      BY SMT
    <3>2. QED
      BY <3>1 DEF Factors
  <2> HIDE DEF h, T, c
  <2>2. QED
    BY <2>1, Recursion
<1>2. G[0] = 1
  BY <1>1 DEF Recurs
<1>3. ASSUME NEW i \in 0 .. n - 1 PROVE G[i + 1] = G[i] * f[i]
  <2>1. G[i + 1] = h[<<i + 1, G[i]>>]
    <3>1. i \in Nat
      OBVIOUS
    <3> HIDE DEF h, T, c
    <3>2. QED
      BY <1>1, <3>1 DEF Recurs
  <2>2. i + 1 \in Nat /\ (i + 1) - 1 = i /\ G[i] \in Nat
    OBVIOUS
  <2>3. h[<<i + 1, G[i]>>] = G[i] * f[i]
    BY <2>2
  <2>4. QED
    BY <2>1, <2>3
<1>4. ASSUME NEW m \in 0 .. n PROVE ProductUpTo(f, m) = G[m]
  <2> DEFINE Def(s) == s = [i \in 0 .. m |-> IF i = 0 THEN 1 ELSE s[i - 1] * f[i - 1]]
             s == CHOOSE s : Def(s)
             g == [i \in 0 .. m |-> G[i]]
  <2>1. Def(g)
    <3>1. ASSUME NEW i \in 0 .. m, i # 0 PROVE g[i] = g[i - 1] * f[i - 1]
      <4>1. i - 1 \in 0 .. n - 1 /\ i - 1 \in 0 .. m /\ (i - 1) + 1 = i
        BY <3>1
      <4>2. G[(i - 1) + 1] = G[i - 1] * f[i - 1]
        BY <1>3, <4>1
      <4>3. g[i] = G[i] /\ g[i - 1] = G[i - 1]
        BY <4>1
      <4>4. QED
        BY <4>1, <4>2, <4>3
    <3>2. g[0] = 1
      BY <1>2
    <3> HIDE DEF g
    <3>3. g = [i \in 0 .. m |-> g[i]]
      BY DEF g
    <3>4. \A i \in 0 .. m : g[i] = IF i = 0 THEN 1 ELSE g[i - 1] * f[i - 1]
      BY <3>1, <3>2
    <3>5. QED
      BY <3>3, <3>4, Zenon
  <2>2. Def(s)
    <3> HIDE DEF Def, g
    <3>1. QED
      BY <2>1
  <2>3. ProductUpTo(f, m) = s[m]
    BY DEF ProductUpTo
  <2> HIDE DEF s
  <2> DEFINE S == {i \in Nat : i <= m => s[i] = G[i]}
  <2>4. 0 \in S
    BY <1>2, <2>2
  <2>5. ASSUME NEW i \in Nat, i \in S PROVE i + 1 \in S
    <3>1. SUFFICES ASSUME i + 1 <= m PROVE s[i + 1] = G[i + 1]
      OBVIOUS
    <3>2. i + 1 \in 0 .. m /\ i + 1 # 0 /\ (i + 1) - 1 = i /\ i \in 0 .. n - 1
      BY <3>1
    <3>3. s[i + 1] = s[i] * f[i]
      BY <2>2, <3>2
    <3>4. s[i] = G[i]
      BY <2>5, <3>1
    <3>5. QED
      BY <1>3, <3>2, <3>3, <3>4
  <2>6. \A i \in Nat : i \in S
    <3> HIDE DEF S
    <3>1. QED
      BY <2>4, <2>5, Induction
  <2>7. QED
    BY <2>3, <2>6
<1> HIDE DEF h, c
<1>5. QED
  BY <1>2, <1>3, <1>4

LEMMA ProductZero ==
  ASSUME NEW f
  PROVE  ProductUpTo(f, 0) = 1
<1>1. Factors(f, 0)
  BY DEF Factors
<1>2. QED
  BY <1>1, ProductRuns

LEMMA ProductNext ==
  ASSUME NEW n \in Nat, NEW f, Factors(f, n + 1)
  PROVE  /\ ProductUpTo(f, n) \in Nat /\ f[n] \in Nat
         /\ ProductUpTo(f, n + 1) = ProductUpTo(f, n) * f[n]
<1>1. PICK G \in [Nat -> Nat] :
            /\ G[0] = 1
            /\ \A i \in 0 .. (n + 1) - 1 : G[i + 1] = G[i] * f[i]
            /\ \A m \in 0 .. n + 1 : ProductUpTo(f, m) = G[m]
  BY ProductRuns
<1>2. QED
  BY <1>1 DEF Factors

LEMMA ProductIsNat ==
  ASSUME NEW n \in Nat, NEW f, Factors(f, n)
  PROVE  ProductUpTo(f, n) \in Nat
BY ProductRuns

\* A product of factors that are products of two.
LEMMA ProductTimes ==
  ASSUME NEW n \in Nat, NEW f, NEW g, NEW h, Factors(f, n), Factors(g, n),
         \A i \in 0 .. n - 1 : h[i] = f[i] * g[i]
  PROVE  ProductUpTo(h, n) = ProductUpTo(f, n) * ProductUpTo(g, n)
<1>1. Factors(h, n)
  <2>1. \A x, y \in Nat : x * y \in Nat
    BY SMT
  <2>2. QED
    BY <2>1 DEF Factors
<1> DEFINE S == {m \in Nat : m <= n =>
                   ProductUpTo(h, m) = ProductUpTo(f, m) * ProductUpTo(g, m)}
<1>2. 0 \in S
  BY ProductZero
<1>3. ASSUME NEW m \in Nat, m \in S PROVE m + 1 \in S
  <2>1. SUFFICES ASSUME m + 1 <= n
                 PROVE  ProductUpTo(h, m + 1) = ProductUpTo(f, m + 1) * ProductUpTo(g, m + 1)
    OBVIOUS
  <2>2. Factors(f, m + 1) /\ Factors(g, m + 1) /\ Factors(h, m + 1) /\ h[m] = f[m] * g[m]
    BY <1>1, <2>1 DEF Factors
  <2>3. /\ ProductUpTo(f, m + 1) = ProductUpTo(f, m) * f[m]
        /\ ProductUpTo(g, m + 1) = ProductUpTo(g, m) * g[m]
        /\ ProductUpTo(h, m + 1) = ProductUpTo(h, m) * h[m]
        /\ ProductUpTo(f, m) \in Nat /\ ProductUpTo(g, m) \in Nat /\ f[m] \in Nat /\ g[m] \in Nat
    BY <2>2, ProductNext
  <2>4. ProductUpTo(h, m) = ProductUpTo(f, m) * ProductUpTo(g, m)
    BY <1>3, <2>1
  <2>5. \A x, y, u, v \in Nat : (x * y) * (u * v) = (x * u) * (y * v)
    BY SMT
  <2>6. QED
    BY <2>2, <2>3, <2>4, <2>5
<1>4. \A m \in Nat : m \in S
  <2> HIDE DEF S
  <2>1. QED
    BY <1>2, <1>3, Induction
<1>5. QED
  BY <1>4

\* A product of positive factors.
LEMMA ProductPositive ==
  ASSUME NEW n \in Nat, NEW f, \A i \in 0 .. n - 1 : f[i] \in Nat \ {0}
  PROVE  ProductUpTo(f, n) \in Nat \ {0}
<1> DEFINE S == {m \in Nat : m <= n => ProductUpTo(f, m) \in Nat \ {0}}
<1>1. 0 \in S
  BY ProductZero
<1>2. ASSUME NEW m \in Nat, m \in S PROVE m + 1 \in S
  <2>1. SUFFICES ASSUME m + 1 <= n PROVE ProductUpTo(f, m + 1) \in Nat \ {0}
    OBVIOUS
  <2>2. Factors(f, m + 1) /\ f[m] \in Nat \ {0}
    BY <2>1 DEF Factors
  <2>3. ProductUpTo(f, m + 1) = ProductUpTo(f, m) * f[m]
    BY <2>2, ProductNext
  <2>4. ProductUpTo(f, m) \in Nat \ {0}
    BY <1>2, <2>1
  <2>5. \A x, y \in Nat \ {0} : x * y \in Nat \ {0}
    BY SMT
  <2>6. QED
    BY <2>2, <2>3, <2>4, <2>5
<1>3. \A m \in Nat : m \in S
  <2> HIDE DEF S
  <2>1. QED
    BY <1>1, <1>2, Induction
<1>4. QED
  BY <1>3

-----------------------------------------------------------------------------
(***************************************************************************)
(* Primes.  One that divides a product divides a factor (Euclid): the      *)
(* least multiplier of b that gives a multiple of p divides all others, p  *)
(* among them.                                                             *)
(***************************************************************************)
IsPrimeNumber(p) == p \in Nat /\ p >= 2 /\ \A d \in 2 .. p - 1 : p % d # 0

LEMMA LeastNumber ==
  ASSUME NEW S \in SUBSET Nat, S # {}
  PROVE  \E x \in S : \A y \in S : x <= y
<1> DEFINE R == {ss \in Nat \X Nat : ss[1] < ss[2]}
<1>1. IsWellFoundedOn(R, Nat)
  BY NatLessThanWellFounded DEF OpToRel
<1>2. \E x \in S : \A y \in S : ~(<<y, x>> \in R)
  <2> HIDE DEF R
  <2>1. QED
    BY <1>1, WFMin
<1>3. PICK x \in S : \A y \in S : ~(<<y, x>> \in R)
  BY <1>2
<1>4. ASSUME NEW y \in S PROVE x <= y
  <2>1. x \in Nat /\ y \in Nat
    OBVIOUS
  <2>2. SUFFICES ASSUME y < x PROVE FALSE
    BY <2>1
  <2>3. <<y, x>> \in R
    BY <2>1, <2>2
  <2>4. QED
    BY <1>3, <2>3
<1>5. QED
  BY <1>4

\* A remainder of zero is divisibility.
LEMMA RestIsZero ==
  ASSUME NEW v \in Nat, v > 0, NEW x \in Int
  PROVE  x % v = 0 <=> Cong(x, 0, v)
<1>1. 0 \in 0 .. v - 1 /\ 0 % v = 0
  <2>1. 0 \in 0 .. v - 1 /\ 0 \in Int
    OBVIOUS
  <2>2. 0 % v \in 0 .. v - 1 /\ Cong(0 % v, 0, v)
    BY <2>1, CongModulo
  <2> DEFINE z == 0 % v
  <2>3. z \in 0 .. v - 1 /\ Cong(z, 0, v)
    BY <2>2
  <2> HIDE DEF z
  <2>4. z = 0
    BY <2>1, <2>3, CongUnique
  <2>5. QED
    BY <2>1, <2>4 DEF z
<1>2. Cong(x, 0, v) => x % v = 0
  BY <1>1, CongSameRest
<1>3. Cong(x, x % v, v)
  BY CongModulo
<1>4. QED
  BY <1>2, <1>3

LEMMA Euclid ==
  ASSUME NEW p, IsPrimeNumber(p), NEW a \in Int, NEW b \in Int, Cong(a * b, 0, p)
  PROVE  Cong(a, 0, p) \/ Cong(b, 0, p)
<1> DEFINE S == {x \in Nat : x > 0 /\ Cong(x * b, 0, p)}
<1>1. p \in Nat /\ p >= 2 /\ p > 0 /\ p \in Int /\ \A d \in 2 .. p - 1 : p % d # 0
  BY DEF IsPrimeNumber
<1>2. p \in S
  <2>1. p * b = 0 + b * p /\ p * b \in Int
    BY <1>1, SMT
  <2>2. Cong(p * b, 0, p)
    BY <2>1 DEF Cong
  <2>3. QED
    BY <1>1, <2>2
<1>3. PICK g \in S : \A y \in S : g <= y
  <2>1. S \in SUBSET Nat /\ S # {}
    BY <1>2
  <2> HIDE DEF S
  <2>2. QED
    BY <2>1, LeastNumber
<1>4. g \in Nat /\ g > 0 /\ g \in Int /\ Cong(g * b, 0, p) /\ g <= p
  BY <1>2, <1>3
<1>5. ASSUME NEW x \in Int, Cong(x * b, 0, p) PROVE x % g = 0
  <2> DEFINE r == x % g
             k == x \div g
  <2>1. r \in 0 .. g - 1 /\ k \in Int /\ x = g * k + r
    BY <1>4, Z3
  <2> HIDE DEF r, k
  <2>2. r * b = x * b + (-k) * (g * b) /\ x * b \in Int /\ g * b \in Int /\ r * b \in Int
    <3>1. r = x - g * k
      BY <1>4, <2>1, SMT
    <3>2. (x - g * k) * b = x * b + (-k) * (g * b)
      BY <1>4, <2>1, SMT
    <3>3. x * b \in Int /\ g * b \in Int /\ r * b \in Int
      BY <1>4, <2>1, SMT
    <3>4. QED
      BY <3>1, <3>2, <3>3
  <2> DEFINE xb == x * b
             gb == g * b
             m == -k
  <2>3. m \in Int /\ xb \in Int /\ gb \in Int /\ Cong(xb, 0, p) /\ Cong(gb, 0, p) /\ Cong(m, m, p)
    <3>1. -k \in Int
      BY <2>1
    <3>2. QED
      BY <1>1, <1>4, <1>5, <2>2, <3>1, CongEqual
  <2>4. r * b = xb + m * gb
    BY <2>2
  <2> HIDE DEF xb, gb, m
  <2>5. Cong(m * gb, m * 0, p)
    BY <1>1, <2>3, CongTimes
  <2>6. m * gb \in Int /\ m * 0 = 0 /\ 0 \in Int /\ 0 + 0 = 0
    BY <2>3, SMT
  <2>7. Cong(xb + m * gb, 0 + 0, p)
    BY <1>1, <2>3, <2>5, <2>6, CongPlus
  <2>8. Cong(r * b, 0, p)
    BY <2>4, <2>6, <2>7
  <2>9. r = 0
    <3>1. SUFFICES ASSUME r # 0 PROVE FALSE
      OBVIOUS
    <3>2. r \in S
      BY <2>1, <2>8, <3>1
    <3>3. g <= r
      BY <1>3, <3>2
    <3>4. QED
      BY <1>4, <2>1, <3>3
  <2>10. QED
    BY <2>9 DEF r
<1>6. p % g = 0
  BY <1>1, <1>2, <1>5
<1>7. g = 1 \/ g = p
  <2>1. SUFFICES ASSUME g # 1, g # p PROVE FALSE
    OBVIOUS
  <2>2. g \in 2 .. p - 1
    BY <1>1, <1>4, <2>1
  <2>3. QED
    BY <1>1, <1>6, <2>2
<1>8. CASE g = 1
  <2>1. 1 * b = b
    OBVIOUS
  <2>2. QED
    BY <1>4, <1>8, <2>1
<1>9. CASE g = p
  <2>1. a % p = 0
    BY <1>5, <1>9
  <2>2. QED
    BY <1>1, <2>1, RestIsZero
<1>10. QED
  BY <1>7, <1>8, <1>9

\* Of two different primes neither divides the other.
LEMMA PrimesDiffer ==
  ASSUME NEW p, IsPrimeNumber(p), NEW o, IsPrimeNumber(o), p # o
  PROVE  ~Cong(o, 0, p)
<1>1. p \in Nat /\ p >= 2 /\ p > 0 /\ o \in Nat /\ o >= 2 /\ o \in Int /\ \A d \in 2 .. o - 1 : o % d # 0
  BY DEF IsPrimeNumber
<1>2. SUFFICES ASSUME Cong(o, 0, p) PROVE FALSE
  OBVIOUS
<1>3. o % p = 0
  BY <1>1, <1>2, RestIsZero
<1>4. ~(p \in 2 .. o - 1)
  BY <1>1, <1>3
<1>5. p > o
  BY <1>1, <1>4
<1>6. o % p = o
  BY <1>1, <1>5
<1>7. QED
  BY <1>1, <1>3, <1>6

\* The factors of a product of different primes, some of them left out.
SomePrimes(f, n) ==
    /\ \A i \in 0 .. n - 1 : f[i] = 1 \/ IsPrimeNumber(f[i])
    /\ \A i, j \in 0 .. n - 1 : i # j /\ f[i] = f[j] => f[i] = 1

LEMMA PrimesAreFactors ==
  ASSUME NEW n \in Nat, NEW f, SomePrimes(f, n)
  PROVE  Factors(f, n) /\ \A i \in 0 .. n - 1 : f[i] \in Nat \ {0}
BY DEF SomePrimes, Factors, IsPrimeNumber

\* A prime that is none of the factors does not divide their product.
LEMMA OtherPrime ==
  ASSUME NEW n \in Nat, NEW f, SomePrimes(f, n), NEW p, IsPrimeNumber(p),
         \A i \in 0 .. n - 1 : f[i] # p
  PROVE  ~Cong(ProductUpTo(f, n), 0, p)
<1>1. p \in Nat /\ p >= 2 /\ p > 0
  BY DEF IsPrimeNumber
<1>2. ~Cong(1, 0, p)
  <2>1. 1 % p = 1
    BY <1>1
  <2>2. QED
    BY <1>1, <2>1, RestIsZero
<1> DEFINE S == {m \in Nat : m <= n => ~Cong(ProductUpTo(f, m), 0, p)}
<1>3. 0 \in S
  BY <1>2, ProductZero
<1>4. ASSUME NEW m \in Nat, m \in S PROVE m + 1 \in S
  <2>1. SUFFICES ASSUME m + 1 <= n PROVE ~Cong(ProductUpTo(f, m + 1), 0, p)
    OBVIOUS
  <2>2. Factors(f, m + 1) /\ m \in 0 .. n - 1 /\ (f[m] = 1 \/ IsPrimeNumber(f[m])) /\ f[m] # p
    <3>1. Factors(f, n)
      BY PrimesAreFactors
    <3>2. QED
      BY <2>1, <3>1 DEF SomePrimes, Factors
  <2>3. /\ ProductUpTo(f, m) \in Nat /\ f[m] \in Nat
        /\ ProductUpTo(f, m + 1) = ProductUpTo(f, m) * f[m]
    BY <2>2, ProductNext
  <2>4. ~Cong(ProductUpTo(f, m), 0, p)
    BY <1>4, <2>1
  <2>5. ~Cong(f[m], 0, p)
    BY <1>2, <2>2, PrimesDiffer
  <2>6. QED
    BY <2>3, <2>4, <2>5, Euclid
<1>5. \A m \in Nat : m \in S
  <2> HIDE DEF S
  <2>1. QED
    BY <1>3, <1>4, Induction
<1>6. QED
  BY <1>5

\* A number that each of the factors divides is divided by their product.
LEMMA PrimesDivide ==
  ASSUME NEW n \in Nat, NEW f, SomePrimes(f, n), NEW x \in Int,
         \A i \in 0 .. n - 1 : Cong(x, 0, f[i])
  PROVE  Cong(x, 0, ProductUpTo(f, n))
<1> DEFINE S == {m \in Nat : m <= n => Cong(x, 0, ProductUpTo(f, m))}
<1>1. 0 \in S
  <2>1. x = 0 + x * 1
    OBVIOUS
  <2>2. Cong(x, 0, 1)
    BY <2>1 DEF Cong
  <2>3. QED
    BY <2>2, ProductZero
<1>2. ASSUME NEW m \in Nat, m \in S PROVE m + 1 \in S
  <2>1. SUFFICES ASSUME m + 1 <= n PROVE Cong(x, 0, ProductUpTo(f, m + 1))
    OBVIOUS
  <2>2. Factors(f, m + 1) /\ m \in 0 .. n - 1 /\ (f[m] = 1 \/ IsPrimeNumber(f[m])) /\ Cong(x, 0, f[m])
    <3>1. Factors(f, n)
      BY PrimesAreFactors
    <3>2. QED
      BY <2>1, <3>1 DEF SomePrimes, Factors
  <2>3. /\ ProductUpTo(f, m) \in Nat /\ f[m] \in Nat
        /\ ProductUpTo(f, m + 1) = ProductUpTo(f, m) * f[m]
    BY <2>2, ProductNext
  <2>4. Cong(x, 0, ProductUpTo(f, m))
    BY <1>2, <2>1
  <2>5. CASE f[m] = 1
    <3>1. ProductUpTo(f, m) * 1 = ProductUpTo(f, m)
      BY <2>3
    <3>2. QED
      BY <2>3, <2>4, <2>5, <3>1
  <2>6. CASE f[m] # 1
    <3> DEFINE P == ProductUpTo(f, m)
               p == f[m]
    <3>1. IsPrimeNumber(p) /\ P \in Nat /\ p \in Nat /\ Cong(x, 0, p) /\ Cong(x, 0, P)
      BY <2>2, <2>3, <2>4, <2>6
    <3>2. ~Cong(P, 0, p)
      <4>1. SomePrimes(f, m) /\ \A i \in 0 .. m - 1 : f[i] # f[m]
        BY <2>1, <2>6 DEF SomePrimes
      <4>2. QED
        BY <3>1, <4>1, OtherPrime
    <3>3. ProductUpTo(f, m + 1) = P * p
      BY <2>3
    <3> HIDE DEF P, p
    <3>4. PICK k \in Int : x = 0 + k * P
      BY <3>1 DEF Cong
    <3>5. k * P \in Int /\ x = k * P
      BY <3>1, <3>4
    <3>6. Cong(k, 0, p)
      BY <3>1, <3>2, <3>5, Euclid
    <3>7. PICK l \in Int : k = 0 + l * p
      BY <3>6 DEF Cong
    <3>8. k = l * p
      BY <3>1, <3>7
    <3>9. (l * p) * P = l * (P * p) /\ l * (P * p) \in Int
      BY <3>1, SMT
    <3>10. x = 0 + l * (P * p)
      BY <3>5, <3>8, <3>9
    <3>11. QED
      BY <3>3, <3>10 DEF Cong
  <2>7. QED
    BY <2>5, <2>6
<1>3. \A m \in Nat : m \in S
  <2> HIDE DEF S
  <2>1. QED
    BY <1>1, <1>2, Induction
<1>4. QED
  BY <1>3

-----------------------------------------------------------------------------
(***************************************************************************)
(* Division by multiplication: d is odd and has fewer bits than a word.    *)
(***************************************************************************)
SearchFacts ==
    /\ SumBits \in Nat /\ SumBits >= 5 /\ LimbBits \in Nat /\ LimbBits > 0
    /\ HashSize \in Nat /\ HashSize > 0

Divisor(d) == d \in Nat /\ d % 2 = 1 /\ d >= 3 /\ d < Pow2[SumBits - 1]

LEMMA SearchSizes == SearchFacts
BY SearchAssumption DEF SearchFacts

\* What is lacking is less than d, and something is lacking; with it a power of two
\* is a multiple of d.
LEMMA LackingExact ==
  ASSUME NEW d, Divisor(d), NEW i \in Nat
  PROVE  /\ Lacking(d, i) \in 1 .. d - 1
         /\ Cong(Pow2[i] + Lacking(d, i), 0, d)
<1> DEFINE p == Pow2[i]
           u == (p - 1) \div d
           r == (p - 1) % d
           l == d - 1 - r
<1>1. d \in Nat /\ d > 0 /\ d % 2 = 1 /\ d >= 3
  BY DEF Divisor
<1>2. p \in Nat /\ p > 0 /\ p - 1 \in Nat
  BY Pow2Facts
<1>3. Lacking(d, i) = l
  BY DEF Lacking
<1> HIDE DEF p
<1>4. u \in Nat /\ r \in 0 .. d - 1 /\ p - 1 = d * u + r
  BY <1>1, <1>2, Division
<1> HIDE DEF u, r
<1>5. l \in 0 .. d - 1
  BY <1>1, <1>4
<1>6. p + l = 0 + (u + 1) * d
  <2>1. (u + 1) * d = d * u + d /\ d * u \in Nat
    BY <1>1, <1>4
  <2>2. QED
    BY <1>1, <1>2, <1>4, <2>1
<1>7. u + 1 \in Int
  BY <1>4
<1> HIDE DEF l
<1>8. Cong(p + l, 0, d)
  BY <1>6, <1>7 DEF Cong
<1>9. l # 0
  <2>1. SUFFICES ASSUME l = 0 PROVE FALSE
    OBVIOUS
  <2>2. Cong(Pow2[i] * 1, 0, d)
    <3>1. p + l = Pow2[i] * 1
      BY <1>2, <2>1 DEF p
    <3>2. QED
      BY <1>8, <3>1
  <2>3. Cong(1, 0, d)
    BY <1>1, <2>2, OddCancels
  <2>4. 1 % d = 1 /\ 1 \in Int
    BY <1>1
  <2>5. 1 % d = 0
    BY <1>1, <2>3, <2>4, RestIsZero
  <2>6. QED
    BY <2>4, <2>5
<1>10. QED
  BY <1>1, <1>3, <1>5, <1>8, <1>9 DEF p

\* The greatest dividend with the rest d - 1 is one of the last d.
LastDividend(m, d) == (((Pow2[m] - 1) \div d) * d) - 1

LEMMA LastDividendIs ==
  ASSUME NEW d, Divisor(d), NEW m \in Nat, d < Pow2[m]
  PROVE  /\ LastDividend(m, d) \in Nat
         /\ LastDividend(m, d) >= d - 1
         /\ LastDividend(m, d) >= Pow2[m] - d - 1
         /\ LastDividend(m, d) < Pow2[m]
<1> DEFINE p == Pow2[m]
           u == (p - 1) \div d
           r == (p - 1) % d
<1>1. d \in Nat /\ d >= 3 /\ d > 0
  BY DEF Divisor
<1>2. p \in Nat /\ p > d /\ p - 1 \in Nat
  BY <1>1, Pow2Facts
<1>3. LastDividend(m, d) = u * d - 1
  BY DEF LastDividend
<1> HIDE DEF p
<1>4. u \in Nat /\ r \in 0 .. d - 1 /\ p - 1 = d * u + r
  BY <1>1, <1>2, Division
<1> HIDE DEF u, r
<1>5. u >= 1
  <2>1. SUFFICES ASSUME u = 0 PROVE FALSE
    BY <1>4
  <2>2. d * u = 0
    BY <1>1, <2>1
  <2>3. QED
    BY <1>1, <1>2, <1>4, <2>2
<1>6. u * d = d * u /\ u * d \in Nat /\ 1 * d <= u * d /\ 1 * d = d
  BY <1>1, <1>4, <1>5, TimesGrows
<1>7. QED
  BY <1>1, <1>2, <1>3, <1>4, <1>6 DEF p

\* Twice the bits are enough, so there is a first number of bits that is.
LEMMA ShiftExists ==
  ASSUME NEW d, Divisor(d), NEW m \in Nat, d < Pow2[m]
  PROVE  ShiftFor(m, d) \in 0 .. 2 * m /\ Found(m, d, ShiftFor(m, d))
<1> DEFINE S == {i \in Nat : i \in 0 .. 2 * m /\ Found(m, d, i)}
           P(i) == Found(m, d, i) /\ \A j \in 0 .. i - 1 : ~Found(m, d, j)
<1>1. 2 * m \in Nat /\ m + m = 2 * m
  OBVIOUS
<1>2. Found(m, d, 2 * m)
  <2> DEFINE nc == LastDividend(m, d)
             l == Lacking(d, 2 * m)
             p == Pow2[m]
  <2>1. nc \in Nat /\ nc < p
    BY LastDividendIs
  <2>2. l \in Nat /\ l < p
    <3>1. l \in 1 .. d - 1 /\ d \in Nat
      BY <1>1, LackingExact DEF Divisor
    <3>2. p \in Nat
      BY Pow2Facts
    <3> HIDE DEF l
    <3>3. QED
      BY <3>1, <3>2
  <2>3. Pow2[2 * m] = p * p /\ p \in Nat
    BY <1>1, Pow2Plus, Pow2Facts
  <2>4. Found(m, d, 2 * m) <=> Pow2[2 * m] > nc * l
    BY DEF Found, LastDividend
  <2> HIDE DEF nc, l, p
  <2>5. nc * l <= p * l /\ nc * l \in Nat /\ p * l \in Nat
    BY <2>1, <2>2, <2>3, TimesGrows
  <2>6. p * l < p * p
    <3>1. p > 0
      BY <2>1, <2>3
    <3>2. \A x, y \in Nat : x > 0 /\ y < x => x * y < x * x
      BY SMT
    <3>3. QED
      BY <2>2, <2>3, <3>1, <3>2
  <2>7. p * p \in Nat
    BY <2>3
  <2>8. QED
    BY <2>3, <2>4, <2>5, <2>6, <2>7
<1>3. PICK i \in S : \A j \in S : i <= j
  <2>1. 2 * m \in S
    BY <1>1, <1>2
  <2>2. S # {} /\ S \in SUBSET Nat
    BY <2>1
  <2> HIDE DEF S
  <2>3. QED
    BY <2>2, LeastNumber
<1>4. i \in 0 .. 2 * m /\ P(i)
  <2>1. i \in 0 .. 2 * m /\ Found(m, d, i)
    OBVIOUS
  <2>2. ASSUME NEW j \in 0 .. i - 1 PROVE ~Found(m, d, j)
    <3>1. j \in 0 .. 2 * m /\ j \in Nat /\ j < i
      BY <2>1
    <3>2. QED
      BY <1>3, <3>1
  <2>3. QED
    BY <2>1, <2>2
<1>5. ShiftFor(m, d) = CHOOSE k \in 0 .. 2 * m : P(k)
  BY DEF ShiftFor
<1> HIDE DEF P
<1>6. ShiftFor(m, d) \in 0 .. 2 * m /\ P(ShiftFor(m, d))
  BY <1>4, <1>5
<1>7. QED
  BY <1>6 DEF P

\* The shift goes beyond the word, and it was found for dividends of a word or of
\* one bit less.
LEMMA ShiftExact ==
  ASSUME NEW d, Divisor(d)
  PROVE  /\ Shift(d) \in Nat /\ Shift(d) >= SumBits
         /\ Found(SumBits - 1, d, Shift(d)) \/ Found(SumBits, d, Shift(d))
<1>1. /\ SumBits \in Nat /\ SumBits - 1 \in Nat /\ SumBits = (SumBits - 1) + 1
      /\ d \in Nat /\ d >= 3 /\ d < Pow2[SumBits - 1]
  BY SearchSizes DEF SearchFacts, Divisor
<1>2. Pow2[SumBits] = 2 * Pow2[SumBits - 1] /\ Pow2[SumBits - 1] \in Nat /\ Pow2[SumBits] \in Nat
  BY <1>1, Pow2Facts
<1>3. d < Pow2[SumBits]
  BY <1>1, <1>2
<1> DEFINE s == ShiftFor(SumBits, d)
           t == ShiftFor(SumBits - 1, d)
<1>4. s \in 0 .. 2 * SumBits /\ Found(SumBits, d, s)
  BY <1>1, <1>3, ShiftExists
<1>5. t \in 0 .. 2 * (SumBits - 1) /\ Found(SumBits - 1, d, t)
  BY <1>1, ShiftExists
<1>6. Shift(d) = IF t < SumBits THEN s ELSE t
  BY DEF Shift
<1> HIDE DEF s, t
<1>7. s \in Nat /\ t \in Nat
  BY <1>4, <1>5
<1>8. s >= SumBits
  <2> DEFINE nc == LastDividend(SumBits, d)
             l == Lacking(d, s)
  <2>1. Pow2[s] > nc * l
    BY <1>4 DEF Found, LastDividend
  <2>2. nc \in Nat /\ nc >= Pow2[SumBits] - d - 1
    BY <1>1, <1>3, LastDividendIs
  <2>3. l \in Nat /\ l >= 1
    <3>1. l \in 1 .. d - 1
      BY <1>7, LackingExact
    <3> HIDE DEF l
    <3>2. QED
      BY <1>1, <3>1
  <2> HIDE DEF nc, l
  <2>4. 1 * nc <= l * nc /\ 1 * nc = nc /\ l * nc = nc * l /\ nc * l \in Nat
    BY <2>2, <2>3, TimesGrows
  <2>5. Pow2[s] > Pow2[SumBits - 1] /\ Pow2[s] \in Nat
    <3>1. Pow2[s] \in Nat
      BY <1>7, Pow2Facts
    <3>2. QED
      BY <1>1, <1>2, <2>1, <2>2, <2>4, <3>1
  <2>6. SUFFICES ASSUME s < SumBits PROVE FALSE
    BY <1>1, <1>7
  <2>7. s <= SumBits - 1
    BY <1>1, <1>7, <2>6
  <2>8. Pow2[s] <= Pow2[SumBits - 1]
    BY <1>1, <1>7, <2>7, Pow2Grows
  <2>9. QED
    BY <1>2, <2>5, <2>8
<1>9. QED
  BY <1>1, <1>4, <1>5, <1>6, <1>7, <1>8

\* What is lacking is so little that no dividend of a word makes up for it.
LEMMA FoundMeans ==
  ASSUME NEW d, Divisor(d), NEW m \in Nat, m + 1 >= SumBits, d < Pow2[m], NEW s \in Nat,
         Found(m, d, s), NEW X \in Nat, X < Pow2[SumBits]
  PROVE  X * Lacking(d, s) < d * Pow2[s]
<1> DEFINE nc == LastDividend(m, d)
           l == Lacking(d, s)
           M == Pow2[m]
           T == Pow2[s]
<1>1. d \in Nat /\ d >= 3 /\ d % 2 = 1
  BY DEF Divisor
<1>2. M \in Nat /\ M >= 16 /\ X < 2 * M
  <2>1. SumBits \in Nat /\ m >= 4 /\ m + 1 \in Nat /\ 4 \in Nat
    BY SearchSizes DEF SearchFacts
  <2>2. Pow2[4] <= Pow2[m] /\ Pow2[SumBits] <= Pow2[m + 1] /\ Pow2[m + 1] = 2 * Pow2[m]
    BY <2>1, Pow2Grows, Pow2Facts
  <2>3. Pow2[4] = 16
    <3>1. /\ Pow2[0] = 1 /\ Pow2[0 + 1] = 2 * Pow2[0] /\ Pow2[1 + 1] = 2 * Pow2[1]
          /\ Pow2[2 + 1] = 2 * Pow2[2] /\ Pow2[3 + 1] = 2 * Pow2[3]
      BY Pow2Facts
    <3>2. QED
      BY <3>1
  <2>4. Pow2[m] \in Nat /\ Pow2[SumBits] \in Nat /\ Pow2[m + 1] \in Nat
    BY <2>1, Pow2Facts
  <2>5. QED
    BY <2>2, <2>3, <2>4
<1>3. nc \in Nat /\ nc >= d - 1 /\ nc >= M - d - 1
  BY LastDividendIs
<1>4. l \in Nat
  <2>1. l \in 1 .. d - 1
    BY LackingExact
  <2> HIDE DEF l
  <2>2. QED
    BY <1>1, <2>1
<1>5. T > nc * l /\ T \in Nat
  BY Pow2Facts DEF Found, LastDividend
<1> HIDE DEF nc, l, M, T
<1>6. X <= d * nc /\ d * nc \in Nat
  <2>1. CASE d = 3
    BY <1>2, <1>3, <2>1
  <2>2. CASE d # 3
    <3>1. d >= 5
      BY <1>1, <2>2
    <3>2. 5 * nc <= d * nc /\ d * nc \in Nat
      BY <1>1, <1>3, <3>1, TimesGrows
    <3>3. X <= 5 * nc
      BY <1>1, <1>2, <1>3, <3>1
    <3>4. QED
      BY <1>3, <3>2, <3>3
  <2>3. QED
    BY <2>1, <2>2
<1>7. X * l <= (d * nc) * l /\ X * l \in Nat /\ (d * nc) * l \in Nat
  BY <1>4, <1>6, TimesGrows
<1>8. (d * nc) * l = d * (nc * l) /\ nc * l \in Nat
  BY <1>1, <1>3, <1>4, SMT
<1>9. d * (nc * l) < d * T /\ d * T \in Nat
  <2>1. \A x, y, z \in Nat : z > 0 /\ x < y => z * x < z * y /\ z * y \in Nat
    BY SMT
  <2>2. QED
    BY <1>1, <1>5, <1>8, <2>1
<1>10. X * l < d * T
  BY <1>7, <1>8, <1>9
<1>11. QED
  BY <1>10 DEF l, T

\* The multiplier times the divisor is the power of two and what it lacks.
LEMMA QuotientTested ==
  ASSUME NEW d \in Nat, d > 0, NEW T \in Nat, T > 0, NEW l \in 0 .. d - 1, NEW M \in Nat,
         d * M = T + l, NEW X \in Nat, X <= T
  PROVE  /\ d * ((X * M) \div T) \in 0 .. X + l
         /\ (Cong(X, 0, d) /\ X * l < d * T) => d * ((X * M) \div T) = X
<1> DEFINE y == X * M
           Q == y \div T
           r == y % T
<1>1. l \in Nat /\ l < d
  OBVIOUS
<1>2. y \in Nat
  BY SMT
<1>3. d * y = X * T + X * l /\ X * T \in Nat /\ X * l \in Nat
  <2>1. d * (X * M) = X * (d * M)
    BY SMT
  <2>2. X * (T + l) = X * T + X * l /\ X * T \in Nat /\ X * l \in Nat
    BY <1>1, SMT
  <2>3. QED
    BY <2>1, <2>2
<1> HIDE DEF y
<1>4. Q \in Nat /\ r \in 0 .. T - 1 /\ y = T * Q + r
  BY <1>2, Division
<1> HIDE DEF Q, r
<1>5. d * Q \in Nat
  BY <1>4
<1>6. d * Q <= X + l
  <2>1. SUFFICES ASSUME d * Q >= X + l + 1 PROVE FALSE
    BY <1>1, <1>5
  <2>2. r \in Nat /\ d * (T * Q + r) = (d * Q) * T + d * r /\ (d * Q) * T \in Nat /\ d * r \in Nat
    BY <1>4, SMT
  <2>3. (d * Q) * T <= X * T + X * l
    BY <1>3, <1>4, <2>2
  <2>4. X + l + 1 \in Nat
    BY <1>1
  <2> DEFINE g == X + l + 1
             k == d * Q
  <2>5. g \in Nat /\ k \in Nat /\ g <= k
    BY <1>5, <2>1, <2>4
  <2> HIDE DEF g, k
  <2>6. g * T <= k * T
    BY <2>5, TimesGrows
  <2>7. g * T = X * T + T * l + T /\ T * l \in Nat
    BY <1>1 DEF g
  <2>8. X * l <= T * l
    BY <1>1, TimesGrows
  <2> DEFINE a == k * T
             b == X * T
             c == T * l
             u == X * l
             v == g * T
  <2>9. /\ a \in Nat /\ b \in Nat /\ c \in Nat /\ u \in Nat
        /\ a <= b + u /\ v <= a /\ v = b + c + T /\ u <= c
    BY <1>3, <2>2, <2>3, <2>6, <2>7, <2>8 DEF k
  <2> HIDE DEF a, b, c, u, v
  <2>10. QED
    BY <2>9
<1>7. ASSUME Cong(X, 0, d), X * l < d * T PROVE d * Q = X
  <2>1. PICK k \in Int : X = 0 + k * d
    BY <1>7 DEF Cong
  <2>2. X = d * k /\ d * k \in Int
    BY <2>1
  <2>3. k \in Nat
    <3>1. SUFFICES ASSUME k <= -1 PROVE FALSE
      BY <2>1
    <3>2. -k \in Nat /\ -k >= 1 /\ d * (-k) = -(d * k)
      BY <3>1, SMT
    <3>3. 1 * d <= (-k) * d /\ (-k) * d = d * (-k)
      BY <3>2, TimesGrows
    <3>4. QED
      BY <2>2, <3>2, <3>3
  <2>4. y = k * T + k * l /\ k * l \in Nat /\ k * T \in Nat
    <3>1. X * M = k * (d * M)
      BY <2>2, <2>3, SMT
    <3>2. k * (T + l) = k * T + k * l /\ k * l \in Nat /\ k * T \in Nat
      BY <1>1, <2>3, SMT
    <3>3. QED
      BY <3>1, <3>2 DEF y
  <2>5. k * l < T
    <3>1. X * l = d * (k * l)
      BY <1>1, <2>2, <2>3, SMT
    <3>2. SUFFICES ASSUME T <= k * l PROVE FALSE
      BY <2>4
    <3>3. T * d <= (k * l) * d /\ T * d = d * T /\ (k * l) * d = d * (k * l)
      BY <2>4, <3>2, TimesGrows, SMT
    <3> DEFINE a == d * T
               b == d * (k * l)
    <3>4. a \in Nat /\ b \in Nat /\ a <= b /\ b < a
      BY <1>7, <2>4, <3>1, <3>3, SMT
    <3> HIDE DEF a, b
    <3>5. QED
      BY <3>4
  <2>6. k * l \in 0 .. T - 1 /\ y = k * l + k * T
    BY <2>4, <2>5
  <2>7. y \div T = k
    BY <1>2, <2>3, <2>6, QuotientOf
  <2>8. QED
    BY <2>2, <2>7 DEF Q
<1>8. QED
  BY <1>1, <1>5, <1>6, <1>7 DEF Q, y

\* check24 with the multiplier and the shift of a divisor tells whether it divides.
LEMMA CheckExact ==
  ASSUME NEW d, Divisor(d), NEW X \in Nat, X < Pow2[SumBits],
         NEW offset, offset = Shift(d) - SumBits,
         NEW M, M = (Pow2[SumBits + offset] + Lacking(d, SumBits + offset)) \div d
  PROVE  check24(X, d, M, offset) <=> Cong(X, 0, d)
<1> DEFINE s == Shift(d)
           T == Pow2[s]
           V == Pow2[SumBits]
           l == Lacking(d, s)
           D == d * ((X * M) \div T)
<1>1. SumBits \in Nat /\ SumBits - 1 \in Nat /\ SumBits = (SumBits - 1) + 1
  BY SearchSizes DEF SearchFacts
<1>2. d \in Nat /\ d >= 3 /\ d > 0 /\ d < Pow2[SumBits - 1] /\ Pow2[SumBits - 1] \in Nat
  BY <1>1, Pow2Facts DEF Divisor
<1>3. V \in Nat /\ V > 0 /\ V = 2 * Pow2[SumBits - 1] /\ d < V
  <2>1. V \in Nat /\ V > 0 /\ V = 2 * Pow2[SumBits - 1]
    BY <1>1, Pow2Facts
  <2> HIDE DEF V
  <2>2. QED
    BY <1>2, <2>1
<1>4. s \in Nat /\ s >= SumBits /\ (Found(SumBits - 1, d, s) \/ Found(SumBits, d, s))
  BY ShiftExact
<1> HIDE DEF s
<1>5. offset \in Nat /\ SumBits + offset = s
  BY <1>1, <1>4 DEF s
<1>6. T \in Nat /\ T > 0 /\ V <= T /\ T = V * Pow2[offset]
  <2>1. T \in Nat /\ T > 0
    BY <1>4, Pow2Facts
  <2>2. V <= T
    BY <1>1, <1>4, Pow2Grows
  <2>3. T = V * Pow2[offset]
    BY <1>1, <1>5, Pow2Plus
  <2>4. QED
    BY <2>1, <2>2, <2>3
<1>7. l \in 0 .. d - 1 /\ Cong(T + l, 0, d) /\ X * l < d * T
  <2>1. l \in 1 .. d - 1 /\ Cong(T + l, 0, d)
    BY <1>4, LackingExact
  <2>2. X * l < d * T
    <3>1. CASE Found(SumBits - 1, d, s)
      BY <1>1, <1>2, <1>4, <3>1, FoundMeans
    <3>2. CASE Found(SumBits, d, s)
      <4>1. SumBits + 1 >= SumBits
        BY <1>1
      <4>2. QED
        BY <1>1, <1>3, <1>4, <3>2, <4>1, FoundMeans
    <3>3. QED
      BY <1>4, <3>1, <3>2
  <2> HIDE DEF l, T
  <2>3. QED
    BY <2>1, <2>2
<1>8. M = (T + l) \div d
  BY <1>5
<1> HIDE DEF l
<1>9. M \in Nat /\ d * M = T + l
  <2>1. l \in Nat /\ T + l \in Nat /\ (T + l) % d = 0
    <3>1. l \in Nat /\ T + l \in Nat /\ T + l \in Int
      BY <1>2, <1>6, <1>7
    <3>2. QED
      BY <1>2, <1>7, <3>1, RestIsZero
  <2> HIDE DEF T
  <2> DEFINE y == T + l
  <2>2. y \in Nat /\ y % d = 0 /\ M = y \div d
    BY <1>8, <2>1
  <2> HIDE DEF y
  <2>3. M \in Nat /\ y = d * M + 0
    BY <1>2, <2>2, Division
  <2>4. d * M \in Nat
    BY <1>2, <2>3
  <2>5. QED
    BY <2>3, <2>4 DEF y
<1>10. X <= T
  BY <1>3, <1>6
<1> HIDE DEF T
<1>11. D \in 0 .. X + l /\ (Cong(X, 0, d) => D = X)
  BY <1>2, <1>6, <1>7, <1>9, <1>10, QuotientTested
<1>12. check24(X, d, M, offset) <=> X = D % V
  <2>1. X * M \in Nat
    BY <1>9, SMT
  <2>2. Pow2[offset] \in Nat /\ Pow2[offset] > 0
    BY <1>5, Pow2Facts
  <2> DEFINE y == X * M
             o == Pow2[offset]
  <2>3. y \in Nat /\ o \in Nat /\ o > 0 /\ T = V * o
    BY <1>6, <2>1, <2>2
  <2> HIDE DEF y, o, V
  <2>4. y \div (V * o) = (y \div V) \div o
    BY <1>3, <2>3, QuotientTwice
  <2>5. (y \div V) \div o = y \div T
    BY <2>3, <2>4
  <2>6. check24(X, d, M, offset) <=> X = (d * ((y \div V) \div o)) % V
    BY DEF check24, y, o, V
  <2>7. QED
    BY <2>5, <2>6 DEF y
<1> HIDE DEF V
<1>13. D \in Nat /\ D = d * ((X * M) \div T) /\ ((X * M) \div T) \in Nat
  <2>1. D \in Nat
    BY <1>2, <1>7, <1>11
  <2>2. X * M \in Nat
    BY <1>9, SMT
  <2> DEFINE y == X * M
  <2>3. y \in Nat
    BY <2>2
  <2> HIDE DEF y
  <2>4. y \div T \in Nat
    BY <1>6, <2>3, Division
  <2>5. QED
    BY <2>1, <2>4 DEF y
<1>14. ASSUME Cong(X, 0, d) PROVE X = D % V
  <2>1. D = X
    BY <1>11, <1>14
  <2>2. X % V = X
    BY <1>3 DEF V
  <2>3. QED
    BY <2>1, <2>2
<1>15. ASSUME X = D % V PROVE Cong(X, 0, d)
  <2> DEFINE Q == (X * M) \div T
  <2>1. Q \in Nat /\ D = d * Q /\ D \in Nat /\ D <= X + l /\ l \in Nat /\ l < V
    BY <1>2, <1>3, <1>7, <1>11, <1>13
  <2> HIDE DEF Q, D
  <2>2. D = V * (D \div V) + (D % V) /\ D \div V \in Nat
    <3>1. V \in Nat /\ V > 0 /\ D \in Nat
      BY <1>3, <2>1
    <3>2. QED
      BY <3>1, Division
  <2> DEFINE k == D \div V
  <2>3. k \in Nat /\ D = V * k + X
    BY <1>15, <2>2, Zenon
  <2> HIDE DEF k
  <2>4. k = 0
    <3>1. SUFFICES ASSUME k >= 1 PROVE FALSE
      BY <2>3
    <3>2. 1 * V <= k * V /\ k * V = V * k /\ 1 * V = V /\ V * k \in Nat
      BY <1>3, <2>3, <3>1, TimesGrows
    <3>3. QED
      BY <1>3, <2>1, <2>3, <3>2
  <2>5. X = 0 + Q * d
    BY <1>2, <1>3, <2>1, <2>3, <2>4
  <2>6. QED
    BY <2>1, <2>5 DEF Cong
<1>16. QED
  BY <1>12, <1>14, <1>15

-----------------------------------------------------------------------------
(***************************************************************************)
(* The sum of the limbs, each times the value of its place modulo a prime. *)
(***************************************************************************)
LimbValues == [i \in 0 .. Limbs - 1 |-> Limb(i) * Pow2[LimbBits * i]]

LEMMA LimbFacts ==
  ASSUME hash \in Nat
  PROVE  /\ Limbs \in Nat
         /\ \A i \in Nat : LimbBits * i \in Nat /\ Pow2[LimbBits * i] \in Nat
                             /\ Pow2[LimbBits * i] > 0 /\ Limb(i) \in Nat
<1>1. LimbBits \in Nat /\ LimbBits > 0 /\ SumBits \in Nat /\ HashSize \in Nat
  BY SearchSizes DEF SearchFacts
<1>2. Limbs \in Nat
  <2> DEFINE y == SumBits * HashSize
  <2>1. y \in Nat
    BY <1>1, SMT
  <2> HIDE DEF y
  <2>2. y + LimbBits - 1 \in Nat
    BY <1>1, <2>1
  <2>3. (y + LimbBits - 1) \div LimbBits \in Nat
    BY <1>1, <2>2, Division
  <2>4. QED
    BY <2>3 DEF Limbs, y
<1>3. ASSUME NEW i \in Nat
      PROVE  /\ LimbBits * i \in Nat /\ Pow2[LimbBits * i] \in Nat
             /\ Pow2[LimbBits * i] > 0 /\ Limb(i) \in Nat
  <2>1. LimbBits * i \in Nat
    BY <1>1, SMT
  <2>2. Pow2[LimbBits * i] \in Nat /\ Pow2[LimbBits * i] > 0 /\ Pow2[LimbBits] \in Nat /\ Pow2[LimbBits] > 0
    BY <1>1, <2>1, Pow2Facts
  <2>3. hash \div Pow2[LimbBits * i] \in Nat
    BY <2>2, Division
  <2>4. Limb(i) \in 0 .. Pow2[LimbBits] - 1
    BY <2>2, <2>3, Division DEF Limb
  <2> DEFINE p == Pow2[LimbBits]
  <2>5. p \in Nat /\ Limb(i) \in 0 .. p - 1
    BY <2>2, <2>4
  <2> HIDE DEF p
  <2>6. Limb(i) \in Nat
    BY <2>5
  <2>7. QED
    BY <2>1, <2>2, <2>6
<1>4. QED
  BY <1>2, <1>3

\* The first limbs are the low bits of the hash.
LEMMA LimbsAreBits ==
  ASSUME hash \in Nat, NEW n \in Nat, n <= Limbs
  PROVE  SumUpTo(LimbValues, n) = hash % Pow2[LimbBits * n]
<1>1. /\ Limbs \in Nat
      /\ \A i \in Nat : LimbBits * i \in Nat /\ Pow2[LimbBits * i] \in Nat
                          /\ Pow2[LimbBits * i] > 0 /\ Limb(i) \in Nat
  BY LimbFacts
<1>2. LimbBits \in Nat /\ Pow2[LimbBits] \in Nat /\ Pow2[LimbBits] > 0
  BY SearchSizes, Pow2Facts DEF SearchFacts
<1> DEFINE S == {m \in Nat : m <= Limbs => SumUpTo(LimbValues, m) = hash % Pow2[LimbBits * m]}
<1>3. 0 \in S
  <2>1. LimbBits * 0 = 0
    BY <1>2
  <2>2. hash % 1 = 0
    OBVIOUS
  <2>3. QED
    BY <2>1, <2>2, SumZero, Pow2Facts
<1>4. ASSUME NEW m \in Nat, m \in S PROVE m + 1 \in S
  <2>1. SUFFICES ASSUME m + 1 <= Limbs
                 PROVE  SumUpTo(LimbValues, m + 1) = hash % Pow2[LimbBits * (m + 1)]
    OBVIOUS
  <2> DEFINE w == Pow2[LimbBits * m]
             b == Pow2[LimbBits]
             g == hash \div w
             h == hash % w
             u == g \div b
             v == g % b
  <2>2. Ints(LimbValues, m + 1)
    <3>1. \A x, y \in Nat : x * y \in Int
      BY SMT
    <3>2. ASSUME NEW i \in 0 .. (m + 1) - 1 PROVE LimbValues[i] \in Int
      <4>1. i \in Nat /\ i \in 0 .. Limbs - 1
        BY <1>1, <2>1
      <4>2. QED
        BY <1>1, <3>1, <4>1 DEF LimbValues
    <3>3. QED
      BY <3>2 DEF Ints
  <2>3. SumUpTo(LimbValues, m + 1) = SumUpTo(LimbValues, m) + LimbValues[m]
    BY <2>2, SumNext
  <2>4. SumUpTo(LimbValues, m) = h
    BY <1>1, <1>4, <2>1
  <2>5. LimbValues[m] = v * w
    <3>1. m \in 0 .. Limbs - 1
      BY <1>1, <2>1
    <3>2. QED
      BY <3>1 DEF LimbValues, Limb
  <2>6. Pow2[LimbBits * (m + 1)] = w * b
    <3>1. LimbBits * (m + 1) = LimbBits * m + LimbBits /\ LimbBits * m \in Nat
      BY <1>1, <1>2, SMT
    <3>2. QED
      BY <1>2, <3>1, Pow2Plus
  <2>7. w \in Nat /\ w > 0 /\ b \in Nat /\ b > 0
    BY <1>1, <1>2
  <2> HIDE DEF w, b
  <2>8. g \in Nat /\ h \in 0 .. w - 1 /\ hash = w * g + h
    BY <2>7, Division
  <2> HIDE DEF g, h
  <2>9. u \in Nat /\ v \in 0 .. b - 1 /\ g = b * u + v
    BY <2>7, <2>8, Division
  <2> HIDE DEF u, v
  <2> DEFINE c == w * b
             y == h + v * w
  <2>10. c \in Nat /\ c > 0
    <3>1. \A x, z \in Nat : x > 0 /\ z > 0 => x * z \in Nat /\ x * z > 0
      BY SMT
    <3>2. QED
      BY <2>7, <3>1
  <2>11. y \in 0 .. c - 1
    <3>1. v + 1 \in Nat /\ v + 1 <= b /\ v \in Nat /\ h \in Nat /\ h < w
      BY <2>7, <2>8, <2>9
    <3>2. (v + 1) * w <= b * w
      BY <2>7, <3>1, TimesGrows
    <3>3. (v + 1) * w = v * w + w /\ b * w = c /\ v * w \in Nat
      BY <2>7, <3>1
    <3> HIDE DEF c
    <3>4. QED
      BY <2>7, <2>10, <3>1, <3>2, <3>3
  <2>12. hash = y + u * c
    <3>1. w * (b * u + v) = u * (w * b) + v * w
      BY <2>7, <2>9
    <3>2. u * c \in Nat /\ v * w \in Nat
      BY <2>7, <2>9, <2>10
    <3>3. hash = (u * c + v * w) + h
      BY <2>8, <2>9, <3>1
    <3> HIDE DEF c
    <3>4. QED
      BY <2>8, <3>2, <3>3
  <2> HIDE DEF y, c
  <2>13. hash % c = y
    <3>1. y \in Int /\ hash \in Int /\ c \in Int /\ u \in Int /\ y \in Nat
      BY <2>9, <2>10, <2>11
    <3>2. Cong(hash, y, c)
      BY <2>9, <2>12 DEF Cong
    <3>3. hash % c = y % c
      BY <2>10, <3>1, <3>2, CongSameRest
    <3>4. y % c = y
      BY <2>10, <2>11
    <3>5. QED
      BY <3>3, <3>4
  <2>14. QED
    BY <2>3, <2>4, <2>5, <2>6, <2>13 DEF y, c
<1>5. \A m \in Nat : m \in S
  <2> HIDE DEF S
  <2>1. QED
    BY <1>3, <1>4, Induction
<1>6. QED
  BY <1>5

\* All limbs together are the hash.
LEMMA LimbsAreHash ==
  ASSUME hash \in SearchHashes
  PROVE  hash \in Nat /\ hash > 0 /\ SumUpTo(LimbValues, Limbs) = hash
<1> DEFINE y == SumBits * HashSize
           n == LimbBits * Limbs
<1>1. LimbBits \in Nat /\ LimbBits > 0 /\ SumBits \in Nat /\ HashSize \in Nat /\ SumBits >= 5 /\ HashSize > 0
  BY SearchSizes DEF SearchFacts
<1>2. y \in Nat /\ y >= 1
  <2>1. \A a, b \in Nat : a > 0 /\ b > 0 => a * b \in Nat /\ a * b >= 1
    BY SMT
  <2>2. SumBits > 0
    BY <1>1
  <2>3. QED
    BY <1>1, <2>1, <2>2
<1>3. hash \in Pow2[y - 1] .. Pow2[y] - 1
  BY SearchHashesAssumption
<1>4. Limbs = (y + LimbBits - 1) \div LimbBits
  BY DEF Limbs
<1> HIDE DEF y
<1>5. Pow2[y - 1] \in Nat /\ Pow2[y - 1] > 0 /\ Pow2[y] \in Nat
  <2>1. y - 1 \in Nat
    BY <1>2
  <2>2. QED
    BY <1>2, <2>1, Pow2Facts
<1>6. hash \in Nat /\ hash > 0 /\ hash < Pow2[y]
  BY <1>3, <1>5
<1>7. Limbs \in Nat /\ n \in Nat /\ y <= n
  <2> DEFINE z == y + LimbBits - 1
             k == z \div LimbBits
             r == z % LimbBits
  <2>1. z \in Nat
    BY <1>1, <1>2
  <2> HIDE DEF z
  <2>2. k \in Nat /\ r \in 0 .. LimbBits - 1 /\ z = LimbBits * k + r
    BY <1>1, <2>1, Division
  <2>3. k = Limbs
    BY <1>4 DEF z
  <2> HIDE DEF k, r
  <2>4. LimbBits * k \in Nat
    BY <1>1, <2>2
  <2>5. y <= LimbBits * k
    BY <1>1, <1>2, <2>2, <2>4 DEF z
  <2>6. QED
    BY <2>2, <2>3, <2>4, <2>5
<1> HIDE DEF n
<1>8. Pow2[y] <= Pow2[n] /\ Pow2[n] \in Nat
  BY <1>2, <1>7, Pow2Grows, Pow2Facts
<1>9. hash % Pow2[n] = hash
  <2> DEFINE p == Pow2[n]
  <2>1. p \in Nat /\ hash \in 0 .. p - 1 /\ p > 0
    BY <1>5, <1>6, <1>8
  <2> HIDE DEF p
  <2>2. hash % p = hash
    BY <2>1
  <2>3. QED
    BY <2>2 DEF p
<1>10. SumUpTo(LimbValues, Limbs) = hash % Pow2[n]
  BY <1>6, <1>7, LimbsAreBits DEF n
<1>11. QED
  BY <1>6, <1>9, <1>10

\* Sums of congruent terms are congruent.
LEMMA SumCong ==
  ASSUME NEW n \in Nat, NEW f, NEW g, NEW v \in Nat, v > 0, Ints(f, n), Ints(g, n),
         \A i \in 0 .. n - 1 : Cong(f[i], g[i], v)
  PROVE  Cong(SumUpTo(f, n), SumUpTo(g, n), v)
<1> DEFINE S == {m \in Nat : m <= n => Cong(SumUpTo(f, m), SumUpTo(g, m), v)}
<1>1. 0 \in S
  BY SumZero, CongEqual
<1>2. ASSUME NEW m \in Nat, m \in S PROVE m + 1 \in S
  <2>1. SUFFICES ASSUME m + 1 <= n PROVE Cong(SumUpTo(f, m + 1), SumUpTo(g, m + 1), v)
    OBVIOUS
  <2>2. Ints(f, m + 1) /\ Ints(g, m + 1) /\ Cong(f[m], g[m], v)
    BY <2>1 DEF Ints
  <2>3. /\ SumUpTo(f, m + 1) = SumUpTo(f, m) + f[m] /\ SumUpTo(f, m) \in Int /\ f[m] \in Int
        /\ SumUpTo(g, m + 1) = SumUpTo(g, m) + g[m] /\ SumUpTo(g, m) \in Int /\ g[m] \in Int
    BY <2>2, SumNext
  <2>4. Cong(SumUpTo(f, m), SumUpTo(g, m), v)
    BY <1>2, <2>1
  <2>5. QED
    BY <2>2, <2>3, <2>4, CongPlus
<1>3. \A m \in Nat : m \in S
  <2> HIDE DEF S
  <2>1. QED
    BY <1>1, <1>2, Induction
<1>4. QED
  BY <1>3

\* The sum for a divisor has the rest of the hash.
LEMMA WholeSumExact ==
  ASSUME hash \in SearchHashes, NEW d \in Nat, d > 0
  PROVE  WholeSum(d) \in Nat /\ Cong(WholeSum(d), hash, d)
<1> DEFINE f == [i \in 0 .. Limbs - 1 |-> Limb(i) * Modulo(d, i)]
<1>1. hash \in Nat /\ SumUpTo(LimbValues, Limbs) = hash
  BY LimbsAreHash
<1>2. /\ Limbs \in Nat
      /\ \A i \in Nat : LimbBits * i \in Nat /\ Pow2[LimbBits * i] \in Nat
                          /\ Pow2[LimbBits * i] > 0 /\ Limb(i) \in Nat
  BY <1>1, LimbFacts
<1>3. ASSUME NEW i \in 0 .. Limbs - 1
      PROVE  f[i] \in Nat /\ LimbValues[i] \in Int /\ Cong(f[i], LimbValues[i], d)
  <2> DEFINE a == Limb(i)
             w == Pow2[LimbBits * i]
  <2>1. a \in Nat /\ w \in Nat
    BY <1>2
  <2>2. f[i] = a * (w % d) /\ LimbValues[i] = a * w
    BY DEF Modulo, LimbValues
  <2> HIDE DEF f, a, w
  <2>3. w % d \in 0 .. d - 1 /\ Cong(w % d, w, d)
    BY <2>1, CongModulo
  <2> DEFINE r == w % d
  <2>4. r \in Nat /\ Cong(r, w, d) /\ f[i] = a * r
    BY <2>2, <2>3
  <2> HIDE DEF r
  <2>5. Cong(a * r, a * w, d)
    <3>1. a \in Int /\ r \in Int /\ w \in Int /\ d \in Int
      BY <2>1, <2>4
    <3>2. Cong(a, a, d)
      BY <3>1, CongEqual
    <3>3. QED
      BY <3>1, <3>2, <2>4, CongTimes
  <2>6. a * r \in Nat /\ a * w \in Int
    BY <2>1, <2>4, SMT
  <2>7. QED
    BY <2>2, <2>4, <2>5, <2>6
<1> HIDE DEF f
<1>4. Ints(f, Limbs) /\ Ints(LimbValues, Limbs)
  BY <1>3 DEF Ints
<1>5. Cong(SumUpTo(f, Limbs), SumUpTo(LimbValues, Limbs), d)
  BY <1>2, <1>3, <1>4, SumCong
<1>6. WholeSum(d) = SumUpTo(f, Limbs)
  BY DEF WholeSum, f
<1>7. SumUpTo(f, Limbs) \in Nat
  <2> DEFINE S == {m \in Nat : m <= Limbs => SumUpTo(f, m) \in Nat}
  <2>1. 0 \in S
    BY SumZero
  <2>2. ASSUME NEW m \in Nat, m \in S PROVE m + 1 \in S
    <3>1. SUFFICES ASSUME m + 1 <= Limbs PROVE SumUpTo(f, m + 1) \in Nat
      OBVIOUS
    <3>2. Ints(f, m + 1) /\ f[m] \in Nat
      BY <1>2, <1>3, <1>4, <3>1 DEF Ints
    <3>3. SumUpTo(f, m + 1) = SumUpTo(f, m) + f[m]
      BY <3>2, SumNext
    <3>4. SumUpTo(f, m) \in Nat
      BY <1>2, <2>2, <3>1
    <3>5. QED
      BY <3>2, <3>3, <3>4
  <2>3. \A m \in Nat : m \in S
    <3> HIDE DEF S
    <3>1. QED
      BY <2>1, <2>2, Induction
  <2>4. QED
    BY <1>2, <2>3
<1>8. QED
  BY <1>1, <1>5, <1>6, <1>7

-----------------------------------------------------------------------------
(***************************************************************************)
(* The report of a hash, and the number the host makes of it.              *)
(***************************************************************************)
LEMMA PrimesOfPositions ==
    /\ Len(SmallPrimes) \in Nat
    /\ \A j \in Positions : IsPrimeNumber(PrimeAt(j)) /\ (j # 0 => Divisor(PrimeAt(j)))
    /\ \A i, j \in Positions : i # j => PrimeAt(i) # PrimeAt(j)
    /\ PrimeAt(0) = 2
<1>1. SumBits \in Nat /\ SumBits - 1 \in Nat /\ Pow2[SumBits - 1] \in Nat
  <2>1. SumBits \in Nat /\ SumBits - 1 \in Nat
    BY SearchSizes DEF SearchFacts
  <2>2. QED
    BY <2>1, Pow2Facts
<1>2. SmallPrimes \in Seq(2 .. Pow2[SumBits - 1] - 1) /\ SmallPrimes[1] = 2
  BY SearchAssumption
<1>3. Len(SmallPrimes) \in Nat /\ \A i \in 1 .. Len(SmallPrimes) : SmallPrimes[i] \in 2 .. Pow2[SumBits - 1] - 1
  <2> DEFINE T == 2 .. Pow2[SumBits - 1] - 1
  <2>1. SmallPrimes \in Seq(T)
    BY <1>2
  <2> HIDE DEF T
  <2>2. Len(SmallPrimes) \in Nat /\ \A i \in 1 .. Len(SmallPrimes) : SmallPrimes[i] \in T
    BY <2>1
  <2>3. QED
    BY <2>2 DEF T
<1>4. ASSUME NEW j \in Positions
      PROVE  /\ j + 1 \in 1 .. Len(SmallPrimes) /\ j \in Nat /\ PrimeAt(j) = SmallPrimes[j + 1]
             /\ PrimeAt(j) \in Nat /\ PrimeAt(j) >= 2 /\ PrimeAt(j) < Pow2[SumBits - 1]
             /\ \A d \in 2 .. PrimeAt(j) - 1 : PrimeAt(j) % d # 0
  <2>1. j + 1 \in 1 .. Len(SmallPrimes) /\ j \in Nat
    BY <1>3 DEF Positions
  <2>2. PrimeAt(j) = SmallPrimes[j + 1]
    BY DEF PrimeAt
  <2>3. \A d \in 2 .. SmallPrimes[j + 1] - 1 : SmallPrimes[j + 1] % d # 0
    BY <2>1, SearchAssumption
  <2>4. SmallPrimes[j + 1] \in 2 .. Pow2[SumBits - 1] - 1
    BY <1>3, <2>1
  <2> DEFINE x == Pow2[SumBits - 1]
  <2>5. x \in Nat /\ PrimeAt(j) \in 2 .. x - 1
    BY <1>1, <2>2, <2>4
  <2> HIDE DEF x
  <2>6. PrimeAt(j) \in Nat /\ PrimeAt(j) >= 2 /\ PrimeAt(j) < x
    BY <2>5
  <2>7. QED
    BY <2>1, <2>2, <2>3, <2>6 DEF x
<1>5. PrimeAt(0) = 2
  BY <1>2 DEF PrimeAt
<1>6. ASSUME NEW i \in Positions, NEW j \in Positions, i < j PROVE PrimeAt(i) < PrimeAt(j)
  <2>1. i + 1 \in 1 .. Len(SmallPrimes) /\ j + 1 \in 1 .. Len(SmallPrimes) /\ i + 1 < j + 1
    BY <1>4, <1>6
  <2>2. SmallPrimes[i + 1] < SmallPrimes[j + 1]
    BY <2>1, SearchAssumption
  <2>3. QED
    BY <1>4, <2>2
<1>7. ASSUME NEW j \in Positions, j # 0 PROVE Divisor(PrimeAt(j))
  <2>1. 0 \in Positions /\ 0 < j
    BY <1>3, <1>7 DEF Positions
  <2>2. PrimeAt(j) \in Nat /\ PrimeAt(j) > 2
    BY <1>4, <1>5, <1>6, <2>1
  <2>3. PrimeAt(j) % 2 # 0
    <3>1. 2 \in 2 .. PrimeAt(j) - 1
      BY <2>2
    <3>2. QED
      BY <1>4, <3>1
  <2>4. PrimeAt(j) % 2 = 1
    BY <2>2, <2>3
  <2>5. PrimeAt(j) < Pow2[SumBits - 1]
    BY <1>4
  <2>6. QED
    BY <2>2, <2>4, <2>5 DEF Divisor
<1>8. \A i, j \in Positions : i # j => PrimeAt(i) # PrimeAt(j)
  <2>1. SUFFICES ASSUME NEW i \in Positions, NEW j \in Positions, i # j
                 PROVE  PrimeAt(i) # PrimeAt(j)
    OBVIOUS
  <2>2. i \in Nat /\ j \in Nat /\ PrimeAt(i) \in Nat /\ PrimeAt(j) \in Nat
    BY <1>4
  <2>3. CASE i < j
    BY <1>6, <2>2, <2>3
  <2>4. CASE j < i
    BY <1>6, <2>2, <2>4
  <2>5. QED
    BY <2>1, <2>2, <2>3, <2>4
<1>9. QED
  BY <1>3, <1>4, <1>5, <1>7, <1>8 DEF IsPrimeNumber

\* check24 (sha256.cu), with the entries of a prime in the tables multipliers32 and
\* offsets32, tells for every number of a word whether the prime divides it, although
\* the product with the quotient is cut to a word.
THEOREM Check24Exact ==
  ASSUME NEW j \in Positions \ {0}, NEW X \in Nat, X < Pow2[SumBits]
  PROVE  check24(X, PrimeAt(j), multipliers32[j], offsets32[j]) <=> X % PrimeAt(j) = 0
<1> DEFINE d == PrimeAt(j)
<1>1. Divisor(d)
  BY PrimesOfPositions
<1>2. offsets32[j] = Shift(d) - SumBits
  BY DEF offsets32
<1>3. multipliers32[j]
        = (Pow2[SumBits + offsets32[j]] + Lacking(d, SumBits + offsets32[j])) \div d
  BY DEF multipliers32
<1> HIDE DEF d
<1>4. check24(X, d, multipliers32[j], offsets32[j]) <=> Cong(X, 0, d)
  BY <1>1, <1>2, <1>3, CheckExact
<1>5. d \in Nat /\ d > 0 /\ X \in Int
  BY <1>1 DEF Divisor
<1>6. X % d = 0 <=> Cong(X, 0, d)
  BY <1>5, RestIsZero
<1>7. QED
  BY <1>4, <1>6 DEF d

\* Unless a sum is cut, the field names the primes that divide the hash.
LEMMA FieldExact ==
  ASSUME hash \in SearchHashes, ~SumCut
  PROVE  DividingPrimes = {j \in Positions : hash % PrimeAt(j) = 0}
<1>1. hash \in Nat
  BY LimbsAreHash
<1>2. ASSUME NEW j \in Positions, j # 0
      PROVE  check24(sum24(PrimeAt(j)), PrimeAt(j), multipliers32[j], offsets32[j])
               <=> hash % PrimeAt(j) = 0
  <2> DEFINE d == PrimeAt(j)
             w == WholeSum(d)
             X == sum24(d)
             p == Pow2[SumBits]
  <2>1. Divisor(d)
    BY <1>2, PrimesOfPositions
  <2>2. ~(w >= p)
    BY <1>2 DEF SumCut
  <2>3. p \in Nat /\ p > 0
    BY SearchSizes, Pow2Facts DEF SearchFacts
  <2>4. X = w % p
    BY DEF sum24
  <2> HIDE DEF d
  <2>7. d \in Nat /\ d > 0
    BY <2>1 DEF Divisor
  <2>8. w \in Nat /\ Cong(w, hash, d)
    BY <2>7, WholeSumExact
  <2> HIDE DEF w, p, X
  <2>9. X = w
    <3>1. w \in Nat /\ w < p
      BY <2>2, <2>3, <2>8
    <3>2. w % p = w
      BY <2>3, <3>1
    <3>3. QED
      BY <2>4, <3>2
  <2>10. X \in Nat /\ X < p
    BY <2>2, <2>3, <2>8, <2>9
  <2>11. check24(X, d, multipliers32[j], offsets32[j]) <=> Cong(X, 0, d)
    <3>1. check24(X, d, multipliers32[j], offsets32[j]) <=> X % d = 0
      BY <1>2, <2>10, Check24Exact DEF p, d
    <3>2. X \in Int
      BY <2>10
    <3>3. QED
      BY <2>7, <3>1, <3>2, RestIsZero
  <2>12. hash % d = 0 <=> Cong(hash, 0, d)
    BY <1>1, <2>7, RestIsZero
  <2>13. Cong(X, 0, d) <=> Cong(hash, 0, d)
    <3>1. hash \in Int /\ w \in Int /\ d \in Int /\ 0 \in Int
      BY <1>1, <2>7, <2>8
    <3>2. Cong(hash, w, d)
      BY <2>8, <3>1, CongSwap
    <3>3. Cong(w, 0, d) => Cong(hash, 0, d)
      BY <3>1, <3>2, CongJoin
    <3>4. Cong(hash, 0, d) => Cong(w, 0, d)
      BY <2>8, <3>1, CongJoin
    <3>5. QED
      BY <2>9, <3>3, <3>4
  <2>14. QED
    BY <2>11, <2>12, <2>13 DEF d, X
<1>3. ASSUME NEW j \in Positions
      PROVE  j \in DividingPrimes <=> hash % PrimeAt(j) = 0
  <2>1. CASE j = 0
    BY <2>1, PrimesOfPositions DEF DividingPrimes
  <2>2. CASE j # 0
    <3>1. j \in DividingPrimes
            <=> check24(sum24(PrimeAt(j)), PrimeAt(j), multipliers32[j], offsets32[j])
      BY <2>2 DEF DividingPrimes
    <3>2. QED
      BY <1>2, <2>2, <3>1
  <2>3. QED
    BY <2>1, <2>2
<1>4. DividingPrimes \subseteq Positions
  BY DEF DividingPrimes
<1>5. QED
  BY <1>3, <1>4

\* Products of the primes at some positions.
Kept(S) == [j \in Positions |-> IF j \in S THEN PrimeAt(j) ELSE 1]

LEMMA KeptArePrimes ==
  ASSUME NEW S
  PROVE  /\ Len(SmallPrimes) \in Nat /\ SomePrimes(Kept(S), Len(SmallPrimes))
         /\ Product(S) = ProductUpTo(Kept(S), Len(SmallPrimes))
         /\ Product(S) \in Nat /\ Product(S) > 0
<1>1. /\ Len(SmallPrimes) \in Nat
      /\ \A j \in Positions : IsPrimeNumber(PrimeAt(j))
      /\ \A i, j \in Positions : i # j => PrimeAt(i) # PrimeAt(j)
  BY PrimesOfPositions
<1>2. \A i \in 0 .. Len(SmallPrimes) - 1 : i \in Positions /\ Kept(S)[i] = IF i \in S THEN PrimeAt(i) ELSE 1
  BY DEF Kept, Positions
<1>3. SomePrimes(Kept(S), Len(SmallPrimes))
  <2>1. ASSUME NEW i \in 0 .. Len(SmallPrimes) - 1
        PROVE  Kept(S)[i] = 1 \/ IsPrimeNumber(Kept(S)[i])
    BY <1>1, <1>2, Zenon
  <2>2. ASSUME NEW i \in 0 .. Len(SmallPrimes) - 1, NEW j \in 0 .. Len(SmallPrimes) - 1,
               i # j, Kept(S)[i] = Kept(S)[j], Kept(S)[i] # 1
        PROVE  FALSE
    <3>1. Kept(S)[i] = PrimeAt(i) /\ Kept(S)[j] = PrimeAt(j) /\ i \in Positions /\ j \in Positions
      BY <1>2, <2>2, Zenon
    <3>2. PrimeAt(i) # PrimeAt(j)
      BY <1>1, <2>2, <3>1
    <3>3. QED
      BY <2>2, <3>1, <3>2
  <2>3. QED
    BY <2>1, <2>2 DEF SomePrimes
<1>4. Product(S) = ProductUpTo(Kept(S), Len(SmallPrimes))
  BY DEF Product, Kept
<1>5. \A i \in 0 .. Len(SmallPrimes) - 1 : Kept(S)[i] \in Nat \ {0}
  BY <1>1, <1>3, PrimesAreFactors
<1>6. ProductUpTo(Kept(S), Len(SmallPrimes)) \in Nat \ {0}
  <2> DEFINE f == Kept(S)
             n == Len(SmallPrimes)
  <2>1. n \in Nat /\ \A i \in 0 .. n - 1 : f[i] \in Nat \ {0}
    BY <1>1, <1>5
  <2> HIDE DEF f, n
  <2>2. ProductUpTo(f, n) \in Nat \ {0}
    BY <2>1, ProductPositive
  <2>3. QED
    BY <2>2 DEF f, n
<1>7. QED
  BY <1>1, <1>3, <1>4, <1>6

\* A whole primorial is the primes of a field, and the others.
LEMMA ProductSplits ==
  ASSUME NEW S, NEW F
  PROVE  Product(S) = Product(F \intersect S) * Product(S \ F)
<1> DEFINE n == Len(SmallPrimes)
           f == Kept(F \intersect S)
           g == Kept(S \ F)
           h == Kept(S)
<1>1. /\ n \in Nat /\ SomePrimes(f, n) /\ SomePrimes(g, n)
      /\ Product(S) = ProductUpTo(h, n)
      /\ Product(F \intersect S) = ProductUpTo(f, n) /\ Product(S \ F) = ProductUpTo(g, n)
  BY KeptArePrimes
<1>2. ASSUME NEW i \in 0 .. n - 1 PROVE h[i] = f[i] * g[i]
  <2>1. i \in Positions
    BY DEF Positions
  <2>2. PrimeAt(i) \in Nat
    BY <2>1, PrimesOfPositions DEF IsPrimeNumber
  <2>3. /\ h[i] = IF i \in S THEN PrimeAt(i) ELSE 1
        /\ f[i] = IF i \in F \intersect S THEN PrimeAt(i) ELSE 1
        /\ g[i] = IF i \in S \ F THEN PrimeAt(i) ELSE 1
    BY <2>1 DEF Kept
  <2> HIDE DEF f, g, h
  <2> DEFINE p == PrimeAt(i)
  <2>4. p * 1 = p /\ 1 * p = p /\ 1 * 1 = 1
    BY <2>2
  <2>5. CASE i \in S /\ i \in F
    <3>1. h[i] = p /\ f[i] = p /\ g[i] = 1
      BY <2>3, <2>5
    <3>2. QED
      BY <2>4, <3>1
  <2>6. CASE i \in S /\ i \notin F
    <3>1. h[i] = p /\ f[i] = 1 /\ g[i] = p
      BY <2>3, <2>6
    <3>2. QED
      BY <2>4, <3>1
  <2>7. CASE i \notin S
    <3>1. h[i] = 1 /\ f[i] = 1 /\ g[i] = 1
      BY <2>3, <2>7
    <3>2. QED
      BY <2>4, <3>1
  <2>8. QED
    BY <2>5, <2>6, <2>7
<1> HIDE DEF n, f, g, h
<1>3. Factors(f, n) /\ Factors(g, n)
  BY <1>1, PrimesAreFactors
<1>4. ProductUpTo(h, n) = ProductUpTo(f, n) * ProductUpTo(g, n)
  BY <1>1, <1>2, <1>3, ProductTimes
<1>5. QED
  BY <1>1, <1>4

\* What all primes of a set divide, their product divides.
LEMMA ProductDivides ==
  ASSUME NEW S, NEW x \in Nat, \A j \in S \intersect Positions : x % PrimeAt(j) = 0
  PROVE  x % Product(S) = 0
<1> DEFINE n == Len(SmallPrimes)
           f == Kept(S)
<1>1. n \in Nat /\ SomePrimes(f, n) /\ Product(S) = ProductUpTo(f, n)
      /\ Product(S) \in Nat /\ Product(S) > 0
  BY KeptArePrimes
<1>2. ASSUME NEW i \in 0 .. n - 1 PROVE Cong(x, 0, f[i])
  <2>1. i \in Positions
    BY DEF Positions
  <2>2. PrimeAt(i) \in Nat /\ PrimeAt(i) > 0
    BY <2>1, PrimesOfPositions DEF IsPrimeNumber
  <2>3. f[i] = IF i \in S THEN PrimeAt(i) ELSE 1
    BY <2>1 DEF Kept
  <2> HIDE DEF f
  <2>4. CASE i \in S
    <3>1. x % PrimeAt(i) = 0
      BY <2>1, <2>4
    <3>2. Cong(x, 0, PrimeAt(i))
      BY <2>2, <3>1, RestIsZero
    <3>3. QED
      BY <2>3, <2>4, <3>2
  <2>5. CASE i \notin S
    <3>1. x = 0 + x * 1
      OBVIOUS
    <3>2. Cong(x, 0, 1)
      BY <3>1 DEF Cong
    <3>3. QED
      BY <2>3, <2>5, <3>2
  <2>6. QED
    BY <2>4, <2>5
<1> HIDE DEF n, f
<1>3. Cong(x, 0, ProductUpTo(f, n))
  BY <1>1, <1>2, PrimesDivide
<1>4. QED
  BY <1>1, <1>3, RestIsZero

\* What is reported is a primorial, and no two have the same other primes.
LEMMA ReportedFacts ==
    /\ Reported \subseteq 1 .. Len(Primorials)
    /\ \A k, l \in Reported : k # l => Prod(k) # Prod(l)
<1> DEFINE T == SUBSET Nat
           c == {}
           Chosen(n, R) == {k \in {n} : /\ MultiplierBits(Prod(k)) < LIMIT[k]
                                        /\ \A l \in R : Prod(l) # Prod(k)}
           h == [p \in Nat \X T |-> p[2] \union Chosen(p[1], p[2])]
           Def(f) == f = [n \in Nat |-> IF n = 0 THEN {} ELSE f[n - 1] \union Chosen(n, f[n - 1])]
           upTo == CHOOSE f : Def(f)
<1>1. PICK G \in [Nat -> T] : Recurs(G, c, h)
  <2>1. h \in [Nat \X T -> T] /\ c \in T
    OBVIOUS
  <2> HIDE DEF h, T, c
  <2>2. QED
    BY <2>1, Recursion
<1>2. Reported = upTo[Len(Primorials)]
  BY DEF Reported
<1>3. ASSUME NEW n \in Nat, NEW R
      PROVE  Chosen(n, R) \subseteq {n} /\ \A l \in R : n \in Chosen(n, R) => Prod(l) # Prod(n)
  OBVIOUS
<1> HIDE DEF Chosen
<1>4. Def(G)
  <2>1. \A n \in Nat : n # 0 => n - 1 \in Nat /\ n = (n - 1) + 1
    OBVIOUS
  <2>2. \A n \in Nat : G[n + 1] = h[<<n + 1, G[n]>>] /\ <<n + 1, G[n]>> \in Nat \X T
    <3>1. \A n \in Nat : n + 1 \in Nat /\ G[n] \in T
      BY <1>1
    <3> HIDE DEF h, T, c
    <3>2. \A n \in Nat : G[n + 1] = h[<<n + 1, G[n]>>]
      BY <1>1 DEF Recurs
    <3>3. \A n \in Nat : <<n + 1, G[n]>> \in Nat \X T
      BY <3>1
    <3>4. QED
      BY <3>2, <3>3
  <2>3. \A p \in Nat \X T : h[p] = p[2] \union Chosen(p[1], p[2])
    OBVIOUS
  <2>4. \A n \in Nat : G[n + 1] = G[n] \union Chosen(n + 1, G[n])
    BY <2>2, <2>3
  <2>5. \A n \in Nat : n # 0 => G[n] = G[n - 1] \union Chosen(n, G[n - 1])
    BY <2>1, <2>4
  <2>6. G[0] = {}
    BY <1>1 DEF Recurs
  <2>7. G = [n \in Nat |-> G[n]]
    BY <1>1
  <2>8. QED
    BY <2>5, <2>6, <2>7
<1>5. Def(upTo)
  <2> HIDE DEF Def
  <2>1. QED
    BY <1>4
<1> HIDE DEF upTo
<1>6. upTo[0] = {} /\ \A n \in Nat : upTo[n + 1] = upTo[n] \union Chosen(n + 1, upTo[n])
  <2>1. \A n \in Nat : n + 1 \in Nat /\ n + 1 # 0 /\ (n + 1) - 1 = n
    OBVIOUS
  <2>2. QED
    BY <1>5, <2>1
<1> DEFINE Fine(R, n) == R \subseteq 1 .. n /\ \A k, l \in R : k # l => Prod(k) # Prod(l)
           S == {n \in Nat : Fine(upTo[n], n)}
<1>7. 0 \in S
  BY <1>6
<1>8. ASSUME NEW n \in Nat, n \in S PROVE n + 1 \in S
  <2> DEFINE R == upTo[n]
             N == Chosen(n + 1, R)
  <2>1. Fine(R, n) /\ n + 1 \in Nat /\ upTo[n + 1] = R \union N
    BY <1>6, <1>8
  <2>2. N \subseteq {n + 1} /\ \A l \in R : n + 1 \in N => Prod(l) # Prod(n + 1)
    BY <1>3, <2>1
  <2> HIDE DEF R, N
  <2>3. R \union N \subseteq 1 .. n + 1
    BY <2>1, <2>2
  <2>4. \A k, l \in R \union N : k # l => Prod(k) # Prod(l)
    <3>1. SUFFICES ASSUME NEW k \in R \union N, NEW l \in R \union N, k # l PROVE Prod(k) # Prod(l)
      OBVIOUS
    <3>2. CASE k \in R /\ l \in R
      BY <2>1, <3>1, <3>2
    <3>3. CASE k \in N
      BY <2>2, <3>1, <3>3
    <3>4. CASE l \in N
      BY <2>2, <3>1, <3>4
    <3>5. QED
      BY <3>1, <3>2, <3>3, <3>4
  <2>5. Fine(upTo[n + 1], n + 1)
    BY <2>1, <2>3, <2>4
  <2>6. QED
    BY <2>1, <2>5
<1>9. \A n \in Nat : n \in S
  <2> HIDE DEF S
  <2>1. QED
    BY <1>7, <1>8, Induction
<1>10. Len(Primorials) \in Nat
  BY SearchAssumption
<1>11. QED
  BY <1>2, <1>9, <1>10

\* The report for a primorial, and the number made of it.
ReportOf(k) == [primorialIdx |-> Primorials[k], field |-> DividingPrimes]
NumberOf(k) == [primorialIdx |-> Primorials[k], shash |-> hash * Prod(k)]

\* The multiplier the host computes is the product of the other primes.
LEMMA MultiplierIs ==
  ASSUME NEW k \in Reported
  PROVE  /\ WholePrimorial(Primorials[k]) = RealPrimorial(ReportOf(k)) * Prod(k)
         /\ RealPrimorial(ReportOf(k)) \in Nat /\ RealPrimorial(ReportOf(k)) > 0
         /\ Prod(k) \in Nat /\ Prod(k) > 0
         /\ WholePrimorial(Primorials[k]) \div RealPrimorial(ReportOf(k)) = Prod(k)
<1> DEFINE S == 0 .. Primorials[k]
           w == WholePrimorial(Primorials[k])
           x == RealPrimorial(ReportOf(k))
           y == Prod(k)
<1>1. x = Product(DividingPrimes \intersect S) /\ y = Product(S \ DividingPrimes) /\ w = Product(S)
  BY DEF RealPrimorial, ReportOf, Prod, WholePrimorial
<1> HIDE DEF S, w, x, y
<1>2. w = x * y /\ x \in Nat /\ x > 0 /\ y \in Nat /\ y > 0
  BY <1>1, ProductSplits, KeptArePrimes
<1>3. (x * y) \div x = y
  <2> DEFINE z == x * y
             u == z \div x
             r == z % x
  <2>1. z \in Nat /\ y * x = z /\ Cong(z, 0, x)
    <3>1. z \in Nat /\ y * x = z /\ z = 0 + y * x /\ y \in Int
      BY <1>2, SMT
    <3>2. QED
      BY <3>1 DEF Cong
  <2>2. u \in Nat /\ r \in 0 .. x - 1 /\ z = x * u + r
    BY <1>2, <2>1, Division
  <2>3. r = 0
    BY <1>2, <2>1, RestIsZero
  <2>4. z = x * u
    <3>1. x * u \in Nat
      BY <1>2, <2>2
    <3> HIDE DEF z, u, r
    <3>2. QED
      BY <2>2, <2>3, <3>1
  <2>5. \A a, b, m \in Nat : m > 0 /\ m * a = m * b => a = b
    BY SMT
  <2> HIDE DEF u
  <2>6. u = y
    BY <1>2, <2>2, <2>4, <2>5
  <2>7. QED
    BY <2>6 DEF u
<1>4. QED
  BY <1>2, <1>3 DEF w, x, y

\* What is reported and not fetched yet, accepted and rejected comes of the
\* reports for the hash.
SearchInv ==
    /\ hash \in SearchHashes
    /\ \A r \in reports : \E k \in Reported : r = ReportOf(k)
    /\ \A n \in numbers : \E k \in Reported :
          n = NumberOf(k) /\ hash % RealPrimorial(ReportOf(k)) = 0
    /\ \A r \in rejected : \E k \in Reported :
          r = ReportOf(k) /\ hash % RealPrimorial(ReportOf(k)) # 0

LEMMA SearchInvIsUsable ==
  ASSUME SearchInv
  PROVE  ReportsUsable
<1>1. hash \in Nat /\ hash > 0 /\ hash \in SearchHashes
  BY LimbsAreHash DEF SearchInv
<1>2. ASSUME ~SumCut
      PROVE  rejected = {} /\ \A r \in reports : r.field = {j \in Positions : hash % PrimeAt(j) = 0}
  <2> DEFINE D == {j \in Positions : hash % PrimeAt(j) = 0}
  <2>1. DividingPrimes = D
    BY <1>1, <1>2, FieldExact
  <2>2. ASSUME NEW k \in Reported PROVE hash % RealPrimorial(ReportOf(k)) = 0
    <3> DEFINE S == DividingPrimes \intersect (0 .. Primorials[k])
    <3>1. RealPrimorial(ReportOf(k)) = Product(S)
      BY DEF RealPrimorial, ReportOf
    <3>2. \A j \in S \intersect Positions : hash % PrimeAt(j) = 0
      BY <2>1
    <3> HIDE DEF S
    <3>3. QED
      BY <1>1, <3>1, <3>2, ProductDivides
  <2>3. rejected = {}
    BY <2>2 DEF SearchInv
  <2>4. ASSUME NEW r \in reports PROVE r.field = D
    <3>1. PICK k \in Reported : r = ReportOf(k)
      BY DEF SearchInv
    <3>2. r.field = DividingPrimes
      BY <3>1 DEF ReportOf
    <3>3. QED
      BY <2>1, <3>2
  <2>5. QED
    BY <2>3, <2>4
<1>3. ASSUME NEW n \in numbers PROVE n.shash % WholePrimorial(n.primorialIdx) = 0
  <2>1. PICK k \in Reported : n = NumberOf(k) /\ hash % RealPrimorial(ReportOf(k)) = 0
    BY DEF SearchInv
  <2> DEFINE w == WholePrimorial(Primorials[k])
             x == RealPrimorial(ReportOf(k))
             y == Prod(k)
  <2>2. w = x * y /\ x \in Nat /\ x > 0 /\ y \in Nat /\ y > 0
    BY MultiplierIs
  <2>3. n.shash = hash * y /\ WholePrimorial(n.primorialIdx) = w
    BY <2>1 DEF NumberOf
  <2>4. hash % x = 0
    BY <2>1
  <2> HIDE DEF w, x, y
  <2>5. PICK k0 \in Int : hash = 0 + k0 * x
    BY <1>1, <2>2, <2>4, RestIsZero DEF Cong
  <2>6. hash * y = 0 + k0 * w
    <3>1. \A a, b, m \in Int : (a * b) * m = a * (b * m) /\ a * (b * m) \in Int
      BY SMT
    <3>2. hash = k0 * x
      BY <1>1, <2>2, <2>5
    <3>3. hash * y = k0 * (x * y)
      BY <2>2, <3>1, <3>2
    <3>4. k0 * w \in Int
      BY <2>2, <3>1
    <3>5. QED
      BY <2>2, <3>3, <3>4
  <2>7. w \in Nat /\ w > 0 /\ hash * y \in Int
    <3>1. \A a, b \in Nat : a > 0 /\ b > 0 => a * b \in Nat /\ a * b > 0
      BY SMT
    <3>2. QED
      BY <1>1, <2>2, <3>1
  <2> DEFINE s == hash * y
  <2>8. s \in Int /\ Cong(s, 0, w)
    BY <2>6, <2>7 DEF Cong
  <2> HIDE DEF s
  <2>9. s % w = 0
    BY <2>7, <2>8, RestIsZero
  <2>10. QED
    BY <2>3, <2>9 DEF s
<1>4. ASSUME NEW n \in numbers, NEW o \in numbers, n # o PROVE n.shash # o.shash
  <2>1. PICK k \in Reported : n = NumberOf(k)
    BY DEF SearchInv
  <2>2. PICK l \in Reported : o = NumberOf(l)
    BY DEF SearchInv
  <2>3. Prod(k) # Prod(l)
    BY <1>4, <2>1, <2>2, ReportedFacts
  <2>4. Prod(k) \in Nat /\ Prod(l) \in Nat
    BY MultiplierIs
  <2>5. \A a, b, m \in Nat : m > 0 /\ m * a = m * b => a = b
    BY SMT
  <2>6. hash * Prod(k) # hash * Prod(l)
    BY <1>1, <2>3, <2>4, <2>5
  <2>7. QED
    BY <2>1, <2>2, <2>6 DEF NumberOf
<1>5. QED
  BY <1>2, <1>3, <1>4 DEF ReportsUsable

\* The operators of the search depend on the hash alone, and no step changes it.
LEMMA SearchKeepsInv ==
  ASSUME SearchInv, [SearchNext]_searchVars
  PROVE  SearchInv'
<1>1. hash' = hash
  BY DEF SearchNext, bhashmodUsePrecalc, FetchReport, searchVars
<1>2. DividingPrimes' = DividingPrimes
  BY <1>1 DEF DividingPrimes, sum24, WholeSum, Limb
<1>3. \A k : Prod(k)' = Prod(k)
  BY <1>2 DEF Prod
<1>4. Reported' = Reported
  BY <1>2 DEF Reported, Prod
<1>5. \A k : ReportOf(k)' = ReportOf(k) /\ NumberOf(k)' = NumberOf(k)
  BY <1>1, <1>2, <1>3 DEF ReportOf, NumberOf
<1>6. \A k : RealPrimorial(ReportOf(k))' = RealPrimorial(ReportOf(k))
  BY <1>5 DEF RealPrimorial
<1> DEFINE Fits(k) == hash % RealPrimorial(ReportOf(k)) = 0
<1>7. SUFFICES /\ \A r \in reports' : \E k \in Reported : r = ReportOf(k)
               /\ \A n \in numbers' : \E k \in Reported : n = NumberOf(k) /\ Fits(k)
               /\ \A r \in rejected' : \E k \in Reported : r = ReportOf(k) /\ ~Fits(k)
  BY <1>1, <1>4, <1>5, <1>6 DEF SearchInv
<1>8. /\ \A r \in reports : \E k \in Reported : r = ReportOf(k)
      /\ \A n \in numbers : \E k \in Reported : n = NumberOf(k) /\ Fits(k)
      /\ \A r \in rejected : \E k \in Reported : r = ReportOf(k) /\ ~Fits(k)
  BY DEF SearchInv
<1>9. CASE bhashmodUsePrecalc
  <2>1. /\ numbers' = numbers /\ rejected' = rejected
        /\ reports' = {[primorialIdx |-> Primorials[k], field |-> DividingPrimes] : k \in Reported}
    BY <1>9 DEF bhashmodUsePrecalc
  <2>2. \A r \in reports' : \E k \in Reported : r = ReportOf(k)
    BY <2>1 DEF ReportOf
  <2> HIDE DEF Fits
  <2>3. QED
    BY <1>8, <2>1, <2>2
<1>10. ASSUME NEW r \in reports, FetchReport(r)
       PROVE  /\ \A s \in reports' : \E k \in Reported : s = ReportOf(k)
              /\ \A n \in numbers' : \E k \in Reported : n = NumberOf(k) /\ Fits(k)
              /\ \A s \in rejected' : \E k \in Reported : s = ReportOf(k) /\ ~Fits(k)
  <2>1. PICK k \in Reported : r = ReportOf(k)
    BY <1>8
  <2>2. reports' = reports \ {r}
    BY <1>10 DEF FetchReport
  <2> DEFINE number == [primorialIdx |-> r.primorialIdx,
                        shash |-> hash * (WholePrimorial(r.primorialIdx) \div RealPrimorial(r))]
  <2>3. IF Fits(k) THEN numbers' = numbers \union {number} /\ rejected' = rejected
                   ELSE rejected' = rejected \union {r} /\ numbers' = numbers
    BY <1>10, <2>1 DEF FetchReport
  <2>4. number = NumberOf(k)
    <3>1. r.primorialIdx = Primorials[k]
      BY <2>1 DEF ReportOf
    <3>2. WholePrimorial(Primorials[k]) \div RealPrimorial(ReportOf(k)) = Prod(k)
      BY MultiplierIs
    <3>3. QED
      BY <2>1, <3>1, <3>2 DEF NumberOf
  <2> HIDE DEF number, Fits
  <2>5. QED
    BY <1>8, <2>1, <2>2, <2>3, <2>4
<1>11. CASE UNCHANGED searchVars
  <2>1. reports' = reports /\ numbers' = numbers /\ rejected' = rejected
    BY <1>11 DEF searchVars
  <2> HIDE DEF Fits
  <2>2. QED
    BY <1>8, <2>1
<1>12. QED
  BY <1>9, <1>10, <1>11 DEF SearchNext

\* What the device reports is of use, whatever the hash, the primes and the limits
\* (ReportsUsable): unless a sum was cut, check24 with the tables of the kernel finds
\* exactly the primes that divide the hash; and what the host accepts is divisible by
\* the whole primorial, with no number twice.
THEOREM ReportsOfUse == SearchSpec => []ReportsUsable
<1>1. SearchInit => SearchInv
  BY DEF SearchInit, SearchInv
<1>2. SearchInv /\ [SearchNext]_searchVars => SearchInv'
  BY SearchKeepsInv
<1>3. SearchInv => ReportsUsable
  BY SearchInvIsUsable
<1>4. QED
  BY <1>1, <1>2, <1>3, PTL DEF SearchSpec

=============================================================================
