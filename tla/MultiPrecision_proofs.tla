------------------------ MODULE MultiPrecision_proofs ------------------------
(***************************************************************************)
(* The multi-word arithmetic of the kernels, for words of any width and    *)
(* numbers of any size: products that are scanned column by column have    *)
(* the value of the product.                                               *)
(*                                                                         *)
(* The first part is about recursion and sums, by induction over sets of   *)
(* natural numbers; the second one about columns.                          *)
(***************************************************************************)
EXTENDS MultiPrecision, WellFoundedInduction, TLAPS

-----------------------------------------------------------------------------
(***************************************************************************)
(* Induction: a set with 0 that is closed under successor has every        *)
(* natural number, since there is no least one outside.                    *)
(***************************************************************************)
LEMMA Induction ==
  ASSUME NEW S, 0 \in S, \A n \in Nat : n \in S => n + 1 \in S
  PROVE  \A n \in Nat : n \in S
<1> DEFINE R == {ss \in Nat \X Nat : ss[1] < ss[2]}
           Out == Nat \ S
<1>1. IsWellFoundedOn(R, Nat)
  BY NatLessThanWellFounded DEF OpToRel
<1>2. SUFFICES ASSUME Out # {} PROVE FALSE
  OBVIOUS
<1>3. \E x \in Out : \A y \in Out : ~(<<y, x>> \in R)
  <2> HIDE DEF R
  <2>1. Out \in SUBSET Nat
    OBVIOUS
  <2> HIDE DEF Out
  <2>2. QED
    BY <1>1, <1>2, <2>1, WFMin
<1>4. PICK x \in Out : \A y \in Out : ~(<<y, x>> \in R)
  BY <1>3
<1>5. x \in Nat /\ x # 0 /\ x - 1 \in Nat /\ x = (x - 1) + 1
  OBVIOUS
<1>6. x - 1 \in S
  <2>1. SUFFICES ASSUME x - 1 \in Out PROVE FALSE
    BY <1>5
  <2>2. <<x - 1, x>> \in R
    BY <1>5
  <2>3. QED
    BY <1>4, <2>1, <2>2
<1>7. QED
  BY <1>5, <1>6

(***************************************************************************)
(* A function on the natural numbers may be defined by a first value and a *)
(* step (a function of the place and the last value).                      *)
(***************************************************************************)
Begins(g, c, h, n) ==
    /\ g[0] = c
    /\ \A i \in 1 .. n : g[i] = h[<<i, g[i - 1]>>]

Recurs(G, c, h) ==
    /\ G[0] = c
    /\ \A n \in Nat : G[n + 1] = h[<<n + 1, G[n]>>]

LEMMA Recursion ==
  ASSUME NEW T, NEW c, NEW h, c \in T, h \in [Nat \X T -> T]
  PROVE  \E G \in [Nat -> T] : Recurs(G, c, h)
<1> DEFINE Some == {n \in Nat : \E g \in [0 .. n -> T] : Begins(g, c, h, n)}
<1>1. 0 \in Some
  <2> DEFINE g == [i \in 0 .. 0 |-> c]
  <2>1. g \in [0 .. 0 -> T] /\ Begins(g, c, h, 0)
    BY DEF Begins
  <2> HIDE DEF g
  <2>2. QED
    BY <2>1
<1>2. ASSUME NEW n \in Nat, n \in Some PROVE n + 1 \in Some
  <2>1. PICK g \in [0 .. n -> T] : Begins(g, c, h, n)
    BY <1>2
  <2> DEFINE last == h[<<n + 1, g[n]>>]
             k == [i \in 0 .. n + 1 |-> IF i = n + 1 THEN last ELSE g[i]]
  <2>2. last \in T
    OBVIOUS
  <2>3. k \in [0 .. n + 1 -> T]
    BY <2>2
  <2>4. k[0] = c
    BY <2>1 DEF Begins
  <2>5. ASSUME NEW i \in 1 .. n + 1 PROVE k[i] = h[<<i, k[i - 1]>>]
    <3>1. CASE i = n + 1
      <4>1. k[i] = last /\ k[i - 1] = g[n]
        BY <3>1
      <4>2. QED
        BY <3>1, <4>1
    <3>2. CASE i # n + 1
      <4>1. i \in 1 .. n /\ i - 1 \in 0 .. n + 1 /\ i - 1 # n + 1
        BY <3>2
      <4>2. k[i] = g[i] /\ k[i - 1] = g[i - 1]
        BY <3>2, <4>1
      <4>3. g[i] = h[<<i, g[i - 1]>>]
        BY <2>1, <4>1 DEF Begins
      <4>4. QED
        BY <4>2, <4>3
    <3>3. QED
      BY <3>1, <3>2
  <2> HIDE DEF k
  <2>6. Begins(k, c, h, n + 1)
    BY <2>4, <2>5 DEF Begins
  <2>7. QED
    BY <2>3, <2>6
<1>3. \A n \in Nat : n \in Some
  <2> HIDE DEF Some
  <2>1. QED
    BY <1>1, <1>2, Induction
<1> DEFINE pick == [n \in Nat |-> CHOOSE g \in [0 .. n -> T] : Begins(g, c, h, n)]
           G == [n \in Nat |-> pick[n][n]]
<1>4. \A n \in Nat : pick[n] \in [0 .. n -> T] /\ Begins(pick[n], c, h, n)
  BY <1>3
<1> HIDE DEF pick
<1>5. ASSUME NEW n \in Nat PROVE \A i \in 0 .. n : pick[n][i] = pick[n + 1][i]
  <2> DEFINE Same == {i \in Nat : i <= n => pick[n][i] = pick[n + 1][i]}
  <2>1. 0 \in Same
    BY <1>4 DEF Begins
  <2>2. ASSUME NEW i \in Nat, i \in Same PROVE i + 1 \in Same
    <3>1. SUFFICES ASSUME i + 1 <= n PROVE pick[n][i + 1] = pick[n + 1][i + 1]
      OBVIOUS
    <3>2. i + 1 \in 1 .. n /\ i + 1 \in 1 .. n + 1 /\ (i + 1) - 1 = i /\ i <= n
      BY <3>1
    <3>3. pick[n][i + 1] = h[<<i + 1, pick[n][i]>>]
      BY <1>4, <3>2 DEF Begins
    <3>4. pick[n + 1][i + 1] = h[<<i + 1, pick[n + 1][i]>>]
      BY <1>4, <3>2 DEF Begins
    <3>5. QED
      BY <2>2, <3>2, <3>3, <3>4
  <2>3. \A i \in Nat : i \in Same
    <3> HIDE DEF Same
    <3>1. QED
      BY <2>1, <2>2, Induction
  <2>4. QED
    BY <2>3
<1>6. G \in [Nat -> T]
  BY <1>4
<1>7. G[0] = c
  BY <1>4 DEF Begins
<1>8. ASSUME NEW n \in Nat PROVE G[n + 1] = h[<<n + 1, G[n]>>]
  <2>1. n + 1 \in 1 .. n + 1 /\ (n + 1) - 1 = n /\ n \in 0 .. n
    OBVIOUS
  <2>2. pick[n + 1][n + 1] = h[<<n + 1, pick[n + 1][n]>>]
    BY <1>4, <2>1 DEF Begins
  <2>3. pick[n + 1][n] = pick[n][n]
    BY <1>5, <2>1
  <2>4. QED
    BY <2>2, <2>3
<1> HIDE DEF G
<1>9. QED
  BY <1>6, <1>7, <1>8 DEF Recurs

(***************************************************************************)
(* Powers of two, and the weights of words.                                *)
(***************************************************************************)
LEMMA Pow2Facts ==
    /\ Pow2 \in [Nat -> Nat \ {0}] /\ Pow2[0] = 1
    /\ \A n \in Nat : Pow2[n + 1] = 2 * Pow2[n]
<1> DEFINE T == Nat \ {0}
           c == 1
           h == [p \in Nat \X T |-> 2 * p[2]]
           Def(f) == f = [n \in Nat |-> IF n = 0 THEN 1 ELSE 2 * f[n - 1]]
<1>1. PICK G \in [Nat -> T] : Recurs(G, c, h)
  <2>1. h \in [Nat \X T -> T] /\ c \in T
    OBVIOUS
  <2> HIDE DEF h, T, c
  <2>2. QED
    BY <2>1, Recursion
<1>2. Def(G)
  <2>1. \A n \in Nat : n # 0 => n - 1 \in Nat /\ n = (n - 1) + 1
    OBVIOUS
  <2>2. \A n \in Nat : n # 0 => G[n] = 2 * G[n - 1]
    BY <1>1, <2>1 DEF Recurs
  <2>3. QED
    BY <1>1, <2>2 DEF Recurs
<1>3. Def(Pow2)
  <2>1. Pow2 = CHOOSE f : Def(f)
    BY DEF Pow2
  <2> HIDE DEF Def
  <2>2. QED
    BY <1>2, <2>1
<1>4. Pow2[0] = 1 /\ \A n \in Nat : Pow2[n + 1] = 2 * Pow2[n]
  <2>1. \A n \in Nat : n + 1 \in Nat /\ n + 1 # 0 /\ (n + 1) - 1 = n
    OBVIOUS
  <2>2. QED
    BY <1>3, <2>1
<1>5. Pow2 = [n \in Nat |-> Pow2[n]]
  BY <1>3
<1> DEFINE S == {n \in Nat : Pow2[n] \in T}
<1>6. \A n \in Nat : n \in S
  <2>1. 0 \in S /\ \A n \in Nat : n \in S => n + 1 \in S
    BY <1>4
  <2> HIDE DEF S
  <2>2. QED
    BY <2>1, Induction
<1>7. QED
  BY <1>4, <1>5, <1>6

LEMMA BaseFacts ==
    /\ B \in Nat /\ B >= 2
    /\ Size320 \in Nat \ {0, 1} /\ Size352 \in Nat \ {0, 1}
    /\ 2 * Size320 <= B /\ 2 * Size352 <= B
<1>1. WordBits \in Nat /\ WordBits - 1 \in Nat /\ WordBits = (WordBits - 1) + 1
  BY WordAssumption
<1>2. Pow2[WordBits - 1] \in Nat \ {0} /\ Pow2[WordBits] = 2 * Pow2[WordBits - 1]
  BY <1>1, Pow2Facts
<1>3. B \in Nat /\ B >= 2
  BY <1>2 DEF B
<1>4. QED
  BY <1>3, WordAssumption

LEMMA WeightFacts ==
    /\ Weight \in [Nat -> Nat \ {0}] /\ Weight[0] = 1
    /\ \A n \in Nat : Weight[n + 1] = B * Weight[n]
<1> DEFINE T == Nat \ {0}
           c == 1
           h == [p \in Nat \X T |-> B * p[2]]
           Def(f) == f = [n \in Nat |-> IF n = 0 THEN 1 ELSE B * f[n - 1]]
<1> USE BaseFacts
<1>1. PICK G \in [Nat -> T] : Recurs(G, c, h)
  <2>1. ASSUME NEW b \in T PROVE B * b \in T
    BY SMT
  <2>2. h \in [Nat \X T -> T] /\ c \in T
    BY <2>1
  <2> HIDE DEF h, T, c
  <2>3. QED
    BY <2>2, Recursion
<1>2. Def(G)
  <2>1. \A n \in Nat : n # 0 => n - 1 \in Nat /\ n = (n - 1) + 1
    OBVIOUS
  <2>2. \A n \in Nat : n # 0 => G[n] = B * G[n - 1]
    BY <1>1, <2>1 DEF Recurs
  <2>3. QED
    BY <1>1, <2>2 DEF Recurs
<1>3. Def(Weight)
  <2>1. Weight = CHOOSE f : Def(f)
    BY DEF Weight
  <2> HIDE DEF Def
  <2>2. QED
    BY <1>2, <2>1
<1>4. Weight[0] = 1 /\ \A n \in Nat : Weight[n + 1] = B * Weight[n]
  <2>1. \A n \in Nat : n + 1 \in Nat /\ n + 1 # 0 /\ (n + 1) - 1 = n
    OBVIOUS
  <2>2. QED
    BY <1>3, <2>1
<1>5. Weight = [n \in Nat |-> Weight[n]]
  BY <1>3
<1> DEFINE S == {n \in Nat : Weight[n] \in T}
<1>6. \A n \in Nat : n \in S
  <2>1. 0 \in S
    BY <1>4
  <2>2. ASSUME NEW n \in Nat, n \in S PROVE n + 1 \in S
    <3>1. Weight[n] \in T
      BY <2>2
    <3>2. ASSUME NEW w \in T PROVE B * w \in T
      BY SMT
    <3>3. QED
      BY <1>4, <3>1, <3>2
  <2> HIDE DEF S
  <2>3. QED
    BY <2>1, <2>2, Induction
<1>7. QED
  BY <1>4, <1>5, <1>6

(***************************************************************************)
(* Sums.  What SumUpTo(f, n) is for f with integers at 0 .. n - 1.         *)
(***************************************************************************)
Ints(f, n) == \A i \in 0 .. n - 1 : f[i] \in Int

LEMMA SumRuns ==
  ASSUME NEW n \in Nat, NEW f, Ints(f, n)
  PROVE  \E G \in [Nat -> Int] :
            /\ G[0] = 0
            /\ \A i \in 0 .. n - 1 : G[i + 1] = G[i] + f[i]
            /\ \A m \in 0 .. n : SumUpTo(f, m) = G[m]
<1> DEFINE c == 0
           T == Int
           h == [p \in Nat \X T |-> IF p[1] - 1 \in 0 .. n - 1 THEN p[2] + f[p[1] - 1] ELSE 0]
<1>1. PICK G \in [Nat -> T] : Recurs(G, c, h)
  <2>1. h \in [Nat \X T -> T] /\ c \in T
    BY DEF Ints
  <2> HIDE DEF h, T, c
  <2>2. QED
    BY <2>1, Recursion
<1>2. G[0] = 0
  BY <1>1 DEF Recurs
<1>3. ASSUME NEW i \in 0 .. n - 1 PROVE G[i + 1] = G[i] + f[i]
  <2>1. G[i + 1] = h[<<i + 1, G[i]>>]
    BY <1>1 DEF Recurs
  <2>2. i + 1 \in Nat /\ (i + 1) - 1 = i /\ G[i] \in Int
    OBVIOUS
  <2>3. h[<<i + 1, G[i]>>] = G[i] + f[i]
    BY <2>2
  <2>4. QED
    BY <2>1, <2>3
<1>4. ASSUME NEW m \in 0 .. n PROVE SumUpTo(f, m) = G[m]
  <2> DEFINE Def(s) == s = [i \in 0 .. m |-> IF i = 0 THEN 0 ELSE s[i - 1] + f[i - 1]]
             s == CHOOSE s : Def(s)
             g == [i \in 0 .. m |-> G[i]]
  <2>1. Def(g)
    <3>1. ASSUME NEW i \in 0 .. m, i # 0 PROVE g[i] = g[i - 1] + f[i - 1]
      <4>1. i - 1 \in 0 .. n - 1 /\ i - 1 \in 0 .. m /\ (i - 1) + 1 = i
        BY <3>1
      <4>2. QED
        BY <1>3, <4>1
    <3>2. g[0] = 0
      BY <1>2
    <3>3. g = [i \in 0 .. m |-> IF i = 0 THEN 0 ELSE g[i - 1] + f[i - 1]]
      BY <3>1, <3>2
    <3>4. QED
      BY <3>3
  <2>2. Def(s)
    <3> HIDE DEF Def, g
    <3>1. QED
      BY <2>1
  <2>3. SumUpTo(f, m) = s[m]
    BY DEF SumUpTo
  <2> HIDE DEF s
  <2> DEFINE S == {i \in Nat : i <= m => s[i] = G[i]}
  <2>4. 0 \in S
    BY <1>2, <2>2
  <2>5. ASSUME NEW i \in Nat, i \in S PROVE i + 1 \in S
    <3>1. SUFFICES ASSUME i + 1 <= m PROVE s[i + 1] = G[i + 1]
      OBVIOUS
    <3>2. i + 1 \in 0 .. m /\ i + 1 # 0 /\ (i + 1) - 1 = i /\ i \in 0 .. n - 1
      BY <3>1
    <3>3. s[i + 1] = s[i] + f[i]
      BY <2>2, <3>2
    <3>4. s[i] = G[i]
      BY <2>5, <3>1
    <3>5. QED
      BY <1>3, <3>2, <3>3, <3>4
  <2>6. \A i \in Nat : i \in S
    <3> HIDE DEF S
    <3>1. QED
      BY <2>4, <2>5, Induction
  <2>7. QED
    BY <2>3, <2>6
<1> HIDE DEF h, c
<1>5. QED
  BY <1>2, <1>3, <1>4

LEMMA SumZero ==
  ASSUME NEW f
  PROVE  SumUpTo(f, 0) = 0
<1>1. Ints(f, 0)
  BY DEF Ints
<1>2. QED
  BY <1>1, SumRuns

LEMMA SumNext ==
  ASSUME NEW n \in Nat, NEW f, Ints(f, n + 1)
  PROVE  /\ SumUpTo(f, n) \in Int /\ f[n] \in Int
         /\ SumUpTo(f, n + 1) = SumUpTo(f, n) + f[n]
<1>1. PICK G \in [Nat -> Int] :
            /\ G[0] = 0
            /\ \A i \in 0 .. (n + 1) - 1 : G[i + 1] = G[i] + f[i]
            /\ \A m \in 0 .. n + 1 : SumUpTo(f, m) = G[m]
  BY SumRuns
<1>2. QED
  BY <1>1 DEF Ints

LEMMA SumIsInt ==
  ASSUME NEW n \in Nat, NEW f, Ints(f, n)
  PROVE  SumUpTo(f, n) \in Int
BY SumRuns

LEMMA SumSame ==
  ASSUME NEW n \in Nat, NEW f, NEW g, Ints(f, n), \A i \in 0 .. n - 1 : g[i] = f[i]
  PROVE  SumUpTo(g, n) = SumUpTo(f, n)
<1> DEFINE S == {m \in Nat : m <= n => SumUpTo(g, m) = SumUpTo(f, m)}
<1>1. 0 \in S
  BY SumZero
<1>2. ASSUME NEW m \in Nat, m \in S PROVE m + 1 \in S
  <2>1. SUFFICES ASSUME m + 1 <= n PROVE SumUpTo(g, m + 1) = SumUpTo(f, m + 1)
    OBVIOUS
  <2>2. Ints(f, m + 1) /\ Ints(g, m + 1) /\ g[m] = f[m]
    BY <2>1 DEF Ints
  <2>3. /\ SumUpTo(f, m + 1) = SumUpTo(f, m) + f[m]
        /\ SumUpTo(g, m + 1) = SumUpTo(g, m) + g[m]
    BY <2>2, SumNext
  <2>4. SumUpTo(g, m) = SumUpTo(f, m)
    BY <1>2, <2>1
  <2>5. QED
    BY <2>2, <2>3, <2>4
<1>3. \A m \in Nat : m \in S
  <2> HIDE DEF S
  <2>1. QED
    BY <1>1, <1>2, Induction
<1>4. QED
  BY <1>3

(***************************************************************************)
(* A sum of at most n times b.                                             *)
(***************************************************************************)
LEMMA SumBound ==
  ASSUME NEW n \in Nat, NEW f, NEW b \in Nat, \A i \in 0 .. n - 1 : f[i] \in 0 .. b
  PROVE  SumUpTo(f, n) \in 0 .. n * b
<1> DEFINE S == {m \in Nat : m <= n => SumUpTo(f, m) \in 0 .. m * b}
<1>1. 0 \in S
  BY SumZero
<1>2. ASSUME NEW m \in Nat, m \in S PROVE m + 1 \in S
  <2>1. SUFFICES ASSUME m + 1 <= n PROVE SumUpTo(f, m + 1) \in 0 .. (m + 1) * b
    OBVIOUS
  <2>2. Ints(f, m + 1) /\ f[m] \in 0 .. b
    BY <2>1 DEF Ints
  <2>3. SumUpTo(f, m + 1) = SumUpTo(f, m) + f[m]
    BY <2>2, SumNext
  <2>4. SumUpTo(f, m) \in 0 .. m * b /\ m * b \in Nat /\ (m + 1) * b = m * b + b
    BY <1>2, <2>1
  <2>5. QED
    BY <2>2, <2>3, <2>4
<1>3. \A m \in Nat : m \in S
  <2> HIDE DEF S
  <2>1. QED
    BY <1>1, <1>2, Induction
<1>4. QED
  BY <1>3

LEMMA SumPlus ==
  ASSUME NEW n \in Nat, NEW f, NEW g, NEW h, Ints(f, n), Ints(g, n),
         \A i \in 0 .. n - 1 : h[i] = f[i] + g[i]
  PROVE  SumUpTo(h, n) = SumUpTo(f, n) + SumUpTo(g, n)
<1> DEFINE S == {m \in Nat : m <= n => SumUpTo(h, m) = SumUpTo(f, m) + SumUpTo(g, m)}
<1>1. 0 \in S
  BY SumZero
<1>2. ASSUME NEW m \in Nat, m \in S PROVE m + 1 \in S
  <2>1. SUFFICES ASSUME m + 1 <= n
                 PROVE  SumUpTo(h, m + 1) = SumUpTo(f, m + 1) + SumUpTo(g, m + 1)
    OBVIOUS
  <2>2. /\ Ints(f, m + 1) /\ Ints(g, m + 1) /\ Ints(h, m + 1)
        /\ h[m] = f[m] + g[m] /\ f[m] \in Int /\ g[m] \in Int
    BY <2>1 DEF Ints
  <2>3. /\ SumUpTo(f, m) \in Int /\ SumUpTo(f, m + 1) = SumUpTo(f, m) + f[m]
        /\ SumUpTo(g, m) \in Int /\ SumUpTo(g, m + 1) = SumUpTo(g, m) + g[m]
        /\ SumUpTo(h, m + 1) = SumUpTo(h, m) + h[m]
    BY <2>2, SumNext
  <2>4. SumUpTo(h, m) = SumUpTo(f, m) + SumUpTo(g, m)
    BY <1>2, <2>1
  <2>5. QED
    BY <2>2, <2>3, <2>4
<1>3. \A m \in Nat : m \in S
  <2> HIDE DEF S
  <2>1. QED
    BY <1>1, <1>2, Induction
<1>4. QED
  BY <1>3

LEMMA SumTimes ==
  ASSUME NEW n \in Nat, NEW f, NEW h, NEW c \in Int, Ints(f, n),
         \A i \in 0 .. n - 1 : h[i] = c * f[i]
  PROVE  SumUpTo(h, n) = c * SumUpTo(f, n)
<1> DEFINE S == {m \in Nat : m <= n => SumUpTo(h, m) = c * SumUpTo(f, m)}
<1>1. 0 \in S
  BY SumZero
<1>2. ASSUME NEW m \in Nat, m \in S PROVE m + 1 \in S
  <2>1. SUFFICES ASSUME m + 1 <= n
                 PROVE  SumUpTo(h, m + 1) = c * SumUpTo(f, m + 1)
    OBVIOUS
  <2>2. /\ Ints(f, m + 1) /\ Ints(h, m + 1)
        /\ h[m] = c * f[m] /\ f[m] \in Int
    BY <2>1 DEF Ints
  <2>3. /\ SumUpTo(f, m) \in Int /\ SumUpTo(f, m + 1) = SumUpTo(f, m) + f[m]
        /\ SumUpTo(h, m + 1) = SumUpTo(h, m) + h[m]
    BY <2>2, SumNext
  <2>4. SumUpTo(h, m) = c * SumUpTo(f, m)
    BY <1>2, <2>1
  <2>5. ASSUME NEW x \in Int, NEW y \in Int PROVE c * (x + y) = c * x + c * y
    BY SMT
  <2>6. c * (SumUpTo(f, m) + f[m]) = c * SumUpTo(f, m) + c * f[m]
    BY <2>2, <2>3, <2>5
  <2>7. QED
    BY <2>2, <2>3, <2>4, <2>6
<1>3. \A m \in Nat : m \in S
  <2> HIDE DEF S
  <2>1. QED
    BY <1>1, <1>2, Induction
<1>4. QED
  BY <1>3

(***************************************************************************)
(* Zeros at the end, and zeros in front, do not count.                     *)
(***************************************************************************)
LEMMA SumPad ==
  ASSUME NEW m \in Nat, NEW l \in Nat, m <= l, NEW f, Ints(f, m),
         \A i \in m .. l - 1 : f[i] = 0
  PROVE  SumUpTo(f, l) = SumUpTo(f, m)
<1> DEFINE d == l - m
           S == {k \in Nat : k <= d => SumUpTo(f, m + k) = SumUpTo(f, m)}
<1>1. 0 \in S /\ d \in Nat /\ m + d = l
  OBVIOUS
<1>2. ASSUME NEW k \in Nat, k \in S PROVE k + 1 \in S
  <2>1. SUFFICES ASSUME k + 1 <= d PROVE SumUpTo(f, m + (k + 1)) = SumUpTo(f, m)
    OBVIOUS
  <2>2. Ints(f, (m + k) + 1) /\ f[m + k] = 0 /\ m + k \in Nat /\ m + (k + 1) = (m + k) + 1
    BY <2>1 DEF Ints
  <2>3. /\ SumUpTo(f, m + k) \in Int
        /\ SumUpTo(f, (m + k) + 1) = SumUpTo(f, m + k) + f[m + k]
    BY <2>2, SumNext
  <2>4. SumUpTo(f, m + k) = SumUpTo(f, m)
    BY <1>2, <2>1
  <2>5. QED
    BY <2>2, <2>3, <2>4
<1>3. \A k \in Nat : k \in S
  <2> HIDE DEF S
  <2>1. QED
    BY <1>1, <1>2, Induction
<1>4. QED
  BY <1>1, <1>3

Shifted(f, g, j, n) ==
    /\ \A i \in 0 .. j - 1 : f[i] = 0
    /\ \A k \in 0 .. n - 1 : f[j + k] = g[k]

LEMMA SumShift ==
  ASSUME NEW j \in Nat, NEW n \in Nat, NEW l \in Nat, l = j + n, NEW f, NEW g, Ints(g, n),
         Shifted(f, g, j, n)
  PROVE  SumUpTo(f, l) = SumUpTo(g, n)
<1> USE DEF Shifted
<1> DEFINE S == {k \in Nat : k <= n => SumUpTo(f, j + k) = SumUpTo(g, k)}
<1>1. 0 \in S
  <2>1. Ints(f, 0) /\ j + 0 = j
    BY DEF Ints
  <2>2. \A i \in 0 .. j - 1 : f[i] = 0
    OBVIOUS
  <2>3. SumUpTo(f, j) = SumUpTo(f, 0)
    BY <2>1, <2>2, SumPad
  <2>4. QED
    BY <2>1, <2>3, SumZero
<1>2. ASSUME NEW k \in Nat, k \in S PROVE k + 1 \in S
  <2>1. SUFFICES ASSUME k + 1 <= n PROVE SumUpTo(f, j + (k + 1)) = SumUpTo(g, k + 1)
    OBVIOUS
  <2>2. ASSUME NEW i \in 0 .. ((j + k) + 1) - 1 PROVE f[i] \in Int
    <3>1. CASE i < j
      BY <3>1
    <3>2. CASE i >= j
      <4>1. i - j \in 0 .. n - 1 /\ j + (i - j) = i
        BY <2>1, <3>2
      <4>2. f[j + (i - j)] = g[i - j] /\ g[i - j] \in Int
        BY <4>1 DEF Ints
      <4>3. QED
        BY <4>1, <4>2
    <3>3. QED
      BY <3>1, <3>2
  <2>3. Ints(f, (j + k) + 1)
    BY <2>2 DEF Ints
  <2>4. /\ Ints(g, k + 1) /\ f[j + k] = g[k]
        /\ j + k \in Nat /\ j + (k + 1) = (j + k) + 1
    BY <2>1 DEF Ints
  <2>5. /\ SumUpTo(f, (j + k) + 1) = SumUpTo(f, j + k) + f[j + k]
        /\ SumUpTo(g, k + 1) = SumUpTo(g, k) + g[k]
    BY <2>3, <2>4, SumNext
  <2>6. SumUpTo(f, j + k) = SumUpTo(g, k)
    BY <1>2, <2>1
  <2>7. QED
    BY <2>4, <2>5, <2>6
<1>3. \A k \in Nat : k \in S
  <2> HIDE DEF S
  <2>1. QED
    BY <1>1, <1>2, Induction
<1>4. QED
  BY <1>3

(***************************************************************************)
(* The order does not matter: the first term apart, and backwards.         *)
(***************************************************************************)
LEMMA SumFront ==
  ASSUME NEW n \in Nat, NEW f, NEW g, Ints(f, n + 1),
         \A i \in 0 .. n - 1 : g[i] = f[i + 1]
  PROVE  SumUpTo(f, n + 1) = f[0] + SumUpTo(g, n)
<1> DEFINE S == {k \in Nat : k <= n => SumUpTo(f, k + 1) = f[0] + SumUpTo(g, k)}
<1>1. 0 \in S
  <2>1. Ints(f, 0 + 1) /\ f[0] \in Int
    BY DEF Ints
  <2>2. SumUpTo(f, 0 + 1) = SumUpTo(f, 0) + f[0]
    BY <2>1, SumNext
  <2>3. QED
    BY <2>1, <2>2, SumZero
<1>2. ASSUME NEW k \in Nat, k \in S PROVE k + 1 \in S
  <2>1. SUFFICES ASSUME k + 1 <= n
                 PROVE  SumUpTo(f, (k + 1) + 1) = f[0] + SumUpTo(g, k + 1)
    OBVIOUS
  <2>2. /\ Ints(f, (k + 1) + 1) /\ Ints(g, k + 1) /\ g[k] = f[k + 1]
        /\ f[0] \in Int /\ f[k + 1] \in Int
    BY <2>1 DEF Ints
  <2>3. /\ SumUpTo(f, (k + 1) + 1) = SumUpTo(f, k + 1) + f[k + 1]
        /\ SumUpTo(g, k) \in Int /\ SumUpTo(g, k + 1) = SumUpTo(g, k) + g[k]
    BY <2>2, SumNext
  <2>4. SumUpTo(f, k + 1) = f[0] + SumUpTo(g, k)
    BY <1>2, <2>1
  <2>5. QED
    BY <2>2, <2>3, <2>4
<1>3. \A k \in Nat : k \in S
  <2> HIDE DEF S
  <2>1. QED
    BY <1>1, <1>2, Induction
<1>4. QED
  BY <1>3

LEMMA SumReverse ==
  ASSUME NEW n \in Nat, NEW f, NEW g, Ints(f, n),
         \A i \in 0 .. n - 1 : g[i] = f[(n - 1) - i]
  PROVE  SumUpTo(g, n) = SumUpTo(f, n)
<1> DEFINE r(m) == [i \in 0 .. m - 1 |-> f[(m - 1) - i]]
           S == {m \in Nat : m <= n => SumUpTo(r(m), m) = SumUpTo(f, m)}
<1>1. 0 \in S
  BY SumZero
<1>2. ASSUME NEW m \in Nat, m \in S PROVE m + 1 \in S
  <2>1. SUFFICES ASSUME m + 1 <= n
                 PROVE  SumUpTo(r(m + 1), m + 1) = SumUpTo(f, m + 1)
    OBVIOUS
  <2>2. \A i \in 0 .. m : (m - i) \in 0 .. n - 1 /\ r(m + 1)[i] = f[m - i]
    BY <2>1
  <2>3. Ints(r(m + 1), m + 1) /\ Ints(f, m + 1)
    BY <2>1, <2>2 DEF Ints
  <2>4. ASSUME NEW i \in 0 .. m - 1 PROVE r(m)[i] = r(m + 1)[i + 1]
    <3>1. i + 1 \in 0 .. m /\ (m - 1) - i = m - (i + 1)
      OBVIOUS
    <3>2. QED
      BY <2>2, <3>1
  <2>5. r(m + 1)[0] = f[m]
    BY <2>2
  <2>6. SumUpTo(r(m), m) = SumUpTo(f, m)
    BY <1>2, <2>1
  <2> HIDE DEF r
  <2>7. SumUpTo(r(m + 1), m + 1) = r(m + 1)[0] + SumUpTo(r(m), m)
    BY <2>3, <2>4, SumFront
  <2>8. SumUpTo(f, m + 1) = SumUpTo(f, m) + f[m] /\ SumUpTo(f, m) \in Int /\ f[m] \in Int
    BY <2>3, SumNext
  <2>9. QED
    BY <2>5, <2>6, <2>7, <2>8
<1>3. \A m \in Nat : m \in S
  <2> HIDE DEF S
  <2>1. QED
    BY <1>1, <1>2, Induction
<1>4. SumUpTo(r(n), n) = SumUpTo(f, n)
  BY <1>3
<1>5. Ints(r(n), n) /\ \A i \in 0 .. n - 1 : g[i] = r(n)[i]
  <2>1. \A i \in 0 .. n - 1 : (n - 1) - i \in 0 .. n - 1
    OBVIOUS
  <2>2. QED
    BY <2>1 DEF Ints
<1> HIDE DEF r
<1>6. SumUpTo(g, n) = SumUpTo(r(n), n)
  BY <1>5, SumSame
<1>7. QED
  BY <1>4, <1>6

(***************************************************************************)
(* A table of n rows and m columns has the same sum by rows and by columns. *)
(***************************************************************************)
Table(row, col, n, m) ==
    \A i \in 0 .. n - 1, j \in 0 .. m - 1 : row[i][j] \in Int /\ col[j][i] = row[i][j]
SumsOf(r, row, n, m) == \A i \in 0 .. n - 1 : r[i] = SumUpTo(row[i], m)

LEMMA SumSwap ==
  ASSUME NEW n \in Nat, NEW m \in Nat, NEW row, NEW col, NEW r, NEW c,
         Table(row, col, n, m), SumsOf(r, row, n, m), SumsOf(c, col, m, n)
  PROVE  SumUpTo(r, n) = SumUpTo(c, m)
<1> USE DEF Table, SumsOf
<1> DEFINE part(k) == [j \in 0 .. m - 1 |-> SumUpTo(col[j], k)]
           S == {k \in Nat : k <= n => SumUpTo(r, k) = SumUpTo(part(k), m)}
<1>1. \A i \in 0 .. n - 1 : Ints(row[i], m)
  BY DEF Ints
<1>2. \A j \in 0 .. m - 1 : Ints(col[j], n) /\ \A i \in 0 .. n - 1 : col[j][i] = row[i][j]
  BY DEF Ints
<1>3. \A k \in 0 .. n, j \in 0 .. m - 1 : part(k)[j] = SumUpTo(col[j], k)
  OBVIOUS
<1>4. \A i \in 0 .. n - 1 : r[i] = SumUpTo(row[i], m)
  OBVIOUS
<1>5. part(n) = [j \in 0 .. m - 1 |-> part(n)[j]] /\ \A j \in 0 .. m - 1 : part(n)[j] = c[j]
  OBVIOUS
<1> HIDE DEF part
<1>6. \A k \in 0 .. n : Ints(part(k), m)
  <2>1. ASSUME NEW k \in 0 .. n, NEW j \in 0 .. m - 1 PROVE SumUpTo(col[j], k) \in Int
    <3>1. Ints(col[j], k)
      BY <1>2 DEF Ints
    <3>2. QED
      BY <3>1, SumIsInt
  <2>2. QED
    BY <1>3, <2>1 DEF Ints
<1>7. Ints(r, n)
  BY <1>1, <1>4, SumIsInt DEF Ints
<1>8. 0 \in S
  <2>1. \A j \in 0 .. m - 1 : part(0)[j] = 0
    BY <1>3, SumZero
  <2>2. Ints(part(0), 0)
    BY DEF Ints
  <2>3. SumUpTo(part(0), m) = SumUpTo(part(0), 0)
    BY <2>1, <2>2, SumPad
  <2>4. QED
    BY <2>2, <2>3, SumZero
<1>9. ASSUME NEW k \in Nat, k \in S PROVE k + 1 \in S
  <2>1. SUFFICES ASSUME k + 1 <= n PROVE SumUpTo(r, k + 1) = SumUpTo(part(k + 1), m)
    OBVIOUS
  <2>2. k \in 0 .. n - 1 /\ k \in 0 .. n /\ k + 1 \in 0 .. n
    BY <2>1
  <2>3. ASSUME NEW j \in 0 .. m - 1 PROVE part(k + 1)[j] = part(k)[j] + row[k][j]
    <3>1. Ints(col[j], k + 1)
      BY <1>2, <2>2 DEF Ints
    <3>2. SumUpTo(col[j], k + 1) = SumUpTo(col[j], k) + col[j][k]
      BY <3>1, SumNext
    <3>3. QED
      BY <1>2, <1>3, <2>2, <3>2
  <2>4. SumUpTo(part(k + 1), m) = SumUpTo(part(k), m) + SumUpTo(row[k], m)
    BY <1>1, <1>6, <2>2, <2>3, SumPlus
  <2>5. Ints(r, k + 1)
    BY <1>7, <2>1 DEF Ints
  <2>6. SumUpTo(r, k + 1) = SumUpTo(r, k) + r[k]
    BY <2>5, SumNext
  <2>7. SumUpTo(r, k) = SumUpTo(part(k), m)
    BY <1>9, <2>1
  <2>8. QED
    BY <1>4, <2>2, <2>4, <2>6, <2>7
<1>10. \A k \in Nat : k \in S
  <2> HIDE DEF S
  <2>1. QED
    BY <1>8, <1>9, Induction
<1>11. SumUpTo(r, n) = SumUpTo(part(n), m)
  BY <1>10
<1>12. SumUpTo(part(n), m) = SumUpTo(c, m)
  <2>1. Ints(part(n), m) /\ \A j \in 0 .. m - 1 : c[j] = part(n)[j]
    BY <1>5, <1>6
  <2>2. QED
    BY <2>1, SumSame
<1>13. QED
  BY <1>11, <1>12

LEMMA WeightPlus ==
  ASSUME NEW i \in Nat, NEW j \in Nat
  PROVE  Weight[i + j] = Weight[i] * Weight[j]
<1> DEFINE S == {k \in Nat : Weight[i + k] = Weight[i] * Weight[k]}
<1>1. 0 \in S
  BY WeightFacts
<1>2. ASSUME NEW k \in Nat, k \in S PROVE k + 1 \in S
  <2>1. /\ i + (k + 1) = (i + k) + 1 /\ i + k \in Nat
        /\ Weight[i] \in Nat /\ Weight[k] \in Nat /\ B \in Nat
    BY WeightFacts, BaseFacts
  <2>2. Weight[(i + k) + 1] = B * Weight[i + k] /\ Weight[k + 1] = B * Weight[k]
    BY <2>1, WeightFacts
  <2>3. Weight[i + k] = Weight[i] * Weight[k]
    BY <1>2
  <2>4. \A a, b, c \in Nat : a * (b * c) = b * (a * c)
    BY SMT
  <2>5. B * (Weight[i] * Weight[k]) = Weight[i] * (B * Weight[k])
    BY <2>1, <2>4
  <2>6. QED
    BY <2>1, <2>2, <2>3, <2>5
<1>3. \A k \in Nat : k \in S
  <2> HIDE DEF S
  <2>1. QED
    BY <1>1, <1>2, Induction
<1>4. QED
  BY <1>3

-----------------------------------------------------------------------------
(***************************************************************************)
(* Columns.  The whole products of a column, weighed and summed over the   *)
(* columns, give the product of the numbers.                               *)
(***************************************************************************)
ColumnTerms(x, y, i, n1, n2) ==
    [j \in 0 .. i |-> IF j \in Column(i, n1, n2) THEN x[j] * y[i - j] ELSE 0]
ColumnSum(x, y, i, n1, n2) == SumUpTo(ColumnTerms(x, y, i, n1, n2), i + 1)

(***************************************************************************)
(* A sum of terms that are all zero from n on.                             *)
(***************************************************************************)
LEMMA SumFew ==
  ASSUME NEW n \in Nat, NEW m \in Nat, NEW f, NEW g,
         Ints(f, m), \A i \in 0 .. m - 1 : i >= n => f[i] = 0,
         \A i \in 0 .. n - 1 : g[i] = IF i < m THEN f[i] ELSE 0
  PROVE  SumUpTo(f, m) = SumUpTo(g, n)
<1>1. CASE n <= m
  <2>1. Ints(f, n)
    BY <1>1 DEF Ints
  <2>2. \A i \in n .. m - 1 : f[i] = 0
    OBVIOUS
  <2>3. SumUpTo(f, m) = SumUpTo(f, n)
    BY <1>1, <2>1, <2>2, SumPad
  <2>4. SumUpTo(g, n) = SumUpTo(f, n)
    <3>1. \A i \in 0 .. n - 1 : g[i] = f[i]
      BY <1>1
    <3>2. QED
      BY <2>1, <3>1, SumSame
  <2>5. QED
    BY <2>1, <2>3, <2>4
<1>2. CASE n > m
  <2>1. Ints(g, m)
    BY <1>2 DEF Ints
  <2>2. \A i \in m .. n - 1 : g[i] = 0
    BY <1>2
  <2>3. SumUpTo(g, n) = SumUpTo(g, m)
    BY <1>2, <2>1, <2>2, SumPad
  <2>4. SumUpTo(g, m) = SumUpTo(f, m)
    <3>1. \A i \in 0 .. m - 1 : g[i] = f[i]
      BY <1>2
    <3>2. QED
      BY <3>1, SumSame
  <2>5. QED
    BY <2>1, <2>3, <2>4
<1>3. QED
  BY <1>1, <1>2

LEMMA ColumnsProduct ==
  ASSUME NEW n1 \in Nat, NEW n2 \in Nat, NEW size \in Nat, NEW p, NEW x, NEW y,
         n1 + n2 <= size + 1, n2 > 0, Ints(x, n1), Ints(y, n2),
         \A i \in 0 .. size - 1 : p[i] = Weight[i] * ColumnSum(x, y, i, n1, n2)
  PROVE  SumUpTo(p, size) = ValueOf(x, n1) * ValueOf(y, n2)
<1> DEFINE t == [ij \in (0 .. size - 1) \X (0 .. n1 - 1) |->
                   IF ij[2] <= ij[1] /\ ij[1] - ij[2] < n2
                   THEN Weight[ij[1]] * (x[ij[2]] * y[ij[1] - ij[2]]) ELSE 0]
           row == [i \in 0 .. size - 1 |-> [j \in 0 .. n1 - 1 |-> t[<<i, j>>]]]
           col == [j \in 0 .. n1 - 1 |-> [i \in 0 .. size - 1 |-> t[<<i, j>>]]]
           vx == [j \in 0 .. n1 - 1 |-> x[j] * Weight[j]]
           vy == [k \in 0 .. n2 - 1 |-> y[k] * Weight[k]]
           c == [j \in 0 .. n1 - 1 |-> ValueOf(y, n2) * vx[j]]
<1>0. \A i \in Nat : Weight[i] \in Nat
  BY WeightFacts
<1>1. ASSUME NEW i \in 0 .. size - 1, NEW j \in 0 .. n1 - 1
      PROVE  /\ t[<<i, j>>] \in Int
             /\ t[<<i, j>>] = IF j <= i /\ i - j < n2
                              THEN Weight[i] * (x[j] * y[i - j]) ELSE 0
  <2>1. t[<<i, j>>] = IF j <= i /\ i - j < n2 THEN Weight[i] * (x[j] * y[i - j]) ELSE 0
    OBVIOUS
  <2>2. j <= i /\ i - j < n2 => x[j] \in Int /\ y[i - j] \in Int /\ Weight[i] \in Int
    BY <1>0 DEF Ints
  <2>3. \A a, b, d \in Int : a * (b * d) \in Int
    OBVIOUS
  <2> HIDE DEF t
  <2>4. QED
    BY <2>1, <2>2, <2>3
<1>2. Ints(vx, n1) /\ Ints(vy, n2)
  BY <1>0 DEF Ints
<1>3. ValueOf(x, n1) = SumUpTo(vx, n1) /\ ValueOf(y, n2) = SumUpTo(vy, n2)
      /\ ValueOf(x, n1) \in Int /\ ValueOf(y, n2) \in Int
  <2>1. ValueOf(x, n1) = SumUpTo(vx, n1) /\ ValueOf(y, n2) = SumUpTo(vy, n2)
    BY DEF ValueOf
  <2> HIDE DEF vx, vy
  <2>2. QED
    BY <1>2, <2>1, SumIsInt
<1>4. ASSUME NEW i \in 0 .. size - 1 PROVE p[i] = SumUpTo(row[i], n1)
  <2> DEFINE u == ColumnTerms(x, y, i, n1, n2)
             v == [j \in 0 .. n1 - 1 |-> IF j < i + 1 THEN u[j] ELSE 0]
  <2>1. ASSUME NEW j \in 0 .. i
        PROVE  u[j] = (IF j < n1 /\ i - j < n2 THEN x[j] * y[i - j] ELSE 0) /\ u[j] \in Int
    <3>1. u[j] = (IF j < n1 /\ i - j < n2 THEN x[j] * y[i - j] ELSE 0)
      BY DEF ColumnTerms, Column
    <3>2. j < n1 /\ i - j < n2 => x[j] \in Int /\ y[i - j] \in Int
      BY DEF Ints
    <3> HIDE DEF u
    <3>3. QED
      BY <3>1, <3>2
  <2>2. Ints(u, i + 1) /\ \A j \in 0 .. (i + 1) - 1 : j >= n1 => u[j] = 0
    BY <2>1 DEF Ints
  <2>3. SumUpTo(u, i + 1) = SumUpTo(v, n1) /\ Ints(v, n1)
    <3>1. \A j \in 0 .. n1 - 1 : v[j] = IF j < i + 1 THEN u[j] ELSE 0
      OBVIOUS
    <3>2. Ints(v, n1)
      BY <2>2 DEF Ints
    <3> HIDE DEF u, v
    <3>3. QED
      BY <2>2, <3>1, <3>2, SumFew
  <2>4. ASSUME NEW j \in 0 .. n1 - 1 PROVE row[i][j] = Weight[i] * v[j]
    <3>1. row[i][j] = t[<<i, j>>]
      OBVIOUS
    <3>2. v[j] = IF j <= i THEN u[j] ELSE 0
      OBVIOUS
    <3> HIDE DEF t, v, u
    <3>3. CASE j <= i /\ i - j < n2
      BY <1>1, <2>1, <3>1, <3>2, <3>3
    <3>4. CASE ~(j <= i /\ i - j < n2)
      <4>1. v[j] = 0
        BY <2>1, <3>2, <3>4
      <4>2. t[<<i, j>>] = 0 /\ Weight[i] * 0 = 0
        BY <1>0, <1>1, <3>4
      <4>3. QED
        BY <3>1, <4>1, <4>2
    <3>5. QED
      BY <3>3, <3>4
  <2>5. Weight[i] \in Int
    BY <1>0
  <2> HIDE DEF t, v
  <2>6. SumUpTo(row[i], n1) = Weight[i] * SumUpTo(v, n1)
    <3> HIDE DEF row
    <3>1. QED
      BY <2>3, <2>4, <2>5, SumTimes
  <2>7. QED
    BY <2>3, <2>6 DEF ColumnSum
<1>5. ASSUME NEW j \in 0 .. n1 - 1 PROVE c[j] = SumUpTo(col[j], size)
  <2> DEFINE g == [k \in 0 .. n2 - 1 |-> vx[j] * vy[k]]
             mid == j + n2
  <2>1. x[j] \in Int /\ vx[j] = x[j] * Weight[j] /\ vx[j] \in Int /\ Weight[j] \in Int
    BY <1>0 DEF Ints
  <2>2. mid \in Nat /\ mid <= size
    OBVIOUS
  <2>3. \A i \in 0 .. j - 1 : col[j][i] = 0
    BY <1>1
  <2>4. ASSUME NEW k \in 0 .. n2 - 1 PROVE col[j][j + k] = g[k] /\ g[k] \in Int
    <3>1. j + k \in 0 .. size - 1 /\ (j + k) - j = k /\ j <= j + k
      OBVIOUS
    <3>2. col[j][j + k] = Weight[j + k] * (x[j] * y[k])
      BY <1>1, <3>1
    <3>3. Weight[j + k] = Weight[j] * Weight[k]
      BY WeightPlus
    <3>4. y[k] \in Int /\ Weight[k] \in Int /\ vy[k] = y[k] * Weight[k]
      BY <1>0 DEF Ints
    <3>5. \A a, b, d, e \in Int : (a * b) * (d * e) = (d * a) * (e * b) /\ (d * a) * (e * b) \in Int
      BY SMT
    <3>6. (Weight[j] * Weight[k]) * (x[j] * y[k]) = (x[j] * Weight[j]) * (y[k] * Weight[k])
          /\ (x[j] * Weight[j]) * (y[k] * Weight[k]) \in Int
      BY <2>1, <3>4, <3>5
    <3>7. g[k] = vx[j] * vy[k]
      OBVIOUS
    <3> HIDE DEF g, vx, vy, col
    <3>8. QED
      BY <2>1, <3>2, <3>3, <3>4, <3>6, <3>7
  <2>5. ASSUME NEW i \in mid .. size - 1 PROVE col[j][i] = 0
    <3>1. i \in 0 .. size - 1 /\ ~(i - j < n2)
      BY <2>2
    <3>2. QED
      BY <1>1, <3>1
  <2>6. Ints(g, n2) /\ Ints(col[j], mid)
    <3>1. ASSUME NEW i \in 0 .. mid - 1 PROVE col[j][i] \in Int
      <4>1. i \in 0 .. size - 1
        BY <2>2
      <4>2. QED
        BY <1>1, <4>1
    <3> HIDE DEF g, col
    <3>2. QED
      BY <2>4, <3>1 DEF Ints
  <2>7. \A k \in 0 .. n2 - 1 : g[k] = vx[j] * vy[k]
    OBVIOUS
  <2>8. c[j] = SumUpTo(vy, n2) * vx[j]
    BY <1>3
  <2>9. mid = j + n2
    OBVIOUS
  <2> HIDE DEF g, col, vx, vy, c, t, mid
  <2>10. SumUpTo(col[j], mid) = SumUpTo(g, n2) /\ SumUpTo(col[j], size) = SumUpTo(col[j], mid)
    <3>1. Shifted(col[j], g, j, n2)
      BY <2>3, <2>4 DEF Shifted
    <3>2. SumUpTo(col[j], mid) = SumUpTo(g, n2)
      BY <2>2, <2>6, <2>9, <3>1, SumShift
    <3>3. SumUpTo(col[j], size) = SumUpTo(col[j], mid)
      BY <2>2, <2>5, <2>6, SumPad
    <3>4. QED
      BY <3>2, <3>3
  <2>11. SumUpTo(g, n2) = vx[j] * SumUpTo(vy, n2)
    BY <1>2, <2>1, <2>7, SumTimes
  <2>12. SumUpTo(vy, n2) \in Int
    BY <1>2, SumIsInt
  <2>13. QED
    BY <2>1, <2>8, <2>10, <2>11, <2>12
<1>6. SumUpTo(p, size) = SumUpTo(c, n1)
  <2>1. Table(row, col, size, n1)
    BY <1>1 DEF Table
  <2> HIDE DEF t, c, row, col
  <2>2. SumsOf(p, row, size, n1) /\ SumsOf(c, col, n1, size)
    BY <1>4, <1>5 DEF SumsOf
  <2>3. QED
    BY <2>1, <2>2, SumSwap
<1>7. SumUpTo(c, n1) = ValueOf(y, n2) * SumUpTo(vx, n1)
  <2>1. \A j \in 0 .. n1 - 1 : c[j] = ValueOf(y, n2) * vx[j]
    OBVIOUS
  <2> HIDE DEF c, vx
  <2>2. QED
    BY <1>2, <1>3, <2>1, SumTimes
<1> HIDE DEF c, vx, vy
<1>8. QED
  BY <1>3, <1>6, <1>7

-----------------------------------------------------------------------------
(***************************************************************************)
(* The scan.  Arithmetic of words and double words first.                  *)
(***************************************************************************)
LEMMA Division ==
  ASSUME NEW b \in Nat, b > 0, NEW x \in Nat
  PROVE  x \div b \in Nat /\ x % b \in 0 .. b - 1 /\ x = b * (x \div b) + (x % b)
BY Z3

LEMMA SmallQuotient ==
  ASSUME NEW b \in Nat, b > 0, NEW m \in Nat, NEW x \in Nat, x < m * b
  PROVE  x \div b < m
<1> DEFINE q == x \div b
           r == x % b
<1>1. q \in Nat /\ r \in Nat /\ x = b * q + r
  BY Division
<1> HIDE DEF q, r
<1>2. SUFFICES ASSUME q >= m PROVE FALSE
  BY <1>1 DEF q
<1>3. PICK d \in Nat : q = m + d
  <2>1. q - m \in Nat /\ q = m + (q - m)
    BY <1>1, <1>2
  <2>2. QED
    BY <2>1
<1>4. b * (m + d) = m * b + b * d /\ b * d \in Nat /\ m * b \in Nat
  BY SMT
<1>5. QED
  BY <1>1, <1>3, <1>4

LEMMA Doubles ==
    /\ B * B \in Nat /\ B * B > 0 /\ B - 1 \in Nat
    /\ \A a, b \in Word : a * b \in Nat /\ a * b < B * B
    /\ \A n \in Nat : 2 * n <= B => /\ n * (B - 1) \in Nat
                                    /\ 2 * (n * (B - 1)) + B <= B * B
<1> USE BaseFacts
<1>1. B * B \in Nat /\ B * B > 0 /\ B - 1 \in Nat
  BY SMT
<1>2. ASSUME NEW a \in Word, NEW b \in Word PROVE a * b \in Nat /\ a * b < B * B
  <2>1. a \in Nat /\ b \in Nat /\ a <= B - 1 /\ b <= B - 1
    BY DEF Word
  <2>2. \A x, y, z \in Nat : x <= y => x * z <= y * z
    BY SMT
  <2>3. a * b <= (B - 1) * b
    BY <1>1, <2>1, <2>2
  <2>4. (B - 1) * b = B * b - b /\ a * b \in Nat /\ B * b \in Nat
    BY <2>1, SMT
  <2>5. b * B <= B * B
    BY <1>1, <2>1, <2>2
  <2>6. b * B = B * b
    BY <2>1, SMT
  <2>7. a * b <= B * B - b
    BY <1>1, <2>1, <2>3, <2>4, <2>5, <2>6
  <2>8. CASE b = 0
    <3>1. a * b = 0
      BY <2>1, <2>8
    <3>2. QED
      BY <1>1, <3>1
  <2>9. CASE b # 0
    <3>1. b > 0
      BY <2>1, <2>9
    <3>2. QED
      BY <1>1, <2>1, <2>4, <2>7, <3>1
  <2>10. QED
    BY <2>8, <2>9
<1>3. ASSUME NEW n \in Nat, 2 * n <= B
      PROVE  n * (B - 1) \in Nat /\ 2 * (n * (B - 1)) + B <= B * B
  <2>1. \A x, y, z \in Nat : x <= y => x * z <= y * z
    BY SMT
  <2>2. (2 * n) * (B - 1) <= B * (B - 1)
    BY <1>1, <1>3, <2>1
  <2>3. (2 * n) * (B - 1) = 2 * (n * (B - 1)) /\ B * (B - 1) = B * B - B /\ n * (B - 1) \in Nat
    BY <1>1, SMT
  <2>4. QED
    BY <1>1, <2>2, <2>3
<1>4. QED
  BY <1>1, <1>2, <1>3

(***************************************************************************)
(* Columns whose halves are the sums of at most n halves of products, and  *)
(* what a column is worth.                                                 *)
(***************************************************************************)
Halves(low, high, size, n) ==
    \A i \in 0 .. size - 1 : low[i] \in 0 .. n * (B - 1) /\ high[i] \in 0 .. n * (B - 1)

Worth(low, high, size) == [i \in 0 .. size - 1 |-> Weight[i] * (low[i] + B * high[i])]

(***************************************************************************)
(* The carries between the columns: what one column leaves to the next.    *)
(***************************************************************************)
Carries(G, low, high, size) ==
    /\ G \in [Nat -> Nat] /\ G[0] = 0
    /\ \A i \in 0 .. size - 1 : G[i + 1] = high[i] + ((low[i] + G[i]) \div B)

LEMMA CarriesExist ==
  ASSUME NEW n \in Nat, 2 * n <= B, NEW size \in Nat, NEW low, NEW high,
         Halves(low, high, size, n)
  PROVE  \E G : /\ Carries(G, low, high, size)
               /\ \A i \in 0 .. size : G[i] <= n * (B - 1) + (B - 1)
<1> DEFINE D == B * B
           m == n * (B - 1)
           c == 0
           T == Nat
           h == [p \in Nat \X T |->
                   IF p[1] - 1 \in 0 .. size - 1
                   THEN high[p[1] - 1] + ((low[p[1] - 1] + p[2]) \div B) ELSE 0]
<1>1. /\ D \in Nat /\ D > 0 /\ m \in Nat /\ 2 * m + B <= D /\ B \in Nat /\ B > 0
      /\ \A i \in 0 .. size - 1 : low[i] \in 0 .. m /\ high[i] \in 0 .. m
  <2>1. m \in Nat /\ 2 * m + B <= D /\ D \in Nat /\ D > 0
    BY Doubles
  <2>2. QED
    BY <2>1, BaseFacts DEF Halves
<1>2. \A x \in Nat : x \div B \in Nat /\ x % B \in 0 .. B - 1 /\ x = B * (x \div B) + (x % B)
  BY <1>1, Division
<1>3. \A x \in Nat : x < D => x \div B \in 0 .. B - 1
  <2>1. ASSUME NEW x \in Nat, x < D PROVE x \div B \in 0 .. B - 1
    <3>1. x \div B < B
      BY <1>1, <2>1, SmallQuotient
    <3>2. QED
      BY <1>1, <1>2, <3>1
  <2>2. QED
    BY <2>1
<1>4. PICK G \in [Nat -> T] : Recurs(G, c, h)
  <2>1. ASSUME NEW p \in Nat \X Nat PROVE h[p] \in Nat
    <3>1. CASE p[1] - 1 \in 0 .. size - 1
      <4>1. low[p[1] - 1] + p[2] \in Nat /\ high[p[1] - 1] \in Nat
        BY <1>1, <3>1
      <4>2. (low[p[1] - 1] + p[2]) \div B \in Nat
        BY <1>2, <4>1
      <4>3. h[p] = high[p[1] - 1] + ((low[p[1] - 1] + p[2]) \div B)
        BY <3>1
      <4>4. QED
        BY <4>1, <4>2, <4>3
    <3>2. CASE ~(p[1] - 1 \in 0 .. size - 1)
      BY <3>2
    <3>3. QED
      BY <3>1, <3>2
  <2>2. h \in [Nat \X T -> T] /\ c \in T
    BY <2>1
  <2> HIDE DEF h, T, c
  <2>3. QED
    BY <2>2, Recursion
<1>5. G[0] = 0 /\ \A i \in Nat : G[i] \in Nat
  BY <1>4 DEF Recurs
<1>6. ASSUME NEW i \in 0 .. size - 1 PROVE G[i + 1] = high[i] + ((low[i] + G[i]) \div B)
  <2>1. G[i + 1] = h[<<i + 1, G[i]>>]
    <3> HIDE DEF h, c, T
    <3>1. i \in Nat /\ \A k \in Nat : G[k + 1] = h[<<k + 1, G[k]>>]
      BY <1>4 DEF Recurs
    <3>2. QED
      BY <3>1
  <2>2. i + 1 \in Nat /\ (i + 1) - 1 = i /\ G[i] \in Nat
    BY <1>5
  <2>3. h[<<i + 1, G[i]>>] = high[i] + ((low[i] + G[i]) \div B)
    BY <2>2
  <2> HIDE DEF h
  <2>4. QED
    BY <2>1, <2>3
<1> HIDE DEF h, c, m, D
<1>7. \A i \in 0 .. size : G[i] <= m + (B - 1)
  <2> DEFINE S == {i \in Nat : i <= size => G[i] <= m + (B - 1)}
  <2>1. 0 \in S
    BY <1>1, <1>5
  <2>2. ASSUME NEW i \in Nat, i \in S PROVE i + 1 \in S
    <3>1. SUFFICES ASSUME i + 1 <= size PROVE G[i + 1] <= m + (B - 1)
      OBVIOUS
    <3>2. i \in 0 .. size - 1 /\ G[i] <= m + (B - 1)
      BY <2>2, <3>1
    <3>3. low[i] + G[i] \in Nat /\ low[i] + G[i] < D /\ high[i] \in 0 .. m
      BY <1>1, <1>5, <3>2
    <3>4. (low[i] + G[i]) \div B \in 0 .. B - 1
      BY <1>3, <3>3
    <3>5. G[i + 1] = high[i] + ((low[i] + G[i]) \div B)
      BY <1>6, <3>2
    <3>6. QED
      BY <1>1, <3>3, <3>4, <3>5
  <2>3. \A i \in Nat : i \in S
    <3> HIDE DEF S
    <3>1. QED
      BY <2>1, <2>2, Induction
  <2>4. QED
    BY <2>3
<1>8. G \in [Nat -> Nat]
  BY <1>4 DEF T
<1>9. QED
  BY <1>5, <1>6, <1>7, <1>8 DEF Carries, m

(***************************************************************************)
(* The words below the carries, and the last carry, are worth what the     *)
(* columns are.                                                            *)
(***************************************************************************)
LEMMA CarriesWorth ==
  ASSUME NEW n \in Nat, NEW size \in Nat, NEW low, NEW high, NEW G, NEW out,
         Halves(low, high, size, n), Carries(G, low, high, size),
         \A i \in 0 .. size - 1 : out[i] = (low[i] + G[i]) % B
  PROVE  ValueOf(out, size) + G[size] * Weight[size] = SumUpTo(Worth(low, high, size), size)
<1> DEFINE m == n * (B - 1)
           Sum(i) == low[i] + G[i]
           terms == [i \in 0 .. size - 1 |-> out[i] * Weight[i]]
           worth == Worth(low, high, size)
<1>1. /\ B \in Nat /\ B > 0
      /\ \A i \in 0 .. size - 1 : low[i] \in 0 .. m /\ high[i] \in 0 .. m
  BY BaseFacts DEF Halves
<1>2. \A x \in Nat : x \div B \in Nat /\ x % B \in 0 .. B - 1 /\ x = B * (x \div B) + (x % B)
  BY <1>1, Division
<1>5. G[0] = 0 /\ \A i \in Nat : G[i] \in Nat
  BY DEF Carries
<1>6. ASSUME NEW i \in 0 .. size - 1 PROVE G[i + 1] = high[i] + ((low[i] + G[i]) \div B)
  BY DEF Carries
<1>7. m \in Nat
  <2>1. B - 1 \in Nat
    BY BaseFacts
  <2>2. QED
    BY <2>1, SMT
<1> HIDE DEF m
<1>8. \A i \in 0 .. size - 1 : Sum(i) \in Nat /\ out[i] = Sum(i) % B
  BY <1>1, <1>5, <1>7
<1>14. \A i \in 0 .. size - 1 : out[i] = Sum(i) % B /\ out[i] \in 0 .. B - 1
  <2> HIDE DEF Sum
  <2>1. QED
    BY <1>2, <1>8
<1>16. Ints(terms, size) /\ Ints(worth, size)
  <2>1. \A i \in 0 .. size - 1 : out[i] \in Nat /\ Weight[i] \in Nat /\ low[i] \in Nat
                                  /\ high[i] \in Nat /\ B \in Nat
    <3>1. ASSUME NEW i \in 0 .. size - 1
          PROVE  out[i] \in Nat /\ Weight[i] \in Nat /\ low[i] \in Nat /\ high[i] \in Nat
      <4>1. out[i] \in 0 .. B - 1 /\ i \in Nat
        BY <1>14
      <4>2. low[i] \in 0 .. m /\ high[i] \in 0 .. m
        BY <1>1
      <4>3. Weight[i] \in Nat
        BY <4>1, WeightFacts
      <4>4. QED
        BY <1>1, <1>7, <4>1, <4>2, <4>3
    <3>2. QED
      BY <1>1, <3>1
  <2>2. \A a, b \in Nat : a * b \in Nat
    BY SMT
  <2>3. \A i \in 0 .. size - 1 : out[i] * Weight[i] \in Nat /\ B * high[i] \in Nat
    BY <2>1, <2>2
  <2>4. \A i \in 0 .. size - 1 : low[i] + B * high[i] \in Nat
    BY <2>1, <2>3
  <2>5. \A i \in 0 .. size - 1 : Weight[i] * (low[i] + B * high[i]) \in Nat
    BY <2>1, <2>2, <2>4
  <2>6. QED
    BY <2>3, <2>5 DEF Ints, Worth
<1> DEFINE S == {k \in Nat : k <= size =>
                   SumUpTo(terms, k) + G[k] * Weight[k] = SumUpTo(worth, k)}
<1>17. 0 \in S
  <2>1. SumUpTo(terms, 0) = 0 /\ SumUpTo(worth, 0) = 0
    BY SumZero
  <2>2. G[0] * Weight[0] = 0
    BY <1>5, WeightFacts
  <2> HIDE DEF terms, worth
  <2>3. QED
    BY <2>1, <2>2
<1>18. ASSUME NEW k \in Nat, k \in S PROVE k + 1 \in S
  <2>1. SUFFICES ASSUME k + 1 <= size
                 PROVE  SumUpTo(terms, k + 1) + G[k + 1] * Weight[k + 1]
                           = SumUpTo(worth, k + 1)
    OBVIOUS
  <2> DEFINE w == Weight[k]
             g == G[k]
             l == low[k]
             hi == high[k]
             q == Sum(k) \div B
             o == Sum(k) % B
  <2>2. k \in 0 .. size - 1
    BY <2>1
  <2>3. /\ w \in Nat /\ g \in Nat /\ l \in Nat /\ hi \in Nat /\ q \in Nat /\ o \in Nat
        /\ B \in Nat /\ l + g = B * q + o
    <3>1. Sum(k) \in Nat /\ Sum(k) = l + g
      BY <1>8, <2>2
    <3> HIDE DEF Sum
    <3>2. q \in Nat /\ o \in Nat /\ Sum(k) = B * q + o
      BY <1>2, <3>1
    <3>3. w \in Nat /\ g \in Nat /\ B \in Nat
      BY <1>1, <1>5, WeightFacts
    <3>4. low[k] \in 0 .. m /\ high[k] \in 0 .. m
      BY <1>1, <2>2
    <3>5. l \in Nat /\ hi \in Nat
      BY <1>1, <1>7, <3>4
    <3> HIDE DEF w, g, l, hi, q, o
    <3>6. QED
      BY <3>1, <3>2, <3>3, <3>5
  <2>4. terms[k] = o * w /\ worth[k] = w * (l + B * hi)
    BY <1>14, <2>2 DEF Worth
  <2>5. G[k + 1] = hi + q /\ Weight[k + 1] = B * w
    BY <1>6, <2>2, WeightFacts
  <2>6. Ints(terms, k + 1) /\ Ints(worth, k + 1)
    <3> HIDE DEF terms, worth
    <3>1. QED
      BY <1>16, <2>1 DEF Ints
  <2>7. SumUpTo(terms, k) + g * w = SumUpTo(worth, k)
    BY <1>18, <2>1
  <2> HIDE DEF terms, worth, w, g, l, hi, q, o, Sum
  <2>8. /\ SumUpTo(terms, k + 1) = SumUpTo(terms, k) + terms[k]
        /\ SumUpTo(worth, k + 1) = SumUpTo(worth, k) + worth[k]
        /\ SumUpTo(terms, k) \in Int /\ SumUpTo(worth, k) \in Int
    BY <2>6, SumNext
  <2>9. o * w + (hi + q) * (B * w) = w * (l + B * hi) + g * w
    <3>1. (hi + q) * (B * w) = (B * hi) * w + (B * q) * w
      BY <2>3, SMT
    <3>2. w * (l + B * hi) = l * w + (B * hi) * w
      BY <2>3, SMT
    <3>3. l * w + g * w = (B * q) * w + o * w
      <4>1. \A a, b, x, y \in Nat : a + b = x + y => a * w + b * w = x * w + y * w
        <5>1. ASSUME NEW a \in Nat, NEW b \in Nat, NEW x \in Nat, NEW y \in Nat, a + b = x + y
              PROVE  a * w + b * w = x * w + y * w
          <6>1. (a + b) * w = a * w + b * w /\ (x + y) * w = x * w + y * w
            BY <2>3, SMT
          <6>2. QED
            BY <5>1, <6>1
        <5>2. QED
          BY <5>1
      <4>2. B * q \in Nat
        BY <2>3, SMT
      <4>3. QED
        BY <2>3, <4>1, <4>2
    <3>4. (B * hi) * w \in Int /\ (B * q) * w \in Int /\ o * w \in Int /\ l * w \in Int /\ g * w \in Int
      BY <2>3, SMT
    <3>5. QED
      BY <3>1, <3>2, <3>3, <3>4
  <2>10. o * w \in Int /\ (hi + q) * (B * w) \in Int /\ w * (l + B * hi) \in Int /\ g * w \in Int
    BY <2>3, SMT
  <2>11. G[k + 1] * Weight[k + 1] = (hi + q) * (B * w)
    BY <2>5
  <2>12. QED
    BY <2>4, <2>7, <2>8, <2>9, <2>10, <2>11
<1>19. \A k \in Nat : k \in S
  <2> HIDE DEF S
  <2>1. QED
    BY <1>17, <1>18, Induction
<1>20. SumUpTo(terms, size) + G[size] * Weight[size] = SumUpTo(worth, size)
  BY <1>19
<1>21. SumUpTo(terms, size) = ValueOf(out, size)
  BY DEF ValueOf
<1>22. QED
  BY <1>20, <1>21

(***************************************************************************)
(* The words that the scan leaves and the carry out of the last column are *)
(* worth what the columns are: the double words never overflow.            *)
(***************************************************************************)
LEMMA ScanSum ==
  ASSUME NEW n \in Nat, 2 * n <= B, NEW size \in Nat, NEW low, NEW high,
         Halves(low, high, size, n)
  PROVE  /\ ScanColumns(low, high, size) \in Number(size)
         /\ \E rest \in Nat :
               ValueOf(ScanColumns(low, high, size), size) + rest * Weight[size]
                  = SumUpTo(Worth(low, high, size), size)
<1> DEFINE D == B * B
           m == n * (B - 1)
<1>1. /\ D \in Nat /\ D > 0 /\ m \in Nat /\ 2 * m + B <= D /\ B \in Nat /\ B > 0
      /\ \A i \in 0 .. size - 1 : low[i] \in 0 .. m /\ high[i] \in 0 .. m
  <2>1. m \in Nat /\ 2 * m + B <= D /\ D \in Nat /\ D > 0
    BY Doubles
  <2>2. QED
    BY <2>1, BaseFacts DEF Halves
<1>2. \A x \in Nat : x \div B \in Nat /\ x % B \in 0 .. B - 1 /\ x = B * (x \div B) + (x % B)
  BY <1>1, Division
<1>4. PICK G : /\ Carries(G, low, high, size)
               /\ \A i \in 0 .. size : G[i] <= m + (B - 1)
  BY CarriesExist
<1>5. G[0] = 0 /\ \A i \in Nat : G[i] \in Nat
  BY <1>4 DEF Carries
<1>6. ASSUME NEW i \in 0 .. size - 1 PROVE G[i + 1] = high[i] + ((low[i] + G[i]) \div B)
  BY <1>4 DEF Carries
<1> HIDE DEF m, D
<1>7. \A i \in 0 .. size : G[i] <= m + (B - 1)
  BY <1>4
<1> DEFINE Sum(i) == low[i] + G[i]
<1>8. \A i \in 0 .. size - 1 :
         /\ Sum(i) \in Nat /\ Sum(i) < D /\ Sum(i) % D = Sum(i)
         /\ high[i] \in Nat /\ high[i] % D = high[i]
  <2>1. ASSUME NEW i \in 0 .. size - 1
        PROVE  Sum(i) \in Nat /\ Sum(i) < D /\ high[i] \in Nat /\ high[i] < D
    BY <1>1, <1>5, <1>7
  <2>2. \A x \in Nat : x < D => x % D = x
    BY <1>1, Z3
  <2> HIDE DEF Sum
  <2>3. QED
    BY <2>1, <2>2
<1> DEFINE Def(acc) ==
             acc = [i \in 0 .. size - 1 |->
                      [low |-> (low[i] + (IF i = 0 THEN 0 ELSE NextLow(acc[i - 1]))) % (B * B),
                       high |-> high[i] % (B * B)]]
           known == [i \in 0 .. size - 1 |-> [low |-> Sum(i), high |-> high[i]]]
           run == CHOOSE acc : Def(acc)
<1>9. ASSUME NEW i \in 0 .. size - 1, NEW a, a = [low |-> Sum(i), high |-> high[i]]
      PROVE  NextLow(a) = G[i + 1]
  <2>1. NextLow(a) = (high[i] + (Sum(i) \div B)) % D
    BY <1>9 DEF NextLow, D
  <2>2. G[i + 1] = high[i] + (Sum(i) \div B) /\ G[i + 1] \in Nat /\ G[i + 1] < D
    <3>1. G[i + 1] <= m + (B - 1) /\ G[i + 1] \in Nat
      BY <1>5, <1>7
    <3>2. QED
      BY <1>1, <1>6, <3>1
  <2>3. \A x \in Nat : x < D => x % D = x
    BY <1>1, Z3
  <2> HIDE DEF Sum
  <2>4. QED
    BY <2>1, <2>2, <2>3
<1>10. Def(known)
  <2>1. ASSUME NEW i \in 0 .. size - 1
        PROVE  known[i] = [low |-> (low[i] + (IF i = 0 THEN 0 ELSE NextLow(known[i - 1]))) % D,
                           high |-> high[i] % D]
    <3>1. (IF i = 0 THEN 0 ELSE NextLow(known[i - 1])) = G[i]
      <4>1. CASE i = 0
        BY <1>5, <4>1
      <4>2. CASE i # 0
        <5>1. i - 1 \in 0 .. size - 1 /\ (i - 1) + 1 = i
          BY <4>2
        <5>2. known[i - 1] = [low |-> Sum(i - 1), high |-> high[i - 1]]
          BY <5>1
        <5> HIDE DEF known, Sum
        <5>3. NextLow(known[i - 1]) = G[(i - 1) + 1]
          BY <1>9, <5>1, <5>2
        <5>4. QED
          BY <4>2, <5>1, <5>3
      <4>3. QED
        BY <4>1, <4>2
    <3>2. known[i] = [low |-> low[i] + G[i], high |-> high[i]]
      OBVIOUS
    <3>3. (low[i] + G[i]) % D = low[i] + G[i] /\ high[i] % D = high[i]
      BY <1>8
    <3> HIDE DEF known
    <3>4. QED
      BY <3>1, <3>2, <3>3
  <2>2. known = [i \in 0 .. size - 1 |-> known[i]]
    OBVIOUS
  <2> HIDE DEF known
  <2>3. QED
    BY <2>1, <2>2 DEF D
<1>11. Def(run)
  <2> HIDE DEF Def, known
  <2>1. QED
    BY <1>10
<1>12. ScanColumns(low, high, size) = [i \in 0 .. size - 1 |-> run[i].low % B]
  BY DEF ScanColumns
<1> HIDE DEF run, known
<1>13. \A i \in 0 .. size - 1 : run[i] = [low |-> Sum(i), high |-> high[i]]
  <2> DEFINE S == {i \in Nat : i <= size - 1 => run[i] = [low |-> Sum(i), high |-> high[i]]}
  <2>1. ASSUME NEW i \in 0 .. size - 1,
               (IF i = 0 THEN 0 ELSE NextLow(run[i - 1])) = G[i]
        PROVE  run[i] = [low |-> Sum(i), high |-> high[i]]
    <3>1. run[i] = [low |-> (low[i] + (IF i = 0 THEN 0 ELSE NextLow(run[i - 1]))) % D,
                    high |-> high[i] % D]
      BY <1>11 DEF D
    <3>2. (low[i] + G[i]) % D = low[i] + G[i] /\ high[i] % D = high[i]
      BY <1>8
    <3>3. QED
      BY <2>1, <3>1, <3>2
  <2>2. 0 \in S
    <3>1. SUFFICES ASSUME 0 <= size - 1 PROVE run[0] = [low |-> Sum(0), high |-> high[0]]
      OBVIOUS
    <3>2. QED
      BY <1>5, <2>1, <3>1
  <2>3. ASSUME NEW i \in Nat, i \in S PROVE i + 1 \in S
    <3>1. SUFFICES ASSUME i + 1 <= size - 1
                   PROVE  run[i + 1] = [low |-> Sum(i + 1), high |-> high[i + 1]]
      OBVIOUS
    <3>2. i \in 0 .. size - 1 /\ i + 1 \in 0 .. size - 1 /\ i + 1 # 0 /\ (i + 1) - 1 = i
      BY <3>1
    <3>3. run[i] = [low |-> Sum(i), high |-> high[i]]
      BY <2>3, <3>1
    <3>4. NextLow(run[i]) = G[i + 1]
      <4> HIDE DEF Sum
      <4>1. QED
        BY <1>9, <3>2, <3>3
    <3> HIDE DEF Sum
    <3>5. QED
      BY <2>1, <3>2, <3>4
  <2>4. \A i \in Nat : i \in S
    <3> HIDE DEF S
    <3>1. QED
      BY <2>2, <2>3, Induction
  <2>5. QED
    BY <2>4
<1> DEFINE out == ScanColumns(low, high, size)
<1>14. \A i \in 0 .. size - 1 : out[i] = Sum(i) % B
  <2>1. ASSUME NEW i \in 0 .. size - 1 PROVE run[i].low = Sum(i)
    <3> HIDE DEF Sum
    <3>1. run[i] = [low |-> Sum(i), high |-> high[i]]
      BY <1>13
    <3>2. QED
      BY <3>1
  <2>2. ASSUME NEW i \in 0 .. size - 1 PROVE out[i] = run[i].low % B
    BY <1>12
  <2> HIDE DEF Sum, out
  <2>3. QED
    BY <2>1, <2>2
<1>15. out \in Number(size)
  <2>1. \A i \in 0 .. size - 1 : Sum(i) % B \in Word
    <3> HIDE DEF Sum
    <3>1. QED
      BY <1>2, <1>8 DEF Word
  <2>2. out = [i \in 0 .. size - 1 |-> out[i]]
    BY <1>12
  <2> HIDE DEF out, Sum
  <2>3. QED
    BY <1>14, <2>1, <2>2 DEF Number
<1> HIDE DEF out
<1>22. ValueOf(out, size) + G[size] * Weight[size] = SumUpTo(Worth(low, high, size), size)
  <2>1. \A i \in 0 .. size - 1 : out[i] = (low[i] + G[i]) % B
    BY <1>14
  <2>2. QED
    BY <1>4, <2>1, CarriesWorth
<1>23. G[size] \in Nat
  BY <1>5
<1>24. QED
  BY <1>15, <1>22, <1>23 DEF out

(***************************************************************************)
(* The number that words stand for is below the weight of the next word.   *)
(***************************************************************************)
LEMMA ValueBound ==
  ASSUME NEW n \in Nat, NEW a \in Number(n)
  PROVE  ValueOf(a, n) \in 0 .. Weight[n] - 1
<1> DEFINE t == [i \in 0 .. n - 1 |-> a[i] * Weight[i]]
           S == {k \in Nat : k <= n => SumUpTo(t, k) \in 0 .. Weight[k] - 1}
<1>1. \A i \in Nat : Weight[i] \in Nat /\ Weight[i] > 0 /\ Weight[i + 1] = B * Weight[i]
  BY WeightFacts
<1>2. \A i \in 0 .. n - 1 : a[i] \in 0 .. B - 1 /\ t[i] = a[i] * Weight[i]
  BY DEF Number, Word
<1>3. \A x, y \in Nat : x * y \in Nat
  BY SMT
<1>4. Ints(t, n)
  <2> HIDE DEF t
  <2>1. ASSUME NEW i \in 0 .. n - 1 PROVE t[i] \in Int
    BY <1>1, <1>2, <1>3, BaseFacts
  <2>2. QED
    BY <2>1 DEF Ints
<1> HIDE DEF t
<1>5. 0 \in S
  BY SumZero, WeightFacts
<1>6. ASSUME NEW k \in Nat, k \in S PROVE k + 1 \in S
  <2>1. SUFFICES ASSUME k + 1 <= n PROVE SumUpTo(t, k + 1) \in 0 .. Weight[k + 1] - 1
    OBVIOUS
  <2> DEFINE w == Weight[k]
             d == a[k]
             s == SumUpTo(t, k)
  <2>2. k \in 0 .. n - 1 /\ s \in 0 .. w - 1 /\ w \in Nat /\ d \in 0 .. B - 1
    BY <1>1, <1>2, <1>6, <2>1
  <2>3. Ints(t, k + 1)
    BY <1>4, <2>1 DEF Ints
  <2>4. SumUpTo(t, k + 1) = s + d * w
    BY <1>2, <2>2, <2>3, SumNext
  <2>5. Weight[k + 1] = B * w
    BY <1>1
  <2> HIDE DEF s, d, w
  <2>6. d * w <= B * w - w /\ d * w \in Nat /\ B * w \in Nat
    <3>1. \A x, y, z \in Nat : x <= y => x * z <= y * z
      BY SMT
    <3>2. d * w <= (B - 1) * w
      BY <2>2, <3>1, BaseFacts
    <3>3. (B - 1) * w = B * w - w /\ B * w \in Nat /\ d * w \in Nat
      BY <2>2, BaseFacts, SMT
    <3>4. QED
      BY <3>2, <3>3
  <2>7. QED
    BY <2>2, <2>4, <2>5, <2>6
<1>7. \A k \in Nat : k \in S
  <2> HIDE DEF S
  <2>1. QED
    BY <1>5, <1>6, Induction
<1>8. n \in S /\ ValueOf(a, n) = SumUpTo(t, n)
  BY <1>7 DEF ValueOf, t
<1>9. QED
  BY <1>8

(***************************************************************************)
(* The halves of a column's products: each sum is at most n1 words, and    *)
(* together they are the column.                                           *)
(***************************************************************************)
LEMMA ColumnHalves ==
  ASSUME NEW n1 \in Nat, NEW n2 \in Nat, NEW x \in Number(n1), NEW y \in Number(n2),
         NEW i \in Nat
  PROVE  /\ LowSum(x, y, i, Column(i, n1, n2)) \in 0 .. n1 * (B - 1)
         /\ HighSum(x, y, i, Column(i, n1, n2)) \in 0 .. n1 * (B - 1)
         /\ LowSum(x, y, i, Column(i, n1, n2)) + B * HighSum(x, y, i, Column(i, n1, n2))
               = ColumnSum(x, y, i, n1, n2)
<1> DEFINE S == Column(i, n1, n2)
           l == [j \in 0 .. i |-> IF j \in S THEN (x[j] * y[i - j]) % B ELSE 0]
           h == [j \in 0 .. i |-> IF j \in S THEN (x[j] * y[i - j]) \div B ELSE 0]
           bh == [j \in 0 .. i |-> B * h[j]]
           t == ColumnTerms(x, y, i, n1, n2)
<1>1. LowSum(x, y, i, S) = SumUpTo(l, i + 1) /\ HighSum(x, y, i, S) = SumUpTo(h, i + 1)
      /\ ColumnSum(x, y, i, n1, n2) = SumUpTo(t, i + 1)
  BY DEF LowSum, HighSum, ColumnSum
<1>2. B \in Nat /\ B > 0 /\ B - 1 \in Nat
  BY BaseFacts
<1>3. ASSUME NEW j \in 0 .. i
      PROVE  /\ l[j] \in 0 .. B - 1 /\ h[j] \in 0 .. B - 1
             /\ t[j] = l[j] + B * h[j]
             /\ j >= n1 => l[j] = 0 /\ h[j] = 0
  <2>1. l[j] = (IF j \in S THEN (x[j] * y[i - j]) % B ELSE 0)
        /\ h[j] = (IF j \in S THEN (x[j] * y[i - j]) \div B ELSE 0)
        /\ t[j] = (IF j \in S THEN x[j] * y[i - j] ELSE 0)
    BY DEF ColumnTerms
  <2>2. CASE j \in S
    <3> DEFINE p == x[j] * y[i - j]
    <3>1. j \in 0 .. n1 - 1 /\ i - j \in 0 .. n2 - 1
      BY <2>2 DEF Column
    <3>2. x[j] \in Word /\ y[i - j] \in Word
      BY <3>1 DEF Number
    <3>3. p \in Nat /\ p < B * B
      BY <3>2, Doubles
    <3> HIDE DEF p
    <3>4. p % B \in 0 .. B - 1 /\ p \div B \in Nat /\ p = B * (p \div B) + (p % B)
      BY <1>2, <3>3, Division
    <3>5. p \div B < B
      BY <1>2, <3>3, SmallQuotient
    <3>6. l[j] = p % B /\ h[j] = p \div B /\ t[j] = p
      BY <2>1, <2>2 DEF p
    <3>7. l[j] + B * h[j] = p
      <4>1. B * (p \div B) \in Int
        BY <1>2, <3>4
      <4>2. QED
        BY <3>4, <3>6, <4>1
    <3> HIDE DEF l, h, t
    <3>8. QED
      BY <1>2, <3>1, <3>4, <3>5, <3>6, <3>7
  <2>3. CASE j \notin S
    BY <1>2, <2>1, <2>3
  <2>4. QED
    BY <2>2, <2>3
<1>4. Ints(l, i + 1) /\ Ints(h, i + 1) /\ Ints(bh, i + 1)
      /\ (\A j \in 0 .. (i + 1) - 1 : t[j] = l[j] + bh[j] /\ bh[j] = B * h[j])
  <2>1. \A j \in 0 .. i : bh[j] = B * h[j]
    OBVIOUS
  <2> HIDE DEF l, h, t, bh
  <2>2. ASSUME NEW j \in 0 .. i
        PROVE  l[j] \in Int /\ h[j] \in Int /\ bh[j] \in Int /\ t[j] = l[j] + bh[j]
    <3>1. l[j] \in Int /\ h[j] \in Int /\ bh[j] = B * h[j] /\ t[j] = l[j] + B * h[j]
      BY <1>3, <2>1
    <3>2. QED
      BY <1>2, <3>1
  <2>3. 0 .. (i + 1) - 1 = 0 .. i
    OBVIOUS
  <2>4. QED
    BY <2>1, <2>2, <2>3 DEF Ints
<1>5. ASSUME NEW f, \A j \in 0 .. i : f[j] \in 0 .. B - 1 /\ (j >= n1 => f[j] = 0)
      PROVE  SumUpTo(f, i + 1) \in 0 .. n1 * (B - 1)
  <2> DEFINE g == [j \in 0 .. n1 - 1 |-> IF j < i + 1 THEN f[j] ELSE 0]
  <2>1. \A j \in 0 .. n1 - 1 : g[j] \in 0 .. B - 1 /\ g[j] = IF j < i + 1 THEN f[j] ELSE 0
    <3>1. ASSUME NEW j \in 0 .. n1 - 1
          PROVE  g[j] = (IF j < i + 1 THEN f[j] ELSE 0) /\ g[j] \in 0 .. B - 1
      <4>1. g[j] = (IF j < i + 1 THEN f[j] ELSE 0)
        OBVIOUS
      <4>2. j < i + 1 => f[j] \in 0 .. B - 1
        BY <1>5
      <4> HIDE DEF g
      <4>3. QED
        BY <1>2, <4>1, <4>2
    <3> HIDE DEF g
    <3>2. QED
      BY <3>1
  <2>2. Ints(f, i + 1) /\ \A j \in 0 .. (i + 1) - 1 : j >= n1 => f[j] = 0
    BY <1>5 DEF Ints
  <2> HIDE DEF g
  <2>3. SumUpTo(f, i + 1) = SumUpTo(g, n1)
    <3>1. i + 1 \in Nat
      OBVIOUS
    <3>2. \A j \in 0 .. n1 - 1 : g[j] = IF j < i + 1 THEN f[j] ELSE 0
      BY <2>1
    <3>3. QED
      BY <2>2, <3>1, <3>2, SumFew
  <2>4. SumUpTo(g, n1) \in 0 .. n1 * (B - 1)
    <3>1. \A j \in 0 .. n1 - 1 : g[j] \in 0 .. B - 1
      BY <2>1
    <3>2. QED
      BY <1>2, <3>1, SumBound
  <2>5. QED
    BY <2>3, <2>4
<1> HIDE DEF l, h, bh, t
<1>6. SumUpTo(l, i + 1) \in 0 .. n1 * (B - 1) /\ SumUpTo(h, i + 1) \in 0 .. n1 * (B - 1)
  <2>1. \A j \in 0 .. i : l[j] \in 0 .. B - 1 /\ (j >= n1 => l[j] = 0)
    BY <1>3
  <2>2. \A j \in 0 .. i : h[j] \in 0 .. B - 1 /\ (j >= n1 => h[j] = 0)
    BY <1>3
  <2>3. QED
    BY <1>5, <2>1, <2>2
<1>7. SumUpTo(t, i + 1) = SumUpTo(l, i + 1) + SumUpTo(bh, i + 1)
  <2>1. \A j \in 0 .. (i + 1) - 1 : t[j] = l[j] + bh[j]
    BY <1>4
  <2>2. i + 1 \in Nat
    OBVIOUS
  <2>3. QED
    BY <1>4, <2>1, <2>2, SumPlus
<1>8. SumUpTo(bh, i + 1) = B * SumUpTo(h, i + 1)
  <2>1. \A j \in 0 .. (i + 1) - 1 : bh[j] = B * h[j]
    BY <1>4
  <2>2. i + 1 \in Nat /\ B \in Int
    BY <1>2
  <2>3. QED
    BY <1>4, <2>1, <2>2, SumTimes
<1>9. QED
  BY <1>1, <1>6, <1>7, <1>8

(***************************************************************************)
(* The product of the kernels, kept to size words: when no column is left  *)
(* out, it is the product modulo what size words hold.                     *)
(***************************************************************************)
LEMMA ProductScanSum ==
  ASSUME NEW n1 \in Nat, NEW n2 \in Nat, NEW size \in Nat, 2 * n1 <= B, n2 > 0,
         n1 + n2 <= size + 1, NEW x \in Number(n1), NEW y \in Number(n2)
  PROVE  /\ ProductScan(x, y, n1, n2, size) \in Number(size)
         /\ \E rest \in Nat :
               ValueOf(ProductScan(x, y, n1, n2, size), size) + rest * Weight[size]
                  = ValueOf(x, n1) * ValueOf(y, n2)
<1> DEFINE low == [i \in 0 .. size - 1 |-> LowSum(x, y, i, Column(i, n1, n2))]
           high == [i \in 0 .. size - 1 |-> HighSum(x, y, i, Column(i, n1, n2))]
           p == Worth(low, high, size)
<1>1. ProductScan(x, y, n1, n2, size) = ScanColumns(low, high, size)
  BY DEF ProductScan
<1>2. ASSUME NEW i \in 0 .. size - 1
      PROVE  /\ low[i] \in 0 .. n1 * (B - 1) /\ high[i] \in 0 .. n1 * (B - 1)
             /\ low[i] + B * high[i] = ColumnSum(x, y, i, n1, n2)
  <2>1. i \in Nat
    OBVIOUS
  <2>2. low[i] = LowSum(x, y, i, Column(i, n1, n2))
        /\ high[i] = HighSum(x, y, i, Column(i, n1, n2))
    OBVIOUS
  <2>3. /\ LowSum(x, y, i, Column(i, n1, n2)) \in 0 .. n1 * (B - 1)
        /\ HighSum(x, y, i, Column(i, n1, n2)) \in 0 .. n1 * (B - 1)
        /\ LowSum(x, y, i, Column(i, n1, n2)) + B * HighSum(x, y, i, Column(i, n1, n2))
              = ColumnSum(x, y, i, n1, n2)
    BY <2>1, ColumnHalves
  <2> HIDE DEF low, high
  <2>4. QED
    BY <2>2, <2>3
<1> HIDE DEF low, high
<1>3. Halves(low, high, size, n1)
  BY <1>2 DEF Halves
<1>4. \A i \in 0 .. size - 1 : p[i] = Weight[i] * ColumnSum(x, y, i, n1, n2)
  BY <1>2 DEF Worth
<1>5. Ints(x, n1) /\ Ints(y, n2)
  BY BaseFacts DEF Ints, Number, Word
<1> HIDE DEF p
<1>6. SumUpTo(p, size) = ValueOf(x, n1) * ValueOf(y, n2)
  BY <1>4, <1>5, ColumnsProduct
<1>7. /\ ScanColumns(low, high, size) \in Number(size)
      /\ \E rest \in Nat :
            ValueOf(ScanColumns(low, high, size), size) + rest * Weight[size]
               = SumUpTo(p, size)
  BY <1>3, ScanSum DEF p
<1>8. QED
  BY <1>1, <1>6, <1>7

(***************************************************************************)
(* The words of ProductScan are those of the product when there is room    *)
(* for all of it (mulProductScan320to320, mulProductScan352to352): no      *)
(* double word overflows, no carry is lost between columns.                *)
(***************************************************************************)
THEOREM ProductScanExact ==
  ASSUME NEW n1 \in Nat, NEW n2 \in Nat, NEW size \in Nat, 2 * n1 <= B, n2 > 0,
         n1 + n2 <= size, NEW x \in Number(n1), NEW y \in Number(n2)
  PROVE  /\ ProductScan(x, y, n1, n2, size) \in Number(size)
         /\ ValueOf(ProductScan(x, y, n1, n2, size), size) = ValueOf(x, n1) * ValueOf(y, n2)
<1> DEFINE out == ProductScan(x, y, n1, n2, size)
           v == ValueOf(out, size)
           a == ValueOf(x, n1)
           b == ValueOf(y, n2)
           w == Weight[size]
<1>1. out \in Number(size) /\ \E rest \in Nat : v + rest * w = a * b
  <2>1. n1 + n2 <= size + 1
    OBVIOUS
  <2>2. QED
    BY <2>1, ProductScanSum
<1>2. PICK rest \in Nat : v + rest * w = a * b
  BY <1>1
<1> HIDE DEF out
<1>3. v \in 0 .. w - 1 /\ a \in 0 .. Weight[n1] - 1 /\ b \in 0 .. Weight[n2] - 1
  BY <1>1, ValueBound
<1>4. w \in Nat /\ Weight[n1] \in Nat /\ Weight[n2] \in Nat /\ w > 0
  BY WeightFacts
<1>5. Weight[n1] * Weight[n2] <= w
  <2>1. PICK d \in Nat : size = (n1 + n2) + d
    <3>1. size - (n1 + n2) \in Nat /\ size = (n1 + n2) + (size - (n1 + n2))
      OBVIOUS
    <3>2. QED
      BY <3>1
  <2>2. w = (Weight[n1] * Weight[n2]) * Weight[d]
    <3>1. n1 + n2 \in Nat
      OBVIOUS
    <3>2. Weight[(n1 + n2) + d] = Weight[n1 + n2] * Weight[d]
      BY <3>1, WeightPlus
    <3>3. Weight[n1 + n2] = Weight[n1] * Weight[n2]
      BY WeightPlus
    <3>4. QED
      BY <2>1, <3>2, <3>3
  <2>3. Weight[d] \in Nat /\ Weight[d] > 0
    BY WeightFacts
  <2>4. \A e, f \in Nat : f > 0 => e <= e * f
    BY SMT
  <2>5. Weight[n1] * Weight[n2] \in Nat
    BY <1>4, SMT
  <2>6. QED
    BY <2>2, <2>3, <2>4, <2>5
<1>6. a * b < w
  <2> DEFINE u == Weight[n1]
             z == Weight[n2]
  <2>1. a \in Nat /\ b \in Nat /\ u \in Nat /\ z \in Nat /\ a < u /\ b < z /\ u * z <= w
    BY <1>3, <1>4, <1>5
  <2> HIDE DEF a, b, u, z, w
  <2>2. \A e, f, g \in Nat : e <= f => e * g <= f * g
    BY SMT
  <2>3. a * b <= u * b
    BY <2>1, <2>2
  <2>4. b * u <= (z - 1) * u
    BY <2>1, <2>2
  <2>5. b * u = u * b /\ (z - 1) * u = u * z - u /\ a * b \in Nat /\ u * b \in Nat /\ u * z \in Nat
    BY <2>1, SMT
  <2>6. w \in Nat
    BY <1>4
  <2>7. QED
    BY <2>1, <2>3, <2>4, <2>5, <2>6
<1>7. rest = 0
  <2>1. SUFFICES ASSUME rest # 0 PROVE FALSE
    OBVIOUS
  <2>2. \A e, f \in Nat : f > 0 => e <= f * e
    BY SMT
  <2>3. rest > 0
    BY <2>1
  <2>4. w <= rest * w /\ rest * w \in Nat
    <3> HIDE DEF w
    <3>1. w <= rest * w
      BY <1>4, <2>2, <2>3
    <3>2. rest * w \in Nat
      BY <1>4, SMT
    <3>3. QED
      BY <3>1, <3>2
  <2>5. v \in Nat
    BY <1>3, <1>4
  <2>6. v + rest * w < w
    BY <1>2, <1>6
  <2> HIDE DEF v, w
  <2>7. QED
    BY <1>4, <2>4, <2>5, <2>6
<1>8. v = a * b
  <2>1. rest * w = 0
    BY <1>4, <1>7
  <2>2. QED
    BY <1>2, <1>3, <1>4, <2>1
<1>9. QED
  BY <1>1, <1>8 DEF out

-----------------------------------------------------------------------------
(***************************************************************************)
(* Squares.  A column whose terms mirror each other is its middle and      *)
(* twice the terms before it.                                              *)
(***************************************************************************)
Mirrors(f, i) == \A j \in 0 .. i : f[j] \in Int /\ f[j] = f[i - j]
Before(f, i) == [j \in 0 .. i |-> IF j < i - j THEN f[j] ELSE 0]
AtMiddle(f, i) == [j \in 0 .. i |-> IF j = i - j THEN f[j] ELSE 0]

LEMMA SumMirrored ==
  ASSUME NEW i \in Nat, NEW f, Mirrors(f, i)
  PROVE  SumUpTo(f, i + 1) = 2 * SumUpTo(Before(f, i), i + 1) + SumUpTo(AtMiddle(f, i), i + 1)
<1> DEFINE p == Before(f, i)
           m == AtMiddle(f, i)
           r == [j \in 0 .. i |-> IF j > i - j THEN f[j] ELSE 0]
           pm == [j \in 0 .. i |-> p[j] + m[j]]
<1>1. ASSUME NEW j \in 0 .. i
      PROVE  /\ p[j] \in Int /\ m[j] \in Int /\ r[j] \in Int /\ pm[j] = p[j] + m[j]
             /\ f[j] = pm[j] + r[j]
             /\ r[j] = p[i - j]
  <2>1. i - j \in 0 .. i /\ i - (i - j) = j
    OBVIOUS
  <2>2. f[j] \in Int /\ f[i - j] = f[j]
    BY DEF Mirrors
  <2>3. /\ p[j] = (IF j < i - j THEN f[j] ELSE 0)
        /\ m[j] = (IF j = i - j THEN f[j] ELSE 0)
        /\ r[j] = (IF j > i - j THEN f[j] ELSE 0)
        /\ pm[j] = p[j] + m[j]
    BY DEF Before, AtMiddle
  <2>4. p[i - j] = (IF i - j < j THEN f[i - j] ELSE 0)
    BY <2>1 DEF Before
  <2> HIDE DEF p, m, r, pm
  <2>5. p[j] \in Int /\ m[j] \in Int /\ r[j] \in Int
    BY <2>2, <2>3
  <2>6. f[j] = pm[j] + r[j]
    BY <2>2, <2>3, <2>5
  <2>7. r[j] = p[i - j]
    BY <2>2, <2>3, <2>4
  <2>8. QED
    BY <2>3, <2>5, <2>6, <2>7
<1> HIDE DEF p, m, r, pm
<1>2. /\ Ints(p, i + 1) /\ Ints(m, i + 1) /\ Ints(r, i + 1) /\ Ints(pm, i + 1) /\ i + 1 \in Nat
      /\ \A j \in 0 .. (i + 1) - 1 : pm[j] = p[j] + m[j]
      /\ \A j \in 0 .. (i + 1) - 1 : f[j] = pm[j] + r[j]
      /\ \A j \in 0 .. (i + 1) - 1 : r[j] = p[((i + 1) - 1) - j]
  <2>1. 0 .. (i + 1) - 1 = 0 .. i /\ (i + 1) - 1 = i
    OBVIOUS
  <2>2. QED
    BY <1>1, <2>1 DEF Ints
<1>3. SumUpTo(pm, i + 1) = SumUpTo(p, i + 1) + SumUpTo(m, i + 1)
  BY <1>2, SumPlus
<1>4. SumUpTo(f, i + 1) = SumUpTo(pm, i + 1) + SumUpTo(r, i + 1)
  BY <1>2, SumPlus
<1>5. SumUpTo(r, i + 1) = SumUpTo(p, i + 1)
  BY <1>2, SumReverse
<1>6. SumUpTo(p, i + 1) \in Int /\ SumUpTo(m, i + 1) \in Int
  BY <1>2, SumIsInt
<1>7. QED
  BY <1>3, <1>4, <1>5, <1>6 DEF p, m

(***************************************************************************)
(* The two ways to scan a square: sqrProductScan adds every product of two *)
(* different words twice, and comes to the same columns.                   *)
(***************************************************************************)
LEMMA SquareColumn ==
  ASSUME NEW n \in Nat, NEW x \in Number(n), NEW i \in Nat
  PROVE  /\ 2 * LowSum(x, x, i, Pairs(i, n)) + LowSum(x, x, i, Middle(i, n))
               = LowSum(x, x, i, Column(i, n, n))
         /\ 2 * HighSum(x, x, i, Pairs(i, n)) + HighSum(x, x, i, Middle(i, n))
               = HighSum(x, x, i, Column(i, n, n))
<1> DEFINE S == Column(i, n, n)
           l == [j \in 0 .. i |-> IF j \in S THEN (x[j] * x[i - j]) % B ELSE 0]
           h == [j \in 0 .. i |-> IF j \in S THEN (x[j] * x[i - j]) \div B ELSE 0]
<1>1. ASSUME NEW j \in 0 .. i
      PROVE  /\ i - j \in 0 .. i /\ i - (i - j) = j
             /\ j \in S <=> i - j \in S
             /\ j \in S => /\ x[j] * x[i - j] \in Nat
                           /\ x[j] * x[i - j] = x[i - j] * x[j]
             /\ j \in Pairs(i, n) <=> j \in S /\ j < i - j
             /\ j \in Middle(i, n) <=> j \in S /\ j = i - j
  <2>1. i - j \in 0 .. i /\ i - (i - j) = j
    OBVIOUS
  <2>2. j \in S <=> j \in 0 .. n - 1 /\ i - j \in 0 .. n - 1
    BY DEF Column
  <2>3. i - j \in S <=> j \in 0 .. n - 1 /\ i - j \in 0 .. n - 1
    BY <2>1 DEF Column
  <2>4. ASSUME j \in S PROVE x[j] * x[i - j] \in Nat /\ x[j] * x[i - j] = x[i - j] * x[j]
    <3>1. x[j] \in Nat /\ x[i - j] \in Nat
      BY <2>2, <2>4, BaseFacts DEF Number, Word
    <3>2. \A a, b \in Nat : a * b \in Nat /\ a * b = b * a
      BY SMT
    <3>3. QED
      BY <3>1, <3>2
  <2>5. QED
    BY <2>1, <2>2, <2>3, <2>4 DEF Pairs, Middle
<1>2. Mirrors(l, i) /\ Mirrors(h, i)
  <2>1. ASSUME NEW j \in 0 .. i
        PROVE  l[j] \in Int /\ l[j] = l[i - j] /\ h[j] \in Int /\ h[j] = h[i - j]
    <3>1. /\ l[j] = (IF j \in S THEN (x[j] * x[i - j]) % B ELSE 0)
          /\ h[j] = (IF j \in S THEN (x[j] * x[i - j]) \div B ELSE 0)
      OBVIOUS
    <3>2. /\ l[i - j] = (IF i - j \in S THEN (x[i - j] * x[j]) % B ELSE 0)
          /\ h[i - j] = (IF i - j \in S THEN (x[i - j] * x[j]) \div B ELSE 0)
      BY <1>1
    <3>3. j \in S => (x[j] * x[i - j]) % B \in Int /\ (x[j] * x[i - j]) \div B \in Int
      <4>1. SUFFICES ASSUME j \in S
                     PROVE  (x[j] * x[i - j]) % B \in Int /\ (x[j] * x[i - j]) \div B \in Int
        OBVIOUS
      <4> DEFINE p == x[j] * x[i - j]
      <4>2. p \in Nat
        BY <1>1, <4>1
      <4> HIDE DEF p
      <4>3. p % B \in 0 .. B - 1 /\ p \div B \in Nat
        BY <4>2, BaseFacts, Division
      <4>4. QED
        BY <4>3, BaseFacts DEF p
    <3> HIDE DEF l, h, S
    <3>4. QED
      BY <1>1, <3>1, <3>2, <3>3
  <2> HIDE DEF l, h
  <2>2. QED
    BY <2>1 DEF Mirrors
<1>3. /\ LowSum(x, x, i, S) = SumUpTo(l, i + 1)
      /\ HighSum(x, x, i, S) = SumUpTo(h, i + 1)
  BY DEF LowSum, HighSum
<1>4. /\ LowSum(x, x, i, Pairs(i, n)) = SumUpTo(Before(l, i), i + 1)
      /\ HighSum(x, x, i, Pairs(i, n)) = SumUpTo(Before(h, i), i + 1)
      /\ LowSum(x, x, i, Middle(i, n)) = SumUpTo(AtMiddle(l, i), i + 1)
      /\ HighSum(x, x, i, Middle(i, n)) = SumUpTo(AtMiddle(h, i), i + 1)
  <2>1. /\ Before(l, i) = [j \in 0 .. i |->
                             IF j \in Pairs(i, n) THEN (x[j] * x[i - j]) % B ELSE 0]
        /\ AtMiddle(l, i) = [j \in 0 .. i |->
                               IF j \in Middle(i, n) THEN (x[j] * x[i - j]) % B ELSE 0]
    <3> HIDE DEF S
    <3>1. QED
      BY <1>1 DEF Before, AtMiddle
  <2>2. /\ Before(h, i) = [j \in 0 .. i |->
                             IF j \in Pairs(i, n) THEN (x[j] * x[i - j]) \div B ELSE 0]
        /\ AtMiddle(h, i) = [j \in 0 .. i |->
                               IF j \in Middle(i, n) THEN (x[j] * x[i - j]) \div B ELSE 0]
    <3> HIDE DEF S
    <3>1. QED
      BY <1>1 DEF Before, AtMiddle
  <2>3. QED
    BY <2>1, <2>2 DEF LowSum, HighSum
<1> HIDE DEF l, h
<1>5. /\ SumUpTo(l, i + 1) = 2 * SumUpTo(Before(l, i), i + 1) + SumUpTo(AtMiddle(l, i), i + 1)
      /\ SumUpTo(h, i + 1) = 2 * SumUpTo(Before(h, i), i + 1) + SumUpTo(AtMiddle(h, i), i + 1)
  BY <1>2, SumMirrored
<1>6. QED
  BY <1>3, <1>4, <1>5

(***************************************************************************)
(* The words of sqrProductScan are those of the square.                    *)
(***************************************************************************)
THEOREM SquareScanExact ==
  ASSUME NEW n \in Nat \ {0}, 2 * n <= B, NEW x \in Number(n)
  PROVE  /\ SquareScan(x, n) \in Number(2 * n)
         /\ ValueOf(SquareScan(x, n), 2 * n) = ValueOf(x, n) * ValueOf(x, n)
<1> DEFINE low == [i \in 0 .. 2 * n - 1 |-> LowSum(x, x, i, Column(i, n, n))]
           high == [i \in 0 .. 2 * n - 1 |-> HighSum(x, x, i, Column(i, n, n))]
<1>1. SquareLow(x, n) = low /\ SquareHigh(x, n) = high
  <2>1. ASSUME NEW i \in 0 .. 2 * n - 1
        PROVE  /\ 2 * LowSum(x, x, i, Pairs(i, n)) + LowSum(x, x, i, Middle(i, n))
                     = LowSum(x, x, i, Column(i, n, n))
               /\ 2 * HighSum(x, x, i, Pairs(i, n)) + HighSum(x, x, i, Middle(i, n))
                     = HighSum(x, x, i, Column(i, n, n))
    <3>1. i \in Nat
      OBVIOUS
    <3>2. QED
      BY <3>1, SquareColumn
  <2>2. QED
    BY <2>1 DEF SquareLow, SquareHigh
<1>2. SquareScan(x, n) = ProductScan(x, x, n, n, 2 * n)
  BY <1>1 DEF SquareScan, ProductScan
<1>3. n \in Nat /\ n > 0 /\ 2 * n \in Nat /\ n + n <= 2 * n
  OBVIOUS
<1>4. QED
  BY <1>2, <1>3, ProductScanExact

-----------------------------------------------------------------------------
(***************************************************************************)
(* Congruence modulo v.                                                    *)
(***************************************************************************)
Cong(x, y, v) == \E k \in Int : x = y + k * v

LEMMA CongEqual ==
  ASSUME NEW v \in Int, NEW x \in Int
  PROVE  Cong(x, x, v)
<1>1. x = x + 0 * v
  OBVIOUS
<1>2. QED
  BY <1>1 DEF Cong

LEMMA CongMultiple ==
  ASSUME NEW v \in Int, NEW x \in Int, NEW y \in Int, NEW k \in Int, x = y + k * v
  PROVE  Cong(x, y, v)
BY DEF Cong

LEMMA CongSwap ==
  ASSUME NEW v \in Int, NEW x \in Int, NEW y \in Int, Cong(x, y, v)
  PROVE  Cong(y, x, v)
<1>1. PICK k \in Int : x = y + k * v
  BY DEF Cong
<1>2. (-k) * v = -(k * v) /\ k * v \in Int /\ -k \in Int
  BY SMT
<1>3. y = x + (-k) * v
  BY <1>1, <1>2
<1>4. QED
  BY <1>2, <1>3 DEF Cong

LEMMA CongJoin ==
  ASSUME NEW v \in Int, NEW x \in Int, NEW y \in Int, NEW z \in Int,
         Cong(x, y, v), Cong(y, z, v)
  PROVE  Cong(x, z, v)
<1>1. PICK k \in Int : x = y + k * v
  BY DEF Cong
<1>2. PICK l \in Int : y = z + l * v
  BY DEF Cong
<1>3. (k + l) * v = k * v + l * v /\ k * v \in Int /\ l * v \in Int /\ k + l \in Int
  BY SMT
<1>4. x = z + (k + l) * v
  BY <1>1, <1>2, <1>3
<1>5. QED
  BY <1>3, <1>4 DEF Cong

LEMMA CongPlus ==
  ASSUME NEW v \in Int, NEW x \in Int, NEW y \in Int, NEW a \in Int, NEW b \in Int,
         Cong(x, y, v), Cong(a, b, v)
  PROVE  Cong(x + a, y + b, v)
<1>1. PICK k \in Int : x = y + k * v
  BY DEF Cong
<1>2. PICK l \in Int : a = b + l * v
  BY DEF Cong
<1>3. (k + l) * v = k * v + l * v /\ k * v \in Int /\ l * v \in Int /\ k + l \in Int
  BY SMT
<1>4. x + a = (y + b) + (k + l) * v
  BY <1>1, <1>2, <1>3
<1>5. QED
  BY <1>3, <1>4 DEF Cong

LEMMA CongTimes ==
  ASSUME NEW v \in Int, NEW x \in Int, NEW y \in Int, NEW a \in Int, NEW b \in Int,
         Cong(x, y, v), Cong(a, b, v)
  PROVE  Cong(x * a, y * b, v)
<1>1. PICK k \in Int : x = y + k * v
  BY DEF Cong
<1>2. PICK l \in Int : a = b + l * v
  BY DEF Cong
<1> DEFINE m == y * l + (k * b + k * (l * v))
<1>3. x * a = y * b + (y * (l * v) + (k * v) * b + (k * v) * (l * v))
  <2> DEFINE p == k * v
             s == l * v
  <2>1. p \in Int /\ s \in Int
    BY SMT
  <2>2. x = y + p /\ a = b + s
    BY <1>1, <1>2
  <2> HIDE DEF p, s
  <2>3. (y + p) * (b + s) = y * b + (y * s + p * b + p * s)
    BY <2>1, SMT
  <2>4. QED
    BY <2>2, <2>3 DEF p, s
<1>4. m * v = y * (l * v) + (k * v) * b + (k * v) * (l * v)
  BY SMT
<1>5. m \in Int
  BY SMT
<1>6. QED
  BY <1>3, <1>4, <1>5 DEF Cong

LEMMA CongModulo ==
  ASSUME NEW v \in Nat, v > 0, NEW x \in Int
  PROVE  x % v \in 0 .. v - 1 /\ Cong(x % v, x, v) /\ Cong(x, x % v, v)
<1>1. x % v \in 0 .. v - 1 /\ x \div v \in Int /\ x = v * (x \div v) + (x % v)
  BY Z3
<1> DEFINE q == x \div v
           r == x % v
<1>2. q \in Int /\ r \in Int /\ x = v * q + r
  BY <1>1
<1> HIDE DEF q, r
<1>3. v * q = q * v /\ q * v \in Int
  BY <1>2, SMT
<1>4. Cong(x, r, v)
  <2>1. x = r + q * v
    BY <1>2, <1>3
  <2>2. QED
    BY <1>2, <2>1 DEF Cong
<1>5. Cong(r, x, v)
  BY <1>2, <1>4, CongSwap
<1>6. QED
  BY <1>1, <1>4, <1>5 DEF r

(***************************************************************************)
(* A number below v is the remainder of every number congruent to it.      *)
(***************************************************************************)
LEMMA CongUnique ==
  ASSUME NEW v \in Nat, v > 0, NEW x \in 0 .. v - 1, NEW y \in 0 .. v - 1, Cong(x, y, v)
  PROVE  x = y
<1>1. PICK k \in Int : x = y + k * v
  BY DEF Cong
<1>2. x \in Int /\ y \in Int /\ 0 <= x /\ x < v /\ 0 <= y /\ y < v
  OBVIOUS
<1>3. CASE k >= 1
  <2>1. PICK d \in Nat : k = d + 1
    <3>1. k - 1 \in Nat /\ k = (k - 1) + 1
      BY <1>3
    <3>2. QED
      BY <3>1
  <2>2. (d + 1) * v = d * v + v /\ d * v \in Nat
    BY SMT
  <2>3. QED
    BY <1>1, <1>2, <2>1, <2>2
<1>4. CASE k <= -1
  <2>1. PICK d \in Nat : k = -(d + 1)
    <3>1. -k - 1 \in Nat /\ k = -((-k - 1) + 1)
      BY <1>4
    <3>2. QED
      BY <3>1
  <2>2. (-(d + 1)) * v = -(d * v) - v /\ d * v \in Nat
    BY SMT
  <2>3. QED
    BY <1>1, <1>2, <2>1, <2>2
<1>5. CASE k = 0
  <2>1. 0 * v = 0
    OBVIOUS
  <2>2. QED
    BY <1>1, <1>2, <1>5, <2>1
<1>6. QED
  BY <1>3, <1>4, <1>5

LEMMA CongSameRest ==
  ASSUME NEW v \in Nat, v > 0, NEW x \in Int, NEW y \in Int, Cong(x, y, v)
  PROVE  x % v = y % v
<1>1. x % v \in 0 .. v - 1 /\ y % v \in 0 .. v - 1 /\ Cong(x % v, x, v) /\ Cong(y, y % v, v)
  BY CongModulo
<1>2. x % v \in Int /\ y % v \in Int
  BY <1>1
<1>3. Cong(x % v, y, v)
  BY <1>1, <1>2, CongJoin
<1>4. Cong(x % v, y % v, v)
  BY <1>1, <1>2, <1>3, CongJoin
<1> DEFINE p == x % v
           s == y % v
<1>5. p \in 0 .. v - 1 /\ s \in 0 .. v - 1 /\ Cong(p, s, v)
  BY <1>1, <1>4
<1> HIDE DEF p, s
<1>6. p = s
  BY <1>5, CongUnique
<1>7. QED
  BY <1>6 DEF p, s

-----------------------------------------------------------------------------
(***************************************************************************)
(* Powers of two and odd numbers.                                          *)
(***************************************************************************)
LEMMA Pow2Plus ==
  ASSUME NEW a \in Nat, NEW b \in Nat
  PROVE  Pow2[a + b] = Pow2[a] * Pow2[b]
<1> DEFINE S == {k \in Nat : Pow2[a + k] = Pow2[a] * Pow2[k]}
<1>1. 0 \in S
  BY Pow2Facts
<1>2. ASSUME NEW k \in Nat, k \in S PROVE k + 1 \in S
  <2>1. a + (k + 1) = (a + k) + 1 /\ a + k \in Nat /\ Pow2[a] \in Nat /\ Pow2[k] \in Nat
    BY Pow2Facts
  <2>2. Pow2[a + (k + 1)] = 2 * Pow2[a + k] /\ Pow2[k + 1] = 2 * Pow2[k]
    BY <2>1, Pow2Facts
  <2>3. \A x, y \in Nat : 2 * (x * y) = x * (2 * y)
    BY SMT
  <2>4. QED
    BY <1>2, <2>1, <2>2, <2>3
<1>3. \A k \in Nat : k \in S
  <2> HIDE DEF S
  <2>1. QED
    BY <1>1, <1>2, Induction
<1>4. QED
  BY <1>3

LEMMA WeightIsPow2 ==
  ASSUME NEW i \in Nat
  PROVE  WordBits * i \in Nat /\ Weight[i] = Pow2[WordBits * i]
<1> DEFINE S == {k \in Nat : WordBits * k \in Nat /\ Weight[k] = Pow2[WordBits * k]}
<1>1. WordBits \in Nat
  BY WordAssumption
<1>2. 0 \in S
  BY <1>1, Pow2Facts, WeightFacts
<1>3. ASSUME NEW k \in Nat, k \in S PROVE k + 1 \in S
  <2>1. WordBits * (k + 1) = WordBits + WordBits * k /\ WordBits * k \in Nat
    BY <1>1, SMT
  <2>2. Pow2[WordBits + WordBits * k] = Pow2[WordBits] * Pow2[WordBits * k]
    BY <1>1, <2>1, Pow2Plus
  <2>3. Weight[k + 1] = B * Weight[k]
    BY WeightFacts
  <2>4. QED
    BY <1>1, <1>3, <2>1, <2>2, <2>3 DEF B
<1>4. \A k \in Nat : k \in S
  <2> HIDE DEF S
  <2>1. QED
    BY <1>2, <1>3, Induction
<1>5. QED
  BY <1>4

LEMMA Pow2Grows ==
  ASSUME NEW a \in Nat, NEW b \in Nat, a <= b
  PROVE  Pow2[a] <= Pow2[b]
<1>1. b - a \in Nat /\ b = a + (b - a)
  OBVIOUS
<1>2. Pow2[b] = Pow2[a] * Pow2[b - a]
  BY <1>1, Pow2Plus
<1>3. Pow2[a] \in Nat /\ Pow2[b - a] \in Nat /\ Pow2[b - a] > 0
  BY <1>1, Pow2Facts
<1>4. \A x, y \in Nat : y > 0 => x <= x * y
  BY SMT
<1>5. QED
  BY <1>2, <1>3, <1>4

(***************************************************************************)
(* An odd number that divides a multiple of a power of two divides the     *)
(* factor.                                                                 *)
(***************************************************************************)
LEMMA OddCancels ==
  ASSUME NEW v \in Nat, v % 2 = 1, NEW x \in Int, NEW k \in Nat, Cong(Pow2[k] * x, 0, v)
  PROVE  Cong(x, 0, v)
<1> DEFINE S == {j \in Nat : Cong(Pow2[j] * x, 0, v) => Cong(x, 0, v)}
<1>1. 0 \in S
  <2>1. Pow2[0] * x = x
    BY Pow2Facts
  <2>2. QED
    BY <2>1
<1>2. ASSUME NEW j \in Nat, j \in S PROVE j + 1 \in S
  <2>1. SUFFICES ASSUME Cong(Pow2[j + 1] * x, 0, v) PROVE Cong(x, 0, v)
    OBVIOUS
  <2> DEFINE p == Pow2[j] * x
  <2>2. Pow2[j] \in Nat /\ Pow2[j + 1] = 2 * Pow2[j]
    BY Pow2Facts
  <2>3. p \in Int /\ Pow2[j + 1] * x = 2 * p
    BY <2>2, SMT
  <2> HIDE DEF p
  <2>4. PICK m \in Int : 2 * p = m * v
    <3>1. PICK m \in Int : Pow2[j + 1] * x = 0 + m * v
      BY <2>1 DEF Cong
    <3>2. m * v \in Int
      BY SMT
    <3>3. QED
      BY <2>3, <3>1, <3>2
  <2>5. PICK u \in Int : v = 2 * u + 1
    <3>1. v \div 2 \in Int /\ v = 2 * (v \div 2) + 1
      BY Z3
    <3>2. QED
      BY <3>1
  <2>6. m * v = 2 * (m * u) + m /\ m * u \in Int
    BY <2>5, SMT
  <2> DEFINE h == p - m * u
  <2>7. h \in Int /\ m = 2 * h
    BY <2>3, <2>4, <2>6
  <2> HIDE DEF h
  <2>8. m * v = 2 * (h * v) /\ h * v \in Int
    BY <2>7, SMT
  <2>9. p = 0 + h * v
    BY <2>3, <2>4, <2>8
  <2>10. Cong(p, 0, v)
    BY <2>7, <2>9 DEF Cong
  <2>11. QED
    BY <1>2, <2>10 DEF p
<1>3. \A j \in Nat : j \in S
  <2> HIDE DEF S
  <2>1. QED
    BY <1>1, <1>2, Induction
<1>4. QED
  BY <1>3

LEMMA CongCancels ==
  ASSUME NEW v \in Nat, v % 2 = 1, NEW x \in Int, NEW y \in Int, NEW k \in Nat,
         Cong(Pow2[k] * x, Pow2[k] * y, v)
  PROVE  Cong(x, y, v)
<1> DEFINE p == Pow2[k]
<1>1. p \in Nat
  BY Pow2Facts
<1>2. PICK m \in Int : p * x = p * y + m * v
  BY DEF Cong
<1>3. p * (x - y) = 0 + m * v
  <2> HIDE DEF p
  <2>1. p * (x - y) = p * x - p * y /\ p * x \in Int /\ p * y \in Int /\ m * v \in Int
    BY <1>1, SMT
  <2>2. QED
    BY <1>2, <2>1
<1>4. Cong(p * (x - y), 0, v)
  BY <1>3 DEF Cong
<1>5. x - y \in Int
  OBVIOUS
<1>6. Cong(x - y, 0, v)
  BY <1>4, <1>5, OddCancels
<1>7. PICK l \in Int : x - y = 0 + l * v
  BY <1>6 DEF Cong
<1>8. l * v \in Int
  BY SMT
<1>9. x = y + l * v
  BY <1>7, <1>8
<1>10. QED
  BY <1>9 DEF Cong

-----------------------------------------------------------------------------
(***************************************************************************)
(* Montgomery reduction.  The columns it goes through are those of a scan, *)
(* whose halves include the products of the digits it chooses.             *)
(***************************************************************************)

(***************************************************************************)
(* Sums of halves are natural numbers, and depend on the words of x that   *)
(* they name only.                                                         *)
(***************************************************************************)
LEMMA HalvesAreNat ==
  ASSUME NEW n \in Nat, NEW i \in Nat, NEW S \in SUBSET Column(i, n, n), NEW x, NEW z,
         NEW y \in Number(n), \A j \in S : x[j] \in Word /\ z[j] = x[j]
  PROVE  /\ LowSum(x, y, i, S) \in Nat /\ HighSum(x, y, i, S) \in Nat
         /\ LowSum(z, y, i, S) = LowSum(x, y, i, S)
         /\ HighSum(z, y, i, S) = HighSum(x, y, i, S)
<1> DEFINE l == [j \in 0 .. i |-> IF j \in S THEN (x[j] * y[i - j]) % B ELSE 0]
           h == [j \in 0 .. i |-> IF j \in S THEN (x[j] * y[i - j]) \div B ELSE 0]
           D == B * B
<1>1. /\ LowSum(x, y, i, S) = SumUpTo(l, i + 1)
      /\ HighSum(x, y, i, S) = SumUpTo(h, i + 1)
  BY DEF LowSum, HighSum
<1>2. /\ l = [j \in 0 .. i |-> IF j \in S THEN (z[j] * y[i - j]) % B ELSE 0]
      /\ h = [j \in 0 .. i |-> IF j \in S THEN (z[j] * y[i - j]) \div B ELSE 0]
  OBVIOUS
<1>3. /\ LowSum(z, y, i, S) = SumUpTo(l, i + 1)
      /\ HighSum(z, y, i, S) = SumUpTo(h, i + 1)
  BY <1>2 DEF LowSum, HighSum
<1>4. ASSUME NEW j \in 0 .. i PROVE l[j] \in 0 .. D /\ h[j] \in 0 .. D
  <2>1. /\ l[j] = (IF j \in S THEN (x[j] * y[i - j]) % B ELSE 0)
        /\ h[j] = (IF j \in S THEN (x[j] * y[i - j]) \div B ELSE 0)
    OBVIOUS
  <2>2. D \in Nat /\ B <= D /\ B > 0 /\ B \in Nat
    <3>1. \A b \in Nat : b > 0 => b * b \in Nat /\ b <= b * b
      BY SMT
    <3>2. QED
      BY <3>1, BaseFacts
  <2>3. CASE j \in S
    <3> DEFINE p == x[j] * y[i - j]
    <3>1. i - j \in 0 .. n - 1
      BY <2>3 DEF Column
    <3>2. x[j] \in Word /\ y[i - j] \in Word
      BY <2>3, <3>1 DEF Number
    <3>3. p \in Nat /\ p < D
      BY <3>2, Doubles
    <3> HIDE DEF p, D
    <3>4. p % B \in 0 .. B - 1 /\ p \div B \in Nat /\ p = B * (p \div B) + (p % B)
      BY <2>2, <3>3, Division
    <3>5. p \div B <= p
      <4>1. \A q \in Nat : q <= B * q
        BY <2>2, SMT
      <4>2. B * (p \div B) \in Nat
        BY <2>2, <3>4, SMT
      <4>3. QED
        BY <3>3, <3>4, <4>1, <4>2
    <3>6. l[j] = p % B /\ h[j] = p \div B
      BY <2>1, <2>3 DEF p
    <3> HIDE DEF l, h
    <3>7. QED
      BY <2>2, <3>3, <3>4, <3>5, <3>6
  <2>4. CASE j \notin S
    <3> HIDE DEF l, h, D
    <3>1. QED
      BY <2>1, <2>2, <2>4
  <2>5. QED
    BY <2>3, <2>4
<1> HIDE DEF l, h
<1>5. D \in Nat /\ i + 1 \in Nat /\ (i + 1) * D \in Nat
  <2>1. \A a, b \in Nat : a * b \in Nat
    BY SMT
  <2>2. QED
    BY <2>1, BaseFacts
<1>6. SumUpTo(l, i + 1) \in Nat /\ SumUpTo(h, i + 1) \in Nat
  <2>1. /\ \A j \in 0 .. (i + 1) - 1 : l[j] \in 0 .. D
        /\ \A j \in 0 .. (i + 1) - 1 : h[j] \in 0 .. D
    BY <1>4
  <2> HIDE DEF D
  <2>2. SumUpTo(l, i + 1) \in 0 .. (i + 1) * D /\ SumUpTo(h, i + 1) \in 0 .. (i + 1) * D
    BY <1>5, <2>1, SumBound
  <2>3. QED
    BY <1>5, <2>2
<1>7. QED
  BY <1>1, <1>3, <1>6

(***************************************************************************)
(* What the columns before i leave: the digits so far, at most n of them.  *)
(***************************************************************************)
Digits(i, n) == 0 .. (IF i < n THEN i ELSE n) - 1
Left(i, n) == [low : Nat, high : Nat, inv : [Digits(i, n) -> Word]]

LEMMA ColumnLeaves ==
  ASSUME NEW n \in Nat \ {0}, NEW mod \in Number(n), NEW invm \in Nat, NEW low, NEW high,
         NEW i \in Nat, low[i] \in Nat, high[i] \in Nat, NEW X \in Left(i, n)
  PROVE  MontgomeryColumn(low, high, mod, invm, n, i, X) \in Left(i + 1, n)
<1> DEFINE known == Column(i, n, n) \ {i}
           ls == LowSum(X.inv, mod, i, known)
           hs == HighSum(X.inv, mod, i, known)
           D == B * B
           accLow == (low[i] + NextLow(X) + ls) % D
           accHi == high[i] + hs
           digit == (invm * (accLow % B)) % B
<1>1. B \in Nat /\ B > 0 /\ D \in Nat /\ D > 0
  BY BaseFacts, Doubles
<1>2. known \in SUBSET Column(i, n, n) /\ \A j \in known : j \in Digits(i, n)
  BY DEF Column, Digits
<1>3. X.low \in Nat /\ X.high \in Nat /\ X.inv \in [Digits(i, n) -> Word]
  BY DEF Left
<1>4. ls \in Nat /\ hs \in Nat
  <2>1. \A j \in known : X.inv[j] \in Word /\ X.inv[j] = X.inv[j]
    BY <1>2, <1>3
  <2> HIDE DEF known
  <2>2. n \in Nat
    OBVIOUS
  <2>3. QED
    BY <1>2, <2>1, <2>2, HalvesAreNat
<1>5. \A x \in Nat : x % D \in Nat /\ x % B \in 0 .. B - 1 /\ x \div B \in Nat
  <2> HIDE DEF D
  <2>1. \A x \in Nat : x % D \in 0 .. D - 1
    BY <1>1, Division
  <2>2. QED
    BY <1>1, <2>1, Division
<1>6. NextLow(X) \in Nat
  BY <1>3, <1>5 DEF NextLow
<1>7. accLow \in Nat /\ accHi \in Nat
  <2> HIDE DEF ls, hs, D
  <2>1. low[i] + NextLow(X) + ls \in Nat /\ accHi \in Nat
    BY <1>4, <1>6
  <2>2. QED
    BY <1>5, <2>1
<1> HIDE DEF ls, hs, accLow, accHi, known
<1>8. digit \in Word /\ digit * mod[0] \in Nat
  <2>1. accLow % B \in Nat
    BY <1>1, <1>5, <1>7
  <2>2. invm * (accLow % B) \in Nat
    <3> DEFINE a == accLow % B
    <3> HIDE DEF a
    <3>1. a \in Nat => invm * a \in Nat
      BY SMT
    <3>2. QED
      BY <2>1, <3>1 DEF a
  <2>3. digit \in Word
    BY <1>5, <2>2 DEF Word
  <2>4. mod[0] \in Word
    BY DEF Number
  <2> HIDE DEF digit
  <2>5. QED
    BY <2>3, <2>4, Doubles
<1> HIDE DEF digit
<1>9. MontgomeryColumn(low, high, mod, invm, n, i, X) =
        IF i < n
        THEN [low |-> (accLow + ((digit * mod[0]) % B)) % D,
              high |-> (accHi + (digit * mod[0]) \div B) % D,
              inv |-> [j \in 0 .. i |-> IF j = i THEN digit ELSE X.inv[j]]]
        ELSE [low |-> accLow, high |-> accHi % D, inv |-> X.inv]
  BY DEF MontgomeryColumn, accLow, accHi, digit, known, ls, hs
<1>10. CASE i < n
  <2>1. Digits(i + 1, n) = 0 .. i /\ Digits(i, n) = 0 .. i - 1
    BY <1>10 DEF Digits
  <2>2. [j \in 0 .. i |-> IF j = i THEN digit ELSE X.inv[j]] \in [0 .. i -> Word]
    BY <1>3, <1>8, <2>1
  <2>3. /\ (accLow + ((digit * mod[0]) % B)) % D \in Nat
        /\ (accHi + (digit * mod[0]) \div B) % D \in Nat
    <3> DEFINE p == digit * mod[0]
    <3>1. p \in Nat
      BY <1>8
    <3> HIDE DEF p, D
    <3>2. p % B \in Nat /\ p \div B \in Nat
      BY <1>1, <1>5, <3>1
    <3>3. accLow + (p % B) \in Nat /\ accHi + (p \div B) \in Nat
      BY <1>7, <3>2
    <3>4. (accLow + (p % B)) % D \in Nat /\ (accHi + (p \div B)) % D \in Nat
      BY <1>5, <3>3
    <3>5. QED
      BY <3>4 DEF p
  <2> HIDE DEF D
  <2>4. QED
    BY <1>9, <1>10, <2>1, <2>2, <2>3 DEF Left
<1>11. CASE ~(i < n)
  <2>1. Digits(i + 1, n) = Digits(i, n)
    BY <1>11 DEF Digits
  <2>2. accHi % D \in Nat
    BY <1>5, <1>7
  <2> HIDE DEF D
  <2>3. QED
    BY <1>3, <1>7, <1>9, <1>11, <2>1, <2>2 DEF Left
<1>12. QED
  BY <1>10, <1>11

(***************************************************************************)
(* The columns exist: K[i] is what the columns before i leave.             *)
(***************************************************************************)
Runs(K, low, high, mod, invm, n) ==
    /\ K[0] = NoColumn
    /\ \A i \in 0 .. 2 * n - 2 :
          K[i + 1] = MontgomeryColumn(low, high, mod, invm, n, i, K[i])

Result(K, n) ==
    [words |-> [i \in 0 .. n - 1 |->
                  (IF i = n - 1 THEN NextLow(K[2 * n - 1]) ELSE K[n + i + 1].low) % B],
     exceeds |-> NextLow(K[2 * n - 1]) \div B # 0]

Naturals(low, high, size) == \A i \in 0 .. size - 1 : low[i] \in Nat /\ high[i] \in Nat

LEMMA NoColumnLeft ==
  ASSUME NEW n \in Nat
  PROVE  NoColumn \in Left(0, n)
<1>1. Digits(0, n) = {}
  BY DEF Digits
<1>2. [j \in {} |-> 0] \in [{} -> Word]
  OBVIOUS
<1>3. QED
  BY <1>1, <1>2 DEF NoColumn, Left

LEMMA ColumnsRun ==
  ASSUME NEW n \in Nat \ {0}, NEW mod \in Number(n), NEW invm \in Nat, NEW low, NEW high,
         Naturals(low, high, 2 * n - 1)
  PROVE  \E K : /\ Runs(K, low, high, mod, invm, n)
                /\ \A i \in 0 .. 2 * n - 1 : K[i] \in Left(i, n)
                /\ Montgomery(low, high, mod, invm, n) = Result(K, n)
<1> DEFINE step(i, X) == MontgomeryColumn(low, high, mod, invm, n, i, X)
           T == UNION {Left(k, n) : k \in Nat}
           h == [p \in Nat \X T |-> IF step(p[1] - 1, p[2]) \in T
                                    THEN step(p[1] - 1, p[2]) ELSE NoColumn]
           c == NoColumn
<1>1. c \in T
  BY NoColumnLeft
<1>2. h \in [Nat \X T -> T]
  <2> HIDE DEF T, step
  <2>1. QED
    BY <1>1
<1>3. PICK G \in [Nat -> T] : Recurs(G, c, h)
  <2> HIDE DEF h, T, c
  <2>1. QED
    BY <1>1, <1>2, Recursion
<1>4. G[0] = NoColumn /\ \A k \in Nat : G[k + 1] = h[<<k + 1, G[k]>>]
  BY <1>3 DEF Recurs
<1> DEFINE S == {k \in Nat : k <= 2 * n - 1 => G[k] \in Left(k, n)}
<1>5. \A k \in 0 .. 2 * n - 2 : G[k] \in Left(k, n) =>
         /\ G[k + 1] = step(k, G[k]) /\ G[k + 1] \in Left(k + 1, n)
  <2>1. ASSUME NEW k \in 0 .. 2 * n - 2, G[k] \in Left(k, n)
        PROVE  G[k + 1] = step(k, G[k]) /\ G[k + 1] \in Left(k + 1, n)
    <3>1. low[k] \in Nat /\ high[k] \in Nat /\ k \in Nat
      BY DEF Naturals
    <3>2. step(k, G[k]) \in Left(k + 1, n)
      BY <2>1, <3>1, ColumnLeaves
    <3>3. step(k, G[k]) \in T /\ G[k] \in T
      BY <1>3, <3>1, <3>2
    <3>4. G[k + 1] = h[<<k + 1, G[k]>>]
      BY <1>4, <3>1
    <3> HIDE DEF T, step
    <3>5. (k + 1) - 1 = k /\ k + 1 \in Nat
      BY <3>1
    <3>6. h[<<k + 1, G[k]>>] = step(k, G[k])
      BY <3>3, <3>5
    <3> HIDE DEF h
    <3>7. QED
      BY <3>2, <3>4, <3>6
  <2> HIDE DEF step
  <2>2. QED
    BY <2>1
<1> HIDE DEF h, T
<1>6. \A k \in Nat : k \in S
  <2>1. 0 \in S
    BY <1>4, NoColumnLeft
  <2>2. ASSUME NEW k \in Nat, k \in S PROVE k + 1 \in S
    <3>1. SUFFICES ASSUME k + 1 <= 2 * n - 1 PROVE G[k + 1] \in Left(k + 1, n)
      OBVIOUS
    <3>2. k \in 0 .. 2 * n - 2 /\ G[k] \in Left(k, n)
      BY <2>2, <3>1
    <3> HIDE DEF step
    <3>3. QED
      BY <1>5, <3>2
  <2> HIDE DEF S
  <2>3. QED
    BY <2>1, <2>2, Induction
<1>7. \A k \in 0 .. 2 * n - 2 : G[k] \in Left(k, n) /\ G[k + 1] = step(k, G[k])
  <2> HIDE DEF step
  <2>1. \A k \in 0 .. 2 * n - 2 : G[k] \in Left(k, n)
    BY <1>6
  <2>2. QED
    BY <1>5, <2>1
<1> DEFINE Def(col) == col = [i \in 0 .. 2 * n - 2 |->
                                MontgomeryColumn(low, high, mod, invm, n, i,
                                                 IF i = 0 THEN NoColumn ELSE col[i - 1])]
           known == [i \in 0 .. 2 * n - 2 |-> G[i + 1]]
           col == CHOOSE f : Def(f)
<1>8. Def(known)
  <2>1. ASSUME NEW i \in 0 .. 2 * n - 2
        PROVE  known[i] = step(i, IF i = 0 THEN NoColumn ELSE known[i - 1])
    <3>1. (IF i = 0 THEN NoColumn ELSE known[i - 1]) = G[i]
      <4>1. CASE i = 0
        BY <1>4, <4>1
      <4>2. CASE i # 0
        <5>1. i - 1 \in 0 .. 2 * n - 2 /\ (i - 1) + 1 = i
          BY <4>2
        <5>2. QED
          BY <4>2, <5>1
      <4>3. QED
        BY <4>1, <4>2
    <3>2. known[i] = G[i + 1]
      OBVIOUS
    <3>3. G[i + 1] = step(i, G[i])
      BY <1>7
    <3> HIDE DEF known, step
    <3>4. QED
      BY <3>1, <3>2, <3>3
  <2>2. known = [i \in 0 .. 2 * n - 2 |-> known[i]]
    OBVIOUS
  <2> HIDE DEF known
  <2>3. QED
    BY <2>1, <2>2
<1>9. Def(col)
  <2> HIDE DEF Def, known
  <2>1. QED
    BY <1>8
<1>10. ASSUME NEW i \in 0 .. 2 * n - 2
       PROVE  col[i] = step(i, IF i = 0 THEN NoColumn ELSE col[i - 1])
  <2> HIDE DEF col
  <2>1. QED
    BY <1>9
<1> DEFINE K == [i \in 0 .. 2 * n - 1 |-> IF i = 0 THEN NoColumn ELSE col[i - 1]]
<1>11. Montgomery(low, high, mod, invm, n) =
         [words |-> [i \in 0 .. n - 1 |->
                       (IF i = n - 1 THEN NextLow(col[2 * n - 2]) ELSE col[n + i].low) % B],
          exceeds |-> NextLow(col[2 * n - 2]) \div B # 0]
  BY DEF Montgomery
<1> HIDE DEF col, Def, known
<1>12. K[0] = NoColumn /\ \A i \in 0 .. 2 * n - 2 : K[i + 1] = col[i]
  <2>1. \A i \in 0 .. 2 * n - 2 : i + 1 \in 0 .. 2 * n - 1 /\ i + 1 # 0 /\ (i + 1) - 1 = i
    OBVIOUS
  <2>2. QED
    BY <2>1
<1>13. ASSUME NEW i \in 0 .. 2 * n - 2 PROVE K[i + 1] = step(i, K[i])
  <2>1. K[i] = IF i = 0 THEN NoColumn ELSE col[i - 1]
    OBVIOUS
  <2>2. K[i + 1] = col[i]
    BY <1>12
  <2>3. col[i] = step(i, IF i = 0 THEN NoColumn ELSE col[i - 1])
    BY <1>10
  <2> HIDE DEF K, step
  <2>4. QED
    BY <2>1, <2>2, <2>3
<1>14. Montgomery(low, high, mod, invm, n) = Result(K, n)
  <2>1. K[2 * n - 1] = col[2 * n - 2]
    <3>1. 2 * n - 2 \in 0 .. 2 * n - 2 /\ (2 * n - 2) + 1 = 2 * n - 1
      OBVIOUS
    <3> HIDE DEF K
    <3>2. QED
      BY <1>12, <3>1
  <2>2. ASSUME NEW i \in 0 .. n - 1, i # n - 1 PROVE K[n + i + 1] = col[n + i]
    <3>1. n + i \in 0 .. 2 * n - 2
      BY <2>2
    <3> HIDE DEF K
    <3>2. QED
      BY <1>12, <3>1
  <2> HIDE DEF K
  <2>3. QED
    BY <1>11, <2>1, <2>2 DEF Result
<1> HIDE DEF K
<1>15. Runs(K, low, high, mod, invm, n)
  BY <1>12, <1>13 DEF Runs
<1> DEFINE R == {k \in Nat : k <= 2 * n - 1 => K[k] \in Left(k, n)}
<1>16. \A k \in Nat : k \in R
  <2>1. 0 \in R
    BY <1>12, NoColumnLeft
  <2>2. ASSUME NEW k \in Nat, k \in R PROVE k + 1 \in R
    <3>1. SUFFICES ASSUME k + 1 <= 2 * n - 1 PROVE K[k + 1] \in Left(k + 1, n)
      OBVIOUS
    <3>2. k \in 0 .. 2 * n - 2 /\ K[k] \in Left(k, n)
      BY <2>2, <3>1
    <3>3. low[k] \in Nat /\ high[k] \in Nat
      BY <3>2 DEF Naturals
    <3>4. step(k, K[k]) \in Left(k + 1, n)
      BY <3>2, <3>3, ColumnLeaves
    <3> HIDE DEF step
    <3>5. QED
      BY <1>13, <3>2, <3>4
  <2> HIDE DEF R
  <2>3. QED
    BY <2>1, <2>2, Induction
<1>17. \A k \in 0 .. 2 * n - 1 : K[k] \in Left(k, n)
  BY <1>16
<1>18. QED
  BY <1>14, <1>15, <1>17
-----------------------------------------------------------------------------
(***************************************************************************)
(* The product of the digit that a column chooses, apart from the others.  *)
(***************************************************************************)
LEMMA SumWithout ==
  ASSUME NEW i \in Nat, NEW f, NEW g, Ints(f, i + 1), g[i] = 0,
         \A j \in 0 .. i - 1 : g[j] = f[j]
  PROVE  SumUpTo(f, i + 1) = SumUpTo(g, i + 1) + f[i]
<1>1. SumUpTo(f, i) \in Int /\ f[i] \in Int /\ SumUpTo(f, i + 1) = SumUpTo(f, i) + f[i]
  BY SumNext
<1>2. Ints(f, i) /\ Ints(g, i + 1)
  BY DEF Ints
<1>3. SumUpTo(g, i + 1) = SumUpTo(g, i) + g[i]
  BY <1>2, SumNext
<1>4. SumUpTo(g, i) = SumUpTo(f, i)
  BY <1>2, SumSame
<1>5. QED
  BY <1>1, <1>3, <1>4

\* The sums of a column are those of its other products and the digit's product.
LEMMA ColumnSplit ==
  ASSUME NEW n \in Nat \ {0}, NEW i \in Nat, NEW x \in Number(n), NEW y \in Number(n)
  PROVE  /\ LowSum(x, y, i, Column(i, n, n))
               = LowSum(x, y, i, Column(i, n, n) \ {i})
                    + (IF i < n THEN (x[i] * y[0]) % B ELSE 0)
         /\ HighSum(x, y, i, Column(i, n, n))
               = HighSum(x, y, i, Column(i, n, n) \ {i})
                    + (IF i < n THEN (x[i] * y[0]) \div B ELSE 0)
<1> DEFINE C == Column(i, n, n)
           R == C \ {i}
           l(S) == [j \in 0 .. i |-> IF j \in S THEN (x[j] * y[i - j]) % B ELSE 0]
           h(S) == [j \in 0 .. i |-> IF j \in S THEN (x[j] * y[i - j]) \div B ELSE 0]
<1>1. \A S : LowSum(x, y, i, S) = SumUpTo(l(S), i + 1) /\ HighSum(x, y, i, S) = SumUpTo(h(S), i + 1)
  BY DEF LowSum, HighSum
<1>2. ASSUME NEW j \in C
      PROVE  (x[j] * y[i - j]) % B \in Int /\ (x[j] * y[i - j]) \div B \in Int
  <2>1. j \in 0 .. n - 1 /\ i - j \in 0 .. n - 1
    BY DEF Column
  <2>2. x[j] \in Word /\ y[i - j] \in Word
    BY <2>1 DEF Number
  <2> DEFINE p == x[j] * y[i - j]
  <2>3. p \in Nat
    BY <2>2, Doubles
  <2> HIDE DEF p
  <2>4. p % B \in Int /\ p \div B \in Int
    BY <2>3, BaseFacts, Division
  <2>5. QED
    BY <2>4 DEF p
<1>3. Ints(l(C), i + 1) /\ Ints(h(C), i + 1)
  <2> HIDE DEF C
  <2>1. QED
    BY <1>2 DEF Ints
<1>4. i \in C <=> i < n
  BY DEF Column
<1>5. /\ l(C)[i] = (IF i < n THEN (x[i] * y[0]) % B ELSE 0)
      /\ h(C)[i] = (IF i < n THEN (x[i] * y[0]) \div B ELSE 0)
  <2>1. i - i = 0 /\ i \in 0 .. i
    OBVIOUS
  <2> HIDE DEF C
  <2>2. QED
    BY <1>4, <2>1
<1>6. l(R)[i] = 0 /\ h(R)[i] = 0
  OBVIOUS
<1>7. \A j \in 0 .. i - 1 : l(R)[j] = l(C)[j] /\ h(R)[j] = h(C)[j]
  <2> HIDE DEF C
  <2>1. QED
    OBVIOUS
<1> HIDE DEF l, h
<1>8. /\ SumUpTo(l(C), i + 1) = SumUpTo(l(R), i + 1) + l(C)[i]
      /\ SumUpTo(h(C), i + 1) = SumUpTo(h(R), i + 1) + h(C)[i]
  BY <1>3, <1>6, <1>7, SumWithout
<1>9. QED
  BY <1>1, <1>5, <1>8

(***************************************************************************)
(* The digit makes the lowest word of its column zero.                     *)
(***************************************************************************)
LEMMA DigitClears ==
  ASSUME NEW m \in Nat, NEW a \in Nat, NEW invm \in Nat, NEW d, (invm * m + 1) % B = 0,
         d = (invm * (a % B)) % B
  PROVE  (a + ((d * m) % B)) % B = 0
<1>1. B \in Nat /\ B > 0
  BY BaseFacts
<1> DEFINE r == a % B
           u == invm * m
<1>2. r \in Nat /\ Cong(r, a, B)
  BY <1>1, CongModulo
<1>3. u \in Nat
  BY SMT
<1>4. Cong(u + 1, 0, B)
  <2> HIDE DEF u
  <2>1. Cong(u + 1, (u + 1) % B, B)
    BY <1>1, <1>3, CongModulo
  <2>2. QED
    BY <2>1 DEF u
<1>5. d \in Nat /\ Cong(d, invm * r, B)
  <2> HIDE DEF r
  <2>1. invm * r \in Nat
    BY <1>2, SMT
  <2>2. d = (invm * r) % B
    BY DEF r
  <2>3. QED
    BY <1>1, <2>1, <2>2, CongModulo
<1> HIDE DEF r
<1>6. invm * r \in Nat /\ d * m \in Nat /\ (invm * r) * m = u * r /\ u * r \in Nat
      /\ (u + 1) * a = u * a + a /\ u * a \in Nat /\ 0 * a = 0
  BY <1>2, <1>3, <1>5, SMT DEF u
<1> HIDE DEF u
<1>7. Cong(d * m, (invm * r) * m, B)
  <2>1. Cong(m, m, B)
    BY <1>1, CongEqual
  <2>2. QED
    BY <1>1, <1>5, <1>6, <2>1, CongTimes
<1>8. Cong(u * r, u * a, B)
  <2>1. Cong(u, u, B)
    BY <1>1, <1>3, CongEqual
  <2>2. QED
    BY <1>1, <1>2, <1>3, <2>1, CongTimes
<1>9. Cong(u * a + a, 0, B)
  <2>1. Cong(a, a, B)
    BY <1>1, CongEqual
  <2>2. Cong((u + 1) * a, 0 * a, B)
    BY <1>1, <1>3, <1>4, <2>1, CongTimes
  <2>3. QED
    BY <1>6, <2>2
<1> DEFINE p == d * m
<1>10. p \in Nat /\ Cong(p, u * a, B)
  BY <1>1, <1>6, <1>7, <1>8, CongJoin
<1> HIDE DEF p
<1>11. p % B \in Nat /\ Cong(p % B, p, B)
  BY <1>1, <1>10, CongModulo
<1> DEFINE s == p % B
           t == u * a
<1>12. s \in Nat /\ t \in Nat /\ Cong(s, t, B)
  BY <1>1, <1>6, <1>10, <1>11, CongJoin
<1>13. Cong(t + a, 0, B)
  BY <1>9
<1> HIDE DEF s, t
<1>14. Cong(s + a, t + a, B)
  <2>1. Cong(a, a, B)
    BY <1>1, CongEqual
  <2>2. QED
    BY <1>1, <1>12, <2>1, CongPlus
<1>15. Cong(s + a, 0, B)
  BY <1>1, <1>12, <1>13, <1>14, CongJoin
<1>16. (s + a) % B = 0 % B
  BY <1>1, <1>12, <1>15, CongSameRest
<1>17. 0 % B = 0 /\ s + a = a + s
  BY <1>1, <1>12
<1>18. QED
  BY <1>16, <1>17 DEF s, p

-----------------------------------------------------------------------------
(***************************************************************************)
(* One column of the reduction: with the carry that arrives and all the    *)
(* digits' products, nothing overflows a double word.                      *)
(***************************************************************************)
FullLow(low, dig, mod, n, i) == low[i] + LowSum(dig, mod, i, Column(i, n, n))
FullHigh(high, dig, mod, n, i) == high[i] + HighSum(dig, mod, i, Column(i, n, n))

Adds(Y, sum, full, i, n) ==
    /\ Y.low = sum
    /\ NextLow(Y) = full + sum \div B
    /\ i < n => sum % B = 0

\* A column before the last: its low half carries out, and its lowest word is
\* zero while a digit is chosen.
LEMMA ColumnAdds ==
  ASSUME NEW n \in Nat \ {0}, 4 * n <= B, NEW low, NEW high, NEW i \in Nat,
         low[i] \in 0 .. n * (B - 1), high[i] \in 0 .. n * (B - 1),
         NEW mod \in Number(n), NEW invm \in Nat, (invm * mod[0] + 1) % B = 0,
         NEW X \in Left(i, n), NEW dig \in Number(n),
         \A j \in Digits(i, n) : X.inv[j] = dig[j],
         i < n => MontgomeryColumn(low, high, mod, invm, n, i, X).inv[i] = dig[i],
         NextLow(X) <= 2 * n * (B - 1) + (B - 1)
  PROVE  Adds(MontgomeryColumn(low, high, mod, invm, n, i, X),
              FullLow(low, dig, mod, n, i) + NextLow(X), FullHigh(high, dig, mod, n, i), i, n)
<1> DEFINE known == Column(i, n, n) \ {i}
           ls == LowSum(dig, mod, i, known)
           hs == HighSum(dig, mod, i, known)
           D == B * B
           m == n * (B - 1)
           g == NextLow(X)
           accLow == (low[i] + g + ls) % D
           accHi == high[i] + hs
           digit == (invm * (accLow % B)) % B
           Y == MontgomeryColumn(low, high, mod, invm, n, i, X)
           sum == FullLow(low, dig, mod, n, i) + g
           full == FullHigh(high, dig, mod, n, i)
           pl == IF i < n THEN (dig[i] * mod[0]) % B ELSE 0
           ph == IF i < n THEN (dig[i] * mod[0]) \div B ELSE 0
<1>1. B \in Nat /\ B > 0 /\ D \in Nat /\ D > 0 /\ m \in Nat
  <2>1. B - 1 \in Nat
    BY BaseFacts
  <2>2. m \in Nat
    BY <2>1, SMT
  <2>3. QED
    BY <2>2, BaseFacts, Doubles
<1>2. 4 * m + (B - 1) < D /\ 2 * n * (B - 1) = 2 * m
  <2>1. \A b, k \in Nat : 4 * k <= b /\ b > 0 => 4 * (k * (b - 1)) + (b - 1) < b * b
    <3>1. ASSUME NEW b \in Nat, NEW k \in Nat, 4 * k <= b, b > 0
          PROVE  4 * (k * (b - 1)) + (b - 1) < b * b
      <4>1. PICK c \in Nat : b = c + 1
        <5>1. b - 1 \in Nat /\ b = (b - 1) + 1
          BY <3>1
        <5>2. QED
          BY <5>1
      <4>2. PICK d \in Nat : b = 4 * k + d
        <5>1. b - 4 * k \in Nat /\ b = 4 * k + (b - 4 * k)
          BY <3>1
        <5>2. QED
          BY <5>1
      <4>3. b * c = 4 * (k * c) + d * c /\ d * c \in Nat /\ k * c \in Nat /\ b * c \in Nat
        BY <4>1, <4>2, SMT
      <4>4. b * b = b * c + b
        BY <4>1, <4>3, SMT
      <4>5. b - 1 = c
        BY <4>1
      <4>6. QED
        BY <4>1, <4>3, <4>4, <4>5
    <3>2. QED
      BY <3>1
  <2>2. 2 * n * (B - 1) = 2 * (n * (B - 1))
    BY <1>1, SMT
  <2>3. QED
    BY <1>1, <2>1, <2>2
<1>3. known \in SUBSET Column(i, n, n) /\ \A j \in known : j \in Digits(i, n)
  BY DEF Column, Digits
<1>4. X.low \in Nat /\ X.high \in Nat /\ X.inv \in [Digits(i, n) -> Word]
  BY DEF Left
<1>5. LowSum(X.inv, mod, i, known) = ls /\ HighSum(X.inv, mod, i, known) = hs
      /\ ls \in Nat /\ hs \in Nat
  <2>1. \A j \in known : dig[j] \in Word /\ X.inv[j] = dig[j]
    BY <1>3, <1>4
  <2> HIDE DEF known
  <2>2. n \in Nat
    OBVIOUS
  <2>3. QED
    BY <1>3, <2>1, <2>2, HalvesAreNat
<1>6. g \in Nat /\ g <= 2 * m + (B - 1)
  <2>1. X.high + X.low \div B \in Nat
    BY <1>1, <1>4, Division
  <2> HIDE DEF D, m
  <2>2. g = (X.high + X.low \div B) % D
    BY DEF NextLow, D
  <2>3. g \in Nat
    BY <1>1, <2>1, <2>2, Division
  <2>4. QED
    BY <1>2, <2>3
<1>7. /\ FullLow(low, dig, mod, n, i) = low[i] + (ls + pl)
      /\ full = high[i] + (hs + ph)
  <2>1. i \in Nat /\ n \in Nat \ {0}
    OBVIOUS
  <2>2. QED
    BY ColumnSplit DEF FullLow, FullHigh
<1>8. ls + pl \in 0 .. m /\ hs + ph \in 0 .. m
  <2>1. /\ LowSum(dig, mod, i, Column(i, n, n)) \in 0 .. m
        /\ HighSum(dig, mod, i, Column(i, n, n)) \in 0 .. m
    <3>1. n \in Nat
      OBVIOUS
    <3>2. QED
      BY <3>1, ColumnHalves
  <2>2. QED
    BY <2>1, ColumnSplit
<1>9. pl \in 0 .. B - 1 /\ ph \in Nat
  <2>1. CASE i < n
    <3> DEFINE p == dig[i] * mod[0]
    <3>1. p \in Nat
      <4>1. dig[i] \in Word /\ mod[0] \in Word
        BY <2>1 DEF Number
      <4>2. QED
        BY <4>1, Doubles
    <3> HIDE DEF p
    <3>2. p % B \in 0 .. B - 1 /\ p \div B \in Nat
      BY <1>1, <3>1, Division
    <3>3. QED
      BY <2>1, <3>2 DEF p
  <2>2. CASE ~(i < n)
    BY <1>1, <2>2
  <2>3. QED
    BY <2>1, <2>2
<1>10. low[i] \in 0 .. m /\ high[i] \in 0 .. m
  OBVIOUS
<1>11. Y = IF i < n
           THEN [low |-> (accLow + ((digit * mod[0]) % B)) % D,
                 high |-> (accHi + (digit * mod[0]) \div B) % D,
                 inv |-> [j \in 0 .. i |-> IF j = i THEN digit ELSE X.inv[j]]]
           ELSE [low |-> accLow, high |-> accHi % D, inv |-> X.inv]
  <2> HIDE DEF ls, hs
  <2>1. QED
    BY <1>5 DEF MontgomeryColumn
<1>12. i < n => digit = dig[i]
  <2>1. SUFFICES ASSUME i < n PROVE digit = dig[i]
    OBVIOUS
  <2>2. Y.inv = [j \in 0 .. i |-> IF j = i THEN digit ELSE X.inv[j]]
    <3> HIDE DEF Y, digit, accLow, accHi, D
    <3>1. QED
      BY <1>11, <2>1
  <2>3. Y.inv[i] = dig[i]
    BY <2>1
  <2> HIDE DEF Y, digit
  <2>4. QED
    BY <2>2, <2>3
<1>13. \A x \in Nat : x < D => x % D = x
  <2> HIDE DEF D
  <2>1. QED
    BY <1>1, SMT
<1>14. i < n => (accLow + pl) % B = 0
  <2>1. SUFFICES ASSUME i < n PROVE (accLow + pl) % B = 0
    OBVIOUS
  <2>2. accLow \in Nat
    <3>1. low[i] + g + ls \in Nat
      <4> HIDE DEF g, ls, m
      <4>1. QED
        BY <1>1, <1>5, <1>6, <1>10
    <3> HIDE DEF D, g, ls
    <3>2. QED
      BY <1>1, <3>1, Division
  <2>3. dig[i] = (invm * (accLow % B)) % B
    BY <1>12, <2>1
  <2>4. mod[0] \in Nat
    BY DEF Number, Word
  <2>5. pl = (dig[i] * mod[0]) % B
    BY <2>1
  <2> HIDE DEF accLow, pl
  <2>6. (accLow + ((dig[i] * mod[0]) % B)) % B = 0
    BY <2>2, <2>3, <2>4, DigitClears
  <2>7. QED
    BY <2>5, <2>6
<1>15. Y.low = (accLow + pl) % D /\ Y.high = (accHi + ph) % D
  <2>1. CASE i < n
    <3>1. digit = dig[i]
      BY <1>12, <2>1
    <3>2. pl = (dig[i] * mod[0]) % B /\ ph = (dig[i] * mod[0]) \div B
      BY <2>1
    <3> HIDE DEF Y, digit, accLow, accHi, pl, ph, D
    <3>3. QED
      BY <1>11, <2>1, <3>1, <3>2
  <2>2. CASE ~(i < n)
    <3>1. pl = 0 /\ ph = 0
      BY <2>2
    <3>2. accLow \in Nat /\ accLow < D /\ accHi \in Nat
      <4>1. low[i] + g + ls \in Nat /\ accHi \in Nat
        <5> HIDE DEF g, ls, hs, m
        <5>1. QED
          BY <1>1, <1>5, <1>6, <1>10
      <4> HIDE DEF D, g, ls, accHi
      <4>2. QED
        BY <1>1, <4>1, Division
    <3>3. Y.low = accLow /\ Y.high = accHi % D
      <4> HIDE DEF Y, digit, accLow, accHi, D
      <4>1. QED
        BY <1>11, <2>2
    <3> HIDE DEF Y, digit, accLow, accHi, pl, ph, D
    <3>4. accLow + pl = accLow /\ accHi + ph = accHi
      BY <3>1, <3>2
    <3>5. QED
      BY <1>13, <3>2, <3>3, <3>4
  <2>3. QED
    BY <2>1, <2>2
<1> HIDE DEF ls, hs, pl, ph, g, m, D, Y, digit, full
<1>16. accLow = low[i] + g + ls
  <2>1. low[i] + g + ls \in Nat /\ low[i] + g + ls < D
    BY <1>1, <1>2, <1>5, <1>6, <1>8, <1>9, <1>10
  <2>2. QED
    BY <1>13, <2>1
<1> HIDE DEF accLow
<1>17. accLow + pl = sum /\ sum \in Nat /\ sum < D /\ accHi + ph = full /\ full \in 0 .. 2 * m
  BY <1>1, <1>2, <1>5, <1>6, <1>7, <1>8, <1>9, <1>10, <1>16
<1> HIDE DEF accHi, sum
<1>18. Y.low = sum /\ Y.high = full
  <2>1. full \in Nat /\ full < D
    BY <1>1, <1>2, <1>17
  <2>2. QED
    BY <1>13, <1>15, <1>17, <2>1
<1>19. NextLow(Y) = full + sum \div B
  <2>1. sum \div B \in Nat /\ sum \div B < B
    <3>1. sum \div B \in Nat
      BY <1>1, <1>17, Division
    <3>2. sum < B * B
      BY <1>17 DEF D
    <3>3. QED
      BY <1>1, <1>17, <3>1, <3>2, SmallQuotient
  <2>2. full + sum \div B \in Nat /\ full + sum \div B < D
    <3> DEFINE t == sum \div B
    <3> HIDE DEF t
    <3>1. t \in Nat /\ t < B => full + t \in Nat /\ full + t < D
      BY <1>1, <1>2, <1>17
    <3>2. QED
      BY <2>1, <3>1 DEF t
  <2>3. NextLow(Y) = (full + sum \div B) % D
    BY <1>18 DEF NextLow, D
  <2>4. QED
    BY <1>13, <2>2, <2>3
<1>20. i < n => sum % B = 0
  BY <1>14, <1>17
<1>21. QED
  BY <1>18, <1>19, <1>20 DEF sum, full, Y, g, Adds

-----------------------------------------------------------------------------
(***************************************************************************)
(* The digits that a reduction chooses, and the columns with all of them.  *)
(***************************************************************************)
DigitsOf(K, n) == [j \in 0 .. n - 1 |-> K[j + 1].inv[j]]

\* A later column keeps the digits that the earlier ones chose.
LEMMA DigitsStay ==
  ASSUME NEW n \in Nat \ {0}, NEW mod, NEW invm, NEW low, NEW high, NEW K,
         Runs(K, low, high, mod, invm, n),
         \A i \in 0 .. 2 * n - 1 : K[i] \in Left(i, n)
  PROVE  /\ DigitsOf(K, n) \in Number(n)
         /\ \A i \in 0 .. 2 * n - 1 : \A j \in Digits(i, n) :
               K[i].inv[j] = DigitsOf(K, n)[j]
<1> DEFINE dig == [j \in 0 .. n - 1 |-> K[j + 1].inv[j]]
           S == {i \in Nat : i <= 2 * n - 1 => \A j \in Digits(i, n) : K[i].inv[j] = dig[j]}
<1>1. ASSUME NEW j \in 0 .. n - 1 PROVE K[j + 1].inv[j] \in Word
  <2>1. j + 1 \in 0 .. 2 * n - 1 /\ j \in Digits(j + 1, n)
    BY DEF Digits
  <2>2. K[j + 1] \in Left(j + 1, n)
    BY <2>1
  <2>3. QED
    BY <2>1, <2>2 DEF Left
<1>2. dig \in Number(n)
  BY <1>1 DEF Number
<1>3. 0 \in S
  BY DEF Digits
<1>4. ASSUME NEW i \in Nat, i \in S PROVE i + 1 \in S
  <2>1. SUFFICES ASSUME i + 1 <= 2 * n - 1, NEW j \in Digits(i + 1, n)
                 PROVE  K[i + 1].inv[j] = dig[j]
    OBVIOUS
  <2>2. i \in 0 .. 2 * n - 2 /\ j \in 0 .. n - 1
    BY <2>1 DEF Digits
  <2>3. K[i + 1] = MontgomeryColumn(low, high, mod, invm, n, i, K[i])
    BY <2>2 DEF Runs
  <2>4. dig[j] = K[j + 1].inv[j]
    BY <2>2
  <2>5. CASE j = i
    BY <2>4, <2>5
  <2>6. CASE j # i
    <3>1. j \in Digits(i, n) /\ (i < n => j \in 0 .. i)
      BY <2>1, <2>6 DEF Digits
    <3>2. K[i].inv[j] = dig[j]
      <4>1. i <= 2 * n - 1
        BY <2>1
      <4> HIDE DEF dig
      <4>2. QED
        BY <1>4, <3>1, <4>1
    <3>3. K[i + 1].inv[j] = K[i].inv[j]
      <4>1. CASE i < n
        BY <2>3, <2>6, <3>1, <4>1 DEF MontgomeryColumn
      <4>2. CASE ~(i < n)
        BY <2>3, <4>2 DEF MontgomeryColumn
      <4>3. QED
        BY <4>1, <4>2
    <3>4. QED
      BY <3>2, <3>3
  <2>7. QED
    BY <2>5, <2>6
<1>5. \A i \in Nat : i \in S
  <2> HIDE DEF S
  <2>1. QED
    BY <1>3, <1>4, Induction
<1>6. dig = DigitsOf(K, n)
  BY DEF DigitsOf
<1> HIDE DEF dig
<1>7. \A i \in 0 .. 2 * n - 1 : \A j \in Digits(i, n) : K[i].inv[j] = dig[j]
  <2>1. \A i \in 0 .. 2 * n - 1 : i \in Nat /\ i <= 2 * n - 1
    OBVIOUS
  <2>2. QED
    BY <1>5, <2>1
<1>8. QED
  BY <1>2, <1>6, <1>7

FullLows(low, dig, mod, n) == [i \in 0 .. 2 * n - 2 |-> FullLow(low, dig, mod, n, i)]
FullHighs(high, dig, mod, n) == [i \in 0 .. 2 * n - 2 |-> FullHigh(high, dig, mod, n, i)]

\* With the products of the digits a column has the halves of at most twice as
\* many products.
LEMMA FullHalves ==
  ASSUME NEW n \in Nat \ {0}, NEW low, NEW high, Halves(low, high, 2 * n - 1, n),
         NEW mod \in Number(n), NEW dig \in Number(n)
  PROVE  Halves(FullLows(low, dig, mod, n), FullHighs(high, dig, mod, n), 2 * n - 1, 2 * n)
<1> DEFINE m == n * (B - 1)
<1>1. m \in Nat /\ 2 * n * (B - 1) = 2 * m
  <2>1. B - 1 \in Nat
    BY BaseFacts
  <2>2. QED
    BY <2>1, SMT
<1>2. ASSUME NEW i \in 0 .. 2 * n - 2
      PROVE  FullLow(low, dig, mod, n, i) \in 0 .. 2 * m /\ FullHigh(high, dig, mod, n, i) \in 0 .. 2 * m
  <2>1. /\ LowSum(dig, mod, i, Column(i, n, n)) \in 0 .. m
        /\ HighSum(dig, mod, i, Column(i, n, n)) \in 0 .. m
    <3>1. n \in Nat /\ i \in Nat
      OBVIOUS
    <3>2. QED
      BY <3>1, ColumnHalves
  <2>2. low[i] \in 0 .. m /\ high[i] \in 0 .. m
    <3>1. i \in 0 .. (2 * n - 1) - 1
      OBVIOUS
    <3> HIDE DEF m
    <3>2. QED
      BY <3>1 DEF Halves, m
  <2> HIDE DEF m
  <2>3. QED
    BY <1>1, <2>1, <2>2 DEF FullLow, FullHigh
<1>3. (2 * n - 1) - 1 = 2 * n - 2
  OBVIOUS
<1> HIDE DEF m
<1>4. QED
  BY <1>1, <1>2, <1>3 DEF Halves, FullLows, FullHighs

(***************************************************************************)
(* All the columns together are worth the number reduced and the digits'   *)
(* multiple of mod.                                                        *)
(***************************************************************************)
LEMMA FullWorth ==
  ASSUME NEW n \in Nat \ {0}, NEW low, NEW high, Halves(low, high, 2 * n - 1, n),
         NEW mod \in Number(n), NEW dig \in Number(n)
  PROVE  SumUpTo(Worth(FullLows(low, dig, mod, n), FullHighs(high, dig, mod, n), 2 * n - 1), 2 * n - 1)
           = SumUpTo(Worth(low, high, 2 * n - 1), 2 * n - 1) + ValueOf(dig, n) * ValueOf(mod, n)
<1> DEFINE N == 2 * n - 1
           f == Worth(low, high, N)
           p == [i \in 0 .. N - 1 |-> Weight[i] * ColumnSum(dig, mod, i, n, n)]
           h == Worth(FullLows(low, dig, mod, n), FullHighs(high, dig, mod, n), N)
           m == n * (B - 1)
<1>1. N \in Nat /\ N - 1 = 2 * n - 2 /\ n \in Nat /\ n > 0 /\ n + n <= N + 1
  OBVIOUS
<1>2. m \in Nat /\ B \in Nat
  <2>1. B - 1 \in Nat /\ B \in Nat
    BY BaseFacts
  <2>2. QED
    BY <2>1, SMT
<1>3. Ints(dig, n) /\ Ints(mod, n)
  BY BaseFacts DEF Ints, Number, Word
<1> HIDE DEF N
<1>4. SumUpTo(p, N) = ValueOf(dig, n) * ValueOf(mod, n)
  <2>1. \A i \in 0 .. N - 1 : p[i] = Weight[i] * ColumnSum(dig, mod, i, n, n)
    OBVIOUS
  <2> HIDE DEF p
  <2>2. QED
    BY <1>1, <1>3, <2>1, ColumnsProduct
<1>5. ASSUME NEW i \in 0 .. N - 1
      PROVE  f[i] \in Int /\ p[i] \in Int /\ h[i] = f[i] + p[i]
  <2> DEFINE w == Weight[i]
             l == low[i]
             hi == high[i]
             dl == LowSum(dig, mod, i, Column(i, n, n))
             dh == HighSum(dig, mod, i, Column(i, n, n))
             cs == ColumnSum(dig, mod, i, n, n)
  <2>1. w \in Nat /\ i \in Nat
    BY <1>1, WeightFacts
  <2>2. l \in Nat /\ hi \in Nat
    <3>1. l \in 0 .. m /\ hi \in 0 .. m
      BY DEF Halves, N
    <3> HIDE DEF m
    <3>2. QED
      BY <1>2, <3>1
  <2>3. dl \in Nat /\ dh \in Nat /\ dl + B * dh = cs
    <3>1. dl \in 0 .. m /\ dh \in 0 .. m /\ dl + B * dh = cs
      <4>1. n \in Nat /\ i \in Nat
        BY <1>1, <2>1
      <4>2. QED
        BY <4>1, ColumnHalves
    <3> HIDE DEF m, dl, dh
    <3>2. QED
      BY <1>2, <3>1
  <2>4. f[i] = w * (l + B * hi) /\ p[i] = w * cs
    BY DEF Worth
  <2>5. h[i] = w * ((l + dl) + B * (hi + dh))
    BY <1>1 DEF Worth, FullLows, FullHighs, FullLow, FullHigh
  <2> HIDE DEF w, l, hi, dl, dh, cs, f, p, h
  <2>6. B * (hi + dh) = B * hi + B * dh /\ B * hi \in Nat /\ B * dh \in Nat
    BY <1>2, <2>2, <2>3, SMT
  <2>7. (l + dl) + B * (hi + dh) = (l + B * hi) + cs /\ cs \in Nat /\ l + B * hi \in Nat
    BY <2>2, <2>3, <2>6
  <2>8. \A a, b \in Nat : w * (a + b) = w * a + w * b /\ w * a \in Nat /\ w * b \in Nat
    BY <2>1, SMT
  <2>9. QED
    BY <2>4, <2>5, <2>7, <2>8
<1> HIDE DEF f, p, h
<1>6. SumUpTo(h, N) = SumUpTo(f, N) + SumUpTo(p, N)
  <2>1. Ints(f, N) /\ Ints(p, N)
    BY <1>5 DEF Ints
  <2>2. \A i \in 0 .. N - 1 : h[i] = f[i] + p[i]
    BY <1>5
  <2>3. QED
    BY <1>1, <2>1, <2>2, SumPlus
<1>7. QED
  BY <1>4, <1>6 DEF f, h, N

-----------------------------------------------------------------------------
(***************************************************************************)
(* Montgomery reduction of the number that the columns are worth, which is *)
(* below the square of Weight[n]: the result and its excess times          *)
(* Weight[n] are that number and a multiple of mod below Weight[n] * mod.  *)
(***************************************************************************)
Reduces(m, total, mod, n) ==
    /\ m.words \in Number(n)
    /\ \E digits \in 0 .. Weight[n] - 1, top \in 0 .. 1 :
          /\ m.exceeds <=> top = 1
          /\ Weight[n] * (ValueOf(m.words, n) + top * Weight[n])
                = total + digits * ValueOf(mod, n)

\* Montgomery's reduction (monSqr, monMul, redcHalf) is exact: the number reduced
\* plus a multiple of mod is the result, moved up by n words, and the word beyond
\* the result, which the code tests, is zero or one.  No column overflows its
\* double words.
THEOREM MontgomeryExact ==
  ASSUME NEW n \in Nat \ {0}, 4 * n <= B, NEW low, NEW high, Halves(low, high, 2 * n - 1, n),
         NEW mod \in Number(n), NEW invm \in Nat, (invm * mod[0] + 1) % B = 0,
         SumUpTo(Worth(low, high, 2 * n - 1), 2 * n - 1) < Weight[n] * Weight[n]
  PROVE  Reduces(Montgomery(low, high, mod, invm, n),
                 SumUpTo(Worth(low, high, 2 * n - 1), 2 * n - 1), mod, n)
<1> DEFINE N == 2 * n - 1
           total == SumUpTo(Worth(low, high, N), N)
           W == Weight[n]
<1>1. N \in Nat /\ N - 1 = 2 * n - 2 /\ n \in Nat /\ n > 0 /\ B \in Nat /\ B > 0
      /\ W \in Nat /\ W > 0 /\ B - 1 \in Nat
  BY BaseFacts, WeightFacts
<1>2. \A i \in 0 .. 2 * n - 2 : low[i] \in 0 .. n * (B - 1) /\ high[i] \in 0 .. n * (B - 1)
  BY <1>1 DEF Halves
<1>3. PICK K : /\ Runs(K, low, high, mod, invm, n)
               /\ \A i \in 0 .. 2 * n - 1 : K[i] \in Left(i, n)
               /\ Montgomery(low, high, mod, invm, n) = Result(K, n)
  <2>1. Naturals(low, high, 2 * n - 1)
    <3>1. n * (B - 1) \in Nat
      BY <1>1, SMT
    <3>2. QED
      BY <1>1, <1>2, <3>1 DEF Naturals
  <2>2. QED
    BY <2>1, ColumnsRun
<1> DEFINE dig == DigitsOf(K, n)
<1>4. /\ dig \in Number(n)
      /\ \A i \in 0 .. 2 * n - 1 : \A j \in Digits(i, n) : K[i].inv[j] = dig[j]
  BY <1>3, DigitsStay
<1>5. \A i \in 0 .. n - 1 : K[i + 1].inv[i] = dig[i]
  BY DEF DigitsOf
<1> HIDE DEF dig
<1> DEFINE l == FullLows(low, dig, mod, n)
           h == FullHighs(high, dig, mod, n)
<1>6. Halves(l, h, N, 2 * n)
  BY <1>4, FullHalves
<1>7. SumUpTo(Worth(l, h, N), N) = total + ValueOf(dig, n) * ValueOf(mod, n)
  BY <1>4, FullWorth
<1>8. \A i \in 0 .. 2 * n - 2 : l[i] = FullLow(low, dig, mod, n, i)
                                 /\ h[i] = FullHigh(high, dig, mod, n, i)
  BY DEF FullLows, FullHighs
<1> HIDE DEF l, h
<1>9. PICK G : /\ Carries(G, l, h, N)
               /\ \A i \in 0 .. N : G[i] <= 2 * n * (B - 1) + (B - 1)
  <2>1. 2 * n \in Nat /\ 2 * (2 * n) <= B
    BY <1>1
  <2> HIDE DEF N
  <2>2. QED
    BY <1>1, <1>6, <2>1, CarriesExist
<1>10. /\ G[0] = 0 /\ \A i \in Nat : G[i] \in Nat
       /\ \A i \in 0 .. 2 * n - 2 : G[i + 1] = h[i] + ((l[i] + G[i]) \div B)
  BY <1>1, <1>9 DEF Carries
<1>11. ASSUME NEW i \in 0 .. 2 * n - 2, NextLow(K[i]) = G[i]
       PROVE  /\ K[i + 1].low = l[i] + G[i]
              /\ NextLow(K[i + 1]) = G[i + 1]
              /\ i < n => (l[i] + G[i]) % B = 0
  <2>1. K[i + 1] = MontgomeryColumn(low, high, mod, invm, n, i, K[i])
    BY <1>3 DEF Runs
  <2>2. i \in Nat /\ i \in 0 .. 2 * n - 1 /\ i \in 0 .. N
    OBVIOUS
  <2>3. K[i] \in Left(i, n) /\ NextLow(K[i]) <= 2 * n * (B - 1) + (B - 1)
    BY <1>3, <1>9, <1>11, <2>2
  <2>4. i < n => MontgomeryColumn(low, high, mod, invm, n, i, K[i]).inv[i] = dig[i]
    BY <1>5, <2>1, <2>2
  <2>5. low[i] \in 0 .. n * (B - 1) /\ high[i] \in 0 .. n * (B - 1)
    BY <1>2
  <2>6. \A j \in Digits(i, n) : K[i].inv[j] = dig[j]
    BY <1>4, <2>2
  <2> DEFINE Y == MontgomeryColumn(low, high, mod, invm, n, i, K[i])
             sum == FullLow(low, dig, mod, n, i) + NextLow(K[i])
  <2>7. /\ Y.low = sum
        /\ NextLow(Y) = FullHigh(high, dig, mod, n, i) + sum \div B
        /\ i < n => sum % B = 0
    <3>1. dig \in Number(n) /\ i \in Nat
      BY <1>4, <2>2
    <3>2. Adds(MontgomeryColumn(low, high, mod, invm, n, i, K[i]),
               FullLow(low, dig, mod, n, i) + NextLow(K[i]),
               FullHigh(high, dig, mod, n, i), i, n)
      BY <3>1, <2>3, <2>4, <2>5, <2>6, ColumnAdds
    <3> HIDE DEF Y, sum
    <3>3. QED
      BY <3>2 DEF Adds, Y, sum
  <2>8. sum = l[i] + G[i] /\ FullHigh(high, dig, mod, n, i) = h[i] /\ Y = K[i + 1]
    BY <1>8, <1>11, <2>1
  <2> HIDE DEF Y, sum
  <2>9. QED
    BY <1>10, <2>7, <2>8
<1> DEFINE S == {i \in Nat : i <= 2 * n - 1 => NextLow(K[i]) = G[i]}
<1>12. \A i \in Nat : i \in S
  <2>1. 0 \in S
    <3>1. K[0] = NoColumn
      BY <1>3 DEF Runs
    <3>2. NextLow(NoColumn) = 0
      <4>1. NoColumn.low = 0 /\ NoColumn.high = 0
        BY DEF NoColumn
      <4>2. 0 \div B = 0 /\ 0 % (B * B) = 0
        <5>1. B * B \in Nat /\ B * B > 0
          BY Doubles
        <5> DEFINE D == B * B
        <5> HIDE DEF D
        <5>2. D \in Nat /\ D > 0 => 0 % D = 0
          BY SMT
        <5>3. 0 \div B = 0
          BY <1>1, SMT
        <5>4. QED
          BY <5>1, <5>2, <5>3 DEF D
      <4>3. QED
        BY <4>1, <4>2 DEF NextLow
    <3>3. QED
      BY <1>10, <3>1, <3>2
  <2>2. ASSUME NEW i \in Nat, i \in S PROVE i + 1 \in S
    <3>1. SUFFICES ASSUME i + 1 <= 2 * n - 1 PROVE NextLow(K[i + 1]) = G[i + 1]
      OBVIOUS
    <3>2. i \in 0 .. 2 * n - 2 /\ NextLow(K[i]) = G[i]
      BY <2>2, <3>1
    <3>3. QED
      BY <1>11, <3>2
  <2> HIDE DEF S
  <2>3. QED
    BY <2>1, <2>2, Induction
<1>13. \A i \in 0 .. 2 * n - 2 : /\ K[i + 1].low = l[i] + G[i]
                                 /\ i < n => (l[i] + G[i]) % B = 0
  <2>1. \A i \in 0 .. 2 * n - 2 : NextLow(K[i]) = G[i]
    BY <1>12
  <2> HIDE DEF S
  <2>2. QED
    BY <1>11, <2>1
<1>14. NextLow(K[2 * n - 1]) = G[N] /\ G[N] \in Nat
  BY <1>1, <1>10, <1>12
<1> HIDE DEF S
<1> DEFINE out == [i \in 0 .. N - 1 |-> (l[i] + G[i]) % B]
           last == G[N]
           words == [i \in 0 .. n - 1 |-> (IF i = n - 1 THEN last ELSE l[n + i] + G[n + i]) % B]
           m == Montgomery(low, high, mod, invm, n)
<1>15. m.words = words /\ (m.exceeds <=> last \div B # 0)
  <2>1. m = Result(K, n)
    BY <1>3
  <2>2. \A i \in 0 .. n - 1 : i # n - 1 => K[n + i + 1].low = l[n + i] + G[n + i]
    <3>1. \A i \in 0 .. n - 1 : i # n - 1 => n + i \in 0 .. 2 * n - 2
      OBVIOUS
    <3>2. QED
      BY <1>13, <3>1
  <2> HIDE DEF m, N
  <2>3. QED
    BY <1>14, <2>1, <2>2 DEF Result
<1> HIDE DEF m
<1>16. ValueOf(out, N) + last * Weight[N] = SumUpTo(Worth(l, h, N), N)
  <2>1. \A i \in 0 .. N - 1 : out[i] = (l[i] + G[i]) % B
    OBVIOUS
  <2>2. 2 * n \in Nat
    BY <1>1
  <2> HIDE DEF out, N
  <2>3. QED
    BY <1>1, <1>6, <1>9, <2>1, <2>2, CarriesWorth
<1>17. \A i \in 0 .. N - 1 : l[i] + G[i] \in Nat /\ (l[i] + G[i]) % B \in 0 .. B - 1
  <2>1. ASSUME NEW i \in 0 .. N - 1 PROVE l[i] + G[i] \in Nat
    <3>1. l[i] \in 0 .. 2 * n * (B - 1)
      BY <1>6 DEF Halves
    <3>2. 2 * n * (B - 1) \in Nat
      BY <1>1, SMT
    <3>3. G[i] \in Nat
      BY <1>10
    <3>4. QED
      BY <3>1, <3>2, <3>3
  <2>2. QED
    BY <1>1, <2>1, Division
<1>18. words \in Number(n)
  <2>1. ASSUME NEW i \in 0 .. n - 1
        PROVE  (IF i = n - 1 THEN last ELSE l[n + i] + G[n + i]) % B \in Word
    <3>1. CASE i = n - 1
      BY <1>1, <1>14, <3>1, Division DEF Word
    <3>2. CASE i # n - 1
      <4>1. n + i \in 0 .. N - 1
        BY <3>2
      <4>2. QED
        BY <1>17, <3>2, <4>1 DEF Word
    <3>3. QED
      BY <3>1, <3>2
  <2>2. QED
    BY <2>1 DEF Number
<1> DEFINE k == n - 1
           upper == [i \in 0 .. k - 1 |-> out[n + i]]
           ut == [i \in 0 .. k - 1 |-> upper[i] * Weight[i]]
           us == [i \in 0 .. k - 1 |-> W * ut[i]]
           ot == [i \in 0 .. N - 1 |-> out[i] * Weight[i]]
           wt == [i \in 0 .. n - 1 |-> words[i] * Weight[i]]
           V == SumUpTo(ut, k)
<1>19. k \in Nat /\ N = n + k /\ n = k + 1
  BY <1>1
<1>20. Ints(ut, k) /\ Ints(us, k)
  <2>1. \A i \in 0 .. k - 1 : upper[i] \in Nat /\ Weight[i] \in Nat
    <3>1. \A i \in 0 .. k - 1 : n + i \in 0 .. N - 1 /\ i \in Nat
      BY <1>19
    <3>2. \A i \in 0 .. N - 1 : out[i] \in Nat
      BY <1>1, <1>17
    <3> HIDE DEF out, N, k
    <3>3. QED
      BY <3>1, <3>2, WeightFacts
  <2>2. \A a, b \in Nat : a * b \in Nat
    BY SMT
  <2> HIDE DEF upper
  <2>3. \A i \in 0 .. k - 1 : ut[i] \in Nat
    BY <2>1, <2>2
  <2> HIDE DEF ut
  <2>4. \A i \in 0 .. k - 1 : us[i] \in Nat
    BY <1>1, <2>2, <2>3
  <2> HIDE DEF us
  <2>5. QED
    BY <2>3, <2>4 DEF Ints
<1>21. ValueOf(out, N) = W * V
  <2>1. ValueOf(out, N) = SumUpTo(ot, N)
    BY DEF ValueOf
  <2>2. SumUpTo(us, k) = W * V
    <3>1. \A i \in 0 .. k - 1 : us[i] = W * ut[i]
      OBVIOUS
    <3>2. W \in Int
      BY <1>1
    <3> HIDE DEF us, ut, W, k
    <3>3. QED
      BY <1>19, <1>20, <3>1, <3>2, SumTimes
  <2>3. Shifted(ot, us, n, k)
    <3>1. ASSUME NEW i \in 0 .. N - 1, i < n PROVE ot[i] = 0
      <4>1. out[i] = 0
        BY <1>13, <3>1
      <4>2. Weight[i] \in Nat /\ 0 * Weight[i] = 0
        BY WeightFacts
      <4> HIDE DEF out
      <4>3. QED
        BY <4>1, <4>2
    <3>2. ASSUME NEW i \in 0 .. N - 1, i >= n PROVE ot[i] = us[i - n]
      <4> DEFINE j == i - n
      <4>1. j \in 0 .. k - 1 /\ j \in Nat /\ i = n + j
        BY <3>2
      <4>2. us[j] = W * (out[n + j] * Weight[j])
        BY <4>1
      <4>3. ot[i] = out[n + j] * Weight[n + j]
        BY <4>1
      <4>4. Weight[n + j] = W * Weight[j] /\ Weight[j] \in Nat
        BY <1>1, <4>1, WeightPlus, WeightFacts
      <4>5. out[n + j] \in Nat
        <5>1. out[i] \in Nat
          BY <1>1, <1>17
        <5> HIDE DEF out
        <5>2. QED
          BY <4>1, <5>1
      <4> HIDE DEF out, us, ot, j
      <4>6. \A a, b, c \in Nat : a * (b * c) = b * (a * c)
        BY SMT
      <4>7. QED
        BY <1>1, <4>2, <4>3, <4>4, <4>5, <4>6 DEF j
    <3> HIDE DEF ot, us
    <3>3. QED
      BY <1>1, <1>19, <3>1, <3>2 DEF Shifted
  <2> HIDE DEF ot, us, V, N, k
  <2>4. SumUpTo(ot, N) = SumUpTo(us, k)
    BY <1>1, <1>19, <1>20, <2>3, SumShift
  <2>5. QED
    BY <2>1, <2>2, <2>4
<1>22. ValueOf(words, n) = V + (last % B) * Weight[k]
  <2>1. Ints(wt, k + 1)
    <3>1. ASSUME NEW i \in 0 .. n - 1 PROVE wt[i] \in Int
      <4>1. words[i] \in Nat /\ Weight[i] \in Nat
        <5>1. words[i] \in 0 .. B - 1
          BY <1>18 DEF Number, Word
        <5> HIDE DEF words
        <5>2. QED
          BY <1>1, <5>1, WeightFacts
      <4> HIDE DEF words
      <4>2. \A a, b \in Nat : a * b \in Int
        BY SMT
      <4>3. QED
        BY <4>1, <4>2
    <3> HIDE DEF wt
    <3>2. QED
      BY <1>19, <3>1 DEF Ints
  <2>2. ASSUME NEW i \in 0 .. k - 1 PROVE wt[i] = ut[i]
    <3>1. i \in 0 .. n - 1 /\ i # n - 1 /\ n + i \in 0 .. N - 1
      BY <1>19
    <3>2. words[i] = (l[n + i] + G[n + i]) % B
      BY <3>1
    <3>3. upper[i] = (l[n + i] + G[n + i]) % B
      BY <3>1
    <3> HIDE DEF words, upper
    <3>4. QED
      BY <3>1, <3>2, <3>3
  <2>3. wt[k] = (last % B) * Weight[k]
    BY <1>19
  <2>4. ValueOf(words, n) = SumUpTo(wt, n)
    BY DEF ValueOf
  <2> HIDE DEF wt, ut, k, words
  <2>5. SumUpTo(wt, k + 1) = SumUpTo(wt, k) + wt[k]
    BY <1>19, <2>1, SumNext
  <2>6. SumUpTo(wt, k) = SumUpTo(ut, k)
    BY <1>19, <1>20, <2>2, SumSame
  <2>7. QED
    BY <1>19, <2>3, <2>4, <2>5, <2>6
<1> DEFINE top == last \div B
           z == Weight[k]
           r == last % B
           y == ValueOf(words, n)
           d == ValueOf(dig, n)
           e == ValueOf(mod, n)
<1>23. V \in Int /\ z \in Nat /\ W = B * z /\ Weight[N] = W * z
  <2>1. W = B * z /\ z \in Nat
    BY <1>19, WeightFacts
  <2>2. Weight[N] = W * z
    BY <1>1, <1>19, WeightPlus
  <2>3. V \in Int
    <3> HIDE DEF ut, k
    <3>1. QED
      BY <1>19, <1>20, SumIsInt
  <2>4. QED
    BY <2>1, <2>2, <2>3
<1>24. top \in Nat /\ r \in Nat /\ last = B * top + r
  <2>1. last \in Nat
    BY <1>14
  <2> HIDE DEF last
  <2>2. QED
    BY <1>1, <2>1, Division
<1>25. y \in 0 .. W - 1 /\ d \in 0 .. W - 1 /\ e \in 0 .. W - 1
  <2> HIDE DEF words
  <2>1. QED
    BY <1>1, <1>4, <1>18, ValueBound
<1>26. total \in Int /\ total < W * W
  <2>1. Ints(Worth(low, high, N), N)
    <3>1. \A i \in 0 .. N - 1 : Weight[i] \in Nat /\ low[i] \in Int /\ high[i] \in Int /\ B \in Nat
      <4>1. n * (B - 1) \in Nat
        BY <1>1, SMT
      <4>2. QED
        BY <1>1, <1>2, WeightFacts
    <3>2. \A w \in Nat, a, b, c \in Int : w * (a + b * c) \in Int
      BY SMT
    <3>3. QED
      BY <3>1, <3>2 DEF Ints, Worth
  <2> HIDE DEF N
  <2>2. QED
    BY <1>1, <2>1, SumIsInt DEF N
<1>27. W * V + last * Weight[N] = total + d * e
  BY <1>7, <1>16, <1>21
<1>28. y = V + r * z
  BY <1>22
<1> HIDE DEF V, z, W, top, r, y, d, e, total, last, N, k
<1>29. last * Weight[N] = W * (r * z) + W * (top * W)
  <2>1. last * (W * z) = (B * top) * (W * z) + r * (W * z)
    <3>1. \A a, b, c \in Nat : (a + b) * c = a * c + b * c
      BY SMT
    <3>2. B * top \in Nat /\ W * z \in Nat
      BY <1>1, <1>23, <1>24, SMT
    <3>3. QED
      BY <1>24, <3>1, <3>2
  <2>2. (B * top) * (W * z) = W * (top * (B * z)) /\ r * (W * z) = W * (r * z)
    BY <1>1, <1>23, <1>24, SMT
  <2>3. (B * top) * (W * z) \in Int /\ r * (W * z) \in Int
    BY <1>1, <1>23, <1>24, SMT
  <2>4. QED
    BY <1>23, <2>1, <2>2, <2>3
<1>30. W * (y + top * W) = total + d * e
  <2>1. \A a, b, c \in Int : W * (a + b + c) = W * a + W * b + W * c
    BY <1>1, SMT
  <2>2. r * z \in Int /\ top * W \in Int
    BY <1>1, <1>23, <1>24, SMT
  <2>3. W * (V + r * z + top * W) = W * V + W * (r * z) + W * (top * W)
    BY <1>23, <2>1, <2>2
  <2>4. W * V \in Int /\ W * (r * z) \in Int /\ W * (top * W) \in Int
    BY <1>1, <1>23, <2>2, SMT
  <2>5. QED
    BY <1>27, <1>28, <1>29, <2>3, <2>4
<1>31. top \in 0 .. 1
  <2>1. d * e <= (W - 1) * (W - 1) /\ d * e \in Nat
    <3>1. \A a, b, c \in Nat : a <= c /\ b <= c => a * b <= c * c /\ a * b \in Nat
      BY SMT
    <3>2. d \in Nat /\ e \in Nat /\ W - 1 \in Nat /\ d <= W - 1 /\ e <= W - 1
      BY <1>1, <1>25
    <3>3. QED
      BY <3>1, <3>2
  <2>2. (W - 1) * (W - 1) <= W * W /\ W * W \in Nat /\ (W - 1) * (W - 1) \in Nat
    <3>1. \A c \in Nat : c > 0 => (c - 1) * (c - 1) <= c * c /\ c * c \in Nat /\ (c - 1) * (c - 1) \in Nat
      BY SMT
    <3>2. QED
      BY <1>1, <3>1
  <2>3. total + d * e < 2 * (W * W)
    BY <1>26, <2>1, <2>2
  <2>4. SUFFICES ASSUME top >= 2 PROVE FALSE
    BY <1>24
  <2>5. y + top * W >= 2 * W /\ y + top * W \in Nat
    <3>1. \A t \in Nat : t >= 2 => t * W >= 2 * W /\ t * W \in Nat
      BY <1>1, SMT
    <3>2. QED
      BY <1>1, <1>24, <1>25, <2>4, <3>1
  <2>6. \A a \in Nat : a >= 2 * W => W * a >= 2 * (W * W)
    BY <1>1, SMT
  <2>7. W * (y + top * W) >= 2 * (W * W)
    BY <2>5, <2>6
  <2>8. QED
    BY <1>30, <2>1, <2>2, <2>3, <2>7, <1>26
<1>32. m.exceeds <=> top = 1
  BY <1>15, <1>31 DEF top
<1>33. Reduces(m, total, mod, n)
  <2>1. m.words \in Number(n) /\ ValueOf(m.words, n) = y
    BY <1>15, <1>18 DEF y
  <2>2. Weight[n] * (ValueOf(m.words, n) + top * Weight[n]) = total + d * ValueOf(mod, n)
    BY <1>30, <2>1 DEF W, e
  <2>3. d \in 0 .. Weight[n] - 1
    BY <1>25 DEF W
  <2>4. QED
    BY <1>31, <1>32, <2>1, <2>2, <2>3 DEF Reduces
<1>34. QED
  BY <1>33 DEF m, total, N

-----------------------------------------------------------------------------
(***************************************************************************)
(* The numbers that the kernels reduce: a square, a product, a number.     *)
(***************************************************************************)
LEMMA ColumnsWorth ==
  ASSUME NEW n \in Nat \ {0}, NEW x \in Number(n), NEW y \in Number(n), NEW low, NEW high,
         \A i \in 0 .. 2 * n - 2 : /\ low[i] = LowSum(x, y, i, Column(i, n, n))
                                   /\ high[i] = HighSum(x, y, i, Column(i, n, n))
  PROVE  /\ Halves(low, high, 2 * n - 1, n)
         /\ SumUpTo(Worth(low, high, 2 * n - 1), 2 * n - 1) = ValueOf(x, n) * ValueOf(y, n)
<1> DEFINE N == 2 * n - 1
           p == Worth(low, high, N)
           m == n * (B - 1)
<1>1. N \in Nat /\ N - 1 = 2 * n - 2 /\ n \in Nat /\ n > 0 /\ n + n <= N + 1
  OBVIOUS
<1>2. ASSUME NEW i \in 0 .. 2 * n - 2
      PROVE  /\ low[i] \in 0 .. m /\ high[i] \in 0 .. m
             /\ low[i] + B * high[i] = ColumnSum(x, y, i, n, n)
  <2>1. n \in Nat /\ i \in Nat
    OBVIOUS
  <2> DEFINE l == LowSum(x, y, i, Column(i, n, n))
             h == HighSum(x, y, i, Column(i, n, n))
  <2>2. l \in 0 .. m /\ h \in 0 .. m /\ l + B * h = ColumnSum(x, y, i, n, n)
    BY <2>1, ColumnHalves
  <2>3. low[i] = l /\ high[i] = h
    OBVIOUS
  <2> HIDE DEF l, h, m
  <2>4. QED
    BY <2>2, <2>3
<1>3. Halves(low, high, N, n)
  <2> HIDE DEF m
  <2>1. QED
    BY <1>1, <1>2 DEF Halves, m
<1>4. Ints(x, n) /\ Ints(y, n)
  BY BaseFacts DEF Ints, Number, Word
<1>5. \A i \in 0 .. N - 1 : p[i] = Weight[i] * ColumnSum(x, y, i, n, n)
  <2>1. \A i \in 0 .. N - 1 : p[i] = Weight[i] * (low[i] + B * high[i])
    BY DEF Worth
  <2>2. \A i \in 0 .. N - 1 : low[i] + B * high[i] = ColumnSum(x, y, i, n, n)
    BY <1>1, <1>2
  <2> HIDE DEF p, N
  <2>3. QED
    BY <2>1, <2>2
<1> HIDE DEF p, N
<1>6. SumUpTo(p, N) = ValueOf(x, n) * ValueOf(y, n)
  BY <1>1, <1>4, <1>5, ColumnsProduct
<1>7. QED
  BY <1>3, <1>6 DEF p, N

\* A product of two numbers of n words is below the square of their bound.
LEMMA BelowSquare ==
  ASSUME NEW n \in Nat, NEW x \in Number(n), NEW y \in Number(n)
  PROVE  /\ ValueOf(x, n) * ValueOf(y, n) \in Nat
         /\ ValueOf(x, n) * ValueOf(y, n) < Weight[n] * Weight[n]
<1> DEFINE a == ValueOf(x, n)
           b == ValueOf(y, n)
           W == Weight[n]
<1>1. a \in 0 .. W - 1 /\ b \in 0 .. W - 1 /\ W \in Nat /\ W > 0
  BY ValueBound, WeightFacts
<1> HIDE DEF a, b, W
<1>2. a \in Nat /\ b \in Nat /\ W - 1 \in Nat /\ a <= W - 1 /\ b <= W - 1
  BY <1>1
<1>3. \A s, t, c \in Nat : s <= c /\ t <= c => s * t <= c * c /\ s * t \in Nat
  BY SMT
<1>4. (W - 1) * (W - 1) < W * W
  <2>1. \A c \in Nat : c > 0 => (c - 1) * (c - 1) < c * c
    BY SMT
  <2>2. QED
    BY <1>1, <2>1
<1>5. (W - 1) * (W - 1) \in Nat /\ W * W \in Nat
  BY <1>1, <1>2, SMT
<1>6. a * b \in Nat /\ a * b <= (W - 1) * (W - 1)
  BY <1>2, <1>3
<1>7. a * b \in Nat /\ a * b < W * W
  BY <1>4, <1>5, <1>6
<1>8. QED
  BY <1>7 DEF a, b, W

\* The reduction that monSqr computes.
LEMMA SquareReduces ==
  ASSUME NEW n \in Nat \ {0}, 4 * n <= B, NEW x \in Number(n),
         NEW mod \in Number(n), NEW invm \in Nat, (invm * mod[0] + 1) % B = 0
  PROVE  Reduces(Montgomery(SquareLow(x, n), SquareHigh(x, n), mod, invm, n),
                 ValueOf(x, n) * ValueOf(x, n), mod, n)
<1> DEFINE low == SquareLow(x, n)
           high == SquareHigh(x, n)
<1>1. \A i \in 0 .. 2 * n - 2 : /\ low[i] = LowSum(x, x, i, Column(i, n, n))
                                /\ high[i] = HighSum(x, x, i, Column(i, n, n))
  <2>1. ASSUME NEW i \in 0 .. 2 * n - 2
        PROVE  /\ low[i] = LowSum(x, x, i, Column(i, n, n))
               /\ high[i] = HighSum(x, x, i, Column(i, n, n))
    <3>1. i \in 0 .. 2 * n - 1 /\ i \in Nat /\ n \in Nat
      OBVIOUS
    <3>2. /\ low[i] = 2 * LowSum(x, x, i, Pairs(i, n)) + LowSum(x, x, i, Middle(i, n))
          /\ high[i] = 2 * HighSum(x, x, i, Pairs(i, n)) + HighSum(x, x, i, Middle(i, n))
      BY <3>1 DEF SquareLow, SquareHigh
    <3>3. QED
      BY <3>1, <3>2, SquareColumn
  <2>2. QED
    BY <2>1
<1> HIDE DEF low, high
<1>2. /\ Halves(low, high, 2 * n - 1, n)
      /\ SumUpTo(Worth(low, high, 2 * n - 1), 2 * n - 1) = ValueOf(x, n) * ValueOf(x, n)
  BY <1>1, ColumnsWorth
<1>3. ValueOf(x, n) * ValueOf(x, n) < Weight[n] * Weight[n]
  <2>1. n \in Nat
    OBVIOUS
  <2>2. QED
    BY <2>1, BelowSquare
<1>4. SumUpTo(Worth(low, high, 2 * n - 1), 2 * n - 1) < Weight[n] * Weight[n]
  BY <1>2, <1>3
<1>5. Reduces(Montgomery(low, high, mod, invm, n),
              SumUpTo(Worth(low, high, 2 * n - 1), 2 * n - 1), mod, n)
  BY <1>2, <1>4, MontgomeryExact
<1>6. QED
  BY <1>2, <1>5 DEF low, high

\* The reduction that monMul computes.
LEMMA ProductReduces ==
  ASSUME NEW n \in Nat \ {0}, 4 * n <= B, NEW x \in Number(n), NEW y \in Number(n),
         NEW mod \in Number(n), NEW invm \in Nat, (invm * mod[0] + 1) % B = 0
  PROVE  Reduces(Montgomery(ProductLow(x, y, n), ProductHigh(x, y, n), mod, invm, n),
                 ValueOf(x, n) * ValueOf(y, n), mod, n)
<1> DEFINE low == ProductLow(x, y, n)
           high == ProductHigh(x, y, n)
<1>1. \A i \in 0 .. 2 * n - 2 : /\ low[i] = LowSum(x, y, i, Column(i, n, n))
                                /\ high[i] = HighSum(x, y, i, Column(i, n, n))
  BY DEF ProductLow, ProductHigh
<1> HIDE DEF low, high
<1>2. /\ Halves(low, high, 2 * n - 1, n)
      /\ SumUpTo(Worth(low, high, 2 * n - 1), 2 * n - 1) = ValueOf(x, n) * ValueOf(y, n)
  BY <1>1, ColumnsWorth
<1>3. ValueOf(x, n) * ValueOf(y, n) < Weight[n] * Weight[n]
  <2>1. n \in Nat
    OBVIOUS
  <2>2. QED
    BY <2>1, BelowSquare
<1>4. SumUpTo(Worth(low, high, 2 * n - 1), 2 * n - 1) < Weight[n] * Weight[n]
  BY <1>2, <1>3
<1>5. Reduces(Montgomery(low, high, mod, invm, n),
              SumUpTo(Worth(low, high, 2 * n - 1), 2 * n - 1), mod, n)
  BY <1>2, <1>4, MontgomeryExact
<1>6. QED
  BY <1>2, <1>5 DEF low, high

\* The reduction that redcHalf computes.
LEMMA HalfReduces ==
  ASSUME NEW n \in Nat \ {0}, 4 * n <= B, NEW x \in Number(n),
         NEW mod \in Number(n), NEW invm \in Nat, (invm * mod[0] + 1) % B = 0
  PROVE  Reduces(Montgomery(HalfLow(x, n), HalfHigh(x, n), mod, invm, n),
                 ValueOf(x, n), mod, n)
<1> DEFINE N == 2 * n - 1
           low == HalfLow(x, n)
           high == HalfHigh(x, n)
           worth == Worth(low, high, N)
           t == [i \in 0 .. n - 1 |-> x[i] * Weight[i]]
           p == [i \in 0 .. N - 1 |-> IF i = 0 THEN x[0] ELSE 0]
           s == [i \in 0 .. N - 1 |-> IF i + 1 < n THEN x[i + 1] * Weight[i + 1] ELSE 0]
           k == n - 1
<1>1. N \in Nat /\ N - 1 = 2 * n - 2 /\ n \in Nat /\ n > 0 /\ k \in Nat /\ n = k + 1
      /\ k <= N /\ 1 <= N
  OBVIOUS
<1>2. \A i \in 0 .. n - 1 : x[i] \in 0 .. B - 1
  BY DEF Number, Word
<1>3. B \in Nat /\ B > 0
  BY BaseFacts
<1>4. ASSUME NEW i \in 0 .. N - 1
      PROVE  /\ low[i] = (IF i = 0 THEN x[0] ELSE 0)
             /\ high[i] = (IF i + 1 < n THEN x[i + 1] ELSE 0)
  BY DEF HalfLow, HalfHigh
<1> HIDE DEF low, high
<1>5. Halves(low, high, N, n)
  <2>1. B - 1 <= n * (B - 1) /\ n * (B - 1) \in Nat
    <3>1. \A a, b \in Nat : a > 0 => b <= a * b /\ a * b \in Nat
      BY SMT
    <3>2. QED
      BY <1>1, <1>3, <3>1
  <2> DEFINE m == n * (B - 1)
  <2> HIDE DEF m
  <2>2. ASSUME NEW i \in 0 .. N - 1 PROVE low[i] \in 0 .. m /\ high[i] \in 0 .. m
    <3>1. B - 1 <= m /\ m \in Nat
      BY <2>1 DEF m
    <3>2. low[i] \in 0 .. B - 1
      BY <1>2, <1>3, <1>4
    <3>3. high[i] \in 0 .. B - 1
      BY <1>2, <1>3, <1>4
    <3>4. QED
      BY <1>3, <3>1, <3>2, <3>3
  <2>3. QED
    BY <2>2 DEF Halves, m
<1>6. ASSUME NEW i \in 0 .. N - 1
      PROVE  p[i] \in Int /\ s[i] \in Int /\ worth[i] = p[i] + s[i]
  <2> DEFINE a == p[i]
             w == Weight[i]
             c == IF i + 1 < n THEN x[i + 1] ELSE 0
  <2>1. a \in Nat /\ c \in Nat /\ i \in Nat
    BY <1>2, <1>3
  <2>2. w \in Nat /\ Weight[i + 1] = B * w /\ (i = 0 => w = 1)
    BY <2>1, WeightFacts
  <2>3. low[i] = a /\ high[i] = c
    BY <1>4
  <2>4. s[i] = c * (B * w)
    <3>1. 0 * (B * w) = 0
      BY <1>3, <2>2, SMT
    <3> HIDE DEF w
    <3>2. QED
      BY <2>2, <3>1
  <2>5. worth[i] = w * (a + B * c)
    BY <2>3 DEF Worth
  <2>6. w * a = a
    <3>1. a # 0 => i = 0
      OBVIOUS
    <3> HIDE DEF a, w
    <3>2. w * 0 = 0 /\ 1 * a = a
      BY <2>1, <2>2, SMT
    <3>3. QED
      BY <2>2, <3>1, <3>2
  <2>7. p[i] = a
    OBVIOUS
  <2> HIDE DEF a, w, c, worth, p, s
  <2>8. \A u \in Nat : w * (a + u) = w * a + w * u
    BY <2>1, <2>2, SMT
  <2>9. w * (B * c) = c * (B * w) /\ B * c \in Nat /\ c * (B * w) \in Nat
    BY <1>3, <2>1, <2>2, SMT
  <2>10. QED
    BY <2>1, <2>4, <2>5, <2>6, <2>7, <2>8, <2>9
<1>7. ASSUME NEW i \in 0 .. n - 1 PROVE t[i] \in Int
  <2>1. x[i] \in Nat /\ Weight[i] \in Nat
    BY <1>2, <1>3, WeightFacts
  <2>2. QED
    BY <2>1, SMT
<1>8. SumUpTo(p, N) = x[0]
  <2>1. \A i \in 1 .. N - 1 : p[i] = 0
    OBVIOUS
  <2>2. p[0] = x[0]
    BY <1>1
  <2> HIDE DEF p, N
  <2>3. Ints(p, 0 + 1)
    BY <1>1, <1>6 DEF Ints
  <2>4. Ints(p, 1)
    BY <2>3
  <2>5. SumUpTo(p, N) = SumUpTo(p, 1)
    BY <1>1, <2>1, <2>4, SumPad
  <2>6. SumUpTo(p, 0 + 1) = SumUpTo(p, 0) + p[0] /\ p[0] \in Int
    BY <2>3, SumNext
  <2>7. SumUpTo(p, 0) = 0
    BY SumZero
  <2>8. QED
    BY <2>2, <2>5, <2>6, <2>7
<1>9. SumUpTo(s, N) = SumUpTo(s, k)
  <2>1. \A i \in k .. N - 1 : s[i] = 0
    OBVIOUS
  <2> HIDE DEF s, N, k
  <2>2. Ints(s, k)
    BY <1>1, <1>6 DEF Ints
  <2>3. QED
    BY <1>1, <2>1, <2>2, SumPad
<1>10. SumUpTo(t, n) = x[0] + SumUpTo(s, k)
  <2>1. \A i \in 0 .. k - 1 : s[i] = t[i + 1]
    OBVIOUS
  <2>2. t[0] = x[0]
    <3>1. t[0] = x[0] * Weight[0] /\ x[0] \in Int
      BY <1>1, <1>2, <1>3
    <3>2. Weight[0] = 1
      BY WeightFacts
    <3> HIDE DEF t
    <3>3. QED
      BY <3>1, <3>2
  <2> HIDE DEF s, t, k
  <2>3. Ints(t, k + 1)
    BY <1>1, <1>7 DEF Ints
  <2>4. SumUpTo(t, k + 1) = t[0] + SumUpTo(s, k)
    BY <1>1, <2>1, <2>3, SumFront
  <2>5. QED
    BY <1>1, <2>2, <2>4
<1>11. SumUpTo(worth, N) = SumUpTo(p, N) + SumUpTo(s, N)
  <2> HIDE DEF worth, p, s, N
  <2>1. Ints(p, N) /\ Ints(s, N)
    BY <1>6 DEF Ints
  <2>2. QED
    BY <1>1, <1>6, <2>1, SumPlus
<1>12. ValueOf(x, n) = SumUpTo(t, n)
  BY DEF ValueOf
<1>13. SumUpTo(worth, N) = ValueOf(x, n)
  BY <1>8, <1>9, <1>10, <1>11, <1>12
<1>14. ValueOf(x, n) < Weight[n] * Weight[n]
  <2> DEFINE v == ValueOf(x, n)
             W == Weight[n]
  <2>1. v \in 0 .. W - 1 /\ W \in Nat /\ W > 0
    BY <1>1, ValueBound, WeightFacts
  <2> HIDE DEF v, W
  <2>2. W <= W * W /\ W * W \in Nat
    BY <2>1, SMT
  <2>3. v < W * W
    BY <2>1, <2>2
  <2>4. QED
    BY <2>3 DEF v, W
<1>15. Reduces(Montgomery(low, high, mod, invm, n),
               SumUpTo(Worth(low, high, 2 * n - 1), 2 * n - 1), mod, n)
  <2>1. SumUpTo(Worth(low, high, 2 * n - 1), 2 * n - 1) < Weight[n] * Weight[n]
    BY <1>13, <1>14
  <2>2. QED
    BY <1>5, <2>1, MontgomeryExact
<1>16. QED
  BY <1>13, <1>15 DEF low, high

-----------------------------------------------------------------------------
(***************************************************************************)
(* The chains of additions and subtractions leave whole words.             *)
(***************************************************************************)
LEMMA SubIsNumber ==
  ASSUME NEW n \in Nat \ {0}, NEW a \in Number(n), NEW b \in Number(n)
  PROVE  sub(a, b, n) \in Number(n)
<1> DEFINE step(i, w) == SubWord(a[i], b[i], BorrowSeen(w, a[i - 1]))
           first == SubWord(a[0], b[0], 0)
           Def(r) == r = [i \in 0 .. n - 1 |->
                            IF i = 0 THEN first
                            ELSE SubWord(a[i], b[i], BorrowSeen(r[i - 1], a[i - 1]))]
           r0 == CHOOSE r : Def(r)
<1>1. ASSUME NEW i \in 0 .. n - 1, NEW c \in 0 .. 1 PROVE SubWord(a[i], b[i], c) \in Word
  <2>1. a[i] \in 0 .. B - 1 /\ b[i] \in 0 .. B - 1 /\ B \in Nat /\ B > 0
    BY BaseFacts DEF Number, Word
  <2>2. a[i] - (b[i] + c) \in Int
    BY <2>1
  <2> DEFINE x == a[i] - (b[i] + c)
  <2> HIDE DEF x
  <2>3. x % B \in 0 .. B - 1
    BY <2>1, <2>2, CongModulo DEF x
  <2>4. QED
    BY <2>3 DEF x, SubWord, Word
<1>2. \A w, v : BorrowSeen(w, v) \in 0 .. 1
  BY DEF BorrowSeen
<1>3. first \in Word /\ \A i \in 0 .. n - 1 : \A w : step(i, w) \in Word
  <2>1. first \in Word
    <3>1. 0 \in 0 .. n - 1 /\ 0 \in 0 .. 1
      OBVIOUS
    <3>2. QED
      BY <1>1, <3>1
  <2>2. QED
    BY <1>1, <1>2, <2>1
<1> DEFINE h == [p \in Nat \X Word |-> IF p[1] \in 0 .. n - 1 THEN step(p[1], p[2]) ELSE first]
<1>4. PICK G \in [Nat -> Word] : Recurs(G, first, h)
  <2>1. h \in [Nat \X Word -> Word]
    <3> HIDE DEF step, first
    <3>1. QED
      BY <1>3
  <2> HIDE DEF h, first
  <2>2. QED
    BY <1>3, <2>1, Recursion
<1> DEFINE known == [i \in 0 .. n - 1 |-> G[i]]
<1>5. Def(known)
  <2>1. ASSUME NEW i \in 0 .. n - 1
        PROVE  known[i] = IF i = 0 THEN first ELSE step(i, known[i - 1])
    <3>1. CASE i = 0
      BY <1>4, <3>1 DEF Recurs
    <3>2. CASE i # 0
      <4>1. i - 1 \in Nat /\ i = (i - 1) + 1 /\ i - 1 \in 0 .. n - 1
        BY <3>2
      <4>2. G[i] = h[<<i, G[i - 1]>>] /\ G[i - 1] \in Word
        BY <1>4, <4>1 DEF Recurs
      <4>3. known[i] = G[i] /\ known[i - 1] = G[i - 1]
        BY <4>1
      <4> HIDE DEF step, known
      <4>4. h[<<i, G[i - 1]>>] = step(i, G[i - 1])
        BY <4>2
      <4> HIDE DEF h
      <4>5. QED
        BY <3>2, <4>2, <4>3, <4>4
    <3>3. QED
      BY <3>1, <3>2
  <2>2. known = [i \in 0 .. n - 1 |-> known[i]]
    OBVIOUS
  <2> HIDE DEF known, first
  <2>3. QED
    BY <2>1, <2>2
<1>6. Def(r0)
  <2> HIDE DEF Def, known
  <2>1. QED
    BY <1>5
<1>7. sub(a, b, n) = [i \in 0 .. n - 1 |-> r0[i]]
  BY DEF sub
<1> HIDE DEF r0
<1>8. ASSUME NEW i \in 0 .. n - 1 PROVE r0[i] \in Word
  <2>1. r0[i] = IF i = 0 THEN first ELSE step(i, r0[i - 1])
    <3> HIDE DEF first
    <3>1. QED
      BY <1>6
  <2> HIDE DEF first, step
  <2>2. QED
    BY <1>3, <2>1
<1>9. QED
  BY <1>7, <1>8 DEF Number

\* The same of additions.
LEMMA AddIsNumber ==
  ASSUME NEW n \in Nat \ {0}, NEW a \in Number(n), NEW b \in Number(n)
  PROVE  add(a, b, n) \in Number(n)
<1> DEFINE step(i, w) == AddWord(a[i], b[i], CarrySeen(w, b[i - 1]))
           first == AddWord(a[0], b[0], 0)
           Def(r) == r = [i \in 0 .. n - 1 |->
                            IF i = 0 THEN first
                            ELSE AddWord(a[i], b[i], CarrySeen(r[i - 1], b[i - 1]))]
           r0 == CHOOSE r : Def(r)
<1>1. ASSUME NEW i \in 0 .. n - 1, NEW c \in 0 .. 1 PROVE AddWord(a[i], b[i], c) \in Word
  <2>1. a[i] \in 0 .. B - 1 /\ b[i] \in 0 .. B - 1 /\ B \in Nat /\ B > 0
    BY BaseFacts DEF Number, Word
  <2>2. a[i] + b[i] + c \in Nat
    BY <2>1
  <2> DEFINE x == a[i] + b[i] + c
  <2> HIDE DEF x
  <2>3. x % B \in 0 .. B - 1
    BY <2>1, <2>2, Division DEF x
  <2>4. QED
    BY <2>3 DEF x, AddWord, Word
<1>2. \A w, v : CarrySeen(w, v) \in 0 .. 1
  BY DEF CarrySeen
<1>3. first \in Word /\ \A i \in 0 .. n - 1 : \A w : step(i, w) \in Word
  <2>1. first \in Word
    <3>1. 0 \in 0 .. n - 1 /\ 0 \in 0 .. 1
      OBVIOUS
    <3>2. QED
      BY <1>1, <3>1
  <2>2. QED
    BY <1>1, <1>2, <2>1
<1> DEFINE h == [p \in Nat \X Word |-> IF p[1] \in 0 .. n - 1 THEN step(p[1], p[2]) ELSE first]
<1>4. PICK G \in [Nat -> Word] : Recurs(G, first, h)
  <2>1. h \in [Nat \X Word -> Word]
    <3> HIDE DEF step, first
    <3>1. QED
      BY <1>3
  <2> HIDE DEF h, first
  <2>2. QED
    BY <1>3, <2>1, Recursion
<1> DEFINE known == [i \in 0 .. n - 1 |-> G[i]]
<1>5. Def(known)
  <2>1. ASSUME NEW i \in 0 .. n - 1
        PROVE  known[i] = IF i = 0 THEN first ELSE step(i, known[i - 1])
    <3>1. CASE i = 0
      BY <1>4, <3>1 DEF Recurs
    <3>2. CASE i # 0
      <4>1. i - 1 \in Nat /\ i = (i - 1) + 1 /\ i - 1 \in 0 .. n - 1
        BY <3>2
      <4>2. G[i] = h[<<i, G[i - 1]>>] /\ G[i - 1] \in Word
        BY <1>4, <4>1 DEF Recurs
      <4>3. known[i] = G[i] /\ known[i - 1] = G[i - 1]
        BY <4>1
      <4> HIDE DEF step, known
      <4>4. h[<<i, G[i - 1]>>] = step(i, G[i - 1])
        BY <4>2
      <4> HIDE DEF h
      <4>5. QED
        BY <3>2, <4>2, <4>3, <4>4
    <3>3. QED
      BY <3>1, <3>2
  <2>2. known = [i \in 0 .. n - 1 |-> known[i]]
    OBVIOUS
  <2> HIDE DEF known, first
  <2>3. QED
    BY <2>1, <2>2
<1>6. Def(r0)
  <2> HIDE DEF Def, known
  <2>1. QED
    BY <1>5
<1>7. add(a, b, n) = [i \in 0 .. n - 1 |-> r0[i]]
  BY DEF add
<1> HIDE DEF r0
<1>8. ASSUME NEW i \in 0 .. n - 1 PROVE r0[i] \in Word
  <2>1. r0[i] = IF i = 0 THEN first ELSE step(i, r0[i - 1])
    <3> HIDE DEF first
    <3>1. QED
      BY <1>6
  <2> HIDE DEF first, step
  <2>2. QED
    BY <1>3, <2>1
<1>9. QED
  BY <1>7, <1>8 DEF Number

(***************************************************************************)
(* The conditional subtraction that ends a reduction, when no borrow is    *)
(* lost: the result stands for the number reduced, and for a number of n   *)
(* words it is at most mod.                                                *)
(***************************************************************************)
SubKept(m, mod, n) ==
    m.exceeds => ValueOf(sub(m.words, mod, n), n)
                   = (ValueOf(m.words, n) - ValueOf(mod, n)) % Weight[n]

\* The result of a Montgomery product after its conditional subtraction: a number
\* of n words, congruent to the number reduced divided by the weight of n words,
\* provided the subtraction's borrows were not lost.
THEOREM ReducedExact ==
  ASSUME NEW n \in Nat \ {0}, NEW mod \in Number(n), NEW total \in Nat, NEW m,
         total < Weight[n] * Weight[n], Reduces(m, total, mod, n), SubKept(m, mod, n)
  PROVE  /\ Reduced(m, mod, n) \in Number(n)
         /\ Cong(Weight[n] * ValueOf(Reduced(m, mod, n), n), total, ValueOf(mod, n))
         /\ total < Weight[n] => ValueOf(Reduced(m, mod, n), n) <= ValueOf(mod, n)
<1> DEFINE W == Weight[n]
           y == ValueOf(m.words, n)
           e == ValueOf(mod, n)
           v == ValueOf(Reduced(m, mod, n), n)
<1>1. PICK d \in 0 .. W - 1, top \in 0 .. 1 :
         /\ m.exceeds <=> top = 1
         /\ W * (y + top * W) = total + d * e
  BY DEF Reduces
<1>2. n \in Nat /\ m.words \in Number(n)
  BY DEF Reduces
<1>3. W \in Nat /\ W > 0 /\ y \in 0 .. W - 1 /\ e \in 0 .. W - 1
  BY <1>2, WeightFacts, ValueBound
<1>4. d * e <= W * e - e /\ d * e \in Nat /\ W * e \in Nat
  <2>1. PICK f \in Nat : W = d + 1 + f
    <3>1. W - 1 - d \in Nat /\ W = d + 1 + (W - 1 - d)
      BY <1>3
    <3>2. QED
      BY <3>1
  <2>2. W * e = d * e + e + f * e /\ f * e \in Nat /\ d * e \in Nat
    BY <1>3, <2>1, SMT
  <2>3. QED
    BY <1>3, <2>2
<1>5. Reduced(m, mod, n) \in Number(n)
  <2>1. sub(m.words, mod, n) \in Number(n)
    BY <1>2, SubIsNumber
  <2>2. QED
    BY <1>2, <2>1 DEF Reduced
<1>6. CASE top = 1
  <2>1. W * (y + W) = total + d * e
    <3> HIDE DEF W, y, e
    <3>1. 1 * W = W
      BY <1>3
    <3>2. QED
      BY <1>1, <1>6, <3>1
  <2>2. W * (y + W) = W * y + W * W /\ W * y \in Nat /\ W * W \in Nat
    BY <1>3, SMT
  <2>3. y < e
    <3>1. W * y < W * e
      BY <1>3, <1>4, <2>1, <2>2
    <3>2. y >= e => W * y >= W * e
      BY <1>3, SMT
    <3>3. QED
      BY <1>3, <3>1, <3>2
  <2>4. v = y - e + W
    <3>1. v = (y - e) % W
      BY <1>1, <1>6 DEF SubKept, Reduced
    <3> DEFINE a == y - e
    <3>2. a \in Int /\ a + W \in 0 .. W - 1
      BY <1>3, <2>3
    <3> HIDE DEF a
    <3>3. a % W \in 0 .. W - 1 /\ Cong(a % W, a, W)
      BY <1>3, <3>2, CongModulo
    <3>4. Cong(a, a + W, W)
      <4>1. a = (a + W) + (-1) * W
        BY <1>3, <3>2
      <4>2. QED
        BY <4>1 DEF Cong
    <3> DEFINE r == a % W
    <3>5. r \in 0 .. W - 1 /\ r \in Int /\ a + W \in Int
      BY <1>3, <3>2, <3>3
    <3>6. Cong(r, a, W)
      BY <3>3
    <3> HIDE DEF r
    <3>7. Cong(r, a + W, W)
      BY <1>3, <3>2, <3>4, <3>5, <3>6, CongJoin
    <3>8. r = a + W
      BY <1>3, <3>2, <3>5, <3>7, CongUnique
    <3>9. QED
      BY <3>1, <3>8 DEF r, a
  <2> HIDE DEF v, W, y, e
  <2>5. W * v = total + (d - W) * e
    <3>1. W * v = W * y - W * e + W * W
      <4>1. \A a, b \in Nat : W * (a - b + W) = W * a - W * b + W * W
        BY <1>3, SMT
      <4>2. QED
        BY <1>3, <2>4, <4>1
    <3>2. (d - W) * e = d * e - W * e
      BY <1>3, SMT
    <3>3. QED
      BY <1>4, <2>1, <2>2, <3>1, <3>2
  <2>6. Cong(W * v, total, e)
    <3>1. d - W \in Int
      BY <1>3
    <3>2. QED
      BY <2>5, <3>1 DEF Cong
  <2>7. ~(total < W)
    <3>1. SUFFICES ASSUME total < W PROVE FALSE
      OBVIOUS
    <3>2. W * W < W + W * e
      BY <1>3, <1>4, <2>1, <2>2, <3>1
    <3>3. W * W >= W * (e + 1)
      <4>1. \A a \in Nat : W >= a => W * W >= W * a
        BY <1>3, SMT
      <4>2. QED
        BY <1>3, <4>1
    <3>4. W * (e + 1) = W * e + W
      BY <1>3, SMT
    <3>5. QED
      BY <1>3, <1>4, <2>2, <3>2, <3>3, <3>4
  <2>8. QED
    BY <1>5, <2>6, <2>7 DEF v, W, e
<1>7. CASE top = 0
  <2>1. v = y
    BY <1>1, <1>7 DEF Reduced
  <2>2. W * y = total + d * e
    <3>1. 0 * W = 0 /\ y + 0 = y
      BY <1>3
    <3>2. QED
      BY <1>1, <1>7, <3>1
  <2> HIDE DEF v, W, y, e
  <2>3. Cong(W * v, total, e)
    <3>1. W * v = total + d * e /\ d \in Int
      BY <1>3, <2>1, <2>2
    <3>2. QED
      BY <3>1 DEF Cong
  <2>4. total < W => v <= e
    <3>1. SUFFICES ASSUME total < W, y > e PROVE FALSE
      BY <1>3, <2>1
    <3>2. W * y < W + W * e
      BY <1>3, <1>4, <2>2, <3>1
    <3>3. W * y >= W * (e + 1)
      <4>1. \A a, b \in Nat : a >= b => W * a >= W * b
        BY <1>3, SMT
      <4>2. y \in Nat /\ e + 1 \in Nat /\ y >= e + 1
        BY <1>3, <3>1
      <4>3. QED
        BY <4>1, <4>2
    <3>4. W * (e + 1) = W * e + W /\ W * y \in Nat
      BY <1>3, SMT
    <3>5. QED
      BY <1>3, <1>4, <3>2, <3>3, <3>4
  <2>5. QED
    BY <1>5, <2>3, <2>4 DEF v, W, e
<1>8. QED
  BY <1>6, <1>7

-----------------------------------------------------------------------------
(***************************************************************************)
(* The inverse of an odd word: the table's entry exists, and every Newton  *)
(* step doubles the number of right bits.                                  *)
(***************************************************************************)
LEMMA OddHasInverse ==
  ASSUME NEW l \in Nat, l % 2 = 1, NEW k \in Nat
  PROVE  \E x \in Nat : Cong(x * l, 1, Pow2[k])
<1> DEFINE S == {j \in Nat : \E x \in Nat : Cong(x * l, 1, Pow2[j])}
<1>1. 0 \in S
  <2>1. 0 * l = 1 + (-1) * Pow2[0]
    BY Pow2Facts
  <2>2. Cong(0 * l, 1, Pow2[0])
    BY <2>1 DEF Cong
  <2>3. QED
    BY <2>2
<1>2. ASSUME NEW j \in Nat, j \in S PROVE j + 1 \in S
  <2> DEFINE p == Pow2[j]
  <2>1. p \in Nat /\ Pow2[j + 1] = 2 * p
    BY Pow2Facts
  <2>2. PICK x \in Nat : Cong(x * l, 1, p)
    BY <1>2
  <2> HIDE DEF p
  <2>3. PICK c \in Int : x * l = 1 + c * p
    BY <2>2 DEF Cong
  <2>4. PICK h \in Int : l = 2 * h + 1
    <3>1. l \div 2 \in Int /\ l = 2 * (l \div 2) + 1
      BY Z3
    <3>2. QED
      BY <3>1
  <2>5. \E y \in Nat, d \in Int : y * l = 1 + d * (2 * p)
    <3>1. PICK g \in Int : c = 2 * g \/ c = 2 * g + 1
      <4>1. c \div 2 \in Int /\ (c = 2 * (c \div 2) \/ c = 2 * (c \div 2) + 1)
        BY Z3
      <4>2. QED
        BY <4>1
    <3>2. CASE c = 2 * g
      <4>1. c * p = g * (2 * p)
        BY <2>1, <3>2, SMT
      <4>2. QED
        BY <2>3, <3>1, <4>1
    <3>3. CASE c = 2 * g + 1
      <4>1. (x + p) * l = x * l + p * l /\ x * l \in Int /\ p * l \in Int
        BY <2>1, SMT
      <4>2. p * l = p * (2 * h) + p /\ p * (2 * h) \in Int
        BY <2>1, <2>4, SMT
      <4>3. c * p = (2 * g) * p + p /\ (2 * g) * p \in Int
        BY <2>1, <3>3, SMT
      <4>4. (g + h + 1) * (2 * p) = (2 * g) * p + p * (2 * h) + 2 * p
        BY <2>1, SMT
      <4>5. (x + p) * l = 1 + (g + h + 1) * (2 * p)
        BY <2>1, <2>3, <4>1, <4>2, <4>3, <4>4
      <4>6. x + p \in Nat /\ g + h + 1 \in Int
        BY <2>1
      <4>7. QED
        BY <4>5, <4>6
    <3>4. QED
      BY <3>1, <3>2, <3>3
  <2>6. PICK y \in Nat : Cong(y * l, 1, 2 * p)
    BY <2>5 DEF Cong
  <2>7. Cong(y * l, 1, Pow2[j + 1])
    <3>1. \A a : a = 2 * p => Cong(y * l, 1, a)
      BY <2>6
    <3>2. QED
      BY <2>1, <3>1
  <2>8. j + 1 \in Nat
    OBVIOUS
  <2>9. QED
    BY <2>7, <2>8
<1>3. \A j \in Nat : j \in S
  <2> HIDE DEF S
  <2>1. QED
    BY <1>1, <1>2, Induction
<1>4. QED
  BY <1>3

\* Congruence modulo a multiple.
LEMMA CongDivides ==
  ASSUME NEW a \in Int, NEW b \in Int, NEW x \in Int, NEW y \in Int, Cong(x, y, a * b)
  PROVE  Cong(x, y, a)
<1>1. PICK k \in Int : x = y + k * (a * b)
  BY DEF Cong
<1>2. k * (a * b) = (k * b) * a /\ k * b \in Int
  BY SMT
<1>3. x = y + (k * b) * a
  BY <1>1, <1>2
<1>4. QED
  BY <1>2, <1>3 DEF Cong

\* A Newton step squares the modulus for which the inverse is right.
LEMMA NewtonDoubles ==
  ASSUME NEW limb \in Nat, NEW inv \in Nat, NEW p \in Nat, NEW z \in Nat, B = (p * p) * z,
         Cong(inv * limb, 1, p)
  PROVE  /\ NewtonStep(inv, limb) \in Word
         /\ Cong(NewtonStep(inv, limb) * limb, 1, p * p)
<1> DEFINE s == 2 * inv - inv * inv * limb
           r == s % B
           t == inv * limb
<1>1. B \in Nat /\ B > 0 /\ s \in Int /\ t \in Nat
  <2>1. s \in Int /\ t \in Nat
    BY SMT
  <2>2. QED
    BY <2>1, BaseFacts
<1>2. s * limb = 2 * t - t * t /\ t * t \in Int
  <2>1. \A a, b \in Nat : (2 * a - a * a * b) * b = 2 * (a * b) - (a * b) * (a * b)
    BY SMT
  <2>2. t * t \in Int
    <3> HIDE DEF t
    <3>1. QED
      BY <1>1, SMT
  <2>3. QED
    BY <2>1, <2>2
<1>3. PICK k \in Int : t = 1 + k * p
  BY DEF Cong
<1> HIDE DEF s
<1>4. r \in Word /\ Cong(r, s, B)
  BY <1>1, CongModulo DEF Word
<1>5. r \in Int
  BY <1>1, <1>4 DEF Word
<1> HIDE DEF r, t
<1>6. p * p \in Nat /\ s * limb \in Int /\ r * limb \in Int
  BY <1>1, <1>5, SMT
<1>7. Cong(s * limb, 1, p * p)
  <2> DEFINE u == k * p
  <2>1. u \in Int /\ u * u = (k * k) * (p * p) /\ k * k \in Int /\ -(k * k) \in Int
        /\ (-(k * k)) * (p * p) = -((k * k) * (p * p)) /\ (k * k) * (p * p) \in Int
    BY SMT
  <2>2. \A a \in Int : 2 * (1 + a) - (1 + a) * (1 + a) = 1 - a * a
    BY SMT
  <2> HIDE DEF u
  <2>3. s * limb = 1 - u * u
    BY <1>2, <1>3, <2>1, <2>2 DEF u
  <2> DEFINE m == -(k * k)
             pp == p * p
  <2>4. m \in Int /\ s * limb = 1 + m * pp
    BY <2>1, <2>3
  <2> HIDE DEF m, pp
  <2>5. Cong(s * limb, 1, pp)
    BY <2>4 DEF Cong
  <2>6. QED
    BY <2>5 DEF pp
<1>8. Cong(r, s, p * p)
  <2> DEFINE pp == p * p
  <2>1. pp \in Int /\ z \in Int /\ r \in Int /\ s \in Int
    BY <1>1, <1>5, <1>6
  <2>2. Cong(r, s, pp * z)
    BY <1>4
  <2> HIDE DEF pp
  <2>3. Cong(r, s, pp)
    BY <2>1, <2>2, CongDivides
  <2>4. QED
    BY <2>3 DEF pp
<1>9. Cong(r * limb, s * limb, p * p)
  <2>1. Cong(limb, limb, p * p)
    BY <1>6, CongEqual
  <2>2. QED
    BY <1>1, <1>5, <1>6, <1>8, <2>1, CongTimes
<1>10. Cong(r * limb, 1, p * p)
  BY <1>6, <1>7, <1>9, CongJoin
<1>11. NewtonStep(inv, limb) = r
  BY DEF NewtonStep, r, s
<1>12. QED
  BY <1>4, <1>10, <1>11

\* invert_limb returns minus the inverse of every odd word, so that Montgomery's
\* digits clear the low words.
THEOREM InvertLimbExact ==
  ASSUME NEW limb \in Word, limb % 2 = 1
  PROVE  /\ invert_limb(limb) \in Word
         /\ (invert_limb(limb) * limb + 1) % B = 0
<1> DEFINE p == Pow2[TableBits]
           q == p * p
           l == limb % p
           x == binvert_limb_table(l)
           y == NewtonStep(x, limb)
           z == NewtonStep(y, limb)
           r == (-z) % B
<1>1. B \in Nat /\ B > 0 /\ B >= 2 /\ limb \in Nat
  BY BaseFacts DEF Word
<1>2. p \in Nat /\ p > 0 /\ q \in Nat /\ B = q * q /\ \E h \in Nat : h > 0 /\ p = 2 * h
  <2>1. TableBits \in Nat \ {0} /\ WordBits = 4 * TableBits
    BY WordAssumption
  <2>2. p \in Nat /\ p > 0
    BY <2>1, Pow2Facts
  <2>3. q = Pow2[TableBits + TableBits]
    BY <2>1, Pow2Plus
  <2>4. B = Pow2[(TableBits + TableBits) + (TableBits + TableBits)]
    <3>1. WordBits = (TableBits + TableBits) + (TableBits + TableBits)
      BY <2>1
    <3>2. QED
      BY <3>1 DEF B
  <2>5. TableBits + TableBits \in Nat
    BY <2>1
  <2>6. B = q * q /\ q \in Nat
    <3> HIDE DEF q
    <3>1. QED
      BY <2>3, <2>4, <2>5, Pow2Plus, Pow2Facts
  <2>7. \E h \in Nat : h > 0 /\ p = 2 * h
    <3>1. TableBits - 1 \in Nat /\ TableBits = (TableBits - 1) + 1
      BY <2>1
    <3>2. Pow2[TableBits - 1] \in Nat /\ Pow2[TableBits - 1] > 0
          /\ Pow2[(TableBits - 1) + 1] = 2 * Pow2[TableBits - 1]
      BY <3>1, Pow2Facts
    <3>3. QED
      BY <3>1, <3>2
  <2>8. QED
    BY <2>2, <2>6, <2>7
<1>3. TableBits \in Nat
  BY WordAssumption
<1>4. l \in 0 .. p - 1 /\ Cong(l, limb, p) /\ Cong(limb, l, p)
  <2>1. p \in Nat /\ p > 0 /\ limb \in Int
    BY <1>1, <1>2
  <2> HIDE DEF p
  <2>2. limb % p \in 0 .. p - 1 /\ Cong(limb % p, limb, p) /\ Cong(limb, limb % p, p)
    BY <2>1, CongModulo
  <2>3. QED
    BY <2>2
<1>5. l % 2 = 1
  <2> HIDE DEF p, l
  <2>1. PICK h \in Nat : p = 2 * h
    BY <1>2
  <2>2. PICK k \in Int : l = limb + k * p
    BY <1>4 DEF Cong
  <2>3. k * p = 2 * (k * h) /\ k * h \in Int
    BY <2>1, SMT
  <2>4. l = limb + 2 * (k * h)
    BY <2>2, <2>3
  <2>5. \A a, b \in Int : a % 2 = 1 => (a + 2 * b) % 2 = 1
    BY Z3
  <2>6. limb \in Int
    BY <1>1
  <2>7. QED
    BY <2>3, <2>4, <2>5, <2>6
<1>6. x \in 0 .. p - 1 /\ (x * l) % p = 1
  <2>1. \E a \in 0 .. p - 1 : (a * l) % p = 1
    <3>1. l \in Nat
      BY <1>2, <1>4
    <3>2. PICK a \in Nat : Cong(a * l, 1, p)
      <4> HIDE DEF l
      <4>1. QED
        BY <1>3, <1>5, <3>1, OddHasInverse
    <3> HIDE DEF p, l
    <3> DEFINE b == a % p
    <3>3. b \in 0 .. p - 1 /\ Cong(b, a, p)
      <4>1. p \in Nat /\ p > 0 /\ a \in Int
        BY <1>2
      <4>2. QED
        BY <4>1, CongModulo
    <3> HIDE DEF b
    <3>4. b * l \in Int /\ a * l \in Int /\ b \in Int
      BY <1>2, <3>1, <3>3, SMT
    <3>5. Cong(b * l, a * l, p)
      <4>1. Cong(l, l, p)
        BY <1>2, <3>1, CongEqual
      <4>2. QED
        BY <1>2, <3>1, <3>3, <3>4, <4>1, CongTimes
    <3>6. Cong(b * l, 1, p)
      BY <1>2, <3>2, <3>4, <3>5, CongJoin
    <3>7. (b * l) % p = 1 % p
      <4> DEFINE c == b * l
      <4>1. c \in Int /\ Cong(c, 1, p)
        BY <3>4, <3>6
      <4> HIDE DEF c
      <4>2. c % p = 1 % p
        BY <1>2, <4>1, CongSameRest
      <4>3. QED
        BY <4>2 DEF c
    <3>8. 1 % p = 1
      <4>1. p > 1
        BY <1>2
      <4>2. QED
        BY <1>2, <4>1, SMT
    <3>9. QED
      BY <3>3, <3>7, <3>8
  <2>2. x = CHOOSE a \in 0 .. p - 1 : (a * l) % p = 1
    BY DEF binvert_limb_table
  <2> HIDE DEF x, p, l
  <2>3. QED
    BY <2>1, <2>2
<1>7. Cong(x * limb, 1, p)
  <2> HIDE DEF p, l, x
  <2>1. x \in Int /\ l \in Int
    BY <1>2, <1>4, <1>6
  <2>2. x * l \in Int /\ x * limb \in Int
    BY <1>1, <2>1, SMT
  <2>3. Cong(x * limb, x * l, p)
    <3>1. Cong(x, x, p)
      BY <1>2, <2>1, CongEqual
    <3>2. p \in Int /\ limb \in Int /\ Cong(limb, l, p)
      BY <1>1, <1>2, <1>4
    <3>3. QED
      BY <2>1, <3>1, <3>2, CongTimes
  <2>4. Cong(x * l, 1, p)
    <3> DEFINE c == x * l
    <3>1. c \in Int /\ c % p = 1
      BY <1>6, <2>2
    <3> HIDE DEF c
    <3>2. Cong(c, c % p, p)
      BY <1>2, <3>1, CongModulo
    <3>3. QED
      BY <3>1, <3>2 DEF c
  <2>5. QED
    BY <1>2, <2>2, <2>3, <2>4, CongJoin
<1>8. x \in Nat
  BY <1>2, <1>6
<1> HIDE DEF p, l, x
<1>9. y \in Word /\ Cong(y * limb, 1, q)
  <2>1. B = (p * p) * q /\ q \in Nat
    BY <1>2
  <2> HIDE DEF q
  <2>2. QED
    BY <1>1, <1>2, <1>7, <1>8, <2>1, NewtonDoubles DEF q
<1>10. y \in Nat
  BY <1>1, <1>9 DEF Word
<1> HIDE DEF y, q
<1>11. z \in Word /\ Cong(z * limb, 1, B)
  <2>1. B = (q * q) * 1
    BY <1>1, <1>2
  <2>2. 1 \in Nat
    OBVIOUS
  <2>3. Cong(z * limb, 1, q * q)
    BY <1>1, <1>2, <1>9, <1>10, <2>1, <2>2, NewtonDoubles
  <2>4. z \in Word
    BY <1>1, <1>2, <1>9, <1>10, <2>1, <2>2, NewtonDoubles
  <2>5. QED
    BY <1>2, <2>3, <2>4
<1>12. z \in Int /\ -z \in Int
  BY <1>1, <1>11 DEF Word
<1>13. invert_limb(limb) = r
  BY DEF invert_limb, x, y, z, p, l
<1> HIDE DEF z
<1>14. r \in Word /\ Cong(r, -z, B) /\ r \in Int
  <2> DEFINE u == -z
  <2>1. u \in Int
    BY <1>12
  <2> HIDE DEF u
  <2>2. u % B \in 0 .. B - 1 /\ Cong(u % B, u, B)
    BY <1>1, <2>1, CongModulo
  <2>3. u % B \in Int
    BY <1>1, <2>2
  <2>4. QED
    BY <2>2, <2>3 DEF u, Word
<1> HIDE DEF r
<1>15. (r * limb + 1) % B = 0
  <2>1. r * limb \in Int /\ z * limb \in Int /\ (-z) * limb = -(z * limb)
    BY <1>1, <1>12, <1>14, SMT
  <2>2. Cong(r * limb, (-z) * limb, B)
    <3>1. Cong(limb, limb, B)
      BY <1>1, CongEqual
    <3> DEFINE u == -z
    <3>2. B \in Int /\ limb \in Int /\ r \in Int /\ u \in Int /\ Cong(r, u, B)
      BY <1>1, <1>12, <1>14
    <3> HIDE DEF u
    <3>3. Cong(r * limb, u * limb, B)
      BY <3>1, <3>2, CongTimes
    <3>4. QED
      BY <3>3 DEF u
  <2> DEFINE a == r * limb
             c == z * limb
  <2>3. a \in Int /\ c \in Int /\ Cong(a, -c, B) /\ Cong(c, 1, B)
    BY <1>11, <2>1, <2>2
  <2> HIDE DEF a, c
  <2>4. PICK k1 \in Int : a = -c + k1 * B
    BY <2>3 DEF Cong
  <2>5. PICK k2 \in Int : c = 1 + k2 * B
    BY <2>3 DEF Cong
  <2>6. (k1 - k2) * B = k1 * B - k2 * B /\ k1 * B \in Int /\ k2 * B \in Int
    BY <1>1, SMT
  <2>7. a + 1 = 0 + (k1 - k2) * B /\ k1 - k2 \in Int
    BY <2>3, <2>4, <2>5, <2>6
  <2>8. Cong(a + 1, 0, B)
    BY <2>7 DEF Cong
  <2>9. (a + 1) % B = 0 % B
    <3>1. a + 1 \in Int /\ 0 \in Int
      BY <2>3
    <3>2. QED
      BY <1>1, <2>8, <3>1, CongSameRest
  <2>10. 0 % B = 0
    BY <1>1, SMT
  <2>11. QED
    BY <2>9, <2>10 DEF a
<1>16. QED
  BY <1>13, <1>14, <1>15

-----------------------------------------------------------------------------
-----------------------------------------------------------------------------
(***************************************************************************)
(* Parts of a number.                                                      *)
(***************************************************************************)
Words(a, n) == \A i \in 0 .. n - 1 : a[i] \in Word

\* The value depends on the words only, and is below the weight of n words.
LEMMA ValueOfWords ==
  ASSUME NEW n \in Nat, NEW a, Words(a, n)
  PROVE  /\ ValueOf(a, n) \in 0 .. Weight[n] - 1
         /\ Ints([i \in 0 .. n - 1 |-> a[i] * Weight[i]], n)
<1> DEFINE b == [i \in 0 .. n - 1 |-> a[i]]
           t == [i \in 0 .. n - 1 |-> a[i] * Weight[i]]
<1>1. b \in Number(n)
  BY DEF Words, Number
<1>2. ValueOf(b, n) = ValueOf(a, n)
  <2>1. [i \in 0 .. n - 1 |-> b[i] * Weight[i]] = t
    OBVIOUS
  <2> HIDE DEF b, t
  <2>2. ValueOf(b, n) = SumUpTo(t, n)
    BY <2>1 DEF ValueOf
  <2>3. ValueOf(a, n) = SumUpTo(t, n)
    BY DEF ValueOf, t
  <2>4. QED
    BY <2>2, <2>3
<1>3. ValueOf(b, n) \in 0 .. Weight[n] - 1
  <2> HIDE DEF b
  <2>1. QED
    BY <1>1, ValueBound
<1>4. Ints(t, n)
  <2>1. ASSUME NEW i \in 0 .. n - 1 PROVE a[i] * Weight[i] \in Int
    <3>1. a[i] \in Nat /\ Weight[i] \in Nat
      BY BaseFacts, WeightFacts DEF Words, Word
    <3>2. QED
      BY <3>1, SMT
  <2>2. QED
    BY <2>1 DEF Ints
<1>5. QED
  BY <1>2, <1>3, <1>4

\* One word more.
LEMMA ValueNext ==
  ASSUME NEW n \in Nat, NEW a, Words(a, n + 1)
  PROVE  /\ ValueOf(a, n) \in 0 .. Weight[n] - 1 /\ a[n] \in Word
         /\ ValueOf(a, n + 1) = ValueOf(a, n) + a[n] * Weight[n]
<1> DEFINE t(k) == [i \in 0 .. k - 1 |-> a[i] * Weight[i]]
<1>1. Words(a, n) /\ a[n] \in Word
  BY DEF Words
<1>2. ValueOf(a, n) \in 0 .. Weight[n] - 1
  BY <1>1, ValueOfWords
<1>3. Ints(t(n + 1), n + 1)
  <2>1. n + 1 \in Nat
    OBVIOUS
  <2>2. QED
    BY <2>1, ValueOfWords
<1>4. t(n + 1)[n] = a[n] * Weight[n]
  OBVIOUS
<1>5. \A i \in 0 .. n - 1 : t(n)[i] = t(n + 1)[i]
  OBVIOUS
<1>6. ValueOf(a, n + 1) = SumUpTo(t(n + 1), n + 1) /\ ValueOf(a, n) = SumUpTo(t(n), n)
  BY DEF ValueOf
<1> HIDE DEF t
<1>7. SumUpTo(t(n + 1), n + 1) = SumUpTo(t(n + 1), n) + t(n + 1)[n]
  BY <1>3, SumNext
<1>8. SumUpTo(t(n), n) = SumUpTo(t(n + 1), n)
  <2>1. Ints(t(n + 1), n)
    BY <1>3 DEF Ints
  <2>2. QED
    BY <1>5, <2>1, SumSame
<1>9. QED
  BY <1>1, <1>2, <1>4, <1>6, <1>7, <1>8

(***************************************************************************)
(* Zero words above do not count.                                          *)
(***************************************************************************)
LEMMA ValuePadded ==
  ASSUME NEW n \in Nat, NEW k \in 0 .. n, NEW a, Words(a, n), \A i \in k .. n - 1 : a[i] = 0
  PROVE  ValueOf(a, n) = ValueOf(a, k)
<1> DEFINE t(m) == [i \in 0 .. m - 1 |-> a[i] * Weight[i]]
<1>1. Ints(t(n), n)
  BY ValueOfWords
<1>2. \A i \in k .. n - 1 : t(n)[i] = 0
  <2>1. ASSUME NEW i \in k .. n - 1 PROVE t(n)[i] = 0
    <3>1. i \in 0 .. n - 1 /\ i \in Nat /\ a[i] = 0
      OBVIOUS
    <3>2. t(n)[i] = 0 * Weight[i] /\ Weight[i] \in Nat
      BY <3>1, WeightFacts
    <3> HIDE DEF t
    <3>3. QED
      BY <3>2
  <2>2. QED
    BY <2>1
<1>3. \A i \in 0 .. k - 1 : t(k)[i] = t(n)[i]
  OBVIOUS
<1>4. ValueOf(a, n) = SumUpTo(t(n), n) /\ ValueOf(a, k) = SumUpTo(t(k), k)
  BY DEF ValueOf
<1> HIDE DEF t
<1>5. k \in Nat /\ k <= n /\ Ints(t(n), k)
  BY <1>1 DEF Ints
<1>6. SumUpTo(t(n), n) = SumUpTo(t(n), k)
  BY <1>2, <1>5, SumPad
<1>7. SumUpTo(t(k), k) = SumUpTo(t(n), k)
  BY <1>3, <1>5, SumSame
<1>8. QED
  BY <1>4, <1>6, <1>7

(***************************************************************************)
(* A number is worth its lower words and its upper words.                  *)
(***************************************************************************)
LEMMA ValueSplit ==
  ASSUME NEW k \in Nat, NEW m \in Nat, NEW a, Words(a, k + m), NEW b,
         \A i \in 0 .. m - 1 : b[i] = a[k + i]
  PROVE  /\ ValueOf(a, k) \in 0 .. Weight[k] - 1
         /\ ValueOf(b, m) \in 0 .. Weight[m] - 1
         /\ ValueOf(a, k + m) = ValueOf(a, k) + Weight[k] * ValueOf(b, m)
<1> DEFINE S == {j \in Nat : j <= m =>
                   ValueOf(a, k + j) = ValueOf(a, k) + Weight[k] * ValueOf(b, j)}
<1>1. Words(a, k) /\ Words(b, m)
  BY DEF Words
<1>2. ValueOf(a, k) \in 0 .. Weight[k] - 1 /\ ValueOf(b, m) \in 0 .. Weight[m] - 1
  BY <1>1, ValueOfWords
<1>3. ValueOf(a, k) \in Int /\ Weight[k] \in Nat
  BY <1>2, WeightFacts
<1>4. 0 \in S
  <2>1. ValueOf(b, 0) = 0
    BY SumZero DEF ValueOf
  <2>2. Weight[k] * 0 = 0 /\ k + 0 = k /\ ValueOf(a, k) + 0 = ValueOf(a, k)
    BY <1>3
  <2>3. QED
    BY <2>1, <2>2
<1>5. ASSUME NEW j \in Nat, j \in S PROVE j + 1 \in S
  <2>1. SUFFICES ASSUME j + 1 <= m
                 PROVE  ValueOf(a, k + (j + 1)) = ValueOf(a, k) + Weight[k] * ValueOf(b, j + 1)
    OBVIOUS
  <2>2. Words(a, (k + j) + 1) /\ Words(b, j + 1) /\ k + j \in Nat /\ k + (j + 1) = (k + j) + 1
    BY <1>1, <2>1 DEF Words
  <2>3. /\ a[k + j] \in Word /\ ValueOf(a, k + j) \in 0 .. Weight[k + j] - 1
        /\ ValueOf(a, (k + j) + 1) = ValueOf(a, k + j) + a[k + j] * Weight[k + j]
    BY <2>2, ValueNext
  <2>4. /\ ValueOf(b, j) \in 0 .. Weight[j] - 1
        /\ ValueOf(b, j + 1) = ValueOf(b, j) + b[j] * Weight[j]
    BY <2>2, ValueNext
  <2>5. b[j] = a[k + j]
    BY <2>1
  <2>6. Weight[k + j] = Weight[k] * Weight[j] /\ Weight[j] \in Nat
    BY WeightPlus, WeightFacts
  <2>7. ValueOf(a, k + j) = ValueOf(a, k) + Weight[k] * ValueOf(b, j)
    BY <1>5, <2>1
  <2>8. a[k + j] \in Nat /\ ValueOf(b, j) \in Nat
    BY <2>3, <2>4, <2>6, BaseFacts DEF Word
  <2> DEFINE w == Weight[k]
             u == Weight[j]
             c == a[k + j]
             y == ValueOf(b, j)
  <2>9. w \in Nat /\ u \in Nat /\ c \in Nat /\ y \in Nat
    BY <1>3, <2>6, <2>8
  <2>10. w * (y + c * u) = w * y + c * (w * u) /\ w * y \in Nat /\ c * (w * u) \in Nat
    <3> HIDE DEF w, u, c, y
    <3>1. w * (y + c * u) = w * y + w * (c * u)
      <4>1. c * u \in Nat
        BY <2>9, SMT
      <4>2. \A z \in Nat : w * (y + z) = w * y + w * z
        BY <2>9, SMT
      <4>3. QED
        BY <4>1, <4>2
    <3>2. w * (c * u) = c * (w * u) /\ w * y \in Nat /\ c * (w * u) \in Nat
      BY <2>9, SMT
    <3>3. QED
      BY <3>1, <3>2
  <2>11. ValueOf(b, j + 1) = y + c * u
    BY <2>4, <2>5
  <2>12. ValueOf(a, k + (j + 1)) = (ValueOf(a, k) + w * y) + c * (w * u)
    BY <2>2, <2>3, <2>6, <2>7
  <2> HIDE DEF w, u, c, y
  <2>13. QED
    BY <1>3, <2>10, <2>11, <2>12 DEF w
<1>6. \A j \in Nat : j \in S
  <2> HIDE DEF S
  <2>1. QED
    BY <1>4, <1>5, Induction
<1>7. QED
  BY <1>2, <1>6

(***************************************************************************)
(* The words of an integer, and their value.                               *)
(***************************************************************************)
LEMMA WordsOfValue ==
  ASSUME NEW n \in Nat, NEW x \in Nat
  PROVE  /\ WordsOf(x, n) \in Number(n)
         /\ ValueOf(WordsOf(x, n), n) = x % Weight[n]
<1> DEFINE a == WordsOf(x, n)
           S == {k \in Nat : k <= n => ValueOf(a, k) = x % Weight[k]}
<1>1. B \in Nat /\ B > 0
  BY BaseFacts
<1>2. ASSUME NEW i \in Nat
      PROVE  Weight[i] \in Nat /\ Weight[i] > 0 /\ x \div Weight[i] \in Nat
             /\ (x \div Weight[i]) % B \in Word
  <2>1. Weight[i] \in Nat /\ Weight[i] > 0
    BY WeightFacts
  <2>2. x \div Weight[i] \in Nat
    BY <2>1, Division
  <2>3. QED
    BY <1>1, <2>1, <2>2, Division DEF Word
<1>3. a \in Number(n) /\ \A i \in 0 .. n - 1 : a[i] = (x \div Weight[i]) % B
  BY <1>2 DEF WordsOf, Number
<1> HIDE DEF a
<1>4. 0 \in S
  <2>1. ValueOf(a, 0) = 0
    BY SumZero DEF ValueOf
  <2>2. Weight[0] = 1 /\ x % 1 = 0
    <3>1. x % 1 \in 0 .. 1 - 1
      BY Division
    <3>2. QED
      BY <3>1, WeightFacts
  <2>3. QED
    BY <2>1, <2>2
<1>5. ASSUME NEW k \in Nat, k \in S PROVE k + 1 \in S
  <2>1. SUFFICES ASSUME k + 1 <= n PROVE ValueOf(a, k + 1) = x % Weight[k + 1]
    OBVIOUS
  <2> DEFINE w == Weight[k]
             q == x \div w
             r == x % w
             q2 == q \div B
             r2 == q % B
  <2>2. w \in Nat /\ w > 0 /\ Weight[k + 1] = B * w
    BY WeightFacts
  <2>3. q \in Nat /\ r \in 0 .. w - 1 /\ x = w * q + r
    <3> HIDE DEF w
    <3>1. QED
      BY <2>2, Division
  <2>4. q2 \in Nat /\ r2 \in 0 .. B - 1 /\ q = B * q2 + r2
    <3> HIDE DEF q
    <3>1. QED
      BY <1>1, <2>3, Division
  <2>5. Words(a, k + 1)
    BY <1>3, <2>1 DEF Words, Number
  <2>6. ValueOf(a, k + 1) = ValueOf(a, k) + a[k] * Weight[k]
    BY <2>5, ValueNext
  <2>7. ValueOf(a, k) = r /\ a[k] = r2
    <3>1. k \in 0 .. n - 1
      BY <2>1
    <3>2. QED
      BY <1>3, <1>5, <2>1, <3>1
  <2> HIDE DEF w, q, r, q2, r2
  <2>8. ValueOf(a, k + 1) = r + r2 * w
    BY <2>6, <2>7 DEF w
  <2> DEFINE v == B * w
             s == r + r2 * w
  <2>9. v \in Nat /\ s \in 0 .. v - 1
    <3>1. PICK c \in Nat : B = r2 + 1 + c
      <4>1. B - 1 - r2 \in Nat /\ B = r2 + 1 + (B - 1 - r2)
        BY <1>1, <2>4
      <4>2. QED
        BY <4>1
    <3>2. r2 \in Nat
      BY <1>1, <2>4
    <3>3. B * w = r2 * w + w + c * w /\ r2 * w \in Nat /\ c * w \in Nat
      BY <2>2, <3>1, <3>2, SMT
    <3>4. QED
      BY <2>2, <2>3, <3>3
  <2>10. x = s + q2 * v
    <3>1. w * q = w * (B * q2) + w * r2
      <4>1. \A b, c \in Nat : w * (b + c) = w * b + w * c
        BY <2>2, SMT
      <4>2. B * q2 \in Nat /\ r2 \in Nat
        BY <1>1, <2>4, SMT
      <4>3. QED
        BY <2>4, <4>1, <4>2
    <3>2. w * (B * q2) = q2 * (B * w) /\ w * r2 = r2 * w /\ q2 * (B * w) \in Nat /\ r2 * w \in Nat
      <4>1. r2 \in Nat
        BY <1>1, <2>4
      <4>2. QED
        BY <1>1, <2>2, <2>4, <4>1, SMT
    <3>3. r \in Nat
      BY <2>2, <2>3
    <3>4. QED
      BY <2>3, <3>1, <3>2, <3>3
  <2> HIDE DEF v, s
  <2>11. s = x % v
    <3>1. v > 0 /\ s \in Int /\ q2 \in Int
      BY <2>4, <2>9
    <3>2. Cong(x, s, v)
      BY <2>10, <3>1 DEF Cong
    <3>3. x % v \in 0 .. v - 1 /\ Cong(x % v, x, v)
      <4>1. x \in Int
        OBVIOUS
      <4>2. QED
        BY <2>9, <3>1, <4>1, CongModulo
    <3> DEFINE u == x % v
    <3>4. u \in 0 .. v - 1 /\ u \in Int /\ Cong(u, x, v)
      BY <2>9, <3>3
    <3> HIDE DEF u
    <3>5. Cong(u, s, v)
      BY <2>9, <3>1, <3>2, <3>4, CongJoin
    <3>6. u = s
      BY <2>9, <3>1, <3>4, <3>5, CongUnique
    <3>7. QED
      BY <3>6 DEF u
  <2>12. QED
    BY <2>2, <2>8, <2>11 DEF s, v
<1>6. \A k \in Nat : k \in S
  <2> HIDE DEF S
  <2>1. QED
    BY <1>4, <1>5, Induction
<1>7. QED
  BY <1>3, <1>6 DEF a

-----------------------------------------------------------------------------
(***************************************************************************)
(* The lowest words of a product.                                          *)
(***************************************************************************)
Multiples(f, c, n, m) == \A i \in n .. m - 1 : \E g \in Int : f[i] = c * g

Exceeds(f, c, n, m) == \E z \in Int : SumUpTo(f, m) = SumUpTo(f, n) + c * z

\* Terms beyond the n-th that are multiples of c change a sum by a multiple of c.
LEMMA SumPast ==
  ASSUME NEW n \in Nat, NEW l \in Nat, NEW f, NEW c \in Int, Ints(f, n + l),
         Multiples(f, c, n, n + l)
  PROVE  Exceeds(f, c, n, n + l)
<1> DEFINE S == {k \in Nat : k <= l => \E z \in Int : SumUpTo(f, n + k) = SumUpTo(f, n) + c * z}
<1>1. 0 \in S
  <2>1. SumUpTo(f, n) \in Int
    <3>1. Ints(f, n)
      BY DEF Ints
    <3>2. QED
      BY <3>1, SumIsInt
  <2>2. SumUpTo(f, n + 0) = SumUpTo(f, n) + c * 0
    BY <2>1
  <2>3. QED
    BY <2>2
<1>2. ASSUME NEW k \in Nat, k \in S PROVE k + 1 \in S
  <2>1. SUFFICES ASSUME k + 1 <= l
                 PROVE  \E z \in Int : SumUpTo(f, n + (k + 1)) = SumUpTo(f, n) + c * z
    OBVIOUS
  <2>2. PICK z \in Int : SumUpTo(f, n + k) = SumUpTo(f, n) + c * z
    BY <1>2, <2>1
  <2>3. n + k \in Nat /\ n + k \in n .. (n + l) - 1 /\ n + (k + 1) = (n + k) + 1
    BY <2>1
  <2>4. PICK g \in Int : f[n + k] = c * g
    BY <2>3 DEF Multiples
  <2>5. Ints(f, (n + k) + 1)
    BY <2>1 DEF Ints
  <2>6. /\ SumUpTo(f, n + k) \in Int
        /\ SumUpTo(f, (n + k) + 1) = SumUpTo(f, n + k) + f[n + k]
    BY <2>3, <2>5, SumNext
  <2>7. c * (z + g) = c * z + c * g /\ c * z \in Int /\ c * g \in Int /\ z + g \in Int
    BY SMT
  <2>8. SumUpTo(f, n) \in Int
    <3>1. Ints(f, n)
      BY DEF Ints
    <3>2. QED
      BY <3>1, SumIsInt
  <2>9. SumUpTo(f, n + (k + 1)) = SumUpTo(f, n) + c * (z + g)
    BY <2>2, <2>3, <2>4, <2>6, <2>7, <2>8
  <2>10. QED
    BY <2>7, <2>9
<1>3. \A k \in Nat : k \in S
  <2> HIDE DEF S
  <2>1. QED
    BY <1>1, <1>2, Induction
<1>4. l \in S
  BY <1>3
<1>5. l <= l
  OBVIOUS
<1>6. QED
  BY <1>4, <1>5 DEF Exceeds

(***************************************************************************)
(* ProductScan leaves the product modulo the weight of the word after the  *)
(* last, whatever the sizes (mulProductScan320to192, ...).                 *)
(***************************************************************************)
THEOREM ProductScanModulo ==
  ASSUME NEW n1 \in Nat, NEW n2 \in Nat, NEW size \in Nat, 2 * n1 <= B, n2 > 0,
         NEW x \in Number(n1), NEW y \in Number(n2)
  PROVE  /\ ProductScan(x, y, n1, n2, size) \in Number(size)
         /\ ValueOf(ProductScan(x, y, n1, n2, size), size)
               = (ValueOf(x, n1) * ValueOf(y, n2)) % Weight[size]
<1> DEFINE low == [i \in 0 .. size - 1 |-> LowSum(x, y, i, Column(i, n1, n2))]
           high == [i \in 0 .. size - 1 |-> HighSum(x, y, i, Column(i, n1, n2))]
           p == Worth(low, high, size)
           l == n1 + n2
           f == [i \in 0 .. (size + l) - 1 |-> Weight[i] * ColumnSum(x, y, i, n1, n2)]
           W == Weight[size]
           v == ValueOf(ProductScan(x, y, n1, n2, size), size)
           X == ValueOf(x, n1)
           Y == ValueOf(y, n2)
<1>1. ProductScan(x, y, n1, n2, size) = ScanColumns(low, high, size)
  BY DEF ProductScan
<1>2. ASSUME NEW i \in Nat
      PROVE  /\ LowSum(x, y, i, Column(i, n1, n2)) \in 0 .. n1 * (B - 1)
             /\ HighSum(x, y, i, Column(i, n1, n2)) \in 0 .. n1 * (B - 1)
             /\ LowSum(x, y, i, Column(i, n1, n2)) + B * HighSum(x, y, i, Column(i, n1, n2))
                   = ColumnSum(x, y, i, n1, n2)
             /\ ColumnSum(x, y, i, n1, n2) \in Int
  <2> DEFINE a == LowSum(x, y, i, Column(i, n1, n2))
             b == HighSum(x, y, i, Column(i, n1, n2))
             m == n1 * (B - 1)
  <2>1. a \in 0 .. m /\ b \in 0 .. m /\ a + B * b = ColumnSum(x, y, i, n1, n2)
    BY ColumnHalves
  <2>2. m \in Nat /\ B \in Nat
    <3>1. B - 1 \in Nat /\ B \in Nat
      BY BaseFacts
    <3>2. QED
      BY <3>1, SMT
  <2> HIDE DEF a, b, m
  <2>3. a + B * b \in Int
    <3>1. a \in Int /\ b \in Int
      BY <2>1, <2>2
    <3>2. QED
      BY <2>2, <3>1, SMT
  <2>4. ColumnSum(x, y, i, n1, n2) \in Int
    BY <2>1, <2>3
  <2>5. QED
    BY <2>1, <2>4 DEF a, b, m
<1>3. \A i \in 0 .. size - 1 : /\ low[i] = LowSum(x, y, i, Column(i, n1, n2))
                              /\ high[i] = HighSum(x, y, i, Column(i, n1, n2)) /\ i \in Nat
  OBVIOUS
<1> HIDE DEF low, high
<1>4. Halves(low, high, size, n1)
  BY <1>2, <1>3 DEF Halves
<1>5. /\ ScanColumns(low, high, size) \in Number(size)
      /\ \E rest \in Nat :
            ValueOf(ScanColumns(low, high, size), size) + rest * W = SumUpTo(p, size)
  BY <1>4, ScanSum
<1>6. ASSUME NEW i \in 0 .. (size + l) - 1
      PROVE  f[i] = Weight[i] * ColumnSum(x, y, i, n1, n2) /\ f[i] \in Int
  <2>1. Weight[i] \in Nat /\ ColumnSum(x, y, i, n1, n2) \in Int
    BY <1>2, WeightFacts
  <2>2. QED
    BY <2>1, SMT
<1>7. \A i \in 0 .. size - 1 : p[i] = f[i]
  <2>1. ASSUME NEW i \in 0 .. size - 1
        PROVE  p[i] = Weight[i] * ColumnSum(x, y, i, n1, n2)
    <3>1. p[i] = Weight[i] * (low[i] + B * high[i])
      BY DEF Worth
    <3>2. low[i] + B * high[i] = ColumnSum(x, y, i, n1, n2)
      BY <1>2, <1>3
    <3>3. QED
      BY <3>1, <3>2
  <2>2. ASSUME NEW i \in 0 .. size - 1
        PROVE  f[i] = Weight[i] * ColumnSum(x, y, i, n1, n2)
    <3>1. i \in 0 .. (size + l) - 1
      OBVIOUS
    <3>2. QED
      BY <1>6, <3>1
  <2> HIDE DEF p, f
  <2>3. QED
    BY <2>1, <2>2
<1>8. l \in Nat /\ size + l \in Nat /\ n1 + n2 <= (size + l) + 1
  OBVIOUS
<1>9. W \in Nat /\ W > 0
  BY WeightFacts
<1>10. X \in Int /\ Y \in Int /\ X * Y \in Int
  <2>1. X \in 0 .. Weight[n1] - 1 /\ Y \in 0 .. Weight[n2] - 1 /\ Weight[n1] \in Nat
        /\ Weight[n2] \in Nat
    BY ValueBound, WeightFacts
  <2> HIDE DEF X, Y
  <2>2. X \in Int /\ Y \in Int
    BY <2>1
  <2>3. QED
    BY <2>2, SMT
<1>11. Multiples(f, W, size, size + l)
  <2>1. ASSUME NEW i \in size .. (size + l) - 1 PROVE \E g \in Int : f[i] = W * g
    <3> DEFINE j == i - size
               c == ColumnSum(x, y, i, n1, n2)
               u == Weight[j]
    <3>1. j \in Nat /\ i = size + j /\ i \in 0 .. (size + l) - 1 /\ i \in Nat
      BY <1>8
    <3>2. f[i] = Weight[i] * c /\ c \in Int
      BY <1>2, <1>6, <3>1
    <3>3. Weight[size + j] = W * u /\ u \in Nat
      BY <3>1, WeightPlus, WeightFacts
    <3> HIDE DEF f, c, u, W, j
    <3>4. (W * u) * c = W * (u * c) /\ u * c \in Int
      BY <1>9, <3>2, <3>3, SMT
    <3>5. f[i] = W * (u * c)
      BY <3>1, <3>2, <3>3, <3>4
    <3>6. QED
      BY <3>4, <3>5
  <2> HIDE DEF f, W
  <2>2. QED
    BY <2>1 DEF Multiples
<1>12. Ints(f, size + l) /\ Ints(f, size)
  <2> HIDE DEF f
  <2>1. QED
    BY <1>6, <1>8 DEF Ints
<1>13. Ints(x, n1) /\ Ints(y, n2)
  BY BaseFacts DEF Ints, Number, Word
<1>14. SumUpTo(f, size + l) = X * Y
  <2>1. \A i \in 0 .. (size + l) - 1 : f[i] = Weight[i] * ColumnSum(x, y, i, n1, n2)
    OBVIOUS
  <2> HIDE DEF f, l
  <2>2. QED
    BY <1>8, <1>13, <2>1, ColumnsProduct
<1> HIDE DEF f, p, l
<1>15. SumUpTo(p, size) = SumUpTo(f, size) /\ SumUpTo(f, size) \in Int
  BY <1>7, <1>12, SumSame, SumIsInt
<1>16. PICK z \in Int : SumUpTo(f, size + l) = SumUpTo(f, size) + W * z
  <2>1. W \in Int
    BY <1>9
  <2> HIDE DEF W
  <2>2. l \in Nat /\ Ints(f, size + l) /\ Multiples(f, W, size, size + l)
    BY <1>8, <1>11, <1>12
  <2>3. Exceeds(f, W, size, size + l)
    BY <2>1, <2>2, SumPast
  <2>4. QED
    BY <2>3 DEF Exceeds
<1>17. PICK rest \in Nat : v + rest * W = SumUpTo(p, size)
  BY <1>1, <1>5
<1>18. v \in 0 .. W - 1
  BY <1>1, <1>5, ValueBound
<1>19. ProductScan(x, y, n1, n2, size) \in Number(size)
  BY <1>1, <1>5
<1> HIDE DEF v, X, Y, W
<1>20. v = (X * Y) % W
  <2> DEFINE t == X * Y
  <2>1. t \in Int
    BY <1>10
  <2>2. t = (v + rest * W) + W * z
    BY <1>14, <1>15, <1>16, <1>17
  <2>3. (rest + z) * W = rest * W + W * z /\ rest * W \in Int /\ W * z \in Int /\ rest + z \in Int
    BY <1>9, SMT
  <2>4. v \in Int
    BY <1>9, <1>18
  <2> HIDE DEF t
  <2>5. t = v + (rest + z) * W
    BY <2>2, <2>3, <2>4
  <2>6. Cong(t, v, W)
    BY <2>3, <2>5 DEF Cong
  <2> DEFINE r == t % W
  <2>7. r \in 0 .. W - 1 /\ Cong(r, t, W)
    BY <1>9, <2>1, CongModulo
  <2>8. r \in Int
    BY <1>9, <2>7
  <2> HIDE DEF r
  <2>9. Cong(r, v, W)
    BY <1>9, <2>1, <2>4, <2>6, <2>7, <2>8, CongJoin
  <2>10. r = v
    BY <1>9, <1>18, <2>7, <2>9, CongUnique
  <2>11. QED
    BY <2>10 DEF r, t
<1>21. QED
  BY <1>19, <1>20 DEF v, X, Y, W

(***************************************************************************)
(* A factor's words beyond those that a scan reads do not matter.          *)
(***************************************************************************)
LEMMA ScanReads ==
  ASSUME NEW n1, NEW n2 \in Nat, NEW size, NEW x, NEW y, NEW z,
         \A j \in 0 .. n2 - 1 : z[j] = y[j]
  PROVE  ProductScan(x, y, n1, n2, size) = ProductScan(x, z, n1, n2, size)
<1>1. ASSUME NEW i \in 0 .. size - 1
      PROVE  /\ LowSum(x, y, i, Column(i, n1, n2)) = LowSum(x, z, i, Column(i, n1, n2))
             /\ HighSum(x, y, i, Column(i, n1, n2)) = HighSum(x, z, i, Column(i, n1, n2))
  <2>1. ASSUME NEW j \in 0 .. i, j \in Column(i, n1, n2) PROVE z[i - j] = y[i - j]
    <3>1. i - j \in 0 .. n2 - 1
      BY <2>1 DEF Column
    <3>2. QED
      BY <3>1
  <2> DEFINE l(w) == [j \in 0 .. i |-> IF j \in Column(i, n1, n2) THEN (x[j] * w[i - j]) % B ELSE 0]
             h(w) == [j \in 0 .. i |-> IF j \in Column(i, n1, n2) THEN (x[j] * w[i - j]) \div B ELSE 0]
  <2>2. l(y) = l(z) /\ h(y) = h(z)
    BY <2>1
  <2>3. QED
    BY <2>2 DEF LowSum, HighSum
<1>2. QED
  BY <1>1 DEF ProductScan

-----------------------------------------------------------------------------
(***************************************************************************)
(* Three terms taken off a word in turn leave the difference, and the      *)
(* borrows of the three.                                                   *)
(***************************************************************************)
Off(s, x) == [word |-> (s.word - x) % B,
              borrow |-> s.borrow + (IF s.word < x THEN 1 ELSE 0)]
Taking == [word : Word, borrow : Nat]
Differs(s, t, x) == s.word - B * s.borrow = (t.word - B * t.borrow) - x

\* One term taken off a word: the borrow makes up for the wrap.
LEMMA OffTakes ==
  ASSUME NEW s \in Taking, NEW x \in Word
  PROVE  /\ Off(s, x) \in Taking
         /\ Off(s, x).borrow <= s.borrow + 1
         /\ Differs(Off(s, x), s, x)
<1> DEFINE w == s.word
           b == s.borrow
           d == w - x
           r == d % B
           c == IF w < x THEN 1 ELSE 0
<1>1. B \in Nat /\ B > 0 /\ w \in 0 .. B - 1 /\ x \in 0 .. B - 1 /\ b \in Nat
  BY BaseFacts DEF Taking, Word
<1> HIDE DEF w, b
<1>2. r \in 0 .. B - 1 /\ Cong(r, d, B) /\ d \in Int
  <2>1. d \in Int
    BY <1>1
  <2> HIDE DEF d
  <2>2. QED
    BY <1>1, <2>1, CongModulo
<1>3. r = d + B * c
  <2> DEFINE e == d + B * c
  <2>1. e \in 0 .. B - 1 /\ Cong(d, e, B)
    <3>1. CASE w < x
      <4>1. c = 1 /\ e = d + B
        BY <1>1, <1>2, <3>1
      <4>2. d = e + (-1) * B
        BY <1>1, <1>2, <4>1
      <4> HIDE DEF e, c
      <4>3. e \in 0 .. B - 1
        BY <1>1, <3>1, <4>1
      <4>4. QED
        BY <4>2, <4>3 DEF Cong
    <3>2. CASE ~(w < x)
      <4>1. c = 0 /\ e = d
        BY <1>1, <1>2, <3>2
      <4>2. d = e + 0 * B
        BY <1>1, <1>2, <4>1
      <4> HIDE DEF e, c
      <4>3. e \in 0 .. B - 1
        BY <1>1, <3>2, <4>1
      <4>4. QED
        BY <4>2, <4>3 DEF Cong
    <3>3. QED
      BY <3>1, <3>2
  <2> HIDE DEF e, d, r
  <2>2. r \in Int /\ e \in Int
    BY <1>1, <1>2, <2>1
  <2>3. Cong(r, e, B)
    BY <1>1, <1>2, <2>1, <2>2, CongJoin
  <2>4. r = e
    BY <1>1, <1>2, <2>1, <2>3, CongUnique
  <2>5. QED
    BY <2>4 DEF e
<1>4. c \in Nat /\ c <= 1
  OBVIOUS
<1>5. Off(s, x) = [word |-> r, borrow |-> b + c]
  BY DEF Off, w, b
<1> HIDE DEF r, c
<1>6. B * (b + c) = B * b + B * c /\ B * b \in Nat /\ B * c \in Nat
  BY <1>1, <1>4, SMT
<1>7. r - B * (b + c) = (w - B * b) - x
  BY <1>1, <1>2, <1>3, <1>4, <1>6
<1>8. r \in Word /\ b + c \in Nat /\ b + c <= b + 1
  BY <1>1, <1>2, <1>4 DEF Word
<1> HIDE DEF d
<1>9. QED
  BY <1>5, <1>7, <1>8 DEF Taking, Differs, w, b

(***************************************************************************)
(* One word of subMul: the high half of the word before and the low half   *)
(* of this one are taken off, and the borrows of the word before.          *)
(***************************************************************************)
LowHalf(ds, m, i) == (ds[i] * m) % B
HighHalf(ds, m, i) == (ds[i] * m) \div B
SubMulWord(dv, ds, m, n, i, carry0) ==
    IF i = 0 THEN Off([word |-> dv[0], borrow |-> 0], LowHalf(ds, m, 0))
    ELSE LET afterHi == Off([word |-> dv[i], borrow |-> 0], HighHalf(ds, m, i - 1))
         IN  Off(IF i < n THEN Off(afterHi, LowHalf(ds, m, i)) ELSE afterHi, carry0)

\* What word i takes off, without the borrows.
Taken(ds, m, n, i) ==
    (IF i = 0 THEN 0 ELSE HighHalf(ds, m, i - 1)) + (IF i < n THEN LowHalf(ds, m, i) ELSE 0)

\* The halves of a word product are words and make it up.
LEMMA HalvesOfWord ==
  ASSUME NEW n \in Nat, NEW ds \in Number(n), NEW m \in Word, NEW i \in 0 .. n - 1
  PROVE  /\ LowHalf(ds, m, i) \in Word /\ HighHalf(ds, m, i) \in Word
         /\ ds[i] * m = LowHalf(ds, m, i) + B * HighHalf(ds, m, i)
<1> DEFINE p == ds[i] * m
<1>1. ds[i] \in Word
  BY DEF Number
<1>2. p \in Nat /\ p < B * B
  BY <1>1, Doubles
<1>3. B \in Nat /\ B > 0
  BY BaseFacts
<1> HIDE DEF p
<1>4. p \div B \in Nat /\ p % B \in 0 .. B - 1 /\ p = B * (p \div B) + (p % B)
  BY <1>2, <1>3, Division
<1>5. p \div B < B
  BY <1>2, <1>3, SmallQuotient
<1> DEFINE h == p \div B
           l == p % B
<1>6. h \in 0 .. B - 1 /\ l \in 0 .. B - 1 /\ p = B * h + l
  BY <1>3, <1>4, <1>5
<1> HIDE DEF h, l
<1>7. B * h \in Nat /\ l \in Nat
  <2>1. h \in Nat /\ l \in Nat
    BY <1>3, <1>6
  <2>2. QED
    BY <1>3, <2>1, SMT
<1>8. p = l + B * h
  BY <1>6, <1>7
<1>9. QED
  BY <1>6, <1>8 DEF l, h, p, Word, LowHalf, HighHalf

\* One word of subMul takes off what is due, with at most three borrows.
LEMMA SubMulWordTakes ==
  ASSUME NEW n \in Nat \ {0}, NEW dv, Words(dv, n + 1), NEW ds \in Number(n), NEW m \in Word,
         NEW i \in 0 .. n, NEW c \in 0 .. 3, i = 0 => c = 0
  PROVE  LET s == SubMulWord(dv, ds, m, n, i, c)
         IN  /\ s.word \in Word /\ s.borrow \in 0 .. 3
             /\ s.word - B * s.borrow = (dv[i] - Taken(ds, m, n, i)) - c
<1> DEFINE s0 == [word |-> dv[i], borrow |-> 0]
           s == SubMulWord(dv, ds, m, n, i, c)
<1>1. B \in Nat /\ B > 3
  BY WordAssumption, BaseFacts
<1>2. dv[i] \in Word /\ dv[i] \in Nat
  BY <1>1 DEF Words, Word
<1>3. s0 \in Taking /\ s0.word = dv[i] /\ s0.borrow = 0 /\ c \in Word
  BY <1>1, <1>2 DEF Taking, Word
<1>4. \A t \in Taking : t.word \in Int /\ t.borrow \in Nat /\ B * t.borrow \in Int
                        /\ t.word - B * t.borrow \in Int
  <2>1. ASSUME NEW t \in Taking
        PROVE  t.word \in Int /\ t.borrow \in Nat /\ B * t.borrow \in Int
               /\ t.word - B * t.borrow \in Int
    <3>1. t.word \in Int /\ t.borrow \in Nat
      BY <1>1 DEF Taking, Word
    <3>2. B * t.borrow \in Int
      BY <1>1, <3>1, SMT
    <3>3. QED
      BY <3>1, <3>2
  <2>2. QED
    BY <2>1
<1>5. B * 0 = 0
  BY <1>1
<1>6. CASE i = 0
  <2> DEFINE x == LowHalf(ds, m, 0)
  <2>1. x \in Word
    BY HalvesOfWord
  <2>2. s = Off(s0, x)
    BY <1>6 DEF SubMulWord
  <2>3. Taken(ds, m, n, i) = x
    BY <1>1, <1>6, <2>1 DEF Taken, Word
  <2> HIDE DEF x, s0, s
  <2>4. s \in Taking /\ s.borrow <= s0.borrow + 1 /\ Differs(s, s0, x)
    BY <1>3, <2>1, <2>2, OffTakes
  <2>5. s.word \in Word /\ s.borrow \in 0 .. 3
    BY <1>3, <2>4 DEF Taking
  <2>6. s.word - B * s.borrow = (dv[i] - x) - c
    <3>1. s.word - B * s.borrow = (dv[i] - B * 0) - x
      BY <1>3, <2>4 DEF Differs
    <3>2. x \in Int /\ c = 0
      BY <1>1, <1>6, <2>1 DEF Word
    <3>3. QED
      BY <1>2, <1>5, <3>1, <3>2
  <2>7. QED
    BY <2>3, <2>5, <2>6 DEF s
<1>7. CASE i # 0 /\ i < n
  <2> DEFINE h == HighHalf(ds, m, i - 1)
             l == LowHalf(ds, m, i)
             s1 == Off(s0, h)
             s2 == Off(s1, l)
  <2>1. h \in Word /\ l \in Word
    <3>1. i - 1 \in 0 .. n - 1 /\ i \in 0 .. n - 1
      BY <1>7
    <3>2. QED
      BY <3>1, HalvesOfWord
  <2>2. s = Off(s2, c)
    BY <1>7 DEF SubMulWord
  <2>3. Taken(ds, m, n, i) = h + l
    BY <1>7 DEF Taken
  <2> HIDE DEF s0, h, l
  <2>4. s1 \in Taking /\ s1.borrow <= s0.borrow + 1 /\ Differs(s1, s0, h)
    BY <1>3, <2>1, OffTakes
  <2> HIDE DEF s1
  <2>5. s2 \in Taking /\ s2.borrow <= s1.borrow + 1 /\ Differs(s2, s1, l)
    BY <2>1, <2>4, OffTakes
  <2> HIDE DEF s2, s
  <2>6. s \in Taking /\ s.borrow <= s2.borrow + 1 /\ Differs(s, s2, c)
    BY <1>3, <2>2, <2>5, OffTakes
  <2>7. s.word \in Word /\ s.borrow \in 0 .. 3
    <3>1. s.borrow \in Nat /\ s1.borrow \in Nat /\ s2.borrow \in Nat /\ s0.borrow = 0
      BY <1>3, <1>4, <2>4, <2>5, <2>6
    <3>2. s.borrow <= 3
      BY <2>4, <2>5, <2>6, <3>1
    <3>3. QED
      BY <2>6, <3>1, <3>2 DEF Taking
  <2>8. s.word - B * s.borrow = (dv[i] - (h + l)) - c
    <3> DEFINE a == s.word - B * s.borrow
               a1 == s1.word - B * s1.borrow
               a2 == s2.word - B * s2.borrow
    <3>1. a = a2 - c /\ a2 = a1 - l
      BY <2>5, <2>6 DEF Differs
    <3>2. a1 = (dv[i] - B * 0) - h
      BY <1>3, <2>4 DEF Differs
    <3>3. a \in Int /\ a1 \in Int /\ a2 \in Int
      BY <1>4, <2>4, <2>5, <2>6
    <3>4. h \in Int /\ l \in Int
      BY <1>1, <2>1 DEF Word
    <3> HIDE DEF a, a1, a2
    <3>5. a = (dv[i] - (h + l)) - c
      BY <1>2, <1>5, <3>1, <3>2, <3>3, <3>4
    <3>6. QED
      BY <3>5 DEF a
  <2>9. QED
    BY <2>3, <2>7, <2>8 DEF s
<1>8. CASE i = n
  <2> DEFINE h == HighHalf(ds, m, i - 1)
             s1 == Off(s0, h)
  <2>1. h \in Word
    <3>1. i - 1 \in 0 .. n - 1
      BY <1>8
    <3>2. QED
      BY <3>1, HalvesOfWord
  <2>2. s = Off(s1, c)
    BY <1>8 DEF SubMulWord
  <2>3. Taken(ds, m, n, i) = h
    BY <1>1, <1>8, <2>1 DEF Taken, Word
  <2> HIDE DEF s0, h
  <2>4. s1 \in Taking /\ s1.borrow <= s0.borrow + 1 /\ Differs(s1, s0, h)
    BY <1>3, <2>1, OffTakes
  <2> HIDE DEF s1, s
  <2>5. s \in Taking /\ s.borrow <= s1.borrow + 1 /\ Differs(s, s1, c)
    BY <1>3, <2>2, <2>4, OffTakes
  <2>6. s.word \in Word /\ s.borrow \in 0 .. 3
    <3>1. s.borrow \in Nat /\ s1.borrow \in Nat /\ s0.borrow = 0
      BY <1>3, <1>4, <2>4, <2>5
    <3>2. s.borrow <= 3
      BY <2>4, <2>5, <3>1
    <3>3. QED
      BY <2>5, <3>1, <3>2 DEF Taking
  <2>7. s.word - B * s.borrow = (dv[i] - h) - c
    <3> DEFINE a == s.word - B * s.borrow
               a1 == s1.word - B * s1.borrow
    <3>1. a = a1 - c
      BY <2>5 DEF Differs
    <3>2. a1 = (dv[i] - B * 0) - h
      BY <1>3, <2>4 DEF Differs
    <3>3. a \in Int /\ a1 \in Int
      BY <1>4, <2>4, <2>5
    <3>4. h \in Int
      BY <1>1, <2>1 DEF Word
    <3> HIDE DEF a, a1
    <3>5. a = (dv[i] - h) - c
      BY <1>2, <1>5, <3>1, <3>2, <3>3, <3>4
    <3>6. QED
      BY <3>5 DEF a
  <2>8. QED
    BY <2>3, <2>6, <2>7 DEF s
<1>9. QED
  BY <1>6, <1>7, <1>8

-----------------------------------------------------------------------------
(***************************************************************************)
(* subMul takes m * ds off dv, modulo the weight of the word after the     *)
(* last: the borrows of three terms per word are all passed on.            *)
(***************************************************************************)
Borrows(R, dv, ds, m, n) ==
    /\ R[0] = 0
    /\ \A i \in 0 .. n : R[i + 1] = SubMulWord(dv, ds, m, n, i, R[i]).borrow

\* The borrows that subMul passes from word to word.
LEMMA SubMulRuns ==
  ASSUME NEW n \in Nat \ {0}, NEW dv, Words(dv, n + 1), NEW ds \in Number(n), NEW m \in Word
  PROVE  \E R \in [Nat -> 0 .. 3] :
            /\ Borrows(R, dv, ds, m, n)
            /\ subMul(dv, ds, m, n) = [i \in 0 .. n |-> SubMulWord(dv, ds, m, n, i, R[i]).word]
<1> DEFINE T == [word : Word, borrow : 0 .. 3]
           step(i, s) == SubMulWord(dv, ds, m, n, i, s.borrow)
           c == [word |-> dv[0], borrow |-> 0]
           h == [p \in Nat \X T |-> IF p[1] - 1 \in 0 .. n /\ step(p[1] - 1, p[2]) \in T
                                    THEN step(p[1] - 1, p[2]) ELSE c]
<1>1. c \in T
  BY DEF Words
<1>2. h \in [Nat \X T -> T]
  <2> HIDE DEF T, step, c
  <2>1. QED
    BY <1>1
<1>3. PICK G \in [Nat -> T] : Recurs(G, c, h)
  <2> HIDE DEF h, T, c
  <2>1. QED
    BY <1>1, <1>2, Recursion
<1>4. G[0] = c /\ \A k \in Nat : G[k + 1] = h[<<k + 1, G[k]>>]
  BY <1>3 DEF Recurs
<1>5. ASSUME NEW s \in T, NEW i \in 0 .. n, i = 0 => s.borrow = 0
      PROVE  step(i, s) \in T
  <2>1. s.borrow \in 0 .. 3
    OBVIOUS
  <2> DEFINE b == s.borrow
             r == SubMulWord(dv, ds, m, n, i, b)
  <2> HIDE DEF b
  <2>2. b \in 0 .. 3 /\ (i = 0 => b = 0)
    BY <1>5, <2>1 DEF b
  <2>3. r.word \in Word /\ r.borrow \in 0 .. 3
    BY <2>2, SubMulWordTakes
  <2>4. r = [word |-> r.word, borrow |-> r.borrow]
    <3>1. \A u, x : Off(u, x) = [word |-> Off(u, x).word, borrow |-> Off(u, x).borrow]
      BY DEF Off
    <3>2. \E u, x : r = Off(u, x)
      <4>1. CASE i = 0
        BY <4>1 DEF SubMulWord
      <4>2. CASE i # 0
        BY <4>2 DEF SubMulWord
      <4>3. QED
        BY <4>1, <4>2
    <3> HIDE DEF r
    <3>3. QED
      BY <3>1, <3>2
  <2> HIDE DEF r
  <2>5. r \in T
    BY <2>3, <2>4
  <2>6. QED
    BY <2>5 DEF r, b
<1>6. ASSUME NEW i \in 0 .. n PROVE G[i + 1] = step(i, G[i]) /\ G[i] \in T
  <2>1. i \in Nat /\ i + 1 \in Nat /\ (i + 1) - 1 = i
    OBVIOUS
  <2>2. G[i] \in T
    BY <1>3, <2>1
  <2>3. i = 0 => G[i].borrow = 0
    BY <1>4
  <2>4. step(i, G[i]) \in T
    BY <1>5, <2>2, <2>3
  <2> HIDE DEF T, step, c
  <2>5. h[<<i + 1, G[i]>>] = step(i, G[i])
    BY <2>1, <2>2, <2>4
  <2> HIDE DEF h
  <2>6. QED
    BY <1>4, <2>1, <2>2, <2>5
<1> HIDE DEF h
<1> DEFINE lo(i) == (ds[i] * m) % B
           hi(i) == (ds[i] * m) \div B
           O(s, x) == [word |-> (s.word - x) % B,
                       borrow |-> s.borrow + (IF s.word < x THEN 1 ELSE 0)]
           code(r, i) ==
              IF i = 0 THEN O([word |-> dv[0], borrow |-> 0], lo(0))
              ELSE LET carry0 == r[i - 1].borrow
                       afterHi == O([word |-> dv[i], borrow |-> 0], hi(i - 1))
                   IN  O(IF i < n THEN O(afterHi, lo(i)) ELSE afterHi, carry0)
           Def(r) == r = [i \in 0 .. n |-> code(r, i)]
           r0 == CHOOSE r : Def(r)
           known == [i \in 0 .. n |-> G[i + 1]]
           word(i, b) == SubMulWord(dv, ds, m, n, i, b)
<1>7. subMul(dv, ds, m, n) = [i \in 0 .. n |-> r0[i].word]
  BY DEF subMul
<1>8. \A r : Def(r) <=> r = [i \in 0 .. n |-> word(i, IF i = 0 THEN 0 ELSE r[i - 1].borrow)]
  <2>1. ASSUME NEW r, NEW i \in 0 .. n
        PROVE  code(r, i) = word(i, IF i = 0 THEN 0 ELSE r[i - 1].borrow)
    <3>1. CASE i = 0
      BY <3>1 DEF SubMulWord, Off, LowHalf, HighHalf
    <3>2. CASE i # 0
      BY <3>2 DEF SubMulWord, Off, LowHalf, HighHalf
    <3>3. QED
      BY <3>1, <3>2
  <2> HIDE DEF word, code
  <2>2. ASSUME NEW r
        PROVE  [i \in 0 .. n |-> code(r, i)]
                 = [i \in 0 .. n |-> word(i, IF i = 0 THEN 0 ELSE r[i - 1].borrow)]
    BY <2>1
  <2>3. QED
    BY <2>2
<1> HIDE DEF Def, code, lo, hi, O
<1>9. Def(known)
  <2>1. ASSUME NEW i \in 0 .. n
        PROVE  known[i] = word(i, IF i = 0 THEN 0 ELSE known[i - 1].borrow)
    <3>1. known[i] = G[i + 1] /\ G[i + 1] = step(i, G[i])
      BY <1>6
    <3>2. (IF i = 0 THEN 0 ELSE known[i - 1].borrow) = G[i].borrow
      <4>1. CASE i = 0
        <5>1. G[0].borrow = 0
          BY <1>4
        <5>2. QED
          BY <4>1, <5>1
      <4>2. CASE i # 0
        <5>1. i - 1 \in 0 .. n /\ (i - 1) + 1 = i
          BY <4>2
        <5>2. known[i - 1] = G[i]
          BY <5>1
        <5> HIDE DEF known
        <5>3. QED
          BY <4>2, <5>2
      <4>3. QED
        BY <4>1, <4>2
    <3> HIDE DEF known
    <3>3. QED
      BY <3>1, <3>2
  <2>2. known = [i \in 0 .. n |-> known[i]]
    OBVIOUS
  <2> HIDE DEF known, word
  <2>3. known = [i \in 0 .. n |-> word(i, IF i = 0 THEN 0 ELSE known[i - 1].borrow)]
    BY <2>1, <2>2
  <2>4. QED
    BY <1>8, <2>3
<1> HIDE DEF known
<1>10. Def(r0)
  BY <1>9
<1>11. \A i \in 0 .. n : r0[i] = word(i, IF i = 0 THEN 0 ELSE r0[i - 1].borrow)
  <2> HIDE DEF r0, word
  <2>1. r0 = [i \in 0 .. n |-> word(i, IF i = 0 THEN 0 ELSE r0[i - 1].borrow)]
    BY <1>8, <1>10
  <2>2. QED
    BY <2>1
<1> HIDE DEF r0
<1> DEFINE Q == [i \in Nat |-> IF i = 0 \/ i > n + 1 THEN 0 ELSE r0[i - 1].borrow]
<1>12. \A i \in 0 .. n : Q[i] = (IF i = 0 THEN 0 ELSE r0[i - 1].borrow) /\ Q[i + 1] = r0[i].borrow
  <2>1. ASSUME NEW i \in 0 .. n
        PROVE  Q[i] = (IF i = 0 THEN 0 ELSE r0[i - 1].borrow) /\ Q[i + 1] = r0[i].borrow
    <3>1. i \in Nat /\ i + 1 \in Nat /\ ~(i > n + 1) /\ ~(i + 1 > n + 1) /\ i + 1 # 0
          /\ (i + 1) - 1 = i
      OBVIOUS
    <3>2. QED
      BY <3>1
  <2>2. QED
    BY <2>1
<1>13. Q[0] = 0
  OBVIOUS
<1>14. \A i \in Nat : i > n + 1 => Q[i] = 0
  OBVIOUS
<1>15. Q \in [Nat -> {Q[i] : i \in Nat}]
  OBVIOUS
<1> HIDE DEF Q
<1>16. \A i \in 0 .. n : r0[i] = word(i, Q[i]) /\ Q[i + 1] = word(i, Q[i]).borrow
  <2> HIDE DEF word
  <2>1. QED
    BY <1>11, <1>12
<1> DEFINE S == {i \in Nat : i <= n + 1 => Q[i] \in 0 .. 3}
<1>17. \A i \in Nat : i \in S
  <2>1. 0 \in S
    BY <1>13
  <2>2. ASSUME NEW i \in Nat, i \in S PROVE i + 1 \in S
    <3>1. SUFFICES ASSUME i + 1 <= n + 1 PROVE Q[i + 1] \in 0 .. 3
      OBVIOUS
    <3>2. i \in 0 .. n /\ Q[i] \in 0 .. 3
      BY <2>2, <3>1
    <3>3. word(i, Q[i]).borrow \in 0 .. 3
      BY <1>13, <3>2, SubMulWordTakes
    <3> HIDE DEF word
    <3>4. QED
      BY <1>16, <3>2, <3>3
  <2> HIDE DEF S
  <2>3. QED
    BY <2>1, <2>2, Induction
<1>18. \A i \in Nat : Q[i] \in 0 .. 3
  <2>1. ASSUME NEW i \in Nat PROVE Q[i] \in 0 .. 3
    <3>1. CASE i <= n + 1
      BY <1>17, <3>1
    <3>2. CASE i > n + 1
      BY <1>14, <3>2
    <3>3. QED
      BY <3>1, <3>2
  <2>2. QED
    BY <2>1
<1>19. Q \in [Nat -> 0 .. 3]
  BY <1>15, <1>18
<1>20. Borrows(Q, dv, ds, m, n)
  <2>1. \A i \in 0 .. n : Q[i + 1] = word(i, Q[i]).borrow
    BY <1>16
  <2>2. QED
    BY <1>13, <2>1 DEF Borrows
<1>21. subMul(dv, ds, m, n) = [i \in 0 .. n |-> word(i, Q[i]).word]
  <2> HIDE DEF word
  <2>1. \A i \in 0 .. n : r0[i].word = word(i, Q[i]).word
    BY <1>16
  <2>2. QED
    BY <1>7, <2>1
<1>22. QED
  BY <1>19, <1>20, <1>21

-----------------------------------------------------------------------------
\* The high half that the words below k still leave to take off.
Pending(ds, m, k) == IF k = 0 THEN 0 ELSE HighHalf(ds, m, k - 1)

\* subMul takes m * ds off dv modulo the weight of n + 1 words: the borrows of
\* three terms per word are all passed on.
THEOREM SubMulExact ==
  ASSUME NEW n \in Nat \ {0}, NEW dv, Words(dv, n + 1), NEW ds \in Number(n), NEW m \in Word
  PROVE  /\ subMul(dv, ds, m, n) \in Number(n + 1)
         /\ \E borrow \in 0 .. 3 :
               ValueOf(subMul(dv, ds, m, n), n + 1) + m * ValueOf(ds, n)
                  = ValueOf(dv, n + 1) + borrow * Weight[n + 1]
<1>1. PICK R \in [Nat -> 0 .. 3] :
         /\ Borrows(R, dv, ds, m, n)
         /\ subMul(dv, ds, m, n) = [i \in 0 .. n |-> SubMulWord(dv, ds, m, n, i, R[i]).word]
  BY SubMulRuns
<1> DEFINE out == subMul(dv, ds, m, n)
           w(i) == SubMulWord(dv, ds, m, n, i, R[i])
<1>2. B \in Nat /\ B > 0 /\ m \in Nat /\ n \in Nat /\ (n + 1) - 1 = n
  BY BaseFacts DEF Word
<1>3. R[0] = 0 /\ \A i \in 0 .. n : R[i + 1] = w(i).borrow
  BY <1>1 DEF Borrows
<1>4. ASSUME NEW i \in 0 .. n
      PROVE  /\ out[i] = w(i).word /\ out[i] \in Word
             /\ out[i] - B * R[i + 1] = (dv[i] - Taken(ds, m, n, i)) - R[i]
  <2>1. R[i] \in 0 .. 3 /\ (i = 0 => R[i] = 0)
    BY <1>1, <1>3
  <2>2. /\ w(i).word \in Word
        /\ w(i).word - B * w(i).borrow = (dv[i] - Taken(ds, m, n, i)) - R[i]
    BY <2>1, SubMulWordTakes
  <2>3. out[i] = w(i).word
    BY <1>1
  <2> HIDE DEF w, out
  <2>4. QED
    BY <1>3, <2>2, <2>3
<1>5. out \in Number(n + 1) /\ Words(out, n + 1)
  <2>1. out = [i \in 0 .. n |-> out[i]]
    BY <1>1
  <2> HIDE DEF out
  <2>2. \A i \in 0 .. n : out[i] \in Word
    BY <1>4
  <2>3. out \in [0 .. n -> Word]
    BY <2>1, <2>2
  <2>4. QED
    BY <1>2, <2>2, <2>3 DEF Number, Words
<1>6. Words(ds, n)
  BY DEF Number, Words
<1> HIDE DEF out, w
<1>7. ASSUME NEW k \in 0 .. n
      PROVE  /\ Pending(ds, m, k) \in Nat /\ R[k] \in Nat /\ R[k + 1] \in Nat
             /\ out[k] \in Nat /\ dv[k] \in Nat /\ Weight[k] \in Nat
             /\ Weight[k + 1] = B * Weight[k]
             /\ ValueOf(out, k) \in Nat /\ ValueOf(dv, k) \in Nat
             /\ ValueOf(out, k + 1) = ValueOf(out, k) + out[k] * Weight[k]
             /\ ValueOf(dv, k + 1) = ValueOf(dv, k) + dv[k] * Weight[k]
  <2>1. Pending(ds, m, k) \in Nat
    <3>1. CASE k = 0
      BY <3>1 DEF Pending
    <3>2. CASE k # 0
      <4>1. k - 1 \in 0 .. n - 1
        BY <3>2
      <4>2. HighHalf(ds, m, k - 1) \in Word
        BY <1>2, <4>1, HalvesOfWord
      <4>3. QED
        BY <1>2, <3>2, <4>2 DEF Pending, Word
    <3>3. QED
      BY <3>1, <3>2
  <2>2. R[k] \in Nat /\ R[k + 1] \in Nat
    <3>1. \A i \in Nat : R[i] \in 0 .. 3
      BY <1>1
    <3>2. k \in Nat /\ k + 1 \in Nat
      OBVIOUS
    <3>3. R[k] \in 0 .. 3 /\ R[k + 1] \in 0 .. 3
      BY <3>1, <3>2
    <3>4. QED
      BY <3>3
  <2>3. k \in Nat /\ Words(out, k + 1) /\ Words(dv, k + 1)
    BY <1>5 DEF Words
  <2>4. Weight[k] \in Nat /\ Weight[k + 1] = B * Weight[k]
    BY <2>3, WeightFacts
  <2>5. /\ ValueOf(out, k) \in 0 .. Weight[k] - 1 /\ out[k] \in Word
        /\ ValueOf(out, k + 1) = ValueOf(out, k) + out[k] * Weight[k]
    BY <2>3, ValueNext
  <2>6. /\ ValueOf(dv, k) \in 0 .. Weight[k] - 1 /\ dv[k] \in Word
        /\ ValueOf(dv, k + 1) = ValueOf(dv, k) + dv[k] * Weight[k]
    BY <2>3, ValueNext
  <2>7. QED
    BY <1>2, <2>1, <2>2, <2>4, <2>5, <2>6 DEF Word
<1> DEFINE S == {k \in Nat : k <= n =>
                   ValueOf(out, k) + m * ValueOf(ds, k)
                     = ValueOf(dv, k) + Weight[k] * (Pending(ds, m, k) + R[k])}
<1>8. 0 \in S
  <2>1. ValueOf(out, 0) = 0 /\ ValueOf(ds, 0) = 0 /\ ValueOf(dv, 0) = 0
    BY SumZero DEF ValueOf
  <2>2. Pending(ds, m, 0) = 0 /\ R[0] = 0 /\ Weight[0] = 1
    BY <1>3, WeightFacts DEF Pending
  <2>3. 0 + m * 0 = 0 + 1 * (0 + 0)
    BY <1>2
  <2>4. QED
    BY <2>1, <2>2, <2>3
<1>9. ASSUME NEW k \in Nat, k \in S PROVE k + 1 \in S
  <2>1. SUFFICES ASSUME k + 1 <= n
                 PROVE  ValueOf(out, k + 1) + m * ValueOf(ds, k + 1)
                          = ValueOf(dv, k + 1)
                              + Weight[k + 1] * (Pending(ds, m, k + 1) + R[k + 1])
    OBVIOUS
  <2> DEFINE W == Weight[k]
             h == Pending(ds, m, k)
             b == R[k]
             b2 == R[k + 1]
             o == out[k]
             a == dv[k]
             d == ds[k]
             l == LowHalf(ds, m, k)
             h2 == HighHalf(ds, m, k)
             V == ValueOf(out, k)
             A == ValueOf(dv, k)
             P == ValueOf(ds, k)
  <2>2. k \in 0 .. n /\ k \in 0 .. n - 1 /\ k < n
    BY <2>1
  <2>3. /\ h \in Nat /\ b \in Nat /\ b2 \in Nat /\ o \in Nat /\ a \in Nat /\ W \in Nat
        /\ Weight[k + 1] = B * W /\ V \in Nat /\ A \in Nat
        /\ ValueOf(out, k + 1) = V + o * W /\ ValueOf(dv, k + 1) = A + a * W
    BY <1>7, <2>2
  <2>4. l \in Nat /\ h2 \in Nat /\ d * m = l + B * h2
    <3>1. l \in Word /\ h2 \in Word /\ d * m = l + B * h2
      BY <1>2, <2>2, HalvesOfWord
    <3>2. QED
      BY <1>2, <3>1 DEF Word
  <2>5. P \in Nat /\ d \in Nat /\ ValueOf(ds, k + 1) = P + d * W
    <3>1. Words(ds, k + 1)
      BY <1>6, <2>2 DEF Words
    <3>2. /\ P \in 0 .. Weight[k] - 1 /\ d \in Word
          /\ ValueOf(ds, k + 1) = P + d * W
      BY <3>1, ValueNext
    <3>3. QED
      BY <1>2, <2>3, <3>2 DEF Word
  <2>6. Taken(ds, m, n, k) = h + l
    BY <2>2 DEF Taken, Pending
  <2>7. Pending(ds, m, k + 1) = h2
    <3>1. k + 1 # 0 /\ (k + 1) - 1 = k
      OBVIOUS
    <3>2. QED
      BY <3>1 DEF Pending
  <2>8. o - B * b2 = (a - (h + l)) - b
    BY <1>4, <2>2, <2>6
  <2>9. V + m * P = A + W * (h + b)
    BY <1>9, <2>2
  <2> HIDE DEF W, h, b, b2, o, a, d, l, h2, V, A, P, S
  <2>10. B * b2 \in Nat /\ B * h2 \in Nat /\ m * P \in Nat
    BY <1>2, <2>3, <2>4, <2>5, SMT
  <2>11. (h + b) + o + (l + B * h2) = a + (B * h2 + B * b2)
    BY <2>3, <2>4, <2>8, <2>10
  <2>12. W * (h + b) + o * W + (l + B * h2) * W = a * W + (B * h2 + B * b2) * W
    <3>1. \A x, y, z, s, t \in Nat : x + y + z = s + t => W * x + y * W + z * W = s * W + t * W
      <4>1. ASSUME NEW x \in Nat, NEW y \in Nat, NEW z \in Nat, NEW s \in Nat, NEW t \in Nat,
                   x + y + z = s + t
            PROVE  W * x + y * W + z * W = s * W + t * W
        <5>1. (x + y + z) * W = W * x + y * W + z * W /\ (s + t) * W = s * W + t * W
          BY <2>3, SMT
        <5>2. QED
          BY <4>1, <5>1
      <4>2. QED
        BY <4>1
    <3>2. h + b \in Nat /\ l + B * h2 \in Nat /\ B * h2 + B * b2 \in Nat
      BY <2>3, <2>4, <2>10
    <3>3. QED
      BY <2>3, <2>11, <3>1, <3>2
  <2>13. m * (P + d * W) = m * P + (l + B * h2) * W
    <3>1. m * (P + d * W) = m * P + (d * m) * W
      <4>1. \A x \in Nat : m * (P + x) = m * P + m * x
        BY <1>2, <2>5, SMT
      <4>2. d * W \in Nat /\ m * (d * W) = (d * m) * W
        BY <1>2, <2>3, <2>5, SMT
      <4>3. QED
        BY <4>1, <4>2
    <3>2. QED
      BY <2>4, <3>1
  <2>14. (B * W) * (h2 + b2) = (B * h2 + B * b2) * W
    BY <1>2, <2>3, <2>4, SMT
  <2>15. W * (h + b) \in Nat /\ o * W \in Nat /\ (l + B * h2) * W \in Nat /\ a * W \in Nat
         /\ (B * h2 + B * b2) * W \in Nat
    <3>1. \A x, y \in Nat : x * y \in Nat
      BY SMT
    <3>2. h + b \in Nat /\ l + B * h2 \in Nat /\ B * h2 + B * b2 \in Nat
      BY <2>3, <2>4, <2>10
    <3>3. QED
      BY <2>3, <3>1, <3>2
  <2>16. (V + o * W) + m * (P + d * W) = (A + a * W) + (B * W) * (h2 + b2)
    BY <2>3, <2>9, <2>10, <2>12, <2>13, <2>14, <2>15
  <2>17. QED
    BY <2>3, <2>5, <2>7, <2>16 DEF b2
<1>10. \A k \in Nat : k \in S
  <2> HIDE DEF S
  <2>1. QED
    BY <1>8, <1>9, Induction
<1> DEFINE W == Weight[n]
           h == Pending(ds, m, n)
           b == R[n]
           b2 == R[n + 1]
           o == out[n]
           a == dv[n]
           V == ValueOf(out, n)
           A == ValueOf(dv, n)
           P == ValueOf(ds, n)
<1>11. V + m * P = A + W * (h + b)
  <2>1. n \in S /\ n <= n
    BY <1>2, <1>10
  <2>2. QED
    BY <2>1
<1>12. /\ h \in Nat /\ b \in Nat /\ b2 \in Nat /\ o \in Nat /\ a \in Nat /\ W \in Nat
       /\ Weight[n + 1] = B * W /\ V \in Nat /\ A \in Nat
       /\ ValueOf(out, n + 1) = V + o * W /\ ValueOf(dv, n + 1) = A + a * W
  <2>1. n \in 0 .. n
    BY <1>2
  <2>2. QED
    BY <1>7, <2>1
<1>13. o - B * b2 = (a - h) - b
  <2>1. n \in 0 .. n /\ n # 0 /\ ~(n < n)
    BY <1>2
  <2>2. Taken(ds, m, n, n) = h
    BY <1>12, <2>1 DEF Taken, Pending
  <2>3. QED
    BY <1>4, <2>1, <2>2
<1>14. P \in Nat
  <2>1. P \in 0 .. Weight[n] - 1
    BY <1>2, <1>6, ValueOfWords
  <2>2. QED
    BY <1>12, <2>1
<1> HIDE DEF W, h, b, b2, o, a, V, A, P, S
<1>15. B * b2 \in Nat /\ m * P \in Nat /\ W * (h + b) \in Nat /\ o * W \in Nat /\ a * W \in Nat
       /\ (B * b2) * W \in Nat
  <2>1. \A x, y \in Nat : x * y \in Nat
    BY SMT
  <2>2. h + b \in Nat /\ B * b2 \in Nat
    BY <1>2, <1>12, <2>1
  <2>3. QED
    BY <1>2, <1>12, <1>14, <2>1, <2>2
<1>16. (h + b) + o = a + B * b2
  BY <1>12, <1>13, <1>15
<1>17. W * (h + b) + o * W = a * W + (B * b2) * W
  <2>1. \A x, y, s, t \in Nat : x + y = s + t => W * x + y * W = s * W + t * W
    <3>1. ASSUME NEW x \in Nat, NEW y \in Nat, NEW s \in Nat, NEW t \in Nat, x + y = s + t
          PROVE  W * x + y * W = s * W + t * W
      <4>1. (x + y) * W = W * x + y * W /\ (s + t) * W = s * W + t * W
        BY <1>12, SMT
      <4>2. QED
        BY <3>1, <4>1
    <3>2. QED
      BY <3>1
  <2>2. h + b \in Nat
    BY <1>12
  <2>3. QED
    BY <1>12, <1>15, <1>16, <2>1, <2>2
<1>18. (B * b2) * W = b2 * (B * W)
  BY <1>2, <1>12, SMT
<1>19. (V + o * W) + m * P = (A + a * W) + b2 * (B * W)
  BY <1>11, <1>12, <1>15, <1>17, <1>18
<1>20. ValueOf(out, n + 1) + m * ValueOf(ds, n) = ValueOf(dv, n + 1) + b2 * Weight[n + 1]
  BY <1>12, <1>19 DEF P
<1>21. b2 \in 0 .. 3
  BY <1>1, <1>2 DEF b2
<1>22. QED
  BY <1>5, <1>20, <1>21 DEF out

(***************************************************************************)
(* More about words and their values: bit lengths, parities, numbers moved *)
(* up by a word, negated numbers, and the number one.                      *)
(***************************************************************************)
LEMMA BitLengthExact ==
  ASSUME NEW x \in Word \ {0}
  PROVE  /\ BitLength(x) \in 1 .. WordBits
         /\ Pow2[BitLength(x) - 1] <= x /\ x < Pow2[BitLength(x)]
<1>1. x \in Nat /\ x > 0 /\ x < B /\ WordBits \in Nat /\ B = Pow2[WordBits]
  BY BaseFacts, WordAssumption DEF Word, B
<1>2. \A k \in Nat : Pow2[k] \in Nat
  BY Pow2Facts
<1> DEFINE S == {k \in Nat : Pow2[k] <= x}
           Fits(k) == x < Pow2[k] /\ (k = 0 \/ x >= Pow2[k - 1])
<1>3. 0 \in S
  BY <1>1, Pow2Facts
<1>4. \A k \in S : k < WordBits
  <2>1. SUFFICES ASSUME NEW k \in Nat, Pow2[k] <= x, WordBits <= k PROVE FALSE
    BY <1>1
  <2>2. Pow2[WordBits] <= Pow2[k]
    BY <1>1, <2>1, Pow2Grows
  <2>3. QED
    BY <1>1, <1>2, <2>1, <2>2
<1>5. \E k \in S : k + 1 \notin S
  <2>1. SUFFICES ASSUME \A k \in S : k + 1 \in S PROVE FALSE
    OBVIOUS
  <2>2. \A k \in Nat : k \in S
    <3>1. \A k \in Nat : k \in S => k + 1 \in S
      BY <2>1
    <3> HIDE DEF S
    <3>2. QED
      BY <1>3, <3>1, Induction
  <2>3. QED
    BY <1>1, <1>4, <2>2
<1>6. PICK k \in S : k + 1 \notin S
  BY <1>5
<1>7. k + 1 \in 0 .. 2 * WordBits /\ Fits(k + 1)
  <2>1. k \in Nat /\ k < WordBits /\ (k + 1) - 1 = k
    BY <1>4
  <2>2. x < Pow2[k + 1] /\ x >= Pow2[k]
    BY <1>1, <1>2, <1>6, <2>1
  <2>3. QED
    BY <1>1, <2>1, <2>2
<1>8. BitLength(x) \in 0 .. 2 * WordBits /\ Fits(BitLength(x))
  BY <1>7 DEF BitLength
<1> DEFINE b == BitLength(x)
<1>9. b \in Nat /\ b # 0
  <2>1. b # 0
    BY <1>1, <1>8, Pow2Facts
  <2>2. QED
    BY <1>8, <2>1
<1>10. b - 1 \in S
  BY <1>8, <1>9
<1>11. QED
  BY <1>1, <1>4, <1>8, <1>9, <1>10

\* The weights of words but the lowest are even, and at least the base.
LEMMA WeightsAreEven ==
  ASSUME NEW k \in Nat \ {0}
  PROVE  /\ Weight[k] >= B
         /\ \E h \in Nat : Weight[k] = 2 * h
<1>1. k - 1 \in Nat /\ k = (k - 1) + 1
  OBVIOUS
<1> DEFINE w == Weight[k - 1]
<1>2. w \in Nat /\ w >= 1 /\ Weight[k] = B * w /\ B \in Nat
  BY <1>1, WeightFacts, BaseFacts
<1>3. \E h \in Nat : B = 2 * h
  <2>1. WordBits - 1 \in Nat /\ WordBits = (WordBits - 1) + 1
    BY WordAssumption
  <2>2. Pow2[WordBits] = 2 * Pow2[WordBits - 1] /\ Pow2[WordBits - 1] \in Nat
    BY <2>1, Pow2Facts
  <2>3. QED
    BY <2>2 DEF B
<1>4. PICK h \in Nat : B = 2 * h
  BY <1>3
<1> HIDE DEF w
<1>5. B * w >= B
  <2>1. PICK d \in Nat : w = 1 + d
    BY <1>2
  <2>2. B * (1 + d) = B + B * d /\ B * d \in Nat
    BY <1>2
  <2>3. QED
    BY <1>2, <2>1, <2>2
<1>6. B * w = 2 * (h * w) /\ h * w \in Nat
  <2>1. (2 * h) * w = 2 * (h * w)
    BY <1>2
  <2>2. QED
    BY <1>2, <1>4, <2>1
<1>7. QED
  BY <1>2, <1>5, <1>6

\* A number whose words are moved up by one, another word entering below.
LEMMA ValueMoved ==
  ASSUME NEW n \in Nat, NEW a, Words(a, n), NEW b, b[0] \in Word,
         \A i \in 0 .. n - 1 : b[1 + i] = a[i]
  PROVE  /\ Words(b, 1 + n)
         /\ ValueOf(b, 1 + n) = b[0] + B * ValueOf(a, n)
<1>1. Words(b, 1 + n)
  <2>1. ASSUME NEW i \in 0 .. n, i # 0 PROVE b[i] \in Word
    <3>1. i - 1 \in 0 .. n - 1 /\ 1 + (i - 1) = i
      BY <2>1
    <3>2. b[1 + (i - 1)] = a[i - 1] /\ a[i - 1] \in Word
      BY <3>1 DEF Words
    <3>3. QED
      BY <3>1, <3>2
  <2>2. QED
    BY <2>1 DEF Words
<1>2. ValueOf(b, 1 + n) = ValueOf(b, 1) + Weight[1] * ValueOf(a, n)
  BY <1>1, ValueSplit
<1>3. Weight[0] = 1 /\ Weight[1] = B
  <2>1. Weight[0 + 1] = B * Weight[0] /\ Weight[0] = 1
    BY WeightFacts
  <2>2. QED
    BY <2>1, BaseFacts
<1>4. ValueOf(b, 1) = b[0]
  <2>1. Words(b, 0 + 1)
    BY <1>1 DEF Words
  <2>2. ValueOf(b, 0 + 1) = ValueOf(b, 0) + b[0] * Weight[0]
    BY <2>1, ValueNext
  <2>3. ValueOf(b, 0) = 0
    BY SumZero DEF ValueOf
  <2>4. b[0] \in Nat
    BY BaseFacts DEF Word
  <2>5. QED
    BY <1>3, <2>2, <2>3, <2>4
<1>5. QED
  BY <1>1, <1>2, <1>3, <1>4

\* A number is odd if its lowest word is.
LEMMA ValueIsOdd ==
  ASSUME NEW n \in Nat \ {0}, NEW a \in Number(n), ValueOf(a, n) % 2 = 1
  PROVE  a[0] % 2 = 1
<1>1. n - 1 \in Nat /\ 1 + (n - 1) = n
  OBVIOUS
<1> DEFINE r == [i \in 0 .. n - 2 |-> a[1 + i]]
<1>2. Words(r, n - 1) /\ a[0] \in Word /\ \A i \in 0 .. (n - 1) - 1 : a[1 + i] = r[i]
  BY DEF Words, Number
<1> HIDE DEF r
<1>3. ValueOf(a, 1 + (n - 1)) = a[0] + B * ValueOf(r, n - 1)
  BY <1>1, <1>2, ValueMoved
<1>4. ValueOf(r, n - 1) \in Nat
  <2>1. ValueOf(r, n - 1) \in 0 .. Weight[n - 1] - 1
    BY <1>1, <1>2, ValueOfWords
  <2>2. QED
    BY <1>1, <2>1, WeightFacts
<1>5. PICK h \in Nat : B = 2 * h
  <2>1. \E h \in Nat : Weight[1] = 2 * h
    BY WeightsAreEven
  <2>2. Weight[0 + 1] = B * Weight[0] /\ Weight[0] = 1
    BY WeightFacts
  <2>3. QED
    BY <2>1, <2>2, BaseFacts
<1> DEFINE z == ValueOf(r, n - 1)
           l == a[0]
<1>6. l \in Nat /\ z \in Nat
  BY <1>2, <1>4, BaseFacts DEF Word
<1> HIDE DEF z, l
<1>7. (l + (2 * h) * z) % 2 = 1
  BY <1>1, <1>3, <1>5 DEF z, l
<1>8. (2 * h) * z = 2 * (h * z) /\ h * z \in Nat
  BY <1>6
<1>9. l % 2 = 1
  <2>1. \A x, y \in Nat : (x + 2 * y) % 2 = 1 => x % 2 = 1
    BY SMT
  <2>2. QED
    BY <1>6, <1>7, <1>8, <2>1
<1>10. QED
  BY <1>9 DEF l

\* Every word but the lowest negated without a carry, the lowest with it: when
\* the lowest is not zero, this is the negation modulo the weight of n words.
LEMMA ValueNegated ==
  ASSUME NEW n \in Nat \ {0}, NEW a \in Number(n), NEW b, b[0] = B - a[0], a[0] # 0,
         \A i \in 1 .. n - 1 : b[i] = B - 1 - a[i]
  PROVE  /\ Words(b, n)
         /\ ValueOf(b, n) = Weight[n] - ValueOf(a, n)
<1>1. B \in Nat /\ B >= 2 /\ n \in Nat
  BY BaseFacts
<1>2. Words(a, n)
  BY DEF Number, Words
<1>3. Words(b, n)
  <2>1. ASSUME NEW i \in 0 .. n - 1 PROVE b[i] \in Word
    <3>1. a[i] \in 0 .. B - 1
      BY <1>2 DEF Words, Word
    <3>2. b[i] = (IF i = 0 THEN B ELSE B - 1) - a[i]
      BY <2>1
    <3>3. QED
      BY <1>1, <3>1, <3>2 DEF Word
  <2>2. QED
    BY <2>1 DEF Words
<1> DEFINE S == {k \in Nat : k + 1 <= n => ValueOf(b, k + 1) = Weight[k + 1] - ValueOf(a, k + 1)}
<1>4. ASSUME NEW k \in Nat, k + 1 <= n
      PROVE  /\ ValueOf(a, k + 1) = ValueOf(a, k) + a[k] * Weight[k]
             /\ ValueOf(b, k + 1) = ValueOf(b, k) + b[k] * Weight[k]
             /\ a[k] \in Nat /\ b[k] \in Nat /\ ValueOf(a, k) \in Nat /\ ValueOf(b, k) \in Nat
             /\ Weight[k] \in Nat /\ Weight[k + 1] = B * Weight[k]
  <2>1. Words(a, k + 1) /\ Words(b, k + 1)
    BY <1>2, <1>3, <1>4 DEF Words
  <2>2. /\ ValueOf(a, k) \in 0 .. Weight[k] - 1 /\ a[k] \in Word
        /\ ValueOf(a, k + 1) = ValueOf(a, k) + a[k] * Weight[k]
    BY <2>1, ValueNext
  <2>3. /\ ValueOf(b, k) \in 0 .. Weight[k] - 1 /\ b[k] \in Word
        /\ ValueOf(b, k + 1) = ValueOf(b, k) + b[k] * Weight[k]
    BY <2>1, ValueNext
  <2>4. Weight[k] \in Nat /\ Weight[k + 1] = B * Weight[k]
    BY WeightFacts
  <2>5. QED
    BY <1>1, <2>2, <2>3, <2>4 DEF Word
<1>5. 0 \in S
  <2>1. 0 + 1 <= n
    BY <1>1
  <2>2. ValueOf(a, 0) = 0 /\ ValueOf(b, 0) = 0 /\ Weight[0] = 1
    BY SumZero, WeightFacts DEF ValueOf
  <2>3. a[0] \in Nat /\ b[0] \in Nat
    BY <1>4, <2>1
  <2>4. ValueOf(a, 0 + 1) = a[0] /\ ValueOf(b, 0 + 1) = b[0] /\ Weight[0 + 1] = B
    BY <1>1, <1>4, <2>1, <2>2, <2>3
  <2>5. QED
    BY <1>1, <2>3, <2>4
<1>6. ASSUME NEW k \in Nat, k \in S PROVE k + 1 \in S
  <2>1. SUFFICES ASSUME (k + 1) + 1 <= n
                 PROVE  ValueOf(b, (k + 1) + 1) = Weight[(k + 1) + 1] - ValueOf(a, (k + 1) + 1)
    OBVIOUS
  <2> DEFINE W == Weight[k + 1]
             V == ValueOf(a, k + 1)
             U == ValueOf(b, k + 1)
             x == a[k + 1]
             y == b[k + 1]
  <2>2. k + 1 \in Nat /\ k + 1 \in 1 .. n - 1
    BY <1>1, <2>1
  <2>3. U = W - V
    BY <1>1, <1>6, <2>2
  <2>4. y = B - 1 - x
    BY <2>2
  <2>5. /\ ValueOf(a, (k + 1) + 1) = V + x * W /\ ValueOf(b, (k + 1) + 1) = U + y * W
        /\ x \in Nat /\ y \in Nat /\ V \in Nat /\ U \in Nat /\ W \in Nat
        /\ Weight[(k + 1) + 1] = B * W
    BY <1>4, <2>1, <2>2
  <2> HIDE DEF W, V, U, x, y
  <2>6. (B - 1 - x) * W = B * W - W - x * W
    BY <1>1, <2>5
  <2>7. x * W \in Nat /\ B * W \in Nat /\ y * W = B * W - W - x * W
    BY <1>1, <2>4, <2>5, <2>6
  <2>8. QED
    BY <2>3, <2>5, <2>7
<1>7. \A k \in Nat : k \in S
  <2> HIDE DEF S
  <2>1. QED
    BY <1>5, <1>6, Induction
<1>8. n - 1 \in S /\ (n - 1) + 1 = n
  BY <1>7
<1>9. QED
  BY <1>3, <1>8

\* The words of the number one, which fermat320 and fermat352 look for.
LEMMA ValueIsOne ==
  ASSUME NEW n \in Nat \ {0}, NEW a \in Number(n)
  PROVE  ValueOf(a, n) = 1 <=> \A i \in 0 .. n - 1 : a[i] = IF i = 0 THEN 1 ELSE 0
<1>1. n - 1 \in Nat /\ 1 + (n - 1) = n /\ n \in Nat /\ 1 \in 0 .. n /\ B \in Nat /\ B >= 2
  BY BaseFacts
<1>2. Words(a, n) /\ a[0] \in Nat
  BY <1>1 DEF Number, Words, Word
<1> DEFINE r == [i \in 0 .. n - 2 |-> a[1 + i]]
<1>3. Words(r, n - 1) /\ a[0] \in Word /\ \A i \in 0 .. (n - 1) - 1 : a[1 + i] = r[i]
  BY <1>2 DEF Words, Number
<1>4. ValueOf(r, n - 1) \in Nat
  <2> HIDE DEF r
  <2>1. ValueOf(r, n - 1) \in 0 .. Weight[n - 1] - 1
    BY <1>1, <1>3, ValueOfWords
  <2>2. QED
    BY <1>1, <2>1, WeightFacts
<1>5. ValueOf(a, n) = a[0] + B * ValueOf(r, n - 1)
  <2> HIDE DEF r
  <2>1. ValueOf(a, 1 + (n - 1)) = a[0] + B * ValueOf(r, n - 1)
    BY <1>1, <1>3, ValueMoved
  <2>2. QED
    BY <1>1, <2>1
<1>6. ASSUME ValueOf(a, n) = 1, NEW i \in 0 .. n - 1
      PROVE  a[i] = IF i = 0 THEN 1 ELSE 0
  <2> DEFINE z == ValueOf(r, n - 1)
             l == a[0]
  <2>1. l + B * z = 1 /\ z \in Nat /\ l \in Nat
    BY <1>2, <1>4, <1>5, <1>6
  <2> HIDE DEF z, l
  <2>2. z = 0
    <3>1. SUFFICES ASSUME z # 0 PROVE FALSE
      OBVIOUS
    <3>2. PICK d \in Nat : z = 1 + d
      BY <2>1, <3>1
    <3>3. B * (1 + d) = B + B * d /\ B * d \in Nat
      BY <1>1
    <3>4. QED
      BY <1>1, <2>1, <3>2, <3>3
  <2>3. B * 0 = 0
    BY <1>1
  <2>4. l = 1
    BY <2>1, <2>2, <2>3
  <2>5. CASE i = 0
    BY <2>4, <2>5 DEF l
  <2>6. CASE i # 0
    <3> DEFINE j == i - 1
    <3>1. j \in Nat /\ j + 1 <= n - 1 /\ 1 + j = i /\ j \in 0 .. n - 2
      BY <2>6
    <3> HIDE DEF r, j
    <3>2. Words(r, j + 1)
      BY <1>3, <3>1 DEF Words
    <3>3. r[j] \in Word /\ ValueOf(r, j + 1) \in Nat /\ ValueOf(r, j + 1) >= r[j]
      <4>1. /\ ValueOf(r, j) \in 0 .. Weight[j] - 1 /\ r[j] \in Word
            /\ ValueOf(r, j + 1) = ValueOf(r, j) + r[j] * Weight[j]
        BY <3>1, <3>2, ValueNext
      <4>2. Weight[j] \in Nat /\ Weight[j] >= 1
        BY <3>1, WeightFacts
      <4>3. PICK d \in Nat : Weight[j] = 1 + d
        BY <4>2
      <4>4. r[j] \in Nat
        BY <1>1, <4>1 DEF Word
      <4>5. r[j] * (1 + d) = r[j] + r[j] * d /\ r[j] * d \in Nat
        BY <4>4
      <4>6. QED
        BY <4>1, <4>2, <4>3, <4>4, <4>5
    <3>4. ValueOf(r, j + 1) = 0
      <4> DEFINE c == j + 1
                 m == (n - 1) - c
                 t == [k \in 0 .. m - 1 |-> r[c + k]]
      <4>1. m \in Nat /\ c \in Nat /\ c + m = n - 1
        BY <1>1, <3>1
      <4>2. \A k \in 0 .. m - 1 : t[k] = r[c + k]
        OBVIOUS
      <4>3. ValueOf(r, c) \in Nat
        BY <3>3
      <4> HIDE DEF m, t, c
      <4>4. Words(r, c + m)
        BY <1>3, <4>1
      <4>5. /\ ValueOf(t, m) \in 0 .. Weight[m] - 1
            /\ ValueOf(r, c + m) = ValueOf(r, c) + Weight[c] * ValueOf(t, m)
        BY <4>1, <4>2, <4>4, ValueSplit
      <4>6. ValueOf(r, c + m) = 0
        BY <2>2, <4>1 DEF z
      <4>7. Weight[c] \in Nat /\ Weight[m] \in Nat
        BY <4>1, WeightFacts
      <4>8. \A x, y \in Nat : x * y \in Nat
        BY SMT
      <4>9. ValueOf(r, c) = 0
        BY <4>3, <4>5, <4>6, <4>7, <4>8
      <4>10. QED
        BY <4>9 DEF c
    <3>5. r[j] = 0
      BY <1>1, <3>3, <3>4 DEF Word
    <3>6. r[j] = a[1 + j]
      BY <1>3, <3>1
    <3>7. QED
      BY <2>6, <3>1, <3>5, <3>6
  <2>7. QED
    BY <2>5, <2>6
<1>7. ASSUME \A i \in 0 .. n - 1 : a[i] = IF i = 0 THEN 1 ELSE 0
      PROVE  ValueOf(a, n) = 1
  <2>1. a[0] = 1 /\ \A i \in 0 .. (n - 1) - 1 : r[i] = 0
    BY <1>1, <1>7
  <2> HIDE DEF r
  <2>2. ValueOf(r, n - 1) = ValueOf(r, 0)
    <3>1. 0 \in 0 .. n - 1
      BY <1>1
    <3>2. QED
      BY <1>1, <1>3, <2>1, <3>1, ValuePadded
  <2>3. ValueOf(r, 0) = 0
    BY SumZero DEF ValueOf
  <2>4. B * 0 = 0
    BY <1>1
  <2>5. QED
    BY <1>5, <2>1, <2>2, <2>3, <2>4
<1>8. QED
  BY <1>6, <1>7

=============================================================================
