------------------------------ MODULE Arithmetic ------------------------------
(***************************************************************************)
(* Powers of two, sums and products, by recursion on a natural number.     *)
(***************************************************************************)
EXTENDS Integers

Pow2[k \in Nat] == IF k = 0 THEN 1 ELSE 2 * Pow2[k - 1]

\* f[0] + ... + f[n - 1].
SumUpTo(f, n) ==
    LET sum[i \in 0 .. n] == IF i = 0 THEN 0 ELSE sum[i - 1] + f[i - 1]
    IN  sum[n]

\* f[0] * ... * f[n - 1].
ProductUpTo(f, n) ==
    LET product[i \in 0 .. n] == IF i = 0 THEN 1 ELSE product[i - 1] * f[i - 1]
    IN  product[n]

=============================================================================
