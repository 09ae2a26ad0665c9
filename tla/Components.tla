------------------------------ MODULE Components ------------------------------
(***************************************************************************)
(* Model checking of the parts that stand for themselves: the ring of      *)
(* hashes with its lent slots, a Fermat pipeline with its tallies, the     *)
(* nonces of the devices, the search for hashes, the kernels of the sieve, *)
(* the Fermat test and the product benchmarks, the host's test of a chain, *)
(* and the thread and the solver of the Zcash client.  A behaviour runs    *)
(* one of them; the variables of the others stay in an initial state.      *)
(***************************************************************************)
EXTENDS SlotLoans, FermatTally, NonceSpace, HashSearch,
        FermatTest, ProductKernels, Sieve, PrimeChain, ZcashMiner, Equihash

VARIABLE running

\* Primes and primorials of the search, and hashes of two words for it.
FewPrimes == <<2, 3, 5, 7, 13, 17>>
FewPrimorials == <<3, 4, 5>>
MultiplierLimits == <<5, 8, 10>>
SomeHashes ==
    {524288 + 3331 * k : k \in 0 .. 150} \union {524790 + 210 * k : k \in 0 .. 500}

SieveHashes == {12, 30, 42, 60, 66, 90, 210, 330, 384, 1560, 3072, 3078}
FirstRounds == <<0, 0, 1>>
QuotientErrors == {-1, 0, 1, 2}
SomeOrigins == {6 * k : k \in 1 .. 600} \union {211050, 253680}
SomeTargets == {4 * 256 + 12 * k : k \in 0 .. 63}
SomeFactors == {0, 1, 273, 1911, 2047, 2048, 3840, 3855, 4080, 4094, 4095}

\* Hashes that look random, and hashes of few values, which crowd their rows.
Mixed(i, seed) ==
    LET low == (((i * i + 131 * i + 977 * seed + 7) % 32749) * 30011) % 32749
        mid == (low * low + 17 * i + seed) % 32749
        high == ((mid * 29989 + low) % 32749) \div 8
    IN  (mid % 1024) * 1024 + (high % 1024)
DigitsOf(value) == {d \in Digits : (value \div 2 ^ d) % 2 = 1}
SomeBlakes ==
    {[i \in Indices |-> DigitsOf(Mixed(i, seed))] : seed \in 1 .. 24} \union
    {[i \in Indices |-> DigitsOf(Mixed(i % 44, seed))] : seed \in {1}}

-----------------------------------------------------------------------------
\* The parts that do not run, each in one of its initial states.
SearchAtRest == hash = 524288 /\ SearchInit
TestAtRest == kernel = "320" /\ e = WordsOf(1 + B, Size320) /\ FermatTestInit
BenchAtRest == bench = "sqr320" /\ op1 = WordsOf(0, Size320) /\ BenchInit
ChainAtRest == chainorg = 6 /\ nCandidateType = 0 /\ mDepth = 2 /\ ChainInit
SolverAtRest == up = TRUE /\ garbage = FALSE /\ EquihashInit
SieveAtRest == shash = 12 /\ primorialIdx = 0 /\ roundoff = 0 /\ SieveInit

PartsInit ==
    /\ running \in {"ring", "pipeline", "nonces", "search", "test", "product", "sieve",
                    "chain", "zcash", "equihash"}
    /\ LoanInit /\ TallyInit /\ NonceInit /\ ZcashInit
    /\ (running = "search" /\ SearchInit) \/ (running # "search" /\ SearchAtRest)
    /\ (running = "test" /\ FermatTestInit) \/ (running # "test" /\ TestAtRest)
    /\ (running = "product" /\ BenchInit) \/ (running # "product" /\ BenchAtRest)
    /\ (running = "sieve" /\ SieveInit) \/ (running # "sieve" /\ SieveAtRest)
    /\ (running = "chain" /\ ChainInit) \/ (running # "chain" /\ ChainAtRest)
    /\ (running = "equihash" /\ EquihashInit) \/ (running # "equihash" /\ SolverAtRest)

RestExcept(part) ==
    /\ UNCHANGED running
    /\ part # "ring" => UNCHANGED loanVars
    /\ part # "pipeline" => UNCHANGED tallyVars
    /\ part # "nonces" => UNCHANGED nonceVars
    /\ part # "search" => UNCHANGED searchVars
    /\ part # "test" => UNCHANGED fermatVars
    /\ part # "product" => UNCHANGED benchVars
    /\ part # "sieve" => UNCHANGED sieveVars
    /\ part # "chain" => UNCHANGED chainVars
    /\ part # "zcash" => UNCHANGED zcashVars
    /\ part # "equihash" => UNCHANGED equihashVars

PartsNext ==
    \/ running = "ring" /\ LoanNext /\ RestExcept("ring")
    \/ running = "pipeline" /\ TallyNext /\ RestExcept("pipeline")
    \/ running = "nonces" /\ NonceNext /\ RestExcept("nonces")
    \/ running = "search" /\ SearchNext /\ RestExcept("search")
    \/ running = "test" /\ FermatTestNext /\ RestExcept("test")
    \/ running = "product" /\ BenchNext /\ RestExcept("product")
    \/ running = "sieve" /\ SieveNext /\ RestExcept("sieve")
    \/ running = "chain" /\ ChainNext /\ RestExcept("chain")
    \/ running = "zcash" /\ ZcashNext /\ RestExcept("zcash")
    \/ running = "equihash" /\ EquihashNext /\ RestExcept("equihash")

partsVars == <<running, loanVars, tallyVars, nonceVars, searchVars, fermatVars,
               benchVars, sieveVars, chainVars, zcashVars, equihashVars>>

PartsSpec == PartsInit /\ [][PartsNext]_partsVars

=============================================================================
