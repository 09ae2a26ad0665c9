------------------------------- MODULE Equihash -------------------------------
(***************************************************************************)
(* One run of the Zcash solver: the kernels of zcash/gpu/kernel.cl for a   *)
(* header and nonce, what zcashgpuclient.cpp makes of their solutions, and *)
(* the test of a solution in equihash_original.cpp.                        *)
(*                                                                         *)
(* A hash is the set of its hexadecimal digits that are set, with digits   *)
(* of one bit instead of four; it has K + 1 groups of five digits, and two *)
(* digits make a byte.  A solution is 2^K indices, paired level by level,  *)
(* whose hashes agree in one more group at every level.                    *)
(*                                                                         *)
(* The threads of a kernel write their slots in any order; two orders are  *)
(* taken, up and down, and a slot is written as a whole.  The hash         *)
(* (BLAKE2b) is any of the given tables.                                   *)
(***************************************************************************)
EXTENDS Integers, FiniteSets, Sequences

LOCAL INSTANCE FiniteSetsExt
LOCAL INSTANCE SequencesExt
LOCAL INSTANCE Bitwise

CONSTANTS
    PARAM_K,               \* levels of pairs (9)
    PREFIX,                \* bits of an input (20)
    ByteBits,              \* bits of a byte of a proof (8)
    NR_SLOTS,              \* slots of a row (608)
    COLLISION_BUFFER_SIZE, \* slots of a row that are compared, plus one (16)
    MAX_POTENTIAL_SOLS,    \* pairs of the last level (4096)
    MAX_SOLS,              \* solutions that reach the host (10)
    BlakeTables            \* bound: the hashes of all indices

GroupDigits == 5
Digits == 0 .. GroupDigits * (PARAM_K + 1) - 1
Indices == 0 .. 2 ^ (PREFIX + 1) - 1

ASSUME EquihashAssumption ==
    /\ {PREFIX, ByteBits, NR_SLOTS, MAX_POTENTIAL_SOLS, MAX_SOLS} \subseteq Nat \ {0}
    /\ COLLISION_BUFFER_SIZE \in Nat \ {0, 1}
    /\ PARAM_K \in Nat /\ PARAM_K % 2 = 1
    /\ ByteBits <= PREFIX + 1 /\ ((PREFIX + 1) * 2 ^ PARAM_K) % ByteBits = 0

ASSUME BlakeAssumption == BlakeTables \subseteq [Indices -> SUBSET Digits]

VARIABLES
    blake,     \* the hash of each index, for the header and nonce of the run
    up,        \* the order of the threads
    garbage,   \* what is not initialized in a slot of the last round is not zero
    eqRound,   \* the next kernel: a round, or one of those that follow
    ht,        \* the tables: for every round and row its slots
    potential, \* buf_potential_sols
    sols,      \* buf_sols
    proofs,    \* the solutions the host takes, compressed
    missed     \* history: something found no room, or was left out

equihashVars == <<blake, up, garbage, eqRound, ht, potential, sols, proofs, missed>>

-----------------------------------------------------------------------------
(* The slots. *)

\* What follows the rounds 0 to PARAM_K - 1 on the queue, and on the host.
AfterRounds == PARAM_K
AfterPotential == PARAM_K + 1
AfterSols == PARAM_K + 2
Done == PARAM_K + 3

XorOf(a, b) == (a \ b) \union (b \ a)

\* The words are little endian: the low digit of a byte comes first.
SlotOrder(hash) == {IF d % 2 = 0 THEN d + 1 ELSE d - 1 : d \in hash}

\* slot_shr by n digits.
slot_shr(xi, n) == {p - n : p \in {q \in xi : q >= n}}

\* write_slot_global: the digits that select the row, and what the slot keeps.
RowDigits(round) == IF round % 2 = 0 THEN {0, 1, 2} ELSE {2, 4, 7}
Rows(round) == SUBSET RowDigits(round)
Row(xi, round) == xi \intersect RowDigits(round)

\* get_collision_data, of a slot as it is stored.
CollisionDigits(round) == IF round % 2 = 0 THEN {1, 3} ELSE {3, 4}

\* The digits of the round that reads the slot, not of the one that stored it.
CollisionOfReader(xi, round) == xi \intersect CollisionDigits(round + 1)

get_collision_data(xi, round) == xi \intersect CollisionDigits(round)

InOrder(S) ==
    LET order == FoldSet(LAMBDA s, seq : Append(seq, s), <<>>, S)
    IN  IF up THEN order ELSE Reverse(order)

Arrivals(slots, row, round) == {s \in slots : Row(s.xi, round) = row}

\* Once a row is full its last slot is written again and again.
InRow(arrivals) ==
    IF Len(arrivals) <= NR_SLOTS THEN arrivals
    ELSE Append(SubSeq(arrivals, 1, NR_SLOTS - 1), Last(arrivals))

write_slot_global(slots, round) ==
    [row \in Rows(round) |->
        LET kept == InRow(InOrder(Arrivals(slots, row, round)))
        IN  [i \in DOMAIN kept |-> [kept[i] EXCEPT !.xi = slot_shr(@, 2)]]]

RowOverflows(slots, round) ==
    \E row \in Rows(round) : Cardinality(Arrivals(slots, row, round)) > NR_SLOTS

\* The slots of a row with the same collision data as slot i, and those of them
\* that the buffer of the work group holds.
Alike(slots, i, round) ==
    {j \in DOMAIN slots :
        get_collision_data(slots[j].xi, round) = get_collision_data(slots[i].xi, round)}

Collisions(slots, i, round) ==
    LET alike == Alike(slots, i, round)
        Before(j) == {m \in alike : IF up THEN m < j ELSE m > j}
    IN  {j \in alike : Cardinality(Before(j)) < COLLISION_BUFFER_SIZE - 1}

BufferOverflows(round) ==
    \E row \in Rows(round) : \E i \in DOMAIN ht[round][row] :
        Alike(ht[round][row], i, round) # Collisions(ht[round][row], i, round)

-----------------------------------------------------------------------------
\* What an earlier run left in the buffers of solutions.
Leftover == <<>>

EquihashInit ==
    /\ blake = <<>>
    /\ up \in BOOLEAN /\ garbage \in BOOLEAN
    /\ eqRound = 0
    /\ ht = [round \in 0 .. PARAM_K - 1 |-> <<>>]
    /\ potential = <<Leftover>> /\ sols = [nr |-> 1, values |-> <<Leftover>>]
    /\ proofs = <<>>
    /\ missed = FALSE

Blake ==
    /\ eqRound = 0
    /\ blake' \in BlakeTables
    /\ LET slots == {[xi |-> SlotOrder(blake'[i]), ref |-> i] : i \in Indices}
       IN  /\ ht' = [ht EXCEPT ![0] = write_slot_global(slots, 0)]
           /\ missed' = RowOverflows(slots, 0)
    /\ eqRound' = 1
    /\ UNCHANGED <<up, garbage, potential, sols, proofs>>

\* The pairs of slots of a table that a round combines, as encode_ref keeps them.
PairsOf(row, round) ==
    LET slots == ht[round][row]
    IN  UNION {{<<row, i, j>> : j \in {c \in Collisions(slots, i, round) : c > i}}
                 : i \in DOMAIN slots}
PairsOfTable(round) == UNION {PairsOf(row, round) : row \in Rows(round)}

Combined(pair, round) ==
    LET row == ht[round - 1][pair[1]]
        xi == XorOf(row[pair[2]].xi, row[pair[3]].xi)
    IN  IF round % 2 = 0 THEN slot_shr(xi, 6) ELSE xi

\* A pair whose first two words are zero is left out.  In the last round only a
\* part of the second word was ever written.
Zero(xi, round) ==
    /\ xi \intersect (0 .. 15) = {}
    /\ round = PARAM_K - 1 => ~garbage

equihash_round ==
    /\ eqRound \in 1 .. PARAM_K - 1
    /\ LET all == {[xi |-> Combined(pair, eqRound), ref |-> pair] :
                      pair \in PairsOfTable(eqRound - 1)}
           slots == {s \in all : ~Zero(s.xi, eqRound)}
       IN  /\ ht' = [ht EXCEPT ![eqRound] = write_slot_global(slots, eqRound)]
           /\ missed' = \/ missed
                        \/ BufferOverflows(eqRound - 1)
                        \/ RowOverflows(slots, eqRound)
                        \/ slots # all
    /\ eqRound' = eqRound + 1
    /\ IF eqRound = PARAM_K - 1
       THEN potential' = <<>> /\ sols' = [nr |-> 0, values |-> <<>>]
       ELSE UNCHANGED <<potential, sols>>
    /\ UNCHANGED <<blake, up, garbage, proofs>>

\* The slots that slot i of the last table is equal to; only the first is taken.
Equal(slots, i) ==
    {j \in Collisions(slots, i, PARAM_K - 1) : j > i /\ slots[j].xi = slots[i].xi}

Partners(slots, i) ==
    IF Equal(slots, i) = {} THEN {}
    ELSE {IF up THEN Min(Equal(slots, i)) ELSE Max(Equal(slots, i))}

kernel_potential_sols ==
    /\ eqRound = AfterRounds
    /\ LET last == ht[PARAM_K - 1]
           found == UNION {UNION {{<<last[row][i].ref, last[row][j].ref>>
                                     : j \in Partners(last[row], i)}
                                  : i \in DOMAIN last[row]} : row \in Rows(PARAM_K - 1)}
           pairs == potential \o InOrder(found)
       IN  /\ potential' = SubSeq(pairs, 1, Min({Len(pairs), MAX_POTENTIAL_SOLS}))
           /\ missed' = \/ missed
                        \/ BufferOverflows(PARAM_K - 1)
                        \/ Len(pairs) > MAX_POTENTIAL_SOLS
                        \/ \E row \in Rows(PARAM_K - 1) : \E i \in DOMAIN last[row] :
                             Equal(last[row], i) # Partners(last[row], i)
    /\ eqRound' = AfterPotential
    /\ UNCHANGED <<blake, up, garbage, ht, sols, proofs>>

\* decode_ref and expand_ref: the two slots of a reference, in one more table.
Expanded(refs, round) ==
    [n \in 1 .. 2 * Len(refs) |->
        LET ref == refs[(n + 1) \div 2]
        IN  ht[round][ref[1]][ref[IF n % 2 = 1 THEN 2 ELSE 3]].ref]

Inputs(pair) ==
    FoldLeft(LAMBDA refs, k : Expanded(refs, PARAM_K - 1 - k), pair,
             [k \in 1 .. PARAM_K - 1 |-> k])

\* Only the last input is compared with the others, and not with all.
dup_counter(inputs) ==
    LET half == 2 ^ (PARAM_K - 1)
        At(j) == inputs[j + 1]
    IN  Cardinality({j \in 3 .. half + 2 : At(j) = At(2 * half - 1)} \union
                    {j \in half + 3 .. 2 * half - 3 : At(j) = At(2 * half - 1)})

kernel_sols ==
    /\ eqRound = AfterPotential
    /\ LET expanded == [n \in DOMAIN potential |-> Inputs(potential[n])]
           apparent == sols.values \o
                       SelectSeq(expanded, LAMBDA inputs : dup_counter(inputs) = 0)
       IN  /\ sols' = [nr |-> Len(apparent),
                       values |-> SubSeq(apparent, 1, Min({Len(apparent), MAX_SOLS}))]
           /\ missed' = (missed \/ Len(apparent) > MAX_SOLS)
    /\ eqRound' = AfterSols
    /\ UNCHANGED <<blake, up, garbage, ht, potential, proofs>>

-----------------------------------------------------------------------------
(* The host. *)

\* sort_pair: the halves change places if the first difference says so.
sort_pair(a, b) ==
    IF \E i \in DOMAIN a : a[i] > b[i] /\ \A j \in 1 .. i - 1 : a[j] = b[j]
    THEN b \o a ELSE a \o b

SortedPairs(inputs) ==
    LET level[l \in 0 .. PARAM_K] ==
          IF l = 0 THEN [i \in DOMAIN inputs |-> <<inputs[i]>>]
          ELSE LET halves == level[l - 1]
               IN  [i \in 1 .. Len(halves) \div 2 |->
                       sort_pair(halves[2 * i - 1], halves[2 * i])]
    IN  level[PARAM_K][1]

\* verify_sol: no input twice.
verify_sol(inputs) == Cardinality(ToSet(inputs)) = Len(inputs)

\* One turn of the loop of compress: the next bits of an input that fit into the
\* byte x, or the next input.
CompressStep(c, inputs) ==
    LET free == ByteBits - c.used
        At == inputs[c.pos]
        filled == IF c.left >= free
                  THEN [c EXCEPT !.x = (@ | (At \div 2 ^ (c.left - free))) % 2 ^ ByteBits,
                                 !.left = @ - free, !.used = ByteBits]
                  ELSE IF c.left > 0
                  THEN [c EXCEPT !.x = @ | ((At % 2 ^ c.left) * 2 ^ (free - c.left)),
                                 !.left = 0, !.used = @ + c.left]
                  ELSE [c EXCEPT !.pos = @ + 1, !.left = PREFIX + 1]
    IN  IF filled.used = ByteBits
        THEN [filled EXCEPT !.out = Append(@, filled.x), !.x = 0, !.used = 0]
        ELSE filled

compress(inputs) ==
    LET loop[c \in [pos : Nat, left : Nat, x : Nat, used : Nat, out : Seq(Nat)]] ==
          IF c.pos > Len(inputs) THEN c.out ELSE loop[CompressStep(c, inputs)]
    IN  loop[[pos |-> 1, left |-> PREFIX + 1, x |-> 0, used |-> 0, out |-> <<>>]]

\* Solutions that pass are compressed; the share takes them from there.
Host ==
    /\ eqRound = AfterSols
    /\ LET valid == SelectSeq(sols.values, verify_sol)
       IN  proofs' = [n \in DOMAIN valid |-> compress(SortedPairs(valid[n]))]
    /\ eqRound' = Done
    /\ UNCHANGED <<blake, up, garbage, ht, potential, sols, missed>>

EquihashNext ==
    \/ Blake \/ equihash_round \/ kernel_potential_sols \/ kernel_sols \/ Host

EquihashSpec == EquihashInit /\ [][EquihashNext]_equihashVars

-----------------------------------------------------------------------------
(* The test of a solution. *)

\* ExpandArray: bits are collected until there is a whole index.
GetIndicesFromMinimal(proof) ==
    FoldLeft(LAMBDA a, byte :
                LET value == (a.value * 2 ^ ByteBits + byte) % 2 ^ (ByteBits + PREFIX + 1)
                    bits == a.bits + ByteBits - (PREFIX + 1)
                IN  IF bits < 0 THEN [a EXCEPT !.value = value, !.bits = @ + ByteBits]
                    ELSE [value |-> value, bits |-> bits,
                          out |-> Append(a.out, (value \div 2 ^ bits) % 2 ^ (PREFIX + 1))],
             [value |-> 0, bits |-> 0, out |-> <<>>], proof).out

Group(l) == GroupDigits * l .. GroupDigits * (l + 1) - 1
HashOf(indices) == FoldLeft(LAMBDA h, i : XorOf(h, blake[i]), {}, indices)

\* HasCollision, IndicesBefore and DistinctIndices of two rows of a level.
Joins(a, b, l) ==
    /\ XorOf(HashOf(a), HashOf(b)) \intersect Group(l) = {}
    /\ a[1] <= b[1]
    /\ ToSet(a) \intersect ToSet(b) = {}

IsValidSolution(proof) ==
    LET indices == GetIndicesFromMinimal(proof)
        Half(l, m) == SubSeq(indices, 2 ^ l * m + 1, 2 ^ l * (m + 1))
    IN  /\ Len(indices) = 2 ^ PARAM_K
        /\ \A l \in 0 .. PARAM_K - 1 : \A m \in 0 .. 2 ^ (PARAM_K - l - 1) - 1 :
               Joins(Half(l, 2 * m), Half(l, 2 * m + 1), l)
        /\ HashOf(indices) \intersect Group(PARAM_K) = {}

-----------------------------------------------------------------------------
(* The solutions there are, joined level by level. *)

Solutions ==
    LET level[l \in 0 .. PARAM_K] ==
          IF l = 0 THEN {<<i>> : i \in Indices}
          ELSE LET halves == level[l - 1]
                   hashes == [a \in halves |-> HashOf(a)]
               IN  UNION {{a \o b : b \in {c \in halves :
                             /\ a[1] < c[1]
                             /\ XorOf(hashes[a], hashes[c]) \intersect Group(l - 1) = {}
                             /\ ToSet(a) \intersect ToSet(c) = {}}} : a \in halves}
    IN  {s \in level[PARAM_K] : HashOf(s) \intersect Group(PARAM_K) = {}}

\* The tables, references and buffers of the device and the sorting and packing
\* of the host lead to nothing but solutions: whatever overflows and in whatever
\* order the threads run, the test accepts every proof, and none comes twice.
\* Unless something found no room or was left out, no solution is lost.
SolutionsExact ==
    eqRound = Done =>
        /\ \A n \in DOMAIN proofs : IsValidSolution(proofs[n])
        /\ \A m, n \in DOMAIN proofs : m # n => proofs[m] # proofs[n]
        /\ ~missed => ToSet(proofs) = {compress(s) : s \in Solutions}

=============================================================================
