----------------------------- MODULE NonceSpace -----------------------------
(***************************************************************************)
(* Which headers the devices hash: the "hashmod fetch & dispatch" of       *)
(* PrimeMiner::Mining and SoloMining.                                      *)
(*                                                                         *)
(* All devices of a client mine the same work.  What keeps them apart is   *)
(* the time in the header: it starts at the time of the work plus the      *)
(* number of the device (mID), and when a device has used up its nonces it *)
(* adds the number of devices (mThreads).  A launch of hashmod takes the   *)
(* next numhash nonces; what it found is fetched in the next iteration and *)
(* gets the time then in the header.                                       *)
(***************************************************************************)
EXTENDS Integers

CONSTANTS
    mThreads,    \* devices
    HalfNonces,  \* half of the nonces (2^31)
    mLSize,      \* threads of a block: launches are rounded up to it
    CoeffStep,   \* 32768: the first numHashCoeff, and what is added to it
    MaxWanted,   \* 16 * SW: most hashes wanted
    MaxSpare,    \* most hashes in the ring beyond those wanted
    MaxCoeff,    \* bound on numHashCoeff
    MaxRolls,    \* bound: changes of the time, for one work
    MaxWork      \* bound: works

Miners == 0 .. mThreads - 1
Nonces == 2 * HalfNonces

\* The products stay below 2^31 in the real widths while the coefficient has
\* been raised fewer than 250 times; the model keeps below the half too.
ASSUME NonceAssumption ==
    /\ {mThreads, HalfNonces, mLSize, CoeffStep} \subseteq Nat \ {0}
    /\ {MaxWanted, MaxSpare, MaxCoeff, MaxRolls, MaxWork} \subseteq Nat
    /\ CoeffStep <= MaxCoeff
    /\ MaxWanted * MaxCoeff + mLSize < HalfNonces
    /\ MaxSpare * MaxCoeff < HalfNonces

VARIABLES
    step,       \* where each miner is in its iteration
    blockheader,   \* the header of each miner: work, time (after that of the
                   \* work), and the first nonce not yet hashed
    reset,      \* the work is new in this iteration
    numHashCoeff,
    scan,       \* work and time of the last launch; work 0: nothing to fetch
    \* history:
    scanned,    \* <<work, time, nonce>> hashed so far
    rescanned,  \* one of them was hashed twice
    mistimed    \* a hash was given another work or time than it was found with

nonceHistory == <<scanned, rescanned, mistimed>>
nonceVars == <<step, blockheader, reset, numHashCoeff, scan, nonceHistory>>

NothingFound == [work |-> 0, time |-> 0]

NonceInit ==
    /\ step = [t \in Miners |-> "work"]
    /\ blockheader = [t \in Miners |-> [work |-> 0, time |-> 0, nonce |-> 0]]
    /\ reset = [t \in Miners |-> FALSE]
    /\ numHashCoeff = [t \in Miners |-> CoeffStep]
    /\ scan = [t \in Miners |-> NothingFound]
    /\ scanned = {} /\ rescanned = FALSE /\ mistimed = FALSE

At(t, here, next) == step[t] = here /\ step' = [step EXCEPT ![t] = next]

\* "reset if new work": the header starts over, the count of hashmod is zeroed.
NewHeader(t) ==
    /\ At(t, "work", "hashes")
    /\ blockheader[t].work < MaxWork
    /\ blockheader' = [blockheader EXCEPT
         ![t] = [work |-> @.work + 1, time |-> t, nonce |-> 1]]
    /\ reset' = [reset EXCEPT ![t] = TRUE]
    /\ scan' = [scan EXCEPT ![t] = NothingFound]
    /\ UNCHANGED <<numHashCoeff, nonceHistory>>

SameHeader(t) ==
    /\ At(t, "work", "hashes")
    /\ blockheader[t].work > 0
    /\ reset' = [reset EXCEPT ![t] = FALSE]
    /\ UNCHANGED <<blockheader, numHashCoeff, scan, nonceHistory>>

\* "hashmod fetch": hashes that the last launch found get the time now in the
\* header.  They may come back in later iterations too (the CUDA build fetches
\* the count again).
FetchFound(t) ==
    mistimed' = (mistimed \/ /\ scan[t] # NothingFound
                             /\ \/ scan[t].work # blockheader[t].work
                                \/ scan[t].time # blockheader[t].time)

\* The conversion of an unsigned product to int.
ToInt(x) == LET u == x % Nonces IN IF u < HalfNonces THEN u ELSE u - Nonces

\* "numhash" before it is rounded up, with that many hashes missing.
Numhash(t, wanted) == ToInt(wanted * numHashCoeff[t])
RoundedUp(numhash) == numhash + mLSize - (numhash % mLSize)

\* The time moves on by one, to the time of the next device.
RolledByOne(h) ==
    IF h.nonce > HalfNonces
    THEN [h EXCEPT !.time = @ + 1, !.nonce = 1] ELSE h

\* A new time once half of the nonces are used up.
Rolled(h) ==
    IF h.nonce > HalfNonces
    THEN [h EXCEPT !.time = @ + mThreads, !.nonce = 1] ELSE h

\* The time moves on right behind the launch that uses up the nonces.
AdvancedAndRolled(h, numhash) ==
    Rolled([h EXCEPT !.nonce = (@ + numhash) % Nonces])

Advanced(h, numhash) == [h EXCEPT !.nonce = (@ + numhash) % Nonces]

\* "hashmod fetch & dispatch", with a launch over numhash nonces.
LaunchHashmod(t, wanted) ==
    LET numhash == RoundedUp(Numhash(t, wanted))
        h == Rolled(blockheader[t])
        ids == {<<h.work, h.time, (h.nonce + i) % Nonces>> : i \in 0 .. numhash - 1}
    IN  /\ At(t, "hashes", "sieves")
        /\ FetchFound(t)
        /\ Numhash(t, wanted) > 0
        /\ h.time <= MaxRolls * mThreads
        /\ scanned' = scanned \union ids
        /\ rescanned' = (rescanned \/ ids \intersect scanned # {})
        /\ scan' = [scan EXCEPT ![t] = [work |-> h.work, time |-> h.time]]
        /\ blockheader' = [blockheader EXCEPT ![t] = Advanced(h, numhash)]
        /\ UNCHANGED <<reset, numHashCoeff>>

NoLaunch(t, wanted) ==
    /\ At(t, "hashes", "sieves")
    /\ FetchFound(t)
    /\ Numhash(t, wanted) <= 0
    /\ UNCHANGED <<blockheader, reset, numHashCoeff, scan, scanned, rescanned>>

\* The sieves ran out of hashes; numHashCoeff grows unless the work is new.
RanOut(t) ==
    /\ At(t, "sieves", "work")
    /\ ~reset[t]
    /\ numHashCoeff[t] + CoeffStep <= MaxCoeff
    /\ numHashCoeff' = [numHashCoeff EXCEPT ![t] = @ + CoeffStep]
    /\ UNCHANGED <<blockheader, reset, scan, nonceHistory>>

EnoughHashes(t) ==
    /\ At(t, "sieves", "work")
    /\ UNCHANGED <<blockheader, reset, numHashCoeff, scan, nonceHistory>>

NonceNext == \E t \in Miners :
    \/ NewHeader(t) \/ SameHeader(t)
    \/ \E wanted \in (- MaxSpare) .. MaxWanted :
          LaunchHashmod(t, wanted) \/ NoLaunch(t, wanted)
    \/ RanOut(t) \/ EnoughHashes(t)

NonceSpec == NonceInit /\ [][NonceNext]_nonceVars

-----------------------------------------------------------------------------
\* No header is hashed twice, by one device or by two: launches that end
\* beyond the half, the roll of the time and the strides of the devices never
\* bring back a nonce of the same work and time.
ScannedOnce == ~rescanned

\* A hash gets the work and the time that the device hashed: the roll never
\* falls between a launch and the fetch of what it found.  The share would
\* otherwise carry a header with another hash.
FoundTimeIsHashed == ~mistimed

=============================================================================
