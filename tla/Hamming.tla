------------------------------ MODULE Hamming ------------------------------
(***************************************************************************)
(* How a query is compared with a place in the index: the bits in which    *)
(* Macro fingerprints differ.  A fingerprint is the set of its bits that   *)
(* are 1; the arrays are sequences, the positions in them count from 0.    *)
(***************************************************************************)
EXTENDS Fingerprints, FiniteSetsExt

CONSTANTS
    Macro,     \* macro_sz = 256: fingerprints of a comparison
    FpSkip,    \* fpSkip = 50: fingerprints of the query that are passed over
    Often      \* 5: turns from one test for an early end to the next

ASSUME ComparisonAssumption == Macro \in Nat \ {0} /\ FpSkip \in Nat /\ Often \in Nat \ {0}

\* The table hamming16: n has the bits of n \div 2 and its last one.
hamming16[n \in 0 .. 2^16 - 1] == IF n = 0 THEN 0 ELSE hamming16[n \div 2] + (n % 2)

hammingLookup16(n) == hamming16[n % 2^16] + hamming16[n \div 2^16]

\* __builtin_popcountll of the two by "exclusive or"
Difference(f, g) == Cardinality((f \ g) \union (g \ f))

\* dist after n turns of the loop
Dist(fp, db, start, n) ==
    MapThenSumSet(LAMBDA i : Difference(fp[i + FpSkip + 1], db[i + start + 1]), 0 .. n - 1)

\* hammingEarlyTerminate: after some of the turns, nearly half of the bits
\* differ.  The bits seen are those of the turns before the current one.
EarlyTerminate(fp, db, start) ==
    \E i \in 0 .. Macro - 1 :
        /\ i % Often = 0 /\ i > Macro \div 10
        /\ LET dist == Dist(fp, db, start, i + 1)
           IN  43 * i * Bands < 100 * dist /\ 1000 * dist < 537 * i * Bands

FullHamming(fp, db, start) == Dist(fp, db, start, Macro)

\* The loop's condition is i < window.size() - macro_sz: the last position at
\* which the window has Macro fingerprints is not tried.
Tried(window) == 0 .. Len(window) - Macro - 1

\* fullCheck: the distance; numeric_limits::max() without a position to try
FullCheck(fp, window) ==
    IF Tried(window) = {} THEN 2147483647
    ELSE Min({FullHamming(fp, window, i) : i \in Tried(window)})
=============================================================================
