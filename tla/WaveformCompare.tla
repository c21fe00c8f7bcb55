--------------------------- MODULE WaveformCompare ---------------------------
(***************************************************************************)
(* The main loop of waveform-compare: two streams of samples are read      *)
(* block by block, corresponding blocks are cross-correlated, and the run  *)
(* ends with Success and a similarity or with Failure and a block.         *)
(*                                                                         *)
(* Samples are only counted.  Whether a block is silent and which value    *)
(* and offset a correlation peaks at are left open; a match value is a     *)
(* number of 0..One that stands for the reals from 0 to 1.                 *)
(***************************************************************************)
EXTENDS Integers, Sequences, FiniteSetsExt

CONSTANTS
    Spb,         \* samplesPrBlock = sample rate * block size
    MinOverlap,  \* 1000: shifts that leave less overlap are not considered
    MaxShift,    \* 500: largest accepted distance from the first offset
    One,         \* the match value 1.0
    Threshold,   \* threshold
    MaxSamples   \* bound: samples of one file

ASSUME SpbAssumption   == Spb \in Nat \ {0}
ASSUME ValueAssumption == One \in Nat \ {0} /\ Threshold \in 0..One
ASSUME ShiftAssumption == MinOverlap \in Nat /\ MaxShift \in Nat /\ MaxSamples \in Nat

VARIABLES
    padShortBlock,   \* --pad-short-block
    lenA, lenB,      \* samples of the two files
    readA, readB,    \* samples read of each
    block,           \* the loop's counter
    pc,              \* "loop", "report" after the loop, then the exit code
    first, success, firstOffset, minimumVal,
    failure,         \* blockFailure, blockFailureVal, blockFailureOffset
    compared,        \* history: the blocks compared
    looked           \* history: samples of each file in blocks not passed over

vars == <<padShortBlock, lenA, lenB, readA, readB, block, pc, first, success,
          firstOffset, minimumVal, failure, compared, looked>>

Two == 2 * One
NoFailure == [block |-> 0, val |-> 0, off |-> 0]

Init ==
    /\ padShortBlock \in BOOLEAN
    /\ lenA \in 0..MaxSamples /\ lenB \in 0..MaxSamples
    /\ readA = 0 /\ readB = 0
    /\ block = 1
    /\ pc = "loop"
    /\ first = TRUE /\ success = TRUE
    /\ firstOffset = 0
    /\ minimumVal = Two
    /\ failure = NoFailure
    /\ compared = << >>
    /\ looked = <<0, 0>>

AtMost(n, m) == IF n < m THEN n ELSE m

\* Samples that the two calls of AudioStream::read deliver for this block
GotA == AtMost(Spb, lenA - readA)
GotB == AtMost(Spb, lenB - readB)

\* Sizes of the blocks once they are padded
SizeA == IF padShortBlock THEN Spb ELSE GotA
SizeBUnpadded == GotB  \* Mutant: only one of the blocks is padded.
SizeB == IF padShortBlock THEN Spb ELSE GotB

AtEnd == GotA = 0 /\ GotB = 0

\* Mutant: a block that is not whole is not compared.
TooShortPart == SizeA < Spb \/ SizeB < Spb

TooShort == SizeA < Spb \div 2 \/ SizeB < Spb \div 2

\* What compareBlock(x, y) may return for a y of n samples: no peak, or the
\* best of the first n - MinOverlap shifts.
Peaks(n) == {[idx |-> -1, val |-> 0]} \union
            [idx : 0 .. n - MinOverlap - 1, val : 1..One]

\* The second direction counts only when it is better; its shift is negative.
Best(fwd, bwd) == IF bwd.val > fwd.val THEN [val |-> bwd.val, off |-> -bwd.idx]
                                       ELSE [val |-> fwd.val, off |-> fwd.idx]

Distance(m, n) == IF m < n THEN n - m ELSE m - n

\* Mutant: the distance is taken from 0 when the first offset is negative.
FailsOneSided(r) == \/ r.val < Threshold
                    \/ ~first /\ r.off - firstOffset > MaxShift

\* The first block is judged by its value alone, a later one also by how far
\* its offset is from that of the first.
Fails(r) == \/ r.val < Threshold
            \/ ~first /\ Distance(r.off, firstOffset) > MaxShift

\* Each block that fails overwrites what is recorded of an earlier one.
Record(r) == IF Fails(r) THEN [block |-> block, val |-> r.val, off |-> r.off] ELSE failure

Lowest(r) == IF first \/ r.val < minimumVal THEN r.val ELSE minimumVal

Consume ==
    /\ readA' = readA + GotA
    /\ readB' = readB + GotB
    /\ block' = block + 1
    /\ UNCHANGED <<padShortBlock, lenA, lenB>>

\* After a short block the loop ends.
Proceed ==
    /\ pc' = IF SizeA < Spb \/ SizeB < Spb THEN "report" ELSE "loop"
    /\ looked' = <<looked[1] + GotA, looked[2] + GotB>>

\* Mutant: `continue' in the place of `break', before anything has changed.
StopContinue ==
    /\ pc = "loop"
    /\ AtEnd \/ TooShort
    /\ UNCHANGED vars

\* Nothing is left of either file, or not enough for another check.
Stop ==
    /\ pc = "loop"
    /\ AtEnd \/ TooShort
    /\ pc' = "report"
    /\ Consume
    /\ UNCHANGED <<first, success, firstOffset, minimumVal, failure, compared, looked>>

\* Both blocks are silent: no comparison.
Silence ==
    /\ pc = "loop" /\ ~AtEnd /\ ~TooShort
    /\ Consume
    /\ Proceed
    /\ UNCHANGED <<first, success, firstOffset, minimumVal, failure, compared>>

CompareBlocks(r) ==
    /\ pc = "loop" /\ ~AtEnd /\ ~TooShort
    /\ Consume
    /\ Proceed
    /\ first' = FALSE
    /\ firstOffset' = IF first THEN r.off ELSE firstOffset
    /\ minimumVal' = Lowest(r)
    /\ success' = (success /\ ~Fails(r))
    /\ failure' = Record(r)
    /\ compared' = Append(compared, [block |-> block, val |-> r.val, off |-> r.off,
                                     sizes |-> <<SizeA, SizeB>>])

\* compareBlock(a, b) and compareBlock(b, a)
Correlate ==
    \E fwd \in Peaks(SizeB), bwd \in Peaks(SizeA) : CompareBlocks(Best(fwd, bwd))

Report ==
    /\ pc = "report"
    /\ pc' = IF success THEN "return 0" ELSE "return 1"
    /\ UNCHANGED <<padShortBlock, lenA, lenB, readA, readB, block, first, success,
                   firstOffset, minimumVal, failure, compared, looked>>

Next == Stop \/ Silence \/ Correlate \/ Report

Spec == Init /\ [][Next]_vars

-----------------------------------------------------------------------------
(* Properties.                                                             *)

Results == [block : Nat, val : 0..One, off : Int]

TypeOK ==
    /\ padShortBlock \in BOOLEAN
    /\ lenA \in Nat /\ lenB \in Nat
    /\ readA \in 0..lenA /\ readB \in 0..lenB
    /\ block \in Nat
    /\ pc \in {"loop", "report", "return 0", "return 1"}
    /\ first \in BOOLEAN /\ success \in BOOLEAN
    /\ firstOffset \in Int
    /\ minimumVal \in 0..One \union {Two}
    /\ failure \in Results

Finished == pc \in {"return 0", "return 1"}

\* The k-th compared block is within the accepted distance of the first.
Accepted(k) == /\ compared[k].val >= Threshold
               /\ Distance(compared[k].off, compared[1].off) <= MaxShift

\* The exit code is 0 exactly when every block that was compared reached the
\* threshold at an offset near that of the first compared block, whichever
\* blocks before, between and after were silent.
VerdictExact ==
    Finished => (pc = "return 0" <=> \A k \in DOMAIN compared : Accepted(k))

\* The block reported with a Failure is the last one that was not accepted,
\* with its own number, value and offset.
FailureIsLast ==
    pc = "return 1" =>
        \E k \in DOMAIN compared :
            /\ ~Accepted(k)
            /\ \A n \in k + 1 .. Len(compared) : Accepted(n)
            /\ failure = [block |-> compared[k].block, val |-> compared[k].val,
                          off |-> compared[k].off]

\* For files of the same length, and for any two when short blocks are padded,
\* a verdict is reached only after all but a last piece of less than half a
\* block has been looked at: all of it when padded.
AllLookedAt ==
    Finished =>
        /\ padShortBlock => looked = <<lenA, lenB>>
        /\ lenA = lenB => /\ looked[1] = looked[2]
                          /\ looked[1] = lenA \/ lenA - looked[1] < Spb \div 2

\* cross_correlation and compareBlock index one block by the size of the other
\* and subtract 1000 from a size without a test: for files of the same length,
\* or padded blocks, and a block size of 2000 samples or more both are sound.
BlocksComparable ==
    (padShortBlock \/ lenA = lenB) /\ Spb >= 2 * MinOverlap =>
        \A k \in DOMAIN compared :
            /\ compared[k].sizes[1] = compared[k].sizes[2]
            /\ compared[k].sizes[1] >= MinOverlap
=============================================================================
