-------------------------- MODULE OverlapAnalysis --------------------------
(***************************************************************************)
(* overlap-analysis: where does the beginning of the second file lie at    *)
(* the end of the first one?  The end of file 1 goes into the second half  *)
(* of an array a1, the beginning of file 2 into the first half of an array *)
(* a2; the other halves are not initialised.  The cyclic correlation of    *)
(* the two, divided by energies, has its maximum at the overlap.           *)
(*                                                                         *)
(* A file is the sequence of its shorts behind the 44 bytes of header, the *)
(* two channels in turn.  Fractions are pairs of integers.                 *)
(***************************************************************************)
EXTENDS LogStream, Transform

CONSTANTS
    Inputs,    \* arguments and files to be examined
    Pads       \* values that memory may have that nobody has written

ASSUME InputsAssumption ==
    /\ Pads \subseteq Int
    /\ \A given \in Inputs :
          given.idLength \in Nat /\ {given.file1, given.file2} \subseteq Seq(Int)

VARIABLES
    input, a1, a2, cross,
    phase,
    s,         \* sample_number
    max,       \* fraction
    found,     \* maxSampleNumber
    second     \* maxSec * hz

overlapVars == <<input, a1, a2, cross, phase, s, max, found, second>>

Nothing == [i \in {} |-> 0]

\* Shorts read from each of the files: sz / 2
Shorts == LET l1 == Len(input.file1) l2 == Len(input.file2) IN IF l1 < l2 THEN l1 ELSE l2

PaddingSize == Shorts \div 2                                        \* sz/4
ToAdd == Len(input.file1) \div 2 - Shorts \div 2                    \* a1Size/4-sz/4

OverlapInit ==
    /\ LogInit
    /\ input \in Inputs
    /\ a1 = Nothing /\ a2 = Nothing /\ cross = Nothing
    /\ phase = "arguments"
    /\ s = 0 /\ max = <<0, 1>> /\ found = 0 /\ second = 0

\* A step of the program, between two of the log's
Step(from, to) ==
    /\ todo = << >>
    /\ phase = from
    /\ phase' = to

\* doFromFile; printUsage ends the program.
Arguments ==
    /\ \/ input.version /\ Step("arguments", "exit 0") /\ Say(<< >>)
       \/ ~input.version /\ input.files < 2 /\ Step("arguments", "exit 1") /\ Say(<< >>)
       \/ ~input.version /\ input.files >= 2 /\ Step("arguments", "level")
          /\ Say(Manipulator(Information) \o Line(1))
    /\ UNCHANGED <<input, a1, a2, cross, s, max, found, second>>

LevelOption ==
    /\ Step("level", "headers")
    /\ IF input.level \in 1..5 THEN SetPrintLevel(input.level) ELSE Say(<< >>)
    /\ UNCHANGED <<input, a1, a2, cross, s, max, found, second>>

\* wav_header and wav_subchunk: print is the same for both, with a line standing
\* for all of their lines.  The identifiers have no end of their own and are
\* printed up to the next zero in memory.
PrintPart == Manipulator(Information) \o Line(input.idLength)

Headers ==
    /\ Step("headers", "rates")
    /\ Say(PrintPart \o PrintPart \o PrintPart \o PrintPart)
    /\ UNCHANGED <<input, a1, a2, cross, s, max, found, second>>

\* Of the fields that read_header and read_subchunk take from the two files,
\* only the sample rates decide anything; the others are printed.
SameRate == input.sameRate

Rates ==
    /\ IF SameRate
       THEN Step("rates", "read") /\ Say(Manipulator(Debug) \o Line(1))
       ELSE Step("rates", "exit 1") /\ Say(Manipulator(Fatal) \o Line(1))
    /\ UNCHANGED <<input, a1, a2, cross, s, max, found, second>>

\* The array of file 1: every second short of it is the channel that is used.
SecondHalf(pad) ==
    [i \in 0 .. Shorts - 1 |->
        IF 2 * i < Shorts THEN pad
        ELSE input.file1[Len(input.file1) - Shorts + 2 * i - Shorts + 1]]

FirstHalf(pad) ==
    [i \in 0 .. Shorts - 1 |-> IF 2 * i < Shorts THEN input.file2[2 * i + 1] ELSE pad]

\* For an odd number of shorts, convertCharArrayToShort handles one short more
\* than there is in the buffer; in a2 it is one that is not initialised anyway.
Read ==
    /\ Step("read", "correlate")
    /\ \E pad \in Pads : a1' = SecondHalf(pad)
    /\ \E pad \in Pads : a2' = FirstHalf(pad)
    /\ Say(Manipulator(Debug) \o Line(1))
    /\ UNCHANGED <<input, cross, s, max, found, second>>

\* doWork before its loop, and xcorr_new, with their debug messages
Correlate ==
    /\ Step("correlate", "search")
    /\ cross' = CircularCorrelation(a1, a2)
    /\ s' = PaddingSize
    /\ Say(Manipulator(Debug) \o Line(1) \o Line(1) \o Manipulator(Debug) \o <<Sync>> \o Line(1))
    /\ UNCHANGED <<input, a1, a2, max, found, second>>

\* prefixSum for the channel that is used: the squares of a[0], ..., a[i]
PrefixSum(a, i) == SumTo(i + 1, [k \in 0 .. i |-> a[k] * a[k]])

\* computeNormFactor, doubled
NormFactor ==
    LET n == Shorts
    IN  PrefixSum(a1, n - 1) - (IF n - s - 2 >= 0 THEN PrefixSum(a1, n - s - 2) ELSE 0)
        + PrefixSum(a2, s)

Abs(n) == IF n < 0 THEN -n ELSE n

Better(v, w) == v[1] * w[2] > w[1] * v[2]

\* Mutant: the part of file 1 that was not read is forgotten.
SecondInPart == s - PaddingSize

\* sec * hz
Second == s - PaddingSize + ToAdd

\* Without energy the quotient is not a number.
Search ==
    /\ s < Shorts
    /\ Step("search", "search") /\ Say(<< >>)
    /\ LET ans == <<2 * Abs(cross[s]), NormFactor>>
       IN  IF ans[2] > 0 /\ Better(ans, max) /\ ans[1] <= ans[2]
           THEN max' = ans /\ found' = s - PaddingSize /\ second' = Second
           ELSE UNCHANGED <<max, found, second>>
    /\ s' = s + 1
    /\ UNCHANGED <<input, a1, a2, cross>>

Report ==
    /\ s >= Shorts
    /\ Step("search", "exit 0") /\ Say(Manipulator(Information) \o Line(1))
    /\ UNCHANGED <<input, a1, a2, cross, s, max, found, second>>

Ended == {"ended 0", "ended 1", "killed"}

\* exit and the return from main destroy the log.
Exit ==
    /\ \/ Step("exit 0", "ended 0")
       \/ Step("exit 1", "ended 1")
    /\ CloseLog
    /\ UNCHANGED <<input, a1, a2, cross, s, max, found, second>>

Kill ==
    /\ phase \notin Ended
    /\ phase' = "killed"
    /\ LoseLog
    /\ UNCHANGED <<input, a1, a2, cross, s, max, found, second>>

Log == LogStep /\ UNCHANGED overlapVars

OverlapNext ==
    \/ Arguments \/ LevelOption \/ Headers \/ Rates \/ Read \/ Correlate \/ Search \/ Report \/ Exit
    \/ Log
    \/ Kill

OverlapSpec == OverlapInit /\ [][OverlapNext]_<<logVars, overlapVars>>

-----------------------------------------------------------------------------
(* Properties.                                                             *)

\* The log has all the text of the levels that are printed, each character
\* once and in order: in the file when the program has ended itself, whatever
\* the exit code; up to some point when it was killed.
LogComplete ==
    IF phase = "killed" THEN IsPrefix(disk, due)
    ELSE NothingLostYet /\ (phase \in Ended => disk = due)

Frames(f) == Len(f) \div 2
Left(f, i) == f[2 * i + 1]

\* What the beginning of file 2, as long as the shorter file, has in common
\* with the end of file 1 from its frame p on
Common(p) ==
    LET size == Frames(input.file1) - p
    IN  SumTo(size, [m \in 0 .. size - 1 |-> Left(input.file1, p + m) * Left(input.file2, m)])

Energy ==
    LET half == PaddingSize
    IN  SumTo(half, [m \in 0 .. half - 1 |-> Left(input.file2, m) * Left(input.file2, m)])
        + SumTo(half, [m \in 0 .. half - 1 |->
                          Left(input.file1, ToAdd + m) * Left(input.file1, ToAdd + m)])

\* With whole frames, and memory that happens to be zero: the reported second
\* is a place in file 1 from which on it has most in common with file 2, the
\* sample number is the same place in the part that was read, and the value is
\* the common part by half the energy of all that was read.  A value of 0 means
\* that they have nothing in common anywhere.
BestOverlap ==
    phase = "ended 0" /\ s > 0 /\ Len(input.file1) % 2 = 0 /\ Len(input.file2) % 2 = 0
                   /\ a1[0] = 0 /\ a2[Shorts - 1] = 0 =>
        LET places == ToAdd .. Frames(input.file1) - 1
        IN  IF max[1] = 0 THEN \A p \in places : Common(p) = 0
            ELSE /\ second \in places /\ found = second - ToAdd
                 /\ \A p \in places : Abs(Common(p)) <= Abs(Common(second))
                 /\ max = <<2 * Abs(Common(second)), Energy>>

\* The transforms of the library and of FFT.cpp, applied to what the files
\* have in the channel that is used: the recursive transform is the discrete
\* one, its inverse gives back the input, and the correlation of the padded
\* arrays is the sum of products at each shift, without those that the cyclic
\* correlation adds.
TransformsAgree ==
    phase = "search" /\ s = PaddingSize /\ todo = << >> =>
        /\ CrossCorrelation(a1, a2) = Shifted(a1, a2)
        /\ cross = Rotated(a1, a2)
        /\ FT(a1) = Dft(Extended(a1))
        /\ InverseFT(FT(a2)) = Extended(a2)
=============================================================================
