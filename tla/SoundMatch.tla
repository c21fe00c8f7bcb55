----------------------------- MODULE SoundMatch -----------------------------
(***************************************************************************)
(* match() of sound-match: the haystack is read in pieces of Pieces parts, *)
(* a part as long as the needle.  Two correlations of each part with the   *)
(* needle are recorded: of the needle beginning in the part, and of the    *)
(* needle ending in it.  The records of neighbouring parts are then put    *)
(* together.                                                               *)
(*                                                                         *)
(* Samples are only counted.  A correlation is taken to peak at the        *)
(* needle where it overlaps the part, and anywhere where it does not; the  *)
(* value that is compared with 0.3 is high for a pair of records made by   *)
(* the same occurrence, low when a record is missing, and left open        *)
(* otherwise.                                                              *)
(***************************************************************************)
EXTENDS Integers, Sequences

CONSTANTS
    N,         \* small.size(): samples of the needle
    Pieces,    \* 13: parts of a piece
    MinMatch,  \* THRESHHOLD * small.size(), rounded up
    MaxLen,    \* bound: samples of the haystack
    MaxExtra   \* bound: samples the stream delivers beyond those announced

ASSUME NeedleAssumption == N \in Nat \ {0} /\ MinMatch \in 1..N
ASSUME PiecesAssumption == Pieces \in Nat \ {0}
ASSUME BoundAssumption  == MaxLen \in Nat /\ MaxExtra \in Nat

VARIABLES
    hayLen,       \* largeTotalSize, from the header of the haystack
    streamLen,    \* samples its stream delivers
    place,        \* where the needle is in the haystack
    pc,           \* "read", "parts", "match", "done", "overrun"
    readPos,      \* samples of the haystack read
    large,        \* large.size()
    j, ii, i,     \* the loops' counters; ii in parts
    begins, ends, \* maxSamplesBegin, maxSamplesEnd
    results

vars == <<hayLen, streamLen, place, pc, readPos, large, j, ii, i, begins, ends, results>>

Nowhere == -1
Blank   == [s |-> 0, hit |-> FALSE]

\* Number of records
Records == hayLen \div N

\* The header announces no more than there is; some formats have more data
\* behind it, and AudioStream may deliver a sample too many.
Init ==
    /\ hayLen \in 0..MaxLen
    /\ streamLen \in hayLen .. hayLen + MaxExtra
    /\ place \in {Nowhere} \union 0 .. hayLen - N
    /\ pc = "read"
    /\ readPos = 0 /\ large = 0
    /\ j = 0 /\ ii = 0 /\ i = 0
    /\ begins = [k \in 0 .. Records - 1 |-> Blank]
    /\ ends = [k \in 0 .. Records - 1 |-> Blank]
    /\ results = << >>

ReadPiece ==
    /\ pc = "read"
    /\ large' = IF streamLen - readPos < Pieces * N THEN streamLen - readPos ELSE Pieces * N
    /\ readPos' = readPos + large'
    /\ ii' = 0
    /\ pc' = "parts"
    /\ UNCHANGED <<hayLen, streamLen, place, j, i, begins, ends, results>>

NumberOfParts == large \div N

\* Mutant: the pieces before this one are not counted.
IndexInPiece == ii

\* Mutant: the pieces are counted from 1.
IndexFromOne == ii + (j + 1) * Pieces

\* ii/small.size()+idxAdd
Index == ii + j * Pieces

\* First sample of the part in the haystack
PartStart == readPos - large + ii * N

BeginsHere == place # Nowhere /\ PartStart <= place /\ place < PartStart + N
EndsHere   == place # Nowhere /\ place <= PartStart /\ PartStart < place + N

\* The needle begins at sample m of the part: the overlap is N - m samples.
BeginPeaks == {[s |-> N - m, hit |-> BeginsHere] :
                  m \in IF BeginsHere THEN {place - PartStart} ELSE 0 .. N - 1}

\* The part begins at sample m of the needle: the overlap is N - m samples.
EndPeaks == {[s |-> N - m, hit |-> EndsHere] :
                  m \in IF EndsHere THEN {PartStart - place} ELSE 0 .. N - 1}

\* Both records of a part are stored; without a record for it that is a write
\* beyond the vector.
CorrelatePart ==
    /\ pc = "parts"
    /\ ii < NumberOfParts
    /\ IF Index < Records
       THEN /\ \E r \in BeginPeaks : begins' = [begins EXCEPT ![Index] = r]
            /\ \E r \in EndPeaks   : ends' = [ends EXCEPT ![Index] = r]
            /\ ii' = ii + 1
            /\ pc' = pc
       ELSE pc' = "overrun" /\ UNCHANGED <<begins, ends, ii>>
    /\ UNCHANGED <<hayLen, streamLen, place, readPos, large, j, i, results>>

\* Mutant: the loop never ends.
EndPieceNever ==
    /\ pc = "parts"
    /\ ii >= NumberOfParts
    /\ pc' = "read"
    /\ UNCHANGED <<hayLen, streamLen, place, readPos, large, ii, i, j, begins, ends, results>>

\* A piece of fewer parts is the last one.
EndPiece ==
    /\ pc = "parts"
    /\ ii >= NumberOfParts
    /\ IF NumberOfParts # Pieces
       THEN pc' = "match" /\ j' = j
       ELSE pc' = "read" /\ j' = j + 1
    /\ UNCHANGED <<hayLen, streamLen, place, readPos, large, ii, i, begins, ends, results>>

\* The values that (cv + cv) / (nf + nf) > 0.3 may have for the pair i, i+1
High ==
    IF begins[i] = Blank \/ ends[i + 1] = Blank THEN {FALSE}
    ELSE IF begins[i].hit /\ ends[i + 1].hit THEN {TRUE}
    ELSE BOOLEAN

Overlap == begins[i].s + ends[i + 1].s

\* "length must be appropriate"
LengthFits == Overlap <= N /\ Overlap >= MinMatch

\* Mutant: the overlap is added.
PositionAdded == (i + 1) * N + begins[i].s

Position == (i + 1) * N - begins[i].s

\* size()-1 is unsigned: without a record the loop does not end where it should.
MatchPair ==
    /\ pc = "match"
    /\ Records = 0 \/ i < Records - 1
    /\ IF Records = 0
       THEN pc' = "overrun" /\ UNCHANGED <<results, i>>
       ELSE /\ \E high \in High :
                  results' = IF high /\ LengthFits THEN Append(results, Position) ELSE results
            /\ i' = i + 1
            /\ pc' = pc
    /\ UNCHANGED <<hayLen, streamLen, place, readPos, large, j, ii, begins, ends>>

Finish ==
    /\ pc = "match"
    /\ Records > 0 /\ i >= Records - 1
    /\ pc' = "done"
    /\ UNCHANGED <<hayLen, streamLen, place, readPos, large, j, ii, i, begins, ends, results>>

Next == ReadPiece \/ CorrelatePart \/ EndPiece \/ MatchPair \/ Finish

Spec == Init /\ [][Next]_vars

-----------------------------------------------------------------------------
(* Properties.                                                             *)

Peak == [s : 0..N, hit : BOOLEAN]

TypeOK ==
    /\ hayLen \in Nat /\ streamLen \in Nat /\ hayLen <= streamLen
    /\ place \in {Nowhere} \union Nat
    /\ pc \in {"read", "parts", "match", "done", "overrun"}
    /\ large \in 0 .. Pieces * N
    /\ readPos \in large..streamLen
    /\ j \in Nat /\ ii \in 0..Pieces /\ i \in Nat
    /\ begins \in [0 .. Records - 1 -> Peak]
    /\ ends \in [0 .. Records - 1 -> Peak]
    /\ results \in Seq(Nat)

\* What is reported lies wholly within the haystack.
ResultsInside == \A k \in DOMAIN results : results[k] + N <= hayLen

\* The vectors are left only when the header announced less than one part, or
\* fewer parts than the stream delivers.
OverrunCause == pc = "overrun" => Records = 0 \/ Records < streamLen \div N

-----------------------------------------------------------------------------
\* "sound-match finds occurences of an audio clip in an audio file"
FindsNeedle ==
    pc = "done" /\ place # Nowhere => \E k \in DOMAIN results : results[k] = place
=============================================================================
