------------------------------ MODULE QueryScan ------------------------------
(***************************************************************************)
(* The scan of ismir_query: query_scan reads the fingerprint file block by *)
(* block into db, whose first Macro entries are carried over from the      *)
(* block before, and compares the query with the Macro fingerprints that   *)
(* start at db[i], for i in steps of Step and of Near + Step.              *)
(*                                                                         *)
(* A fingerprint is its index in the file; the outcome of a comparison is  *)
(* left open.  The file may grow while it is scanned (ismir_build_index    *)
(* appends to it); it never shrinks.                                       *)
(***************************************************************************)
EXTENDS Integers

CONSTANTS
    BufLen,    \* 1024*1024: fingerprints of a block
    Macro,     \* macro_sz = 256: fingerprints of a comparison
    Near,      \* nearRange = 150
    Step,      \* 8: stride of the scan
    Debounce,  \* getSampleRate()/64 = 86: least distance of two matches
    MaxTotal   \* bound: fingerprints in the file

ASSUME SizesAssumption ==
    /\ BufLen \in Nat /\ Macro \in Nat /\ Near \in Nat
    /\ Step \in Nat /\ Debounce \in Nat /\ MaxTotal \in Nat
    /\ 0 < Step /\ Step < Debounce /\ Debounce <= Near
    /\ Near < Macro /\ Macro <= BufLen /\ Debounce <= BufLen

VARIABLES
    total,   \* fingerprints in the file
    pc,      \* "read" at the head of `while (fin)', "scan" in the for loop
    start,   \* history: index in the file of db[Macro]
    count,   \* fingerprints read into db by the last read
    db,      \* the buffer
    i, pos,  \* the loop's variables
    prev,    \* prevMatchPos
    prevAt,  \* history: index in the file that belongs to prevMatchPos
    last,    \* history: index in the file of the last comparison
    blocks   \* history: blocks read

vars == <<total, pc, start, count, db, i, pos, prev, prevAt, last, blocks>>

None == -1                       \* numeric_limits<size_t>::max()
Zero == -1                       \* the initial contents of db
Slots == 0 .. BufLen + Macro - 1

Init ==
    /\ total \in 0..MaxTotal
    /\ pc = "read"
    /\ start = 0
    /\ count = 0
    /\ db = [j \in Slots |-> Zero]
    /\ i = 0
    /\ pos = 0
    /\ prev = None
    /\ prevAt = None
    /\ last = 0
    /\ blocks = 0

\* Mutant: nothing is carried over.
ReadBlockNoCarry ==
    LET from == start + count
        n    == IF total - from < BufLen THEN total - from ELSE BufLen
    IN  /\ pc = "read"
        /\ start' = from
        /\ count' = n
        /\ db' = [j \in Slots |-> IF Macro <= j /\ j < Macro + n THEN from + j - Macro ELSE db[j]]
        /\ i' = 0
        /\ pc' = "scan"
        /\ blocks' = blocks + 1
        /\ UNCHANGED <<total, pos, prev, prevAt, last>>

\* The last Macro entries of db move to its front, and the block read from the
\* file follows them.  What a short block does not reach keeps its old value.
\* i starts anew, pos does not.
ReadBlock ==
    LET from == start + count
        n    == IF total - from < BufLen THEN total - from ELSE BufLen
    IN  /\ pc = "read"
        /\ start' = from
        /\ count' = n
        /\ db' = [j \in Slots |-> IF j < Macro     THEN db[BufLen + j]
                                  ELSE IF j < Macro + n THEN from + j - Macro
                                  ELSE db[j]]
        /\ i' = 0
        /\ pc' = "scan"
        /\ blocks' = blocks + 1
        /\ UNCHANGED <<total, pos, prev, prevAt, last>>

\* Index in the file of the entry that follows the compared ones
At == start + i

\* Mutant: the test is dropped.
DebouncedNever == FALSE

Debounced == prev # None /\ pos - prev < Debounce

\* Mutant: `continue' leaves i and pos alone.
SkipDebouncedStuck ==
    /\ pc = "scan" /\ i < count
    /\ Debounced
    /\ UNCHANGED vars

\* Too close to the previous match
SkipDebounced ==
    /\ pc = "scan" /\ i < count
    /\ Debounced
    /\ i' = i + Step
    /\ pos' = pos + Step
    /\ UNCHANGED <<total, pc, start, count, db, prev, prevAt, last, blocks>>

\* hammingEarlyTerminate gives the comparison up.
RejectEarly ==
    /\ pc = "scan" /\ i < count
    /\ ~Debounced
    /\ last' = At
    /\ i' = i + Step
    /\ pos' = pos + Step
    /\ UNCHANGED <<total, pc, start, count, db, prev, prevAt, blocks>>

\* checkNearPos takes its window from db when the window lies within db, and
\* otherwise reads it from the file: positions NearBegin to NearEnd - 1.
InMemory  == Near < i /\ i < BufLen - Near
NearBegin == IF pos > Near THEN pos - Near ELSE 0
NearEnd   == IF pos + Near + Macro > total THEN total ELSE pos + Near + Macro

\* fullCheck tries no offset of a window of Macro entries or less.
CanMatch == InMemory \/ NearEnd - NearBegin > Macro

\* Mutant: the skip is not cut off.
SkipLengthWhole == Near

\* Mutant: the whole width of the neighbourhood is skipped.
SkipLengthDouble == IF i + 2 * Near > count THEN count - i ELSE 2 * Near

\* At the end of a block the skip is cut off at the block's end.
SkipLength == IF i + Near > count THEN count - i ELSE Near

\* The comparison was not given up: the neighbourhood is searched, a match is
\* reported if one is found there, and the scan moves on by more than a step.
Compare(match) ==
    /\ pc = "scan" /\ i < count
    /\ ~Debounced
    /\ match => CanMatch
    /\ last' = At
    /\ prev' = IF match THEN pos ELSE prev
    /\ prevAt' = IF match THEN At ELSE prevAt
    /\ i' = i + SkipLength + Step
    /\ pos' = pos + SkipLength + Step
    /\ UNCHANGED <<total, pc, start, count, db, blocks>>

\* A short read has set eofbit and failbit of fin.
EndBlock ==
    /\ pc = "scan" /\ i >= count
    /\ pc' = IF count = BufLen THEN "read" ELSE "done"
    /\ UNCHANGED <<total, start, count, db, i, pos, prev, prevAt, last, blocks>>

\* Another invocation appends to the file.
Grow ==
    /\ \E n \in 1..MaxTotal : total + n <= MaxTotal /\ total' = total + n
    /\ pc # "done"
    /\ UNCHANGED <<pc, start, count, db, i, pos, prev, prevAt, last, blocks>>

Scan ==
    \/ ReadBlock
    \/ SkipDebounced
    \/ RejectEarly
    \/ \E match \in BOOLEAN : Compare(match)
    \/ EndBlock

Next == Scan \/ Grow

Spec == Init /\ [][Next]_vars

-----------------------------------------------------------------------------
(* Properties.                                                             *)

TypeOK ==
    /\ total \in Nat
    /\ pc \in {"read", "scan", "done"}
    /\ start \in Nat
    /\ count \in 0..BufLen
    /\ db \in [Slots -> Int]
    /\ i \in Nat /\ pos \in Nat /\ blocks \in Nat /\ last \in Nat
    /\ prev \in Nat \union {None} /\ prevAt \in Nat \union {None}

\* Of the entries the comparisons of a block read (those before count + Macro),
\* each is the fingerprint of the file that belongs there, in the first block
\* preceded by zeros: nothing is skipped, repeated or left from an earlier
\* block where two blocks meet.
Origin(n) == IF n < 0 THEN Zero ELSE n
BufferIsStream ==
    pc = "scan" => \A j \in 0 .. Macro + count - 1 : db[j] = Origin(start + j - Macro)

\* pos, from which the track and the time of a match are computed, is never
\* before the place the match is at, and runs ahead of it by at most Step for
\* each block already finished: the for loop leaves a block behind its end.
PosDrift == /\ At <= pos
            /\ pc = "scan" => pos - At <= Step * (blocks - 1)

\* Two matches that are reported are almost Debounce apart in the file, also
\* when the end of a block lies between them.
MatchesApart ==
    [][prevAt' # prevAt /\ prevAt # None => prevAt' - prevAt >= Debounce - Step]_vars

\* Between two comparisons, or the last one and the end of the file, never more
\* than Near + Step positions are passed over.
NoGap == At - last <= Near + Step

\* The window that checkNearPos reads from the file begins before it ends (its
\* length is unsigned) as long as the drift of pos is at most Near.
WindowExists ==
    pc = "scan" /\ i < count /\ ~InMemory /\ Step * (blocks - 1) <= Near
        => NearBegin <= NearEnd
=============================================================================
