---------------------------- MODULE MemoryIndex ----------------------------
(***************************************************************************)
(* The first index, my_database with my_fingerprint and my_query: a map    *)
(* from the fingerprint of a slice of samples to all the places where a    *)
(* slice has it, kept in memory, written to a file and loaded from it.     *)
(*                                                                         *)
(* A slice is a record of its sound, any value, and for each band of the   *)
(* spectrum the number of thresholds (0 to 7) that its energy exceeds.  A  *)
(* fingerprint is the set of its bits that are 1.  The counters that       *)
(* printStatistics prints are left out.                                    *)
(***************************************************************************)
EXTENDS Integers, FiniteSets, Sequences, SequencesExt

CONSTANTS
    Slices,         \* the slices of each file that can be opened
    NameLength,     \* bytes of a file's name
    Jump,           \* 150: samples from one slice to the next
    Shift,          \* 2^40: an index is Shift * file + first sample
    Mask,           \* 2^36: printResult takes the rest by this for the sample
    Cap,            \* 1024 * 1024 * 2: bytes of writeToDisk's buffer
    Blocks,         \* 1024 * 1024: entries that loadFromDisk reads at a time
    TwoSeconds,     \* oneSecond + oneSecond
    Compare(_, _),  \* what cross_correlate may come to for two slices
    Garbled         \* the name of no file

ASSUME MemoryAssumption ==
    /\ {Jump, Shift, Mask, Cap, Blocks} \subseteq Nat \ {0} /\ TwoSeconds \in Nat
    /\ Shift % Mask = 0
\* The size of a WAV file has 32 bits: the numbers of its samples are below 2^36.
ASSUME SlicesAssumption ==
    \A name \in DOMAIN Slices :
        /\ Slices[name] \in Seq(Range(Slices[name]))
        /\ \A k \in DOMAIN Slices[name] : Jump * (k - 1) < Mask
ASSUME NamesAssumption ==
    /\ Garbled \notin DOMAIN Slices
    /\ \A name \in DOMAIN Slices \union {Garbled} : NameLength[name] \in Nat

VARIABLES
    table,      \* db
    files,      \* files
    groups,     \* writeToDisk: what is still to be put into the buffer
    buffer,     \* its contents
    disk,       \* the file: groups of bytes that are always written together
    asked,      \* execute: the slice in question
    cands,      \* candidates still to be compared
    matches,
    kept        \* history: what was written to the file

memoryVars == <<table, files, groups, buffer, disk, asked, cands, matches, kept>>

NoTable == [p \in {} |-> << >>]
Nothing == [sound |-> Garbled, bands |-> << >>]
NoDisk  == << >>

\* The maps of a process that has just been started
Empty == table = NoTable /\ files = << >> /\ groups = << >> /\ buffer = << >>
         /\ asked = Nothing /\ cands = << >> /\ matches = << >>

MemoryInit == Empty /\ disk = NoDisk /\ kept = [table |-> NoTable, files |-> << >>]

\* Only the file outlives the process.
MemoryLost ==
    /\ table' = NoTable /\ files' = << >> /\ groups' = << >> /\ buffer' = << >>
    /\ asked' = Nothing /\ cands' = << >> /\ matches' = << >>
    /\ UNCHANGED <<disk, kept>>

-----------------------------------------------------------------------------
(* my_fingerprint: each band has three bits that hold its number of        *)
(* thresholds.  The width of a band is 181.67, but the bits are taken from *)
(* slabs of 200: the first two bands share theirs.                         *)

Bands == 1..12

\* currentMel / 200 - 1 at the end of the n-th band, from 220 mel on
Slab(n) == (22000 + 18167 * n) \div 20000 - 1

Bits(n, bucket) == {3 * Slab(n) + b : b \in {c \in 0..2 : (bucket \div 2^c) % 2 = 1}}

Fingerprint(slice) == UNION {Bits(n, slice.bands[n]) : n \in Bands}

-----------------------------------------------------------------------------
(* my_database.                                                            *)

\* insert: at the end of the fingerprint's bucket, or in a new one
Insert(t, f, index) ==
    [p \in DOMAIN t \union {f} |->
        (IF p \in DOMAIN t THEN t[p] ELSE << >>) \o (IF p = f THEN <<index>> ELSE << >>)]

InsertAll(t, entries) == FoldLeft(LAMBDA u, e : Insert(u, e[1], e[2]), t, entries)

\* Index of the k-th slice of the file that is being inserted
Index(k) == Shift * Len(files) + Jump * (k - 1)

InsertFile(name) ==
    /\ table' = InsertAll(table, [k \in DOMAIN Slices[name] |->
                                     <<Fingerprint(Slices[name][k]), Index(k)>>])
    /\ files' = Append(files, name)
    /\ UNCHANGED <<groups, buffer, disk, asked, cands, matches, kept>>

FileOf(index) == index \div Shift
SampleOf(index) == index - Shift * FileOf(index)

\* getSamplesFromIndex, if the file is there
SliceAt(index) == Slices[files[FileOf(index) + 1]][SampleOf(index) \div Jump + 1]
Opens(index)   == files[FileOf(index) + 1] \in DOMAIN Slices

-----------------------------------------------------------------------------
(* writeToDisk.                                                            *)

\* What the file is to hold: the lengths of header and list, the names, the
\* buckets.  std::map has its keys in order; here the order of the buckets is
\* some fixed one.
Total(sizes) == FoldLeft(LAMBDA n, size : n + size, 0, sizes)

HeaderLength(names) == 4 + Total([k \in DOMAIN names |-> NameLength[names[k]] + 4])

Entries(t) ==
    LET keys == SetToSeq(DOMAIN t)
        entries(f) == [k \in DOMAIN t[f] |-> <<f, t[f][k]>>]
    IN  FlattenSeq([n \in DOMAIN keys |-> entries(keys[n])])

Contents(t, names) ==
    << [kind |-> "header", size |-> 8, is |-> <<HeaderLength(names), Len(names)>>] >>
    \o [k \in DOMAIN names |-> [kind |-> "name", size |-> 4 + NameLength[names[k]], is |-> names[k]]]
    \o LET entries == Entries(t)
       IN  [k \in DOMAIN entries |-> [kind |-> "entry", size |-> 16, is |-> entries[k]]]

Size(gs) == Total([k \in DOMAIN gs |-> gs[k].size])

\* fopen with "w"
WriteStart ==
    /\ groups' = Contents(table, files)
    /\ buffer' = << >>
    /\ disk' = << >>
    /\ kept' = [table |-> table, files |-> files]
    /\ UNCHANGED <<table, files, asked, cands, matches>>

\* The buffer is flushed before what would fill it.
WriteGroup ==
    /\ groups # << >>
    /\ IF Size(buffer) + Head(groups).size >= Cap
       THEN disk' = disk \o buffer /\ buffer' = <<Head(groups)>>
       ELSE disk' = disk /\ buffer' = Append(buffer, Head(groups))
    /\ groups' = Tail(groups)
    /\ UNCHANGED <<table, files, asked, cands, matches, kept>>

WriteEnd ==
    /\ groups = << >>
    /\ disk' = disk \o buffer
    /\ buffer' = << >>
    /\ UNCHANGED <<table, files, groups, asked, cands, matches, kept>>

-----------------------------------------------------------------------------
(* loadFromDisk.                                                           *)

\* The groups of which the header consists, by the length it gives
HeaderGroups ==
    {n \in DOMAIN disk : Size(SubSeq(disk, 1, n)) = 4 + disk[1].is[1]}

\* A name is read without its end: it is the file's if a 0 happens to follow in
\* memory.
LoadHeader ==
    /\ disk # NoDisk
    /\ \E n \in HeaderGroups :
          /\ \E clean \in SUBSET (1 .. disk[1].is[2]) :
                files' = files \o [k \in 1 .. disk[1].is[2] |->
                                      IF k \in clean THEN disk[k + 1].is ELSE Garbled]
          /\ groups' = SubSeq(disk, n + 1, Len(disk))
    /\ UNCHANGED <<table, buffer, disk, asked, cands, matches, kept>>

\* Mutant: the last piece is not looked at.
LoadBlocksWhole ==
    /\ groups' = IF Len(groups) >= Blocks THEN SubSeq(groups, Blocks + 1, Len(groups)) ELSE << >>
    /\ table' = IF Len(groups) < Blocks THEN table
                ELSE InsertAll(table, [k \in 1..Blocks |-> groups[k].is])
    /\ UNCHANGED <<files, buffer, disk, asked, cands, matches, kept>>

\* One fread; a short one is the last.
LoadBlocks ==
    LET read == IF Len(groups) < Blocks THEN Len(groups) ELSE Blocks
    IN  /\ table' = InsertAll(table, [k \in 1..read |-> groups[k].is])
        /\ groups' = SubSeq(groups, read + 1, Len(groups))
        /\ UNCHANGED <<files, buffer, disk, asked, cands, matches, kept>>

-----------------------------------------------------------------------------
(* my_query::execute.                                                      *)

\* The bucket of a fingerprint, if there is one
RetrieveIndices(f) == IF f \in DOMAIN table THEN table[f] ELSE << >>

\* The slice two and a half seconds into the query is looked for.
Retrieve(slice) ==
    /\ asked' = slice
    /\ cands' = RetrieveIndices(Fingerprint(slice))
    /\ matches' = << >>
    /\ UNCHANGED <<table, files, groups, buffer, disk, kept>>

\* cross_correlate may come to this outcome for the slice at an index.
Correlates(index, outcome) == outcome \in Compare(SliceAt(index), asked)

Distance(m, n) == IF m < n THEN n - m ELSE m - n

\* Mutant: within two seconds of the first match.
NearFirst(index) == matches # << >> /\ Distance(Head(matches), index) <= TwoSeconds

\* Within two seconds of the previous match
Near(index) == matches # << >> /\ Distance(Last(matches), index) <= TwoSeconds

\* Mutant: a candidate near the previous match is looked at again.
CandidateSame ==
    /\ cands # << >>
    /\ IF Near(Head(cands)) THEN UNCHANGED <<matches, cands>>
       ELSE /\ Opens(Head(cands)) /\ Correlates(Head(cands), "high")
            /\ matches' = Append(matches, Head(cands))
            /\ cands' = Tail(cands)
    /\ UNCHANGED <<table, files, groups, buffer, disk, asked, kept>>

\* A candidate is a match when the two slices correlate by more than 0.94.
Candidate ==
    /\ cands # << >>
    /\ LET index == Head(cands) IN
       \/ Near(index) /\ UNCHANGED matches
       \/ /\ ~Near(index) /\ Opens(index)
          /\ Correlates(index, "high")
          /\ matches' = Append(matches, index)
       \/ /\ ~Near(index) /\ Opens(index)
          /\ Correlates(index, "low")
          /\ UNCHANGED matches
    /\ cands' = Tail(cands)
    /\ UNCHANGED <<table, files, groups, buffer, disk, asked, kept>>

\* A file that is not there, or an assertion of find_peak that fails: a value
\* above 1 by rounding, or not a number where there is no energy
CandidateFatal ==
    /\ cands # << >> /\ ~Near(Head(cands))
    /\ Opens(Head(cands)) => Correlates(Head(cands), "abort")

\* printResult takes the file's name from the arguments of this call.
Printed(args) ==
    [m \in DOMAIN matches |->
        [name |-> args[FileOf(matches[m]) + 1], sample |-> matches[m] % Mask]]
=============================================================================
