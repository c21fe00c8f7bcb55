---------------------------- MODULE FingerprintDb ----------------------------
(***************************************************************************)
(* The on-disk audio index and the programs that work on it: invocations   *)
(* of ismir_build_index (insert), ismir_merge (merge) and ismir_query      *)
(* (open, then a scan) share a fingerprint file and its catalogue, the     *)
(* text file "map_<db>", with no lock.                                     *)
(*                                                                         *)
(* A fingerprint is represented by where it comes from, <<track, number>>. *)
(* An ofstream is its file offset at the last flush (off) and the          *)
(* fingerprints it still buffers (buf); tellp() is their sum.              *)
(***************************************************************************)
EXTENDS IndexMap, Integers, FiniteSets

CONSTANTS
    Dbs,         \* database names
    InDir,       \* those that contain a '/'
    Tracks,      \* wav files
    FpCount,     \* FpCount[t] fingerprints are generated for track t
    BufCap,      \* fingerprints an ofstream buffers before it writes
    Writers,     \* slots in which build_index and merge invocations run
    Readers,     \* slots in which query invocations run
    MergeJobs,   \* [out, inputs] of the ismir_merge invocations considered
    MaxJobs,     \* bound: invocations of writers
    MaxCrashes   \* bound: writers killed

ASSUME InDirAssumption  == InDir \subseteq Dbs
ASSUME CountAssumption  == FpCount \in [Tracks -> Nat]
ASSUME BufAssumption    == BufCap \in Nat \ {0}
ASSUME BoundAssumption  == MaxJobs \in Nat /\ MaxCrashes \in Nat
\* A database merged into itself grows while it is read and never ends.
ASSUME MergeAssumption  ==
    \A m \in MergeJobs : /\ m \in [out : Dbs, inputs : Seq(Dbs)]
                         /\ m.out \notin Range(m.inputs)
ASSUME ReaderAssumption == Writers \cap Readers = {}

VARIABLES
    data,     \* data[d]: the fingerprint file of database d
    map,      \* map[d]: the lines of the catalogue beside it
    pc,       \* where each writer is
    job,      \* [db, track, inputs] of its invocation
    off, buf, \* its ofstream on the fingerprint file
    left,     \* insert: fingerprints not yet written
    input,    \* merge: number of the input being read
    cursor,   \* merge: fingerprints, then lines, of this input already read
    base,     \* merge: the local sz
    snap,     \* readers: database and idToFile loaded by open()
    jobs,     \* invocations of writers so far
    crashes,  \* writers killed so far
    indexed   \* history: <<d, t>> whose insertion ran to its end

vars == <<data, map, pc, job, off, buf, left, input, cursor, base, snap,
          jobs, crashes, indexed>>

NoDb   == "no database"
NoJob  == [db |-> NoDb, track |-> NoDb, inputs |-> <<>>]
NoSnap == [db |-> NoDb, ids |-> << >>]
Names  == Tracks \union {Cut} \union Nat
Lines  == [end : Nat, name : Names]

\* the k-th fingerprint of track t
Fp(t, k) == <<t, k>>

\* the catalogue line written as `end << " " << name'
Line(end, name) == [end |-> end, name |-> name]

Init ==
    /\ data = [d \in Dbs |-> << >>]
    /\ map = [d \in Dbs |-> << >>]
    /\ pc = [p \in Writers |-> "idle"]
    /\ job = [p \in Writers |-> NoJob]
    /\ off = [p \in Writers |-> 0]
    /\ buf = [p \in Writers |-> << >>]
    /\ left = [p \in Writers |-> 0]
    /\ input = [p \in Writers |-> 0]
    /\ cursor = [p \in Writers |-> 0]
    /\ base = [p \in Writers |-> 0]
    /\ snap = [r \in Readers |-> NoSnap]
    /\ jobs = 0
    /\ crashes = 0
    /\ indexed = {}

-----------------------------------------------------------------------------
(* The output stream on the fingerprint file.                              *)

Db(p) == job[p].db

\* Mutant: the offset in the file is taken, without what is buffered.
TellFileOnly(p) == off[p]

\* of.tellp() / 4
Tell(p) == off[p] + Len(buf[p])

\* Opening with ios::app leaves the stream at the present end of the file.
OpenStream(p, d) ==
    /\ off' = [off EXCEPT ![p] = Len(data[d])]
    /\ buf' = [buf EXCEPT ![p] = << >>]

\* Mutant: the file is opened without ios::app, a write goes to the offset.
FlushOfAtOffset(p, fps) ==
    /\ data' = [data EXCEPT ![Db(p)] =
                   SubSeq(@, 1, off[p]) \o fps \o SubSeq(@, off[p] + Len(fps) + 1, Len(@))]
    /\ off' = [off EXCEPT ![p] = off[p] + Len(fps)]
    /\ buf' = [buf EXCEPT ![p] = << >>]

\* The buffered fingerprints reach the end the file has now.
FlushOf(p, fps) ==
    /\ data' = [data EXCEPT ![Db(p)] = @ \o fps]
    /\ off' = [off EXCEPT ![p] = Len(data[Db(p)]) + Len(fps)]
    /\ buf' = [buf EXCEPT ![p] = << >>]

Put(p, fp) ==
    LET fps == Append(buf[p], fp)
    IN  IF Len(fps) < BufCap
        THEN buf' = [buf EXCEPT ![p] = fps] /\ UNCHANGED <<data, off>>
        ELSE FlushOf(p, fps)

\* The catalogue is written to with std::endl or closed at once.
AppendLine(d, line) == map' = [map EXCEPT ![d] = Append(@, line)]

Go(p, label) == pc' = [pc EXCEPT ![p] = label]

-----------------------------------------------------------------------------
(* ismir_build_index: writeDBToDisk once the fingerprints are computed.    *)

InsertStart(p, d, t) ==
    /\ pc[p] = "idle"
    /\ jobs < MaxJobs
    /\ jobs' = jobs + 1
    /\ job' = [job EXCEPT ![p] = [db |-> d, track |-> t, inputs |-> << >>]]
    /\ left' = [left EXCEPT ![p] = FpCount[t]]
    /\ OpenStream(p, d)
    /\ Go(p, "write")
    /\ UNCHANGED <<data, map, input, cursor, base, snap, crashes, indexed>>

InsertWrite(p) ==
    /\ pc[p] = "write"
    /\ left[p] > 0
    /\ Put(p, Fp(job[p].track, FpCount[job[p].track] - left[p] + 1))
    /\ left' = [left EXCEPT ![p] = @ - 1]
    /\ UNCHANGED <<map, pc, job, input, cursor, base, snap, jobs, crashes, indexed>>

\* Mutant: the end follows from the catalogue instead of from the file.
InsertCloseFromMap(p) ==
    /\ pc[p] = "write"
    /\ left[p] = 0
    /\ base' = [base EXCEPT ![p] = FpCount[job[p].track] +
          IF map[Db(p)] = << >> THEN 0 ELSE map[Db(p)][Len(map[Db(p)])].end]
    /\ FlushOf(p, buf[p])
    /\ Go(p, "map")
    /\ UNCHANGED <<map, job, left, input, cursor, snap, jobs, crashes, indexed>>

\* Mutant: the stream is not closed before the catalogue is written.
InsertCloseLate(p) ==
    /\ pc[p] = "write"
    /\ left[p] = 0
    /\ base' = [base EXCEPT ![p] = Tell(p)]
    /\ Go(p, "map")
    /\ UNCHANGED <<data, off, buf, map, job, left, input, cursor, snap, jobs, crashes, indexed>>

\* `end = of.tellp() / 4', then close() writes what is buffered.
InsertClose(p) ==
    /\ pc[p] = "write"
    /\ left[p] = 0
    /\ base' = [base EXCEPT ![p] = Tell(p)]
    /\ FlushOf(p, buf[p])
    /\ Go(p, "map")
    /\ UNCHANGED <<map, job, left, input, cursor, snap, jobs, crashes, indexed>>

\* "map_" is put in front of the whole name: for a database in a directory
\* that is a file of a directory that does not exist, and nothing is written.
InsertMap(p) ==
    /\ pc[p] = "map"
    /\ IF Db(p) \in InDir
       THEN UNCHANGED map
       ELSE AppendLine(Db(p), Line(base[p], job[p].track))
    /\ indexed' = indexed \union {<<Db(p), job[p].track>>}
    /\ job' = [job EXCEPT ![p] = NoJob]
    /\ Go(p, "idle")
    /\ UNCHANGED <<data, off, buf, left, input, cursor, base, snap, jobs, crashes>>

-----------------------------------------------------------------------------
(* ismir_merge.                                                            *)

\* init, when it is given an output and inputs; otherwise no database is touched.
MergeStart(p, m) ==
    /\ pc[p] = "idle"
    /\ jobs < MaxJobs
    /\ jobs' = jobs + 1
    /\ job' = [job EXCEPT ![p] = [db |-> m.out, track |-> NoDb, inputs |-> m.inputs]]
    /\ input' = [input EXCEPT ![p] = 1]
    /\ OpenStream(p, m.out)
    /\ Go(p, "input")
    /\ UNCHANGED <<data, map, left, cursor, base, snap, crashes, indexed>>

Input(p) == job[p].inputs[input[p]]

\* sz = _strFileOut.tellp() / 4, taken before this input is copied
MergeOpenInput(p) ==
    /\ pc[p] = "input"
    /\ input[p] <= Len(job[p].inputs)
    /\ base' = [base EXCEPT ![p] = Tell(p)]
    /\ cursor' = [cursor EXCEPT ![p] = 0]
    /\ Go(p, "copy")
    /\ UNCHANGED <<data, map, job, off, buf, left, input, snap, jobs, crashes, indexed>>

MergeCopy(p) ==
    /\ pc[p] = "copy"
    /\ cursor[p] < Len(data[Input(p)])
    /\ Put(p, data[Input(p)][cursor[p] + 1])
    /\ cursor' = [cursor EXCEPT ![p] = @ + 1]
    /\ UNCHANGED <<map, pc, job, left, input, base, snap, jobs, crashes, indexed>>

MergeCopied(p) ==
    /\ pc[p] = "copy"
    /\ cursor[p] >= Len(data[Input(p)])
    /\ cursor' = [cursor EXCEPT ![p] = 0]
    /\ Go(p, "lines")
    /\ UNCHANGED <<data, map, job, off, buf, left, input, base, snap, jobs, crashes, indexed>>

\* Mutant: sz is not added.
MergeLineUnshifted(p) ==
    LET lines == ReadMap(map[Input(p)])
        i     == cursor[p] + 1
    IN  /\ pc[p] = "lines"
        /\ i <= Len(lines)
        /\ AppendLine(Db(p), lines[i])
        /\ cursor' = [cursor EXCEPT ![p] = i]
        /\ UNCHANGED <<data, pc, job, off, buf, left, input, base, snap, jobs, crashes, indexed>>

\* `_mapFileOut << idx+sz << " " << name << std::endl' is on disk at once.
MergeLine(p) ==
    LET lines == ReadMap(map[Input(p)])
        i     == cursor[p] + 1
    IN  /\ pc[p] = "lines"
        /\ i <= Len(lines)
        /\ AppendLine(Db(p), Line(lines[i].end + base[p], lines[i].name))
        /\ cursor' = [cursor EXCEPT ![p] = i]
        /\ UNCHANGED <<data, pc, job, off, buf, left, input, base, snap, jobs, crashes, indexed>>

\* Mutant: the loop condition is not tested again.
MergeUntested(p) ==
    /\ pc[p] = "lines"
    /\ cursor[p] >= Len(ReadMap(map[Input(p)]))
    /\ input' = [input EXCEPT ![p] = @ + 1]
    /\ Go(p, "copy")
    /\ UNCHANGED <<data, map, job, off, buf, left, cursor, base, snap, jobs, crashes, indexed>>

MergeNextInput(p) ==
    /\ pc[p] = "lines"
    /\ cursor[p] >= Len(ReadMap(map[Input(p)]))
    /\ input' = [input EXCEPT ![p] = @ + 1]
    /\ Go(p, "input")
    /\ UNCHANGED <<data, map, job, off, buf, left, cursor, base, snap, jobs, crashes, indexed>>

\* The streams are destroyed when merge returns: only now is the rest of the
\* fingerprints written.
MergeEnd(p) ==
    /\ pc[p] = "input"
    /\ input[p] > Len(job[p].inputs)
    /\ FlushOf(p, buf[p])
    /\ job' = [job EXCEPT ![p] = NoJob]
    /\ Go(p, "idle")
    /\ UNCHANGED <<map, left, input, cursor, base, snap, jobs, crashes, indexed>>

-----------------------------------------------------------------------------
(* ismir_query: open() reads the catalogue once; the scan then reads the   *)
(* fingerprint file as it is at that time (module QueryScan).              *)

QueryOpen(r, d) ==
    /\ snap[r] = NoSnap
    /\ snap' = [snap EXCEPT ![r] = [db |-> d, ids |-> ToIds(ReadMap(map[d]))]]
    /\ UNCHANGED <<data, map, pc, job, off, buf, left, input, cursor, base, jobs, crashes, indexed>>

QueryEnd(r) ==
    /\ snap[r] # NoSnap
    /\ snap' = [snap EXCEPT ![r] = NoSnap]
    /\ UNCHANGED <<data, map, pc, job, off, buf, left, input, cursor, base, jobs, crashes, indexed>>

-----------------------------------------------------------------------------
\* A writer is killed: what it buffered is lost, what it wrote stays.
Crash(p) ==
    /\ pc[p] # "idle"
    /\ crashes < MaxCrashes
    /\ crashes' = crashes + 1
    /\ buf' = [buf EXCEPT ![p] = << >>]
    /\ job' = [job EXCEPT ![p] = NoJob]
    /\ Go(p, "idle")
    /\ UNCHANGED <<data, map, off, left, input, cursor, base, snap, jobs, indexed>>

Working(p) ==
    \/ InsertWrite(p) \/ InsertClose(p) \/ InsertMap(p)
    \/ MergeOpenInput(p) \/ MergeCopy(p) \/ MergeCopied(p)
    \/ MergeLine(p) \/ MergeNextInput(p) \/ MergeEnd(p)

Next ==
    \/ \E p \in Writers :
          \/ \E d \in Dbs, t \in Tracks : InsertStart(p, d, t)
          \/ \E m \in MergeJobs : MergeStart(p, m)
          \/ Working(p)
          \/ Crash(p)
    \/ \E r \in Readers :
          \/ \E d \in Dbs : QueryOpen(r, d)
          \/ QueryEnd(r)

Spec == Init /\ [][Next]_vars

-----------------------------------------------------------------------------
(* Properties.                                                             *)

Labels == {"idle", "write", "map", "input", "copy", "lines"}

Fps  == Tracks \X (Nat \ {0})
Jobs == [db : Dbs \union {NoDb}, track : Tracks \union {NoDb}, inputs : Seq(Dbs)]

\* What the place a writer is at says of its invocation
WriterOK(p) ==
    /\ Len(buf[p]) < BufCap
    /\ pc[p] = "idle" => job[p] = NoJob
    /\ pc[p] # "idle" => Db(p) \in Dbs
    /\ pc[p] \in {"write", "map"} => job[p].track \in Tracks
    /\ pc[p] = "write" => left[p] <= FpCount[job[p].track]
    /\ pc[p] = "input" => input[p] > 0
    /\ pc[p] \in {"copy", "lines"} => input[p] \in 1..Len(job[p].inputs)

\* Every variable has its type; an insertion under way has a database and a
\* track, a merge a database and, while it copies, an input.
TypeOK ==
    /\ data \in [Dbs -> Seq(Fps)]
    /\ map \in [Dbs -> Seq(Lines)]
    /\ pc \in [Writers -> Labels]
    /\ job \in [Writers -> Jobs]
    /\ buf \in [Writers -> Seq(Fps)]
    /\ off \in [Writers -> Nat]
    /\ left \in [Writers -> Nat]
    /\ input \in [Writers -> Nat]
    /\ cursor \in [Writers -> Nat]
    /\ base \in [Writers -> Nat]
    /\ \A p \in Writers : WriterOK(p)
    /\ indexed \subseteq Dbs \X Tracks

Quiet(d) == \A p \in Writers : Db(p) # d

Ids(d) == ToIds(ReadMap(map[d]))

\* What query_scan prints of a match that ends with fingerprint pos: the
\* track of the next entry and how far into that track it is.
Found(ids, pos) == Fp(NameAt(ids, pos), pos - StartOf(ids, pos))

\* With invocations one at a time and none of them killed, every fingerprint
\* of a database no invocation is writing is reported as its own track at its
\* own offset, however the database came about by inserts and merges.
Attribution ==
    \A d \in Dbs : Quiet(d) =>
        \A pos \in 1..Len(data[d]) :
            /\ HasLowerBound(Ids(d), pos)
            /\ data[d][pos] = Found(Ids(d), pos)

\* A query keeps the catalogue it loaded while a writer goes on appending:
\* what it says of a position its catalogue knows stays true.
SnapshotTrue ==
    \A r \in Readers : snap[r] # NoSnap =>
        \A pos \in 1..Len(data[snap[r].db]) :
            HasLowerBound(snap[r].ids, pos) =>
                data[snap[r].db][pos] = Found(snap[r].ids, pos)

\* What a query may read in the place of the name of a track
Called(t) == IF t = NoName THEN Nat ELSE IF t \in Spaced THEN {Cut} ELSE {t}

\* Every entry that a query reads ends with the fingerprints of the track it
\* names, also when earlier insertions were killed at any point and left
\* fingerprints without an entry behind, and when names are not read back as
\* they were written: then the ids are true and the names a word of the true
\* one or the number of another line.  (A whole name that is a number can be
\* read as an id behind an empty one.)
OwnSuffix ==
    \A d \in Dbs : (\A i \in DOMAIN map[d] : map[d][i].name \notin Nat) =>
        \A e \in DOMAIN Ids(d) :
            \E t \in Tracks :
                /\ Ids(d)[e] \in Called(t)
                /\ \A k \in 1..FpCount[t] : /\ e - FpCount[t] + k \in DOMAIN data[d]
                                            /\ data[d][e - FpCount[t] + k] = Fp(t, k)

\* The fingerprints of t are in the file of d, its line in the catalogue.
Kept(d, t) ==
    /\ \A k \in 1..FpCount[t] : Fp(t, k) \in Range(data[d])
    /\ d \notin InDir => \E i \in DOMAIN map[d] : map[d][i].name = t

\* Whatever other insertions run at the same time or are killed, an insertion
\* that ran to its end has all its fingerprints in the file and its entry in
\* the catalogue.
NothingLost == \A w \in indexed : Kept(w[1], w[2])

\* An entry never lies beyond the fingerprints that are in the file: between
\* insertions that run at the same time tellp() may be too small (the stream
\* has not seen what others appended) but never too large.
EndsCovered ==
    \A d \in Dbs : \A i \in DOMAIN map[d] : map[d][i].end <= Len(data[d])

\* The last fingerprint the catalogue of d accounts for
LastEnd(d) == IF map[d] = << >> THEN 0 ELSE map[d][Len(map[d])].end

\* What a writer still holds back of the fingerprint file of d
Pending(d) == IF Quiet(d) THEN << >> ELSE buf[CHOOSE p \in Writers : Db(p) = d]

\* With one invocation at a time an index is the abstract one: its tracks are
\* the catalogue's lines, its stream the fingerprints these account for, those
\* that a merge has still in its buffer included.
Index == INSTANCE IndexSpec WITH
    tracks <- [d \in Dbs |-> [i \in DOMAIN map[d] |-> map[d][i].name]],
    stream <- [d \in Dbs |-> SubSeq(data[d] \o Pending(d), 1, LastEnd(d))]

\* Every insertion and every line of a merge adds one whole track to the
\* index and changes nothing else of it.
AddsWholeTracks == Index!Spec
=============================================================================
