# xcorrSound in TLA+

xcorrSound is a set of command line programs that compare recordings of sound by
cross correlation (`waveform-compare`, `sound-match`, `overlap-analysis`) or by
fingerprints kept in an index on disk (`ismir_build_index`, `ismir_merge`,
`ismir_query`). This directory models the control of these programs: what they
read, write, skip, count and report, and in which order. Signal processing is
floating-point arithmetic: where its outcome only decides what a program does
next it is left open, and where its index arithmetic is the point (padding,
transforms, prefix sums, frames) it is done exactly, on short inputs.

All paths below are relative to the root of the repository.

## 1. Inventory

There are no threads and no callbacks in this code. All concurrency is between
processes: those that share an index, a writer at the other end of a pipe, and
whoever kills a process.

### The audio index (`libs/sound_index/fingerprint_db.{cc,hh}`, `hamming.h`)

State: for a database `d` the *fingerprint file* `d` (32-bit words, appended to)
and the *catalogue* `map_<d>` (text lines "end name"); nothing else is
persistent and there is no lock. In memory: the `std::map` `idToFile` that
`open` loads, the buffered `ofstream`s of `insert` and `merge`, the buffer of
`query_scan`.

Operations: `insert` (compute the fingerprints of a track, `writeDBToDisk`:
append, `tellp`, close, append one line to the catalogue); `merge` (append
several databases to one, shifting the lines); `open` (load the catalogue);
`query_scan` (read the file block by block, compare, skip, report).
Hard behaviours: unsynchronised writers, kills between two writes, a reader that
holds an old catalogue over a growing file, buffering that reorders writes to
two files, and the seams between blocks of the scan.
Correct means: each fingerprint is attributed to its own track, nothing that was
inserted is lost, the catalogue does not run ahead of the file, the scan sees
every place of the file once, and a match is told with its track and time.

### The ismir programs (`apps/ismir_build_index.cc`, `ismir_merge.cc`, `ismir_query.cc`) and fingerprint generation (`fingerprint_strategy_ismir.cc`)

An invocation has options, a list of files or a pipe, and makes a sequence of
index operations. A track becomes one fingerprint per frame; each is the sign
of a difference between this frame and the one before. Hard: the first frame,
the last one, a pipe that delivers in pieces or breaks off. Correct means: the
same recording gives the same fingerprints from a file and from a pipe, and an
excerpt has those of its recording, so that it can be found.

### waveform-compare (`apps/waveform-compare.cpp`)

State: two `AudioStream`s, the block counter, the offset of the first compared
block, the minimum, the last failure. Hard: streams of different lengths, silent
blocks that are passed over, short last blocks, the offset of the first block as
the reference of all later ones. Correct means: exit code and report follow from
*all* blocks that were compared, and all that should be looked at is.

### sound-match (`apps/sound_match.cpp`)

State: the haystack's stream, two vectors of records (one per part), results.
Hard: occurrences across the border of a part or of a piece, and vectors whose
size comes from the header while the loop runs on what the stream delivers.
Correct means: a needle inside the haystack is printed with the time at which it
begins, and nothing is printed that lies outside.

### overlap-analysis (`apps/overlap-analysis.cpp`), log stream (`libs/core/logstream.*`), FFT and cross correlation (`FFT.cpp`, `cross_correlation.h`, `my_utils.*`)

State: two arrays, of which half is read from a file and half is memory nobody
has written; the cyclic correlation; the best quotient so far; a log with a
level, a print level, a buffer, and a file that is buffered again. Hard: which
index of a padded array is which second of which file, and what is in the log
after an error exit or a kill. Correct means: the place reported is the one at which the
recordings have most in common, and the log has every message of its level.

### AudioFile, AudioStream (`libs/core`) and the stdin reader (`wavStdinReader.cc`)

State: the header fields, a 4096-byte buffer with `_pos` and `_end`, the `FILE*`.
Hard: a header searched byte by byte, samples that straddle the buffer, the end
of the file at the end of the buffer, a pipe whose `read` answers 0. Correct
means: the samples of the channel that was asked for, however the reads are cut.

### Earlier programs

`ismir_impl.cc` (the index in one program: a vector, two files), `my_database`,
`my_fingerprint`, `my_query` with `test_my_fingerprint.cpp` (a map in memory,
written to one file), `lets_try_again.cpp` with `db_wrapper_sqlite.cpp` (an
SQLite table, answered by a histogram of differences). They are in no target of
the build, but they hold the operations, files and formats from which the index
was made, and are modelled in the same way.

How the parts interact: a program creates an `AudioFile`, which gives an
`AudioStream`, which delivers samples; these go to a correlation or to the
fingerprint strategy, and the fingerprints to an index, which lives in files.

## 2. Modules

| module | models | state and actions |
|---|---|---|
| `IndexMap` | the catalogue as text and as `std::map` | operators: `ReadMap` (the `fin >> id >> file` loop, word by word: it stops at a name with blanks, and behind an empty one it takes numbers for names), `ToIds`, `NameAt` (`lower_bound`), `StartOf` |
| `FingerprintDb` | invocations of build_index, merge and query over shared files | `data`/`map` are the two files; each writer has an `ofstream` (`off`, `buf`) and a program counter; one action per write, flush or read of a file; `Crash` |
| `IndexSpec` | what an index promises | tracks are added whole, one at a time |
| `QueryScan` | `query_scan`, `checkNearPos` | `db`, `i`, `pos`, `prevMatchPos`; `ReadBlock`, `SkipDebounced`, `RejectEarly`, `Compare`, `EndBlock`, and `Grow` for a writer in another process |
| `IsmirQuery` | `ismir_query` | extends `QueryScan` and `IndexMap`: options, `Open`, `ReadQuery`, `ScanStep` with the track and time of a match, `Overread` of a query that is too short, `PrintResults` |
| `Hamming` | `hamming.h`, `hammingEarlyTerminate`, `fullHamming`, `fullCheck` | operators on fingerprints |
| `Fingerprints` | `generateFingerprintStream` | operators: frames, energies, bits |
| `StdinReader` | `wavStdinReader` | the two reads of the header (`ReadRiff`, `ReadSize`), the loop over `read`, the search for the data; `Supply` is the process at the other end |
| `BuildIndex` | `ismir_build_index` | extends `StdinReader`, `Fingerprints` and `Hamming`: options, bulk list, file or pipe, one frame at a time, `Insert` |
| `WaveformCompare`, `CompareMain` | the loop of waveform-compare; the program around it | `Stop`, `Silence`, `Correlate`, `Report`; options, the test of the channel, a block size of 0 |
| `AudioStream` | `fillBuffer`, `good`, `readNext`, `read` | `Call`, `ReadByte` (with `FillBuffer`), `Store`, `Return` |
| `WavFile` | `AudioFile` | extends `AudioStream`: `Populate` (the header, with its conversions to signed numbers and back), the stream that is opened with it, and the two functions that read without a stream |
| `SoundMatch`, `SoundMain` | `match`; the program around it | `ReadPiece`, `CorrelatePart`, `EndPiece`, `MatchPair`, `Finish`; arguments, files, times |
| `LogStream` | `logstream` | what the program puts into the stream is queued and taken one character or manipulator at a time; `CloseLog`, `LoseLog` |
| `Transform` | `FFT.cpp`, `proxyFFT`, `cross_correlation`, `xcorr_new` | operators in arithmetic modulo a prime, and their definitions as sums |
| `OverlapAnalysis` | `overlap-analysis` | extends the two: one action per part of `doFromFile`, `Search` for an iteration of `doWork`, `Kill` |
| `SqliteIndex` | `lets_try_again`, `db_wrapper` | tables, an open transaction, the hits of a query; `InsertFile` with its errors (`NoStatement`, `FailFile`), `InsertRow`, `FailRow`, `EndTransaction`, `CountFile`, `Kill` |
| `MemoryIndex` | `my_database`, `my_fingerprint`, `my_query` | the map, the file as groups of bytes; `InsertFile`, `WriteGroup`, `LoadHeader`, `LoadBlocks`, `Retrieve`, `Candidate` |
| `IsmirImpl` | `ismir_impl` | vector, catalogue, query; `WriteVector`, `WriteLine`, `ReadDB`, `QueryPlace`, `QueryBest` |
| `PrototypeMain` | the two `main`s | composes `MemoryIndex` and `IsmirImpl`; calls one after the other over the files they leave |
| `MC*` | | values of the constants for TLC |
| `FingerprintDbProofs` | | theorems about `FingerprintDb`: of any writers; of one writer, with its refinement of `IndexSpec` |
| `QueryScanProofs` | | about `QueryScan` and `IsmirQuery` |
| `CompareMainProofs`, `WavFileProofs` | | about the programs and the modules they extend: `WaveformCompare`, `AudioStream` |
| `SoundProofs` | | about `SoundMain` with `SoundMatch`, and `OverlapAnalysis` with `LogStream` and what it uses of `Transform` |
| `IndexingProofs` | | about `BuildIndex` with `StdinReader`, `Fingerprints` and `Hamming`; about `SqliteIndex` |
| `PrototypeProofs` | | about `PrototypeMain` with `IsmirImpl` and `MemoryIndex` |
| `FoldLemmas` | | lemmas about folds, `FlattenSeq`, `SetToSeq`, sums and finite sets |

Abstractions, by module:

* `FingerprintDb`: a fingerprint is the pair of its track and its number in it,
  so attribution can be stated. A stream writes when its buffer holds `BufCap`
  fingerprints; the standard library's buffer holds a few thousand bytes. Appends
  by two processes are atomic per flush, as with `O_APPEND`. Writes do not fail. A crash
  is a kill of the process: buffered data are lost, written data stay (no loss
  of power). A database merged into itself never ends and is excluded by
  `MergeAssumption`. `Spaced`, `NoName` and `Cut` stand for names with blanks, the
  empty name and a word of a blank one; a track may also be called by a number. A
  word that begins with a digit without being a number ("2a") is not considered,
  nor is a name with blanks of which a word is a number. `InDir` stands for databases named with a directory.
* `QueryScan`: a fingerprint is its position, so what the buffer should hold can
  be stated; the outcome of each comparison is a free choice, restricted by
  `CanMatch` where no offset can be tried at all. `Compare` is one action: the
  comparison, the search of the neighbourhood, the report and the skip.
* `BuildIndex`, `Fingerprints`: the energy of a band is some function of the
  frame. Where a sample is taken from bytes that are no sound it is `Noise`.
* `StdinReader`: a field of the header has `Field` bytes. A read of it that is
  short is ignored as in the code, and everything behind it is displaced: the size
  is then any number of `Garbled`, what is found is `Noise`, and the program may crash.
* `IsmirQuery`: the query is long enough, too short, missing or no wav file, or
  comes oddly from stdin, in which case it becomes one of the others or is read
  for ever (`ReadOddly` has no fairness). A query that is too short is compared
  with what lies behind it: with any outcome, or the program ends.
* `WaveformCompare`: samples are counted; silence and the outcome of a
  correlation are free choices within what `compareBlock` may return for blocks of these sizes.
* `AudioStream`, `WavFile`: a byte is its index in the data. `ferror` is 0. A
  file is its size and the numbers at the places of the header that are looked
  at; fields that are not initialised have any of a few values. A number is signed
  as `getIntFromChars` makes it and then a `size_t` (`FromTwo`, `FromFour`). A
  fmt chunk longer than `buf` may end the program (`WritesBeyond`); if it does
  not, the fields are what they would be, which is one of the outcomes. A reader
  of more than `MaxChannels` channels is not considered.
* `SoundMatch`: samples are counted. A correlation is taken to peak at the needle
  where it overlaps a part and anywhere elsewhere; whether a pair of records
  passes the test against 0.3 is fixed only where the needle decides it.
* `Transform`, `OverlapAnalysis`: the roots of unity are those of a prime field,
  in which a transform is exact; quotients are pairs of integers. What rounding
  does is not modelled. The four printed parts of the headers are a line each.
* `SqliteIndex`: an offset counts slices, a fingerprint is a small number; a
  transaction is atomic, which is SQLite's promise. One row at most fails, and one
  statement about a file; of the `Quoted` names, those with an apostrophe, none can
  be made. Behind the vector of hits any number of stale pairs up to `MaxStale` has
  the id of the last file, at any distance of `Unread`. Left out: a `query` of the
  database that fails in the middle, `BEGIN` and `END` that fail, and names too
  long for the 1024 bytes of a statement, or that are SQL of their own.
* `OverlapAnalysis`: a file is there and has more than the 44 bytes of a header.
  `CompareMain`: a file is there, and is what `AudioFile` makes of it; shorter and
  missing files are not among those of these two programs.
* `MemoryIndex`: a slice of sound is a value and its levels in the twelve bands;
  a fingerprint is a set of bits. `loadFromDisk` is public, but its only call
  stands in a comment of `test_my_fingerprint.cpp:125`; it is taken as an alternative beginning of that program.
* `IsmirImpl`: as in `FingerprintDb`; the distance of a comparison is left open.

Definitions whose comment begins with "Mutant" are wrong variants of the
definition beside them, one for each property: with it in place of the right
one, TLC finds the property violated.

## 3. Runs

| run | cfg | properties | shows |
|---|---|---|---|
| `index_serial` | `FingerprintDb_serial` | `TypeOK` `Attribution` `SnapshotTrue` `AddsWholeTracks` | inserts and merges (into a new database, into an old one, of merged ones), one at a time, with a query open meanwhile: every fingerprint is attributed to its own track at its own offset, and the index implements `IndexSpec` |
| `index_crash` | `FingerprintDb_crash` | `OwnSuffix` | after kills at any step, entries still end with the fingerprints of the track they name, with blank and empty names and a number among the names |
| `index_concurrent` | `FingerprintDb_concurrent` | `NothingLost` `EndsCovered` | two processes insert into one database, one of them may be killed |
| `scan` | `IsmirQuery` | `BufferIsStream` `PosDrift` `NoGap` `RightTrack` `MatchesApart` `QueryEnds` | a query over up to three blocks of a growing file, from options to report; recordings that are missing, too short, or torn on stdin |
| `ingest` | `BuildIndex` | `SameEitherWay` `ExcerptFound` `BuildEnds` | lists of files and a pipe whose writer interleaves with the reader, also in the header: same fingerprints either way, excerpts agree with their recordings, and when the program ends |
| `compare` | `CompareMain` | `VerdictExact` `SuccessLooked` `BlocksComparable` `MainEnds` | every pair of lengths, silence and peak; options and channels |
| `wav` | `WavFile` | `ExactSamples` `ShortIsEnd` `HeaderTrue` `AnnouncedDelivered` `ReadersAgree` | headers of all kinds, with numbers around `IntMax` and `ShortMax` and fmt chunks around the size of the buffer, every length, channel and division into calls; three ways of reading |
| `sound` | `Sound` | `PrintedAcross` `ResultsInside` `OverrunCause` `SoundEnds` | every place of the needle; missing, empty and mono needles |
| `sound_finds` | `SoundMatch_finds` | violated: `FindsNeedle` | a needle that is the whole of a haystack is not found |
| `overlap` | `Overlap` | `LogComplete` `BestOverlap` `TransformsAgree` | all contents of short files, all arguments, a kill at any step |
| `sqlite` | `Sqlite` | `RowsWhole` `MatchSupported` `MatchFound` | two starts with a kill, a failing row or a failing statement anywhere, and every query |
| `prototypes` | `Prototypes` | `PlaceTold` `AnswerExact` `LoadedIsStored` `ImplAddsWholeTracks` `ProgramEnds` | up to three calls of either program over the files the others left |

Bounds and why they are enough:

* `FingerprintDb`: a buffer of two fingerprints and tracks of one and of three
  make an insertion end with a full, an empty and a part-filled buffer. Four
  invocations allow insert, insert, merge, merge of the merged one; three
  databases allow a merge of two into a third and back. Two writers suffice
  for `EndsCovered` and `NothingLost`, which relate one writer's stream to what the
  others appended; the theorems of section 5 cover any number. The crash run
  allows two kills among five insertions: two orphaned pieces of a track
  before an entry, or between two. Each run switches on the dimension it is about,
  because all together are out of TLC's reach.
* `IsmirQuery`: 16 fingerprints a block in place of 1024*1024, with 9, 5, 2 and 4
  in place of 256, 150, 8 and 86. The order of the sizes is that of the code
  (`SizesAssumption`); the block is a multiple of the stride as in the code.
  36 positions are two whole blocks and a part, so two borders are crossed
  and `pos` drifts twice. The file begins with 0, 20 or 36 of them, and with up to three
  tracks, of which one is shorter than the drift.
* `BuildIndex`: frames of 3 samples, 2 apart, and recordings of up to 10: no
  frame, one, and four of them. The pipe holds 4 bytes and the header is longer,
  so every recording takes several reads, and it may break off in the header, in
  the samples, or not at all. Fields of 2 bytes are the least that can be torn; a torn
  size is smaller, as large or larger than what there is.
* `CompareMain`: blocks of 4 samples, up to 11 samples: two whole blocks and
  a last one below and above a half. Three blocks tell apart the first, a later
  and the last failure. Values 0, 1, 2 and shifts of at most 1 separate all tests.
* `WavFile`: 8 bytes with frames of 2, 4 and 6: the last does not divide the
  buffer and straddles it. 26 bytes are three buffers and a piece. The window of
  the search keeps its 1024 bytes; `IntMax` (1200) is just beyond it, so that files lie on both sides,
  `ShortMax` is 64, and `SizeMax` a multiple of both and of the bits of a sample, as 2^64 is.
* `Sound`: needles of 3 samples, pieces of two parts, up to 13 samples: two
  pieces and part of a third, so a needle lies across the border of two pieces,
  and one sample more than announced completes a part.
* `Overlap`: four samples of three values in file 1 and of two in file 2, all of them; besides
  these, longer, shorter and odd files. The prime 433 has roots of unity of
  every order that occurs. The log's buffers of 2 and 5 characters overflow within a line.
* `Sqlite`: files of two and four slices, the last of which may read anything; a
  number beyond `Half`; names that are alike, one that is a pattern, and one with an apostrophe. Two hits
  make a match, so that the two pairs read behind the vector are enough for one that no hit supports.
* `Prototypes`: three calls allow writing, appending, and reading what both
  wrote. The file of `MemoryIndex` takes two flushes of 40 bytes and two
  reads of 4 entries; with 0 to 4 entries left the last read is short, or empty.

No run uses symmetry. Deadlock is not checked: every program ends.

## 4. Fairness

Weak fairness of the steps of one program is all that is assumed: `MainFairSpec`,
`SoundFairSpec` and the `FairSpec` of `PrototypeMain` state it for all steps
of a started program, `QueryFairSpec` for the query but not for `Grow`. A started
process is run by the operating system, and none of these steps waits for another process.
`BuildFairSpec` states it for both ends of the pipe, the reader and the writer,
which are two processes that are both scheduled. That an invocation is started, a
call made, or a file grows is never assumed. No liveness is stated where a
program may rightly wait for its user (`SqliteIndex`) or be killed.

* `QueryEnds`: the file has a bound on its size (`MaxTotal`); one that grows for
  ever is never scanned to its end, which is as in the code. Its premise is that the query
  does not come oddly from stdin; a query that is missing or too short crashes, which is an end.
* `BuildEnds` has the premise that the pipe supplies what the header announces, and
  allows a reader of a torn header to wait. Without them `wavStdinReader` never
  leaves its loop: `read` answers 0 and is called again.
* `ProgramEnds` excepts `ismir_impl` in `readDBFromDisk` with no file, or with a
  name with a blank: `eof` never comes.

## 5. Proofs

All theorems are proved for every value of the constants under the assumptions
the modules name, without the bounds of the runs.

`FingerprintDbProofs`
* `TypeCorrect` (`TypeOK`). `TypeOK` is inductive: its part `WriterOK` ties a
  writer's place to its job, so that a merge reads only inputs it was given.
  What the loop over the catalogue reads is a fold over its lines; what is said of
  it (its type, where its ids and names are from, that names without blanks
  are read as written) is carried along the lines by the least one for which it would not hold.
* `InsertionsAreKept` (`NothingLost`), for any writers, merges and kills. The
  inductive invariant `LostInv` adds `WriteInv`: what an insertion has written
  so far is in the file *or in its buffer*, and in the file once the stream is
  closed. The step for other writers rests on `FilesGrow`: no action shortens or
  changes a file.
* `EntriesAreCovered` (`EndsCovered`) if there are no merges; with a merge it is
  false (section 7). `CoverInv` adds `StreamInv`: the offset a stream knows of is
  within the file, and so is the end taken from it.
* `EntriesOwnSuffix` (`OwnSuffix`): one process that inserts, killed at any
  point, any number of times; any names but those that are numbers. Merges are excluded (`MergeJobs = {}`): a
  kill between the lines of a merge and its fingerprints breaks the property
  (section 7). In `KilledInv`, `WrittenInv` says that the fingerprints of the
  current insertion are the last of its file *together with its buffer*, so that
  pieces left behind by kills lie before them, and `NamedInFile` that every line
  of the catalogue is about fingerprints that are in the file already.
* `EveryPositionAttributed` (`Attribution`), `SnapshotsStayTrue` (`SnapshotTrue`)
  and `IndexImplemented` (`AddsWholeTracks`, the refinement of `IndexSpec`) for
  one process that inserts and merges, one operation after another. Their
  hypothesis is `Serial(w)`: one writer that is not killed, databases of the
  present directory, tracks with a fingerprint and a name that is read as it is written. Each
  part is needed: without it the code does otherwise, as section 7 says of the
  catalogue line that is lost, of the track that replaces the one before it, and
  of names with blanks. Two writers, or a kill, break `Attribution` because `end`
  is what one writer saw (`EndsCovered` and `OwnSuffix` are what remains). `SerialInv`
  adds that the lines of a catalogue are in the order of their ends and leave
  nothing out (`Chain`), how far file and buffer are ahead of the catalogue in each
  state of an invocation (`PlaceInv`), and that a loaded catalogue is the
  beginning of the one on disk (`SnapInv`). The refinement maps the lines to the
  tracks of the abstract index: only the steps that write a line change it, by one track.

`QueryScanProofs`: `TypeCorrect`, `StreamUnbroken` (`BufferIsStream`),
`DriftBounded` (`PosDrift`), `NothingPassedOver` (`NoGap`), `WindowsExist`
(`WindowExists`) and the action property `MatchesAreApart` (`MatchesApart`).
The invariant says how a block is left (`BlockInv`), what is in the buffer
between blocks (`BufferInv`), by how much `pos` is ahead (`DriftInv`), where the
previous match is in relation to the block (`MatchInv`) and to the last comparison (`GapInv`).
`QueryScans` shows that `QuerySpec`, the program with its options and its
catalogue, implies the scan's `Spec`, and `QueryScansWell` that the four
properties of the run hold of it.
`TrackIsRight` (`RightTrack`) adds what is printed: the track that `lower_bound`
finds for `pos` is compared with the track of the place, which is at most the drift
before it. It rests on the drift, on the rounding of two divisions, and on
`EndsInv`: an entry of the loaded catalogue names itself. The catalogue has any
number of tracks with any ends; `EndsAssumption` keeps names with blanks out of this module.
All of it holds of queries that are too short as well, whose comparisons have any outcome.

`CompareMainProofs`, about the loop: `TypeCorrect`, `VerdictIsExact`
(`VerdictExact`) and `FailureNamesLast` (`FailureIsLast`). The code keeps one
flag, one offset and one failure; the invariant says what they mean for the
sequence of compared blocks. About the program with its options: `MainVerdict`
(`VerdictExact`), `SuccessHasLooked` (`SuccessLooked`) and `BlocksFit`
(`BlocksComparable`), all safety properties of that run. `MainInv` adds to the
invariant above how far both files have been looked at in and after the loop
(`LookInv`), that files of the same length are read in step (`InStep`), and what
each stage has tested (`StageInv`). A block size of 0 leaves the loop without
`LookInv`; the theorem says of it that the minimum still has its initial value. Nor is
anything said of how much was looked at of files of different lengths without
padding: they end with 0 when the shorter has less than half a block left, which may be at once.

`WavFileProofs`, about the stream alone: `TypeCorrect`, `SamplesAreExact`
(`ExactSamples`), `AtMostOneExtra` (`OneExtra`), `ShortMeansEnd` (`ShortIsEnd`).
The invariant relates the buffer to the place in the file (`BufferInv`) and the
sample being put together to the samples delivered (`FrameInv`).
About files with a header: `FileSamplesAreExact`, `FileShortMeansEnd`,
`HeaderIsTrue` (`HeaderTrue`), `AnnouncedIsDelivered` (`AnnouncedDelivered`)
and `ReadersDoAgree` (`ReadersAgree`), all safety properties of that run,
from `FilesAssumption`, which gives the fields of a file
the numbers that fit into their bytes, and orders the bounds as in the code: any window
below `IntMax`, any size, any number of channels. `HeaderTrue` and
`AnnouncedDelivered` are of `Regular` files: for others, whose numbers are negative or whose
fmt chunk is longer than the buffer, they do not hold (section 7). The
invariant joins that of the stream to what the constructor found (`OpenInv`);
`RegularPopulates` shows that the search finds exactly the data chunk, `Small` that
the conversions leave a regular file's numbers as they are, and
`SamplesOfBytes` that the two divisions of the code are the division by the
size of a frame.

`SoundProofs`: `ReportsWithinHaystack` (`ResultsInside`), `OverrunExplained`
(`OverrunCause`) and `FoundAcrossParts` (`PrintedAcross`), all safety properties
of that run, and `TypeCorrect` of `match`. `PieceInv` says which samples the
parts correlated so far are of, `RecordInv` that the records of the parts with the
needle say where it is, `PairInv` that a needle across two parts is among the
results once their pair has been looked at, and `MainInv` that a program which
ends with 0 has printed all of them. That a position lies in the haystack rests
on the test of the sum of two overlaps; that nothing is found twice
the needle's length apart is not claimed, nor is that every needle is found (section 6).

The log, in the same module: `LogIsComplete` (`LogComplete`), for any arguments, files and
sizes of both buffers. A change of the print level would move characters
that are still buffered to the other side of the level; `LineInv` says why it does
not: what is queued ends with `endl`, and the buffer is empty when the queue
is. `InputsAssumption` says that the length of an identifier is a number and samples are integers.

The search of `OverlapAnalysis`: `OverlapIsBest` is `BestOverlap` for files of any content and
length, with `TransformsAgree` as its hypothesis: whatever the transforms do, if `xcorr_new` returns
the sums of products around the circle (`Rotated`), the report is the best place.
The hypothesis is what the run checks; it cannot be proved here (below). `RotatedIs`
shows that around the circle half of the products vanish and the others are
those of `Common`, `EnergyIs` that `computeNormFactor` is the energy of both parts at each
place, although it takes the squares from different ends of the two prefix sums, and
`CommonBounded` that a common part is at most half of it, so that the test against 1
never passes over a place. `SearchInv` carries the best so far (`Best`) through the
loop; `PlaceLooked` is one place more. A file with an energy of 0 has nothing in common anywhere.

`IndexingProofs`, about `BuildIndex`: `SameEitherWayHolds` (`SameEitherWay`), for any function as
energy, any sizes of frame and pipe, and any recordings of the types
`RecordingsAssumption` names; a list may name stdin only as its last entry, which
is the bound of the module. Its premise on a recording from stdin is that each of the two reads of
the header delivered its whole field; what stands behind may come in any pieces.
`ReaderInv` says that the loop over `read` is then left with all bytes,
`SampledInv` that the samples of a whole recording are then its sound
(`WholeParsed`: what is computed from the place and size of the data are its frames
again), `FramesInv` what has been put out after each frame, and `FramesAreFirst`
that the loop's condition selects the first frames. `ExcerptsAreFound`
(`ExcerptFound`): the frames of an excerpt are frames of the recording, so are
all of its fingerprints but the first, which has no frame before it; the early test does not
give the place up, and the sum of the differences is 0.

About `SqliteIndex`: `RowsStayWhole` (`RowsWhole`), for any files and names, any
number of starts and kills. `FileInv` says what the open transaction has and
which id the file being inserted has (`IdOf`: that of a name it matches, 0 if its name is
quoted, anything if a statement about a file has failed); `LikeAssumption` is that a name as a
pattern matches itself, `SoundsAssumption` that a file has as many slices as reach beyond
its samples. `RowsInv` needs that `FlattenSeq` of a longer
sequence appends (`FlattenAppend`). Its recursive function is shown to exist and
to be unique by the least number for which it would not
(`FlattenExists`, `FlattenUnique`), which takes the place of an induction.
`MatchesAreSupported` (`MatchSupported`): in `AnswerInv` the hits of a file that is
still to be counted are its own, one hit more may be in its histogram, the first of the
next file, and each match is backed by the hits it needs but that one. Of the last file that is
hit nothing is claimed: its range goes on behind the vector over any number of stale pairs.
`MatchesAreFound` (`MatchFound`) goes the other way: `AnswerInv` also says that a difference with one hit more
than is needed is told or its file is still to be counted, and `PlacesInv` says where in the
table the rows of each insertion are, so that two agreeing fingerprints are two hits.
`HitsAssumption` asks for a threshold and a distance above 0; the program's are constants, 8 and 50000
(`lets_try_again.cpp:160`, `:166`). What is answered does not depend on the order in which the database gives its rows.

`PrototypeProofs`, for any calls, files and bounds of both programs:
`PlacesAreTold` (`PlaceTold`) and `ImplGrows` (`ImplAddsWholeTracks`, the refinement of
`IndexSpec`) of `ismir_impl`. `ImplInv` says what the vector and the map of ends
say of each other (`Layout`), that the lines of the catalogue follow one another to the
end of the file (`Chain`), and how far the file is ahead of the catalogue while the
lines are written (`WritingInv`). Only the step that writes a line changes what the
refinement maps to. `LoadsWhatWasStored` (`LoadedIsStored`) and `AnswersAreExact` (`AnswerExact`) of
`test_my_fingerprint`. In `MemInv` the file, the buffer and what is still to
be put into it are together what was to be stored (`Contents`); what has been read of it is in the maps, the
last bucket perhaps half (`HalfRead`, `Upto`); the slices of the
files and no others are indexed, each bucket in order (`Indexes`); and the matches are what
the comparisons so far have come to (`Answering`). Two numbers are packed into 64 bits; that they
come apart again is `SlicesAssumption`, which holds because the size of a WAV file has 32
bits, and `Shift % Mask = 0` of `MemoryAssumption`, true of the code's 2^40 and
2^36. `NamesAssumption` gives names a length; `CallsAssumption` types of arguments: a list of files,
and that `ismir_impl` has no `loadFromDisk`.

`FoldLemmas`: that what `MapThenFoldSet`, `FoldLeft` and `FlattenSeq` are defined by exists and is
unique, for finite sets and sequences, by the least counterexample (`FoldExists`,
`BuiltUp`, `FlattenExists`); then what they give: `NumbersFold` and `FoldSteps` for a
fold over `1..n`, the sum of integers in any order (`AnyOrder`) and its
parts (`RunningPart`, `RunningUp`, `RunningBetween`), the places of a concatenation (`FlattenPlaces`).

`TypeOK` of four modules, `WindowExists`, `FailureIsLast` and `OneExtra` are
proved and not checked by a run of their own.

Only model-checked, and why:
* all liveness (`QueryEnds`, `BuildEnds`, `MainEnds`, `SoundEnds`,
  `ProgramEnds`): fairness and ENABLED are beyond the prover;
* what folds and recursive functions compute over data, for which the induction
  theorems of the library cannot be instantiated, where the argument by a least counterexample does not
  help either: `TransformsAgree`, the recursion of the transform and the
  identities of sums over roots of unity. `BestOverlap` is proved from it, and from nothing else.

## 6. What the violated run shows

`sound-match` looks at its records only in pairs of neighbours (`sound_match.cpp:160`).
In the trace the haystack is one part and the needle is all of it: both records of that
part cover the whole needle, there is no pair, and nothing is reported. `ABOUT.md:11`
has no such exception. In longer haystacks, which the trace does not show, a needle at a multiple of its own
length is missed too: the begin record of its part covers all of it, and with any end
record of the next the sum is too long (`:164`); and so is one that ends in the last, incomplete part.

## 7. Further divergences met while modelling

These have no run of their own.

The index:
* `insert` writes `"map_" + dbFilename` (`fingerprint_db.cc:44`); `open` and
  `merge` look beside the database (`getMapFile`). For `dir/a` the catalogue is
  opened in a directory `map_dir` that does not exist, the line is lost, and no error is reported.
* `merge` flushes every line of the catalogue (`std::endl`) while fingerprints
  are written when a buffer is full, or at the end: a query or a kill in between
  finds entries beyond the file.
* `checkNearPos` takes the file position `pos` for the candidate's, which lies
  `macro_sz` before it: near the ends of a block the window begins too late
  (`fingerprint_db.cc:132`). `fullCheck` never tries the last offset of its window.
* A name with white space ends the catalogue where its second word is taken for a
  number (`fingerprint_db.cc:178`). Behind an empty name (`-i -` without `-n`) the number of the next
  line is taken for a name and its name for a number; if that is empty too, the loop goes on
  with the line after it. `ReadMap` models it, and `OwnSuffix` shows that what is still read ends
  with its track, though its name may be a word or a number.
* A query that is missing, no wav file, or too short crashes `ismir_query`
  (`fingerprint_db.cc:218`, `:77`), unless what is read behind it happens to be there.
* A track without fingerprints has the same `end` as its predecessor and
  replaces it in `idToFile` (`fingerprint_db.cc:179`).
* A match behind the last entry a query knows of dereferences `end()`
  (`fingerprint_db.cc:270`); as `pos` runs ahead, that may be a match within the
  drift before it. `IsmirQuery` prints `Unknown` there, and `RightTrack` says when.
* The conversion of files that are not wav runs after the file was to be read
  (`fingerprint_strategy_ismir.cc`), and `--name` has an effect only with standard input.

waveform-compare:
* With no block compared it reports a similarity of 2
  (`waveform-compare.cpp:246`, `:383`) where `ABOUT.md` promises a number from 0 to 1.
* The offset it prints is that of the first compared block (`:382`), also when
  the minimum came from another.
* Files of different lengths succeed if what was compared agrees (`:277`); the
  man page asks for the same length.
* Unequal last blocks without padding index one block by the other's size
  (`:195`, `:199`, `:315`); `BlocksComparable` states when this cannot happen.
* The help text says block size 5 and threshold 0.98 where the defaults are 1 and 0.97.

Reading:
* A size in a header is read as a signed number and becomes a `size_t`: a data chunk of 2^31 bytes or more is
  announced with a huge number of samples (`AudioFile.cpp:129`). A fmt chunk
  of more than 1024 bytes is read into a buffer of 1024 (`:107`), and the search of fewer than 8 bytes runs far beyond it (`:121`).
* A read of the header from stdin that is short is noticed and ignored
  (`wavStdinReader.cc:13`, `:18`): everything behind it is displaced, and the loop at `:24` may wait for ever.
* `AudioStream` makes up a sample from old bytes when data end with the buffer:
  `feof` is set only by a short `fread`. `AnnouncedDelivered` bounds it by one sample.
* The constructor of `logstream` does not set `level`; the only instance is a
  global, so it is 0. The uninitialised halves of overlap-analysis' arrays are read; `Pads`
  gives them values, and `BestOverlap` holds only if the memory happens to be zero.
* overlap-analysis takes the header for 44 bytes, ignores the number of
  channels, prints identifiers without an end, and passes over places without energy.
* sound-match divides by the length of an empty needle, and takes the samples of
  a mono needle four bytes apart, so of every second one.

The earlier programs:
* `ismir_impl` tells a match at the first fingerprint of a track as the end of the track
  before (`lower_bound` of a position counted from 0); a vector shorter than the
  query makes the limit of the loop wrap (`ismir_impl.cc:190`); the last alignment is
  not tried; a missing file, or a blank in a name, is waited for without end (`:77`).
* The first two bands of `my_fingerprint` take the same bits (`:80`);
  `find_peak` asserts that a quotient does not exceed 1, which rounding or silence breaks,
  and returns nothing if none is positive; `loadFromDisk` reads names without their end;
  for a query under two and a half seconds memory behind it is read.
* In `lets_try_again` a fingerprint of 2^31 or more is stored as a negative number and never found;
  the histogram of a file takes the first hit of the next one, and that of the last file whatever pairs lie
  behind the vector and have its id (`lets_try_again.cpp:143`); a name with an apostrophe has no statement and gets the id 0, and a failed
  insertion the id of another row (`db_wrapper_sqlite.cpp:192`, `:216`); `like` does not tell
  upper from lower case and takes `_` and `%` in a name for any characters, so a file may be
  filed under another's name (`db_wrapper_sqlite.cpp:184`); at the end of its input the program asks for ever.

## 8. Plan

Done, in this order: index and catalogue; scan; waveform-compare; AudioStream;
sound-match; their proofs; then the programs around them (`IsmirQuery`,
`BuildIndex`, `CompareMain`, `SoundMain`), `WavFile`, `StdinReader`,
`Fingerprints`, `Hamming`, `OverlapAnalysis` with `LogStream` and `Transform`,
`SqliteIndex`, and the two prototypes.

Proved since, in this order: `AudioStream` and `WavFile`, `CompareMain`, `SoundMatch`
with `SoundMain`, the serial index and its refinement, the log, the report
of `IsmirQuery`, the two ways into `BuildIndex`, the tables of `SqliteIndex`; then
`IsmirImpl` and its refinement, the excerpts, the answers of `SqliteIndex`, the in-memory
prototype, and the search of overlap-analysis. Each safety property and action property that a passing run
checks is now stated by a theorem, except `TransformsAgree`, which one of them assumes.

Not modelled, and why:
* `revindex.cc`, `most_significant.cpp`, `sig_freqs.cc`: experiments in no target of
  the build that print figures of a spectrum and keep no state;
* `fingerprint_stream.cc`: an earlier copy of the strategy that is modelled;
  `fingerprint_strategy_chroma.cc` is never called; `fingerprint.h` is used by `testfingerprint.cpp` only;
* rounding of floating-point numbers, and the values of spectra, norms and correlations outside `OverlapAnalysis`;
* the wording of help, version and report; files that grow or shrink while
  `AudioFile` reads them; writes to files that fail: the programs of the index,
  overlap-analysis and the prototypes do not look at the state of their streams, so a disk that is full has no
  step of theirs to model. Only `db_wrapper` tests its statements (`db_wrapper_sqlite.cpp:111`, `:211`), prints a
  message and goes on, which is modelled (`FailRow`, `FailFile`);
* an insertion into an input of a running merge: nothing prevents it, and the
  output then has entries for fingerprints it lacks.
