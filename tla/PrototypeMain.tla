--------------------------- MODULE PrototypeMain ---------------------------
(***************************************************************************)
(* The two programs from which the audio index was developed, ismir_impl   *)
(* (module IsmirImpl) and test_my_fingerprint (module MemoryIndex).  Both  *)
(* are called with the number of files to insert, the number of queries,   *)
(* and the names of both; they insert, write what they have to a file, and *)
(* then answer the queries.  ismir_impl reads its files when it has        *)
(* nothing to insert; a call of loadFromDisk that stands in a comment of   *)
(* test_my_fingerprint is taken as an alternative (load).                  *)
(***************************************************************************)
EXTENDS MemoryIndex, IsmirImpl

CONSTANTS
    Calls,    \* [program, load, db, queries] of the calls considered
    MaxRuns   \* bound: calls

ASSUME CallsAssumption ==
    \A c \in Calls :
        /\ c.db \in Seq(STRING)
        /\ c.program = "ismir_impl" => ~c.load /\ c.queries \in Seq(Nat)

VARIABLES
    call,     \* the present one
    stage,    \* where it is
    todo,     \* files still to be inserted
    left,     \* queries still to be answered
    runs      \* calls so far

mainVars == <<call, stage, todo, left, runs>>
vars == <<mainVars, memoryVars, implVars>>

Ended  == {"stopped", "crash"}
NoCall == [program |-> "none", load |-> FALSE, db |-> << >>, queries |-> << >>]

Init ==
    /\ MemoryInit /\ ImplInit
    /\ call = NoCall /\ stage = "stopped" /\ todo = << >> /\ left = << >> /\ runs = 0

Impl == call.program = "ismir_impl"
Test == call.program = "test_my_fingerprint"

Go(to) == stage' = to

Start ==
    /\ stage \in Ended /\ runs < MaxRuns
    /\ runs' = runs + 1
    /\ call' \in Calls /\ todo' = call'.db /\ left' = call'.queries
    /\ Go(IF call'.load THEN "load" ELSE "insert")
    /\ MemoryLost /\ ImplLost

-----------------------------------------------------------------------------
ImplInsert ==
    /\ Impl /\ stage = "insert" /\ todo # << >> /\ Head(todo) \in Tracks
    /\ ImplInsertFile(Head(todo))
    /\ todo' = Tail(todo)
    /\ UNCHANGED <<call, stage, left, runs, memoryVars>>

TestInsert ==
    /\ Test /\ stage = "insert" /\ todo # << >> /\ Head(todo) \in DOMAIN Slices
    /\ InsertFile(Head(todo))
    /\ todo' = Tail(todo)
    /\ UNCHANGED <<call, stage, left, runs, implVars>>

\* AudioFile's fopen gives nothing to read from.
Missing ==
    /\ stage = "insert" /\ todo # << >>
    /\ Head(todo) \notin (IF Impl THEN Tracks ELSE DOMAIN Slices)
    /\ Go("crash")
    /\ UNCHANGED <<call, todo, left, runs, memoryVars, implVars>>

ImplStore ==
    /\ Impl /\ stage = "insert" /\ todo = << >>
    /\ IF call.db # << >> THEN Go("write") /\ WriteVector
                          ELSE Go("read") /\ UNCHANGED implVars
    /\ UNCHANGED <<call, todo, left, runs, memoryVars>>

ImplWrite ==
    /\ Impl /\ stage = "write"
    /\ \/ WriteLine /\ UNCHANGED stage
       \/ lines = {} /\ Go("query") /\ UNCHANGED implVars
    /\ UNCHANGED <<call, todo, left, runs, memoryVars>>

ImplRead ==
    /\ Impl /\ stage = "read"
    /\ ReadDB
    /\ Go("query")
    /\ UNCHANGED <<call, todo, left, runs, memoryVars>>

TestStore ==
    /\ Test /\ stage \in {"insert", "loaded"} /\ todo = << >>
    /\ WriteStart
    /\ Go("write")
    /\ UNCHANGED <<call, todo, left, runs, implVars>>

TestWrite ==
    /\ Test /\ stage = "write"
    /\ \/ WriteGroup /\ UNCHANGED stage
       \/ WriteEnd /\ Go("query")
    /\ UNCHANGED <<call, todo, left, runs, implVars>>

TestLoad ==
    /\ Test
    /\ \/ stage = "load" /\ LoadHeader /\ Go("blocks")
       \/ stage = "load" /\ disk = NoDisk /\ Go("crash") /\ UNCHANGED memoryVars
       \/ stage = "blocks" /\ LoadBlocks /\ Go(IF Len(groups) < Blocks THEN "loaded" ELSE "blocks")
       \/ stage = "loaded" /\ todo # << >> /\ Go("insert") /\ UNCHANGED memoryVars
    /\ UNCHANGED <<call, todo, left, runs, implVars>>

-----------------------------------------------------------------------------
ImplQuery ==
    /\ Impl /\ stage = "query" /\ left # << >>
    /\ QueryStart(Head(left))
    /\ left' = Tail(left)
    /\ Go("scan")
    /\ UNCHANGED <<call, todo, runs, memoryVars>>

ImplScan ==
    /\ Impl /\ stage = "scan"
    /\ \/ \E dist \in Distances : QueryPlace(dist) /\ UNCHANGED stage
       \/ QueryBest /\ Go("query")
       \/ QueryFatal /\ Go("crash") /\ UNCHANGED implVars
    /\ UNCHANGED <<call, todo, left, runs, memoryVars>>

\* A query that is too short is read beyond its end, whatever is there.
TestQuery ==
    /\ Test /\ stage \in {"query", "answered"} /\ left # << >>
    /\ \/ Head(left) # Nothing /\ Retrieve(Head(left)) /\ Go("compare")
       \/ Head(left) = Nothing /\ Go("compare") /\
          \E name \in DOMAIN Slices : \E k \in DOMAIN Slices[name] : Retrieve(Slices[name][k])
       \/ Head(left) = Nothing /\ Go("crash") /\ UNCHANGED memoryVars
    /\ left' = Tail(left)
    /\ UNCHANGED <<call, todo, runs, implVars>>

\* The results are printed.
TestCompare ==
    /\ Test /\ stage = "compare"
    /\ \/ Candidate /\ UNCHANGED stage
       \/ CandidateFatal /\ Go("crash") /\ UNCHANGED memoryVars
       \/ cands = << >> /\ Go("answered") /\ UNCHANGED memoryVars
    /\ UNCHANGED <<call, todo, left, runs, implVars>>

Return ==
    /\ stage \in {"query", "answered"} /\ left = << >>
    /\ Go("stopped")
    /\ UNCHANGED <<call, todo, left, runs, memoryVars, implVars>>

Step ==
    \/ ImplInsert \/ TestInsert \/ Missing \/ ImplStore \/ ImplWrite \/ ImplRead \/ TestStore
    \/ TestWrite \/ TestLoad \/ ImplQuery \/ ImplScan \/ TestQuery \/ TestCompare \/ Return

Next == Start \/ Step

Spec == Init /\ [][Next]_vars

\* A process that has been started is scheduled.
FairSpec == Spec /\ WF_vars(Step)

-----------------------------------------------------------------------------
(* Properties.                                                             *)

\* What string_ismir.bin and its catalogue hold is an index that has grown by
\* whole tracks, also over several calls of ismir_impl: every line of the
\* catalogue adds one with all its fingerprints.
Grown == INSTANCE IndexSpec WITH
    Dbs <- {"string_ismir"},
    tracks <- [d \in {"string_ismir"} |-> [k \in DOMAIN map |-> map[k].name]],
    stream <- [d \in {"string_ismir"} |->
                  SubSeq(string, 1, IF map = << >> THEN 0 ELSE Last(map).end)]

ImplAddsWholeTracks == Grown!Spec

\* What ismir_impl prints of a place is the track that the fingerprint there
\* belongs to and its number in it, or, for the first fingerprint of a track,
\* the track before it and that one's length; also when the vector was read
\* from files which several calls have written.  The best match is a place
\* printed in this way, or the end of the vector when no distance is below the
\* query's length.
PlaceTold ==
    told # Untold =>
        LET s == told.sample IN
        /\ told.name \in Tracks
        /\ \/ told.at < Len(vec) /\ vec[told.at + 1] = <<told.name, s + 1>>
           \/ s = FpCount[told.name] /\ (s = 0 \/ vec[told.at] = <<told.name, s>>)
        /\ stage = "query" => told.at = Len(vec) \/ told.dist < size

\* Files that can be opened, and every place where the slice of the file that was
\* inserted has the fingerprint of the one asked for
Readable == {f \in DOMAIN files : files[f] \in DOMAIN Slices}

SlicesAlike(name) == {k \in DOMAIN Slices[name] : Fingerprint(Slices[name][k]) = Fingerprint(asked)}

Alike ==
    UNION {{Shift * (f - 1) + Jump * (k - 1) : k \in SlicesAlike(files[f])} : f \in Readable}

\* The answer of test_my_fingerprint: each match is a place that sounds alike,
\* any two are more than two seconds apart, and each place that certainly sounds
\* alike is within two seconds of a match; when all files were inserted by this
\* call, what is printed is the file and the sample.
AnswerExact ==
    stage = "answered" =>
        /\ \A m \in DOMAIN matches :
              /\ matches[m] \in Alike /\ "high" \in Compare(SliceAt(matches[m]), asked)
              /\ \A n \in 1 .. m - 1 : Distance(matches[n], matches[m]) > TwoSeconds
              /\ ~call.load =>
                    Printed(call.db)[m] =
                        [name |-> files[FileOf(matches[m]) + 1], sample |-> SampleOf(matches[m])]
        /\ \A index \in Alike :
              Compare(SliceAt(index), asked) = {"high"} =>
                  \E m \in DOMAIN matches : Distance(matches[m], index) <= TwoSeconds

\* What loadFromDisk finds is what writeToDisk wrote, whatever the sizes of
\* their buffers: the same buckets, each in its order, and as many files, whose
\* names may be longer than they were.
LoadedIsStored ==
    stage = "loaded" =>
        /\ table = kept.table
        /\ Len(files) = Len(kept.files)
        /\ \A k \in DOMAIN files : files[k] \in {kept.files[k], Garbled}

\* A call ends, unless it is one of ismir_impl that waits for the end of a file
\* which is not there, or behind a name with a blank in it.
ProgramEnds == stage \notin Ended ~> stage \in Ended \/ (Impl /\ stage = "read" /\ NeverEof)
=============================================================================
