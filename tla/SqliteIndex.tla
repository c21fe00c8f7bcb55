---------------------------- MODULE SqliteIndex ----------------------------
(***************************************************************************)
(* The earlier index: lets_try_again puts the fingerprints of audio files  *)
(* into two tables of an SQLite database (db_wrapper) and then answers     *)
(* queries with the places where most of a query's fingerprints lie at one *)
(* distance.                                                               *)
(*                                                                         *)
(* A file is the sequence of its slices' fingerprints, an offset a number  *)
(* of slices.  The last slices reach beyond the samples: their             *)
(* fingerprints may be anything.  The tables are those of a database file: *)
(* a process that is killed leaves what was committed.  A statement that   *)
(* fails is not noticed, and may have given or left any number.            *)
(***************************************************************************)
EXTENDS Integers, FiniteSets, Sequences, FiniteSetsExt, SequencesExt

CONSTANTS
    Sounds,       \* the files there are: name |-> fingerprints
    Like,         \* <<p, n>>: as a pattern for SQL's "like", p matches n
    Quoted,       \* the names with an apostrophe: of them no statement can be made
    Stray,        \* fingerprints that the slices beyond the samples may get
    Half,         \* 2^31
    Beyond,       \* slices that reach beyond the samples
    MinHits,      \* 8
    Near,         \* 50000, in slices
    Unread,       \* distances that pairs behind the vector of hits may have
    MaxStale,     \* bound: such pairs that have the id of the last file
    Starts,       \* sequences of files that the program may be started with
    MaxRuns       \* bound: times the program is started

ASSUME PrintsAssumption == Half \in Nat /\ Stray \subseteq 0 .. 2 * Half - 1
\* A name matches itself, also when it has characters with a meaning in patterns.
ASSUME LikeAssumption == \A name \in DOMAIN Sounds : <<name, name>> \in Like
ASSUME SoundsAssumption ==
    /\ Beyond \in Nat
    /\ \A name \in DOMAIN Sounds : Sounds[name] \in Seq(Nat) /\ Beyond <= Len(Sounds[name])
    /\ Starts \subseteq Seq(DOMAIN Sounds)
ASSUME HitsAssumption == MinHits \in Nat \ {0} /\ Near \in Nat \ {0}
ASSUME StaleAssumption == Unread \subseteq Int /\ MaxStale \in Nat

VARIABLES
    names,      \* table files: the fileId is the place in the sequence
    rows,       \* table fingerprints, as committed
    batch,      \* rows of the open transaction
    data, i,    \* bulk_insert's argument, and the rows it has handled
    runs, pc, args,
    fileId,
    lastRow,    \* sqlite3_last_insert_rowid of this connection
    asked,      \* the query
    hits,       \* results of a query: for each file, the distance of each hit
    taken,      \* the hit that the previous file took, if it did
    matches,
    stored,     \* history: the insertions that were committed
    failed      \* history: the statements that failed, of a file or of a row

vars == <<names, rows, batch, data, i, runs, pc, args, fileId, lastRow, asked, hits, taken, matches, stored, failed>>

Names == DOMAIN Sounds

NoHits == [f \in {} |-> {}]

Init ==
    /\ names = << >> /\ rows = << >> /\ batch = << >> /\ data = << >> /\ i = 0
    /\ runs = 0 /\ pc = "stopped" /\ args = << >> /\ fileId = 0 /\ lastRow = 0
    /\ asked = << >> /\ hits = NoHits /\ taken = {} /\ matches = << >>
    /\ stored = << >> /\ failed = {}

\* What the program computes for a file when it reads it
ReadOf(name) ==
    LET known == Len(Sounds[name]) - Beyond IN
    {SubSeq(Sounds[name], 1, known) \o beyond : beyond \in [1..Beyond -> Stray]}

Start ==
    /\ pc = "stopped" /\ runs < MaxRuns
    /\ runs' = runs + 1
    /\ args' \in Starts
    /\ pc' = "file" /\ lastRow' = 0
    /\ UNCHANGED <<names, rows, batch, data, i, fileId, asked, hits, taken, matches, stored, failed>>

\* The files that the select finds
Same(name) == {f \in DOMAIN names : <<name, names[f]>> \in Like}

KnownFile(name) ==
    /\ name \notin Quoted /\ Same(name) # {}
    /\ fileId' = Min(Same(name))
    /\ UNCHANGED <<names, lastRow, failed>>

NewFile(name) ==
    /\ name \notin Quoted /\ Same(name) = {}
    /\ names' = Append(names, name)
    /\ fileId' = Len(names') /\ lastRow' = fileId'
    /\ UNCHANGED failed

\* A select that is no statement is "not done": there is a file, with the id 0.
NoStatement(name) ==
    /\ name \in Quoted
    /\ fileId' = 0
    /\ UNCHANGED <<names, lastRow, failed>>

\* The select fails, which is like a file that is found; or nothing is found and
\* the insertion fails, and the id is that of the last row of whichever table.
FailFile(name) ==
    /\ name \notin Quoted /\ "file" \notin failed
    /\ fileId' \in {0} \union {n \in {lastRow} : Same(name) = {}}
    /\ failed' = failed \union {"file"}
    /\ UNCHANGED <<names, lastRow>>

\* db_wrapper::insert_file: the first file with such a name, or a new one
InsertFile(name) == KnownFile(name) \/ NewFile(name) \/ NoStatement(name) \/ FailFile(name)

NextFile ==
    /\ pc = "file" /\ args # << >>
    /\ InsertFile(Head(args))
    /\ pc' = "fingerprints"
    /\ UNCHANGED <<rows, batch, data, i, runs, args, asked, hits, taken, matches, stored>>

\* insert_file of the program, up to the transaction
ReadFile ==
    /\ pc = "fingerprints"
    /\ \E prints \in ReadOf(Head(args)) :
          data' = [k \in DOMAIN prints |-> [fp |-> prints[k], offset |-> k - 1, file |-> fileId]]
    /\ batch' = << >> /\ i' = 0
    /\ pc' = "bulk"
    /\ UNCHANGED <<names, rows, runs, args, fileId, lastRow, asked, hits, taken, matches, stored, failed>>

\* sqlite3_bind_int takes a signed number of 32 bits.
Bound(n) == IF n < Half THEN n ELSE n - 2 * Half

\* Mutant: each row is committed at once.
InsertRowAtOnce ==
    /\ pc = "bulk" /\ i < Len(data)
    /\ rows' = Append(rows, [data[i + 1] EXCEPT !.fp = Bound(@)])
    /\ lastRow' = Len(rows')
    /\ i' = i + 1
    /\ UNCHANGED <<names, batch, data, runs, pc, args, fileId, asked, hits, taken, matches, stored, failed>>

InsertRow ==
    /\ pc = "bulk" /\ i < Len(data)
    /\ batch' = Append(batch, [data[i + 1] EXCEPT !.fp = Bound(@)])
    /\ lastRow' = Len(rows) + Len(batch')
    /\ i' = i + 1
    /\ UNCHANGED <<names, rows, data, runs, pc, args, fileId, asked, hits, taken, matches, stored, failed>>

\* A message is printed, and the loop goes on.
FailRow ==
    /\ pc = "bulk" /\ i < Len(data) /\ "row" \notin failed
    /\ failed' = failed \union {"row"}
    /\ i' = i + 1
    /\ UNCHANGED <<names, rows, batch, data, runs, pc, args, fileId, lastRow, asked, hits, taken, matches, stored>>

EndTransaction ==
    /\ pc = "bulk" /\ i >= Len(data)
    /\ rows' = rows \o batch
    /\ batch' = << >>
    /\ stored' = Append(stored, [name |-> Head(args), data |-> data])
    /\ args' = Tail(args)
    /\ pc' = "file"
    /\ UNCHANGED <<names, data, i, runs, fileId, lastRow, asked, hits, taken, matches, failed>>

Prompt ==
    /\ pc = "file" /\ args = << >>
    /\ pc' \in {"prompt", "stopped"}                           \* mode "b" only builds
    /\ UNCHANGED <<names, rows, batch, data, i, runs, args, fileId, lastRow, asked, hits, taken, matches, stored, failed>>

\* "exit"; at the end of the input the loop goes on asking.
Quit ==
    /\ pc = "prompt"
    /\ pc' \in {"stopped", "asking for ever"}
    /\ UNCHANGED <<names, rows, batch, data, i, runs, args, fileId, lastRow, asked, hits, taken, matches, stored, failed>>

Found(prints, u) == {r \in DOMAIN rows : rows[r].fp = prints[u]}

\* The hits of a file, each a slice of the query and a row, and how far the row is
\* behind the slice
Distances(prints, f) ==
    LET of == {p \in (DOMAIN prints) \X (DOMAIN rows) :
                  p[2] \in Found(prints, p[1]) /\ rows[p[2]].file = f}
    IN  [p \in of |-> rows[p[2]].offset - (p[1] - 1)]

\* query(): the database is asked for each slice, and the answers are sorted by
\* their files; those of one file come in any order.
Query ==
    /\ pc = "prompt"
    /\ \E name \in Names : \E prints \in ReadOf(name) :
          /\ asked' = prints
          /\ LET files == {rows[r].file : r \in UNION {Found(prints, u) : u \in DOMAIN prints}}
             IN  hits' = [f \in files |-> Distances(prints, f)]
    /\ taken' = {}
    /\ matches' = << >>
    /\ pc' = "count"
    /\ UNCHANGED <<names, rows, batch, data, i, runs, args, fileId, lastRow, stored, failed>>

Abs(n) == IF n < 0 THEN -n ELSE n

\* Mutant: the hits of all distances are counted.
NumberOfAll(distances, d) == Cardinality(DOMAIN distances)

\* timehits
NumberOf(distances, d) == Cardinality({k \in DOMAIN distances : distances[k] = d})

\* Mutant: only the first place of all is reported.
WithFirstMatch(found, distances, f, d) ==
    IF NumberOf(distances, d) < MinHits \/ found # << >>
    THEN found
    ELSE Append(found, [file |-> f, offset |-> Abs(d)])

\* A place with enough hits is reported unless the one reported before it, of
\* the same file, is near.
WithMatch(found, distances, f, d) ==
    IF \/ NumberOf(distances, d) < MinHits
       \/ found # << >> /\ Last(found).file = f /\ Abs(Last(found).offset - d) < Near
    THEN found
    ELSE Append(found, [file |-> f, offset |-> Abs(d)])

\* The distances are handled in ascending order.
MatchesOf(distances, f) ==
    IF Cardinality(DOMAIN distances) < MinHits THEN matches
    ELSE MapThenFoldSet(LAMBDA d, found : WithMatch(found, distances, f, d),
                        matches, LAMBDA d : d, Max, Range(distances))

Extra(k) == <<0, k>>

\* The distances of the hits but those that are taken, and those of the extras
OwnAnd(distances, gone, extras) ==
    LET own == DOMAIN distances \ gone IN
    [p \in own \union {Extra(k) : k \in DOMAIN extras} |->
        IF p \in own THEN distances[p] ELSE extras[p[2]]]

\* The range of a file ends one hit too late: the first one of the next file
\* (any, as they are not sorted any further), which is then missing there.  For
\* the last file it goes on behind the vector, over pairs that happen to have the
\* same id, to one that has another; a process that reads too far is killed.
CountFile ==
    /\ pc = "count" /\ hits # NoHits
    /\ LET f    == Min(DOMAIN hits)
           rest == DOMAIN hits \ {f}
           next == hits[Min(rest)]
       IN  /\ IF rest = {}
              THEN \E n \in 1 .. MaxStale + 1 : \E extras \in [1..n -> Unread] :
                      matches' = MatchesOf(OwnAnd(hits[f], taken, extras), f) /\ taken' = {}
              ELSE \E p \in DOMAIN next :
                      matches' = MatchesOf(OwnAnd(hits[f], taken, <<next[p]>>), f) /\ taken' = {p}
           /\ hits' = [g \in rest |-> hits[g]]
    /\ UNCHANGED <<names, rows, batch, data, i, runs, pc, args, fileId, lastRow, asked, stored, failed>>

Answer ==
    /\ pc = "count" /\ hits = NoHits
    /\ pc' = "answered"
    /\ UNCHANGED <<names, rows, batch, data, i, runs, args, fileId, lastRow, asked, hits, taken, matches, stored, failed>>

\* The matches are printed with getFilename; the next query is asked for.
PrintMatches ==
    /\ pc = "answered"
    /\ pc' = "prompt"
    /\ asked' = << >> /\ matches' = << >>
    /\ UNCHANGED <<names, rows, batch, data, i, runs, args, fileId, lastRow, hits, taken, stored, failed>>

\* The journal of an open transaction is rolled back by the next process.
Kill ==
    /\ pc # "stopped"
    /\ pc' = "stopped"
    /\ batch' = << >> /\ data' = << >> /\ i' = 0 /\ args' = << >> /\ fileId' = 0 /\ lastRow' = 0
    /\ asked' = << >> /\ hits' = NoHits /\ taken' = {} /\ matches' = << >>
    /\ UNCHANGED <<names, rows, runs, stored, failed>>

Next ==
    \/ Start \/ NextFile \/ ReadFile \/ InsertRow \/ FailRow \/ EndTransaction
    \/ Prompt \/ Quit \/ Query \/ CountFile \/ Answer \/ PrintMatches
    \/ Kill

Spec == Init /\ [][Next]_vars

-----------------------------------------------------------------------------
(* Properties.                                                             *)

\* Unless a statement about a file failed, f is the id of a name that this one as
\* a pattern matches, or 0 if it is quoted.
IdOf(name, f) ==
    IF name \in Quoted THEN f = 0
    ELSE "file" \in failed \/ (f \in DOMAIN names /\ <<name, names[f]>> \in Like)

\* Unless the insertion of a row failed, the rows are those of whole files, in the
\* order of their insertions, also after kills and restarts.  They have the id of
\* a name that the file's matches.  No name was given an id that matches an earlier
\* one.
RowsWhole ==
    /\ \/ "row" \in failed
       \/ rows = FlattenSeq([k \in DOMAIN stored |->
                                 [n \in DOMAIN stored[k].data |->
                                     [stored[k].data[n] EXCEPT !.fp = Bound(@)]]])
    /\ \A k \in DOMAIN stored : \A n \in DOMAIN stored[k].data :
          IdOf(stored[k].name, stored[k].data[n].file)
    /\ \A f, g \in DOMAIN names : f < g => <<names[g], names[f]>> \notin Like

\* Fingerprints of the query that a file has d slices later
Support(f, d) ==
    {p \in (DOMAIN asked) \X (DOMAIN rows) :
        rows[p[2]] = [fp |-> asked[p[1]], offset |-> p[1] - 1 + d, file |-> f]}

\* Files of which the query has a fingerprint
FilesHit == {rows[r].file : r \in {r \in DOMAIN rows : rows[r].fp \in Range(asked)}}

\* What is answered has, but for the one hit that may be another file's, the hits
\* it needs, at the place that is given or as far before the beginning of the
\* file; an answer of the last of the files that are hit may be made of anything.
MatchSupported ==
    pc = "answered" =>
        \A k \in DOMAIN matches : (\E g \in FilesHit : matches[k].file < g) =>
            \E d \in {matches[k].offset, -matches[k].offset} :
                Cardinality(Support(matches[k].file, d)) >= MinHits - 1

\* The same for the files as they were inserted, and fingerprints that fit into
\* the signed integers they are bound to
Agreement(f, d) ==
    {p \in (DOMAIN asked) \X (DOMAIN stored) :
        /\ asked[p[1]] < Half
        /\ [fp |-> asked[p[1]], offset |-> p[1] - 1 + d, file |-> f] \in Range(stored[p[2]].data)}

Lengths == {Len(Sounds[n]) : n \in Names}

\* Unless the insertion of a row failed: where a file, or all those of the id 0
\* together, agrees with the query in one fingerprint more than are asked for, an
\* answer is near.
MatchFound ==
    pc = "answered" /\ "row" \notin failed =>
        \A f \in {0} \union DOMAIN names : \A d \in -Max(Lengths) .. Max(Lengths) :
            Cardinality(Agreement(f, d)) > MinHits =>
                \E k \in DOMAIN matches :
                    matches[k].file = f /\ Abs(matches[k].offset - Abs(d)) < Near
=============================================================================
