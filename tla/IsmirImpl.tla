----------------------------- MODULE IsmirImpl -----------------------------
(***************************************************************************)
(* ismir_impl, the program from which the audio index was made: the        *)
(* fingerprints of its files are put into one vector, appended with a      *)
(* catalogue to string_ismir.bin and map_string_ismir.bin, or read from    *)
(* there, and each query is compared with every place in the vector.       *)
(*                                                                         *)
(* A fingerprint is represented by where it comes from, as in module       *)
(* FingerprintDb; the distance of a comparison is left open.               *)
(***************************************************************************)
EXTENDS Integers, Sequences, FiniteSets, FiniteSetsExt, SequencesExt

CONSTANTS
    Tracks,    \* files that are inserted
    FpCount,   \* fingerprints of each
    Spaced,    \* names with a blank in them
    Distances, \* distances a comparison may come to
    Limit,     \* 358: a distance up to which a match is reported
    Unset      \* what an uninitialised size_t may hold

ASSUME ImplAssumption ==
    FpCount \in [Tracks -> Nat] /\ Distances \subseteq Nat /\ Unset \subseteq Nat

VARIABLES
    string,     \* string_ismir.bin
    map,        \* map_string_ismir.bin: a sequence of [end, name]
    exists,     \* they have been made
    vec,        \* db
    ends,       \* files: from the end of a track to its name
    lines,      \* writeDBToDisk: ends whose lines are still to be written
    init,       \* its init
    size,       \* fingerprints.size() of the query
    i,          \* the loop's variable
    best,       \* bestMatch and bestMatchDistance
    told        \* what was printed last: name, sample, distance and place

implVars == <<string, map, exists, vec, ends, lines, init, size, i, best, told>>

NoEnds == [e \in {} |-> ""]
Untold == [name |-> "", sample |-> 0, dist |-> 0, at |-> -1]
NoBest == [at |-> 0, dist |-> 0]

ImplInit ==
    /\ string = << >> /\ map = << >> /\ exists = FALSE
    /\ vec = << >> /\ ends = NoEnds /\ lines = {} /\ init = 0
    /\ size = 0 /\ i = 0 /\ best = NoBest /\ told = Untold

\* Only the two files outlive the process.
ImplLost ==
    /\ vec' = << >> /\ ends' = NoEnds /\ lines' = {} /\ init' = 0
    /\ size' = 0 /\ i' = 0 /\ best' = NoBest /\ told' = Untold
    /\ UNCHANGED <<string, map, exists>>

\* files.insert(make_pair(e, name)): nothing, if there is an entry
With(m, e, name) == [x \in DOMAIN m \union {e} |-> IF x \in DOMAIN m THEN m[x] ELSE name]

\* insert_file
ImplInsertFile(t) ==
    /\ vec' = vec \o [k \in 1..FpCount[t] |-> <<t, k>>]
    /\ ends' = With(ends, Len(vec'), t)
    /\ UNCHANGED <<string, map, exists, lines, init, size, i, best, told>>

\* writeDBToDisk: the vector is appended, and that file closed.
WriteVector ==
    /\ init' = Len(string)
    /\ string' = string \o vec
    /\ lines' = DOMAIN ends
    /\ exists' = TRUE
    /\ UNCHANGED <<map, vec, ends, size, i, best, told>>

\* Mutant: what the file had before is forgotten.
WriteLineUnshifted ==
    /\ lines # {}
    /\ LET e == Min(lines)
       IN  map' = Append(map, [end |-> e, name |-> ends[e]]) /\ lines' = lines \ {e}
    /\ UNCHANGED <<string, exists, vec, ends, init, size, i, best, told>>

\* A line, which endl writes at once: the next one in the order of the ends
WriteLine ==
    /\ lines # {}
    /\ LET e == Min(lines)
       IN  map' = Append(map, [end |-> e + init, name |-> ends[e]]) /\ lines' = lines \ {e}
    /\ UNCHANGED <<string, exists, vec, ends, init, size, i, best, told>>

\* readDBFromDisk waits for eof: a file that is not there never gives it, nor
\* does a number that cannot be read, behind a name with a blank in it.
NeverEof == ~exists \/ \E k \in DOMAIN map : map[k].name \in Spaced

\* The lines with an end
LinesOf(e) == {k \in DOMAIN map : map[k].end = e}

\* Mutant: a later line takes the place of an earlier one.
CatalogueReplaced ==
    [e \in DOMAIN ends \union {map[k].end : k \in DOMAIN map} |->
        IF LinesOf(e) = {} THEN ends[e] ELSE map[Max(LinesOf(e))].name]

\* The entries with those that the lines add: of the lines with an end, the first
\* gives the name.
Catalogue ==
    [e \in DOMAIN ends \union {map[k].end : k \in DOMAIN map} |->
        IF e \in DOMAIN ends THEN ends[e] ELSE map[Min(LinesOf(e))].name]

\* The loop goes round once more behind the last line: it leaves idx, which is
\* not initialised but still in its place, and inserts it with an empty name.
ReadDB ==
    /\ ~NeverEof
    /\ vec' = string
    /\ \E idx \in IF map = << >> THEN Unset ELSE {Last(map).end} :
          ends' = With(Catalogue, idx, "")
    /\ UNCHANGED <<string, map, exists, lines, init, size, i, best, told>>

-----------------------------------------------------------------------------
(* query.                                                                  *)

QueryStart(n) ==
    /\ size' = n
    /\ i' = 0
    /\ best' = [at |-> Len(vec), dist |-> n]
    /\ told' = Untold
    /\ UNCHANGED <<string, map, exists, vec, ends, lines, init>>

\* A query longer than the vector makes the unsigned limit of the loop huge, one
\* without fingerprints has none to compare; without an entry lower_bound gives
\* end().
QueryFatal == \/ Len(vec) < size
              \/ size = 0 /\ vec # << >>
              \/ i >= Len(vec) - size /\ {e \in DOMAIN ends : e >= best.at} = {}

\* What is printed for the place at: the track that lower_bound gives, and how
\* far the place is from the end of the track before it
Tell(at, dist) ==
    LET e     == Min({x \in DOMAIN ends : x >= at})
        start == Max({0} \union {x \in DOMAIN ends : x < e})
    IN  [name |-> ends[e], sample |-> at - start, dist |-> dist, at |-> at]

QueryPlace(dist) ==
    /\ ~QueryFatal /\ i < Len(vec) - size
    /\ best' = IF dist < best.dist THEN [at |-> i, dist |-> dist] ELSE best
    /\ told' = IF dist <= Limit THEN Tell(i, dist) ELSE told
    /\ i' = i + 1
    /\ UNCHANGED <<string, map, exists, vec, ends, lines, init, size>>

QueryBest ==
    /\ ~QueryFatal /\ i >= Len(vec) - size
    /\ told' = Tell(best.at, best.dist)
    /\ UNCHANGED <<string, map, exists, vec, ends, lines, init, size, i, best>>
=============================================================================
