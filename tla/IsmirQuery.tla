----------------------------- MODULE IsmirQuery -----------------------------
(***************************************************************************)
(* ismir_query: the options, the catalogue as it is when the query begins, *)
(* the recording that is asked for, the scan (module QueryScan), and the   *)
(* line that is printed for a match: the track that lower_bound finds for  *)
(* pos, and the time in it.                                                *)
(*                                                                         *)
(* A track is named by the end of its fingerprints, the key of its entry.  *)
(***************************************************************************)
EXTENDS QueryScan, IndexMap

CONSTANTS
    Advance,       \* getAdvance() = 64: samples between two fingerprints
    SampleRate,    \* getSampleRate() = 5512
    Sixty,         \* 60: seconds of a minute, minutes of an hour
    Sizes,         \* bound: fingerprints in the file when the program starts
    FirstEnds,     \* bound: ends of tracks before the last
    MaxTracks,     \* bound: tracks in the catalogue
    Unknown        \* what is printed when lower_bound returned end()

ASSUME RatesAssumption ==
    Advance \in Nat \ {0} /\ SampleRate \in Nat \ {0} /\ Sixty \in Nat \ {0}

\* Names without white space: what becomes of the others is in FingerprintDb.
ASSUME EndsAssumption ==
    /\ FirstEnds \subseteq 0..MaxTotal /\ MaxTracks \in Nat
    /\ \A e \in 0..MaxTotal : e \notin Spaced \union {NoName, Unknown}

VARIABLES
    options,       \* the options given: "help", "query", "dbname"
    query,         \* the recording: "whole", "short" of what is compared of it,
                   \* "none" when it cannot be opened or is no wav file, "odd"
                   \* when stdin delivers less than it announces or less of the
                   \* header at a time than is asked for (module StdinReader)
    stage,         \* "init", "open", "query", "scan", then the exit code or "crash"
    lines,         \* the catalogue on disk when the program starts
    ids,           \* idToFile
    report         \* the last of the results, with the place it is about

queryVars == <<options, query, stage, lines, ids, report>>

\* getTimestampFromSeconds
Timestamp(n) ==
    LET hours   == n \div (Sixty * Sixty)
        minutes == (n - Sixty * Sixty * hours) \div Sixty
    IN  [hours |-> hours, minutes |-> minutes,
         seconds |-> n - Sixty * Sixty * hours - Sixty * minutes]

NoReport == [track |-> None, from |-> 0, time |-> Timestamp(0), pos |-> 0, at |-> 0]

Entry(e) == [end |-> e, name |-> e]

\* A catalogue that accounts for the file, in the order of insertion
Catalogues(n) ==
    IF n = 0 THEN {<< >>}
    ELSE {c \in UNION {[1..k -> {Entry(e) : e \in FirstEnds \union {n}}] : k \in 1..MaxTracks} :
             /\ c[Len(c)].end = n
             /\ \A j, k \in DOMAIN c : j < k => c[j].end < c[k].end}

QueryInit ==
    /\ Init /\ total \in Sizes
    /\ options \in SUBSET {"help", "query", "dbname"}
    /\ query \in {"whole", "short", "none", "odd"}
    /\ lines \in Catalogues(total)
    /\ stage = "init"
    /\ ids = << >> /\ report = NoReport

\* init: the query is asked for before the database.
Options ==
    /\ stage = "init"
    /\ stage' = IF "help" \in options THEN "exit 0"
                ELSE IF {"query", "dbname"} \subseteq options THEN "open" ELSE "exit 1"
    /\ UNCHANGED <<vars, options, query, lines, ids, report>>

Open ==
    /\ stage = "open"
    /\ ids' = ToIds(ReadMap(lines))
    /\ stage' = "query"
    /\ UNCHANGED <<vars, options, query, lines, report>>

\* query_scan begins with getFingerprintsForFile.
ReadQuery ==
    /\ stage = "query" /\ query # "odd"
    /\ stage' = IF query = "none" THEN "crash" ELSE "scan"
    /\ UNCHANGED <<vars, options, query, lines, ids, report>>

\* What comes from stdin displaced is taken for some recording or for none; or
\* this step is never taken, and the program reads on for ever.
ReadOddly ==
    /\ stage = "query" /\ query = "odd"
    /\ query' \in {"whole", "short", "none"}
    /\ UNCHANGED <<vars, options, stage, lines, ids, report>>

\* Mutant: the track before the one that lower_bound finds.
TrackAtPrevious(p) == IF HasLowerBound(ids, p) THEN StartOf(ids, p) ELSE Unknown

\* iter->second; behind the last entry it is not defined.
TrackAt(p) == IF HasLowerBound(ids, p) THEN NameAt(ids, p) ELSE Unknown

\* The track begins where the entry before iter ends.
TrackStart(p) == StartOf(ids, p)

\* A comparison reads beyond the end of a query that is too short for it: its
\* outcome is any, or the program ends here.
Overread ==
    /\ stage = "scan" /\ query = "short"
    /\ pc = "scan" /\ i < count /\ ~Debounced
    /\ stage' = "crash"
    /\ UNCHANGED <<vars, options, query, lines, ids, report>>

\* Each match is reported by a line.
ScanStep ==
    /\ stage = "scan"
    /\ Next
    /\ report' = IF prevAt' = prevAt THEN report
                 ELSE [track   |-> TrackAt(pos), from |-> TrackStart(pos),
                       time    |-> Timestamp(((pos - TrackStart(pos)) * Advance) \div SampleRate),
                       pos     |-> pos, at |-> At]
    /\ UNCHANGED <<options, query, stage, lines, ids>>

\* The results are printed.
PrintResults ==
    /\ stage = "scan" /\ pc = "done"
    /\ stage' = "exit 0"
    /\ UNCHANGED <<vars, options, query, lines, ids, report>>

QueryNext == Options \/ Open \/ ReadQuery \/ ReadOddly \/ ScanStep \/ Overread \/ PrintResults

QuerySpec == QueryInit /\ [][QueryNext]_<<vars, queryVars>>

ScanProceeds ==
    \/ Options \/ Open \/ ReadQuery \/ PrintResults
    \/ /\ stage = "scan" /\ Scan /\ ScanStep

QueryFairSpec == QuerySpec /\ WF_<<vars, queryVars>>(ScanProceeds)

-----------------------------------------------------------------------------
(* Properties.                                                             *)

\* The fingerprints accounted for by the catalogue that was loaded
Known == Max({0} \union DOMAIN ids)

\* What pos may be ahead of the place of the match
Drift == Step * (blocks - 1)

\* The k-th fingerprint (from 1) belongs to the track that ends with it or next.
TrackOf(k) == Min({e \in DOMAIN ids : e >= k})

\* What a timestamp tells, in seconds
Told(time) == Sixty * Sixty * time.hours + Sixty * time.minutes + time.seconds

\* A match is reported for the track that the last of the compared fingerprints
\* is in, at the time in it of that fingerprint or later by at most the drift; or,
\* in a later block, for a track that begins at most the drift behind it.
\* lower_bound finds no entry only where the file has grown since the catalogue
\* was loaded, or within the drift before its end.
RightTrack ==
    report.track # None =>
        IF report.track = Unknown
        THEN (Known = 0) \/ (report.at + Drift > Known)
        ELSE /\ report.from <= report.at + Drift /\ report.at <= report.track
             /\ report.from < report.at =>
                   LET exact == ((report.at - report.from) * Advance) \div SampleRate
                   IN  /\ report.track = TrackOf(report.at)
                       /\ exact <= Told(report.time)
                       /\ Told(report.time) <= exact + (Drift * Advance) \div SampleRate + 1

\* The program ends, with its results or, of a recording that there is none of
\* or too little, without: unless its recording comes from stdin and does not
\* arrive as it was announced.
QueryEnds == query # "odd" => <>(stage \in {"exit 0", "exit 1", "crash"})
=============================================================================
