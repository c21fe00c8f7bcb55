----------------------------- MODULE BuildIndex -----------------------------
(***************************************************************************)
(* ismir_build_index: its options, the bulk list of recordings and, for    *)
(* each of them, how its samples are obtained (AudioFile, or stdin through *)
(* wavStdinReader), cut into frames and turned into the fingerprints of a  *)
(* track.  How insert writes a track to the index is in FingerprintDb;     *)
(* here the index is the sequence of the tracks it was given.              *)
(*                                                                         *)
(* A recording has the fields of module StdinReader and                    *)
(*   name     its path, which is the name of the track,                    *)
(*   kind     "wav"; "-" for stdin; "other" for a path that does not end   *)
(*            in "wav"; "missing" for one that cannot be opened,           *)
(*   sound    the samples of its first channel.                            *)
(***************************************************************************)
EXTENDS StdinReader, Hamming

CONSTANTS
    Invocations,  \* the options given, and the recordings named by them
    Noise         \* a sample that is taken from something else than sound

\* The recordings that are named
Named == UNION {{o.list[k] : k \in DOMAIN o.list} : o \in Invocations}

\* Bound: stdin has one recording, and a list that names it does so at its end.
ASSUME RecordingsAssumption ==
    /\ \A r \in Named \union Piped :
          /\ r.channels \in Nat /\ r.mark \in Nat \union {None} /\ r.size \in Nat
          /\ r.sound \in Seq(Int)
    /\ \A o \in Invocations :
          /\ o.list \in Seq(Named) /\ (o.input => o.list # << >>)
          /\ \A k \in DOMAIN o.list : o.list[k].kind = "-" => k = Len(o.list)

VARIABLES
    opts,         \* the options
    todo,         \* recordings still to be inserted
    samples,      \* samples of the first of them
    frame,        \* frames of it that are done
    prevEnergy,   \* prevEnergy of generateFingerprintStream
    output,       \* its output
    db,           \* the tracks inserted; intact is a history of how
                  \* the header came that was read for it
    stage         \* "init", "next", "stdin", "frames", or how the program ended

buildVars == <<opts, todo, samples, frame, prevEnergy, output, db, stage>>

BuildInit ==
    /\ opts \in Invocations
    /\ piped \in {r \in Piped : opts.list # << >> => r = opts.list[Len(opts.list)]}
    /\ written = 0 /\ head = 0 /\ sizeOfInput = 0 /\ bytesRead = 0 /\ reader = "idle"
    /\ todo = << >> /\ samples = << >> /\ output = << >> /\ db = << >>
    /\ frame = 0 /\ prevEnergy = Silent
    /\ stage = "init"

\* init: --help, a missing --dbname, --file and --input decide in this order.
Inserts ==
    /\ ~opts.help /\ opts.dbname
    /\ \/ opts.file = "list"
       \/ (opts.file = None) /\ opts.input

Options ==
    /\ stage = "init"
    /\ IF Inserts
       THEN /\ todo' = IF opts.file = "list" THEN opts.list ELSE SubSeq(opts.list, 1, 1)
            /\ stage' = "next"
       ELSE /\ stage' = IF opts.help THEN "exit 0" ELSE "exit 1"
            /\ UNCHANGED todo
    /\ UNCHANGED <<opts, samples, frame, prevEnergy, output, db, readerVars>>

\* What getFingerprintsForFile has before it generates fingerprints.
Generate(s) ==
    /\ samples' = s
    /\ frame' = 0 /\ prevEnergy' = Silent /\ output' = << >>
    /\ stage' = "frames"

\* AudioFile and AudioStream deliver the samples announced (module WavFile).
FromFile ==
    /\ stage = "next" /\ todo # << >> /\ todo[1].kind = "wav"
    /\ Generate(todo[1].sound)
    /\ UNCHANGED <<opts, todo, db, readerVars>>

\* fopen fails and its result is used nevertheless.  A path that does not end in
\* "wav" comes to the same: the file to be converted is opened before it is
\* there, by the empty name.
FromNothing ==
    /\ stage = "next" /\ todo # << >> /\ todo[1].kind \in {"other", "missing"}
    /\ stage' = "crash"
    /\ UNCHANGED <<opts, todo, samples, frame, prevEnergy, output, db, readerVars>>

FromStdin ==
    /\ stage = "next" /\ todo # << >> /\ todo[1].kind = "-"
    /\ StartReading
    /\ stage' = "stdin"
    /\ UNCHANGED <<opts, todo, samples, frame, prevEnergy, output, db>>

Receive ==
    /\ stage = "stdin"
    /\ ReadRiff \/ ReadSize \/ Read \/ ReadNothing \/ Parse
    /\ UNCHANGED buildVars

\* The sample that begins with the p-th byte
SampleAt(r, p) ==
    LET k == (p - r.mark - 8) \div (2 * r.channels) + 1
    IN  IF /\ r.mark # None /\ p = r.mark + 8 + 2 * r.channels * (k - 1)
           /\ k \in DOMAIN r.sound /\ p + 2 <= bytesRead
        THEN r.sound[k] ELSE Noise

Received ==
    /\ stage = "stdin"
    /\ \/ /\ reader = "parsed" /\ Intact
          /\ Generate([k \in DOMAIN PipedSamples(0) |-> SampleAt(piped, PipedSamples(0)[k])])
       \/ /\ reader = "parsed" /\ ~Intact
          /\ \E n \in 0 .. sizeOfInput \div 2 : Generate([k \in 1..n |-> Noise])
       \/ /\ reader = "crash"
          /\ stage' = "crash"
          /\ UNCHANGED <<samples, frame, prevEnergy, output>>
    /\ UNCHANGED <<opts, todo, db, readerVars>>

\* Mutant: the energies of the first frame are never replaced.
OneFrameFixed ==
    /\ stage = "frames" /\ FrameEndsBefore(frame + 1, Len(samples))
    /\ output' = Append(output, Fingerprint(prevEnergy, Energies(samples, frame + 1)))
    /\ prevEnergy' = IF frame = 0 THEN Energies(samples, 1) ELSE prevEnergy
    /\ frame' = frame + 1
    /\ UNCHANGED <<opts, todo, samples, db, stage, readerVars>>

OneFrame ==
    /\ stage = "frames" /\ FrameEndsBefore(frame + 1, Len(samples))
    /\ output' = Append(output, Fingerprint(prevEnergy, Energies(samples, frame + 1)))
    /\ prevEnergy' = Energies(samples, frame + 1)
    /\ frame' = frame + 1
    /\ UNCHANGED <<opts, todo, samples, db, stage, readerVars>>

\* A track has the name of its file; what comes from stdin has the --name that
\* is given with --input, or none.
TrackName ==
    IF todo[1].kind # "-" THEN todo[1].name
    ELSE IF opts.file = "list" THEN None ELSE opts.name

Insert ==
    /\ stage = "frames" /\ ~FrameEndsBefore(frame + 1, Len(samples))
    /\ db' = Append(db, [name |-> TrackName, of |-> todo[1], prints |-> output,
                         intact |-> todo[1].kind = "-" => Intact])
    /\ todo' = Tail(todo)
    /\ stage' = "next"
    /\ UNCHANGED <<opts, samples, frame, prevEnergy, output, readerVars>>

Finish ==
    /\ stage = "next" /\ todo = << >>
    /\ stage' = "exit 0"
    /\ UNCHANGED <<opts, todo, samples, frame, prevEnergy, output, db, readerVars>>

\* The other process writes on its own.
Write == stage # "init" /\ Supply /\ UNCHANGED buildVars

Program == Options \/ FromFile \/ FromNothing \/ FromStdin \/ Receive \/ Received
           \/ OneFrame \/ Insert \/ Finish

BuildNext == Program \/ Write

BuildSpec == BuildInit /\ [][BuildNext]_<<buildVars, readerVars>>

\* Both processes are scheduled again and again.
BuildFairSpec ==
    BuildSpec /\ WF_<<buildVars, readerVars>>(Program) /\ WF_<<buildVars, readerVars>>(Write)

-----------------------------------------------------------------------------
(* Properties.                                                             *)

\* The recording is whole and ends with its data.
Whole(r) == /\ r.mark # None
            /\ r.size = r.mark + 8 + 2 * r.channels * Len(r.sound)
            /\ r.supply >= 2 * Field + r.size /\ r.sound # << >>

\* It was read as it is.
Faithful(track) == Whole(track.of) /\ track.intact

\* A recording that is whole, with nothing behind its data, has the same
\* fingerprints whether it is given by name or on stdin, in whatever pieces it
\* arrives behind a header that each of two reads delivers its half of: those
\* of its sound.
SameEitherWay ==
    \A k \in DOMAIN db : Faithful(db[k]) =>
        db[k].prints = [j \in FrameNumbers(Len(db[k].of.sound)) |-> FingerprintAt(db[k].of.sound, j)]

\* Track u sounds like track t from its (n * Advance)-th sample on.
Excerpt(u, t, n) ==
    /\ Len(u.of.sound) + n * Advance <= Len(t.of.sound)
    /\ u.of.sound = SubSeq(t.of.sound, n * Advance + 1, n * Advance + Len(u.of.sound))

\* What makes the search possible: an excerpt that begins with a frame of a
\* recording has the fingerprints of the recording from there on, but for the
\* first, which is taken against silence.  At the place that belongs to it the
\* comparison is not given up, and if the recording goes on behind what is
\* compared, the search finds no difference.
ExcerptFound ==
    \A k, m \in DOMAIN db, n \in 0..3 :
        Faithful(db[k]) /\ Faithful(db[m]) /\ Excerpt(db[k], db[m], n) =>
            LET query == db[k].prints
                track == db[m].prints
            IN  /\ \A j \in 2 .. Len(query) : n + j \in DOMAIN track /\ query[j] = track[n + j]
                /\ Len(query) >= FpSkip + Macro /\ FpSkip > 0 =>
                        /\ ~EarlyTerminate(query, track, n + FpSkip)
                        /\ Len(track) > n + FpSkip + Macro => FullCheck(query, track) = 0

\* The program ends unless it reads from stdin more than the other process has
\* to write, as it may also do when a read of the header delivers too little:
\* then what it waits for has no relation to what there is.
BuildEnds ==
    piped.supply >= 2 * Field + piped.size =>
        <>(stage \in {"exit 0", "exit 1", "crash"} \/ (reader = "body" /\ ~Intact))
=============================================================================
