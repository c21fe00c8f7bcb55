------------------------------ MODULE WavFile ------------------------------
(***************************************************************************)
(* AudioFile: the header of a WAV file, and the streams and vectors of     *)
(* samples that are read with what it says.  The program is the beginning  *)
(* of waveform-compare: it opens the file, refuses a channel that the file *)
(* does not have, and streams the channel (module AudioStream).            *)
(*                                                                         *)
(* A file is its size and what stands at the places that are looked at:    *)
(* the fields of the header, the distance from the fmt chunk to the data   *)
(* chunk, and the places before it where the letters "data" stand too.     *)
(* A number is signed as it is read, and a size_t afterwards: from IntMax  *)
(* or, of two bytes, ShortMax on it is a huge one.                         *)
(***************************************************************************)
EXTENDS AudioStream, FiniteSets

CONSTANTS
    Files,     \* the files considered
    Window,    \* 1024: bytes of buf, and behind the fmt chunk that are searched
    ShortMax,  \* 2^15: the first number that two bytes give a negative value
    IntMax,    \* 2^31: the first that four bytes give one
    SizeMax    \* 2^64: a size_t is a number below it

ASSUME FilesAssumption ==
    /\ Window \in Nat /\ ShortMax \in Nat /\ IntMax \in Nat /\ SizeMax \in Nat
    /\ Window < IntMax /\ ShortMax <= IntMax /\ 8 * IntMax <= SizeMax
    /\ Files \subseteq [size : 0 .. SizeMax - 1, riff : 0 .. 2 * IntMax - 1, fmt : 0 .. 2 * IntMax - 1,
                        channels : 0 .. 2 * ShortMax - 1, bits : 0 .. 2 * ShortMax - 1,
                        gap : Nat, decoys : SUBSET Nat, data : 0 .. 2 * IntMax - 1]

VARIABLES
    file,      \* the file opened
    fields,    \* what populateFieldVariables found in it
    asked,     \* --channel
    stage      \* "stream", or how the program ended before it

wavVars == <<file, fields, asked, stage>>

-----------------------------------------------------------------------------
(* populateFieldVariables                                                  *)

Signed(n, top) == IF n >= top THEN n - 2 * top ELSE n

\* What getIntFromChars makes of two and of four bytes, in a size_t
FromTwo(n)  == Signed(n, ShortMax) % SizeMax
FromFour(n) == Signed(n, IntMax) % SizeMax

\* Bytes from the end of the fmt chunk to the end of the file
Behind(f) == f.size - 20 - FromFour(f.fmt)

\* The early returns: the file is too short, or its size is not the one in the
\* header.
NoWav(f)   == f.size < 20 \/ FromFour(f.riff) # f.size - 8
Refused(f) == NoWav(f) \/ Behind(f) < 0 \/ FromFour(f.fmt) < 16

Searched(f) == IF Behind(f) < Window THEN Behind(f) ELSE Window

\* Where the search finds "data".  It stops 8 bytes before the last one it has:
\* not even the header of an empty chunk at the end of the file is found.
Marks(f) == {i \in f.decoys \union {f.gap} : i < Searched(f) - 8}

\* _startOfData is not initialised: some place in the file or behind it
AnyPlace(f) == {f.size - 2, f.size}

\* Four bytes that are no size
AnyNumber == {0, IntMax - 1, IntMax}

\* Mutant: the bytes of a sample are not divided among the channels.
PerChannelAll(f, size) == ((FromFour(size) * 8) % SizeMax) \div FromTwo(f.bits)

PerChannel(f, size) ==
    (((FromFour(size) * 8) % SizeMax) \div FromTwo(f.bits)) \div FromTwo(f.channels)

\* Mutant: the size of the chunk is taken for its first sample.
DataStartAtSize(f, i) == 20 + FromFour(f.fmt) + i + 4

DataStart(f, i) == 20 + FromFour(f.fmt) + i + 8

\* What the constructor leaves in the fields, division by zero excepted.
Populate(f) ==
    IF Refused(f)
    THEN [channels : {0}, start : AnyPlace(f), samples : {0}]
    ELSE IF Marks(f) = {}
    THEN [channels : {FromTwo(f.channels)}, start : AnyPlace(f),
          samples : {PerChannel(f, n) : n \in AnyNumber}]
    ELSE LET i == CHOOSE m \in Marks(f) : \A n \in Marks(f) : m <= n IN
         [channels : {FromTwo(f.channels)}, start : {DataStart(f, i)},
          samples : {PerChannel(f, n) : n \in IF i = f.gap THEN {f.data} ELSE AnyNumber}]

\* The division of the size by _bitsPrSample and _channels
DividesByZero(f) == ~Refused(f) /\ (f.bits = 0 \/ f.channels = 0)

\* The fmt chunk is read into buf, however long it says it is: what is longer
\* overwrites the stack, also when the chunk is then found to be cut off.
WritesBeyond(f) == ~NoWav(f) /\ f.size - 20 > Window /\ FromFour(f.fmt) > Window

\* read-8 is unsigned: fewer than 8 bytes are searched far beyond the buffer.
SearchesBeyond(f) == ~Refused(f) /\ Behind(f) < 8

-----------------------------------------------------------------------------
(* The program                                                             *)

\* The channel is tested against the number of channels in the header.
Available == asked < fields.channels

NoFields == [channels |-> 0, start |-> 0, samples |-> 0]

\* What lies beyond the buffer need not end the program.
Opened ==
    \/ /\ DividesByZero(file) \/ WritesBeyond(file) \/ SearchesBeyond(file)
       /\ stage = "crash" /\ fields = NoFields
    \/ /\ ~DividesByZero(file)
       /\ fields \in Populate(file)
       /\ stage = IF Available THEN "stream" ELSE "exit 1"

\* getStream: the file is opened anew and read from _startOfData.
WavInit ==
    /\ file \in Files
    /\ asked \in 0..MaxChannels
    /\ Opened
    /\ IF stage = "stream"
       THEN /\ channel = asked
            /\ channels = fields.channels
            /\ total = file.size - fields.start
       ELSE channel = 0 /\ channels = 1 /\ total = 0
    /\ Init

WavNext == stage = "stream" /\ Next /\ UNCHANGED wavVars

WavSpec == WavInit /\ [][WavNext]_<<vars, wavVars>>

-----------------------------------------------------------------------------
(* The two functions that read samples without a stream; like in out, a    *)
(* sample is the pair of its bytes, counted from _startOfData.             *)

Zero == <<0, 0>>

\* Mutant: every two bytes are a sample.
WholeChannelPairs == [k \in 1 .. total \div 2 |-> <<2 * k - 2, 2 * k - 1>>]

\* getSamplesForChannel takes the first of every two samples, 8 bytes at a time
\* (the size of the pointer), to the end of the file; the channel asked for is
\* not looked at.  The second byte of a sample that the end cuts off is an old one.
WholeChannel ==
    [k \in 1 .. (total + 3) \div 4 |->
        LET i == 4 * (k - 1) IN
        <<i, IF i + 1 < total THEN i + 1 ELSE IF i >= 8 THEN i - 7 ELSE Garbage>>]

\* getSamplesForChannelInRange: all of it or nothing, and again the first of
\* every two samples (of more than two channels it writes behind the vector).
InRange(from, to) ==
    LET first == 2 * channels * from
        toRead == 2 * channels * (to - from)
    IN  [k \in 1 .. to - from |->
            IF first + toRead <= total /\ 4 * (k - 1) < toRead
            THEN <<first + 4 * (k - 1), first + 4 * (k - 1) + 1>>
            ELSE Zero]

-----------------------------------------------------------------------------
(* Properties.                                                             *)

\* A file as the format prescribes it, of less than 2 GiB, whose fmt chunk fits
\* into the buffer, whose numbers are none that are read as negative, and whose
\* data chunk begins within the bytes that are searched, is not the end of the
\* file, and is the first thing in them that looks like one.
Regular(f) ==
    /\ f.size = f.riff + 8 /\ f.size < IntMax /\ f.data < IntMax
    /\ f.fmt \in 16..Window
    /\ f.channels \in 1 .. ShortMax - 1 /\ f.bits \in 1 .. ShortMax - 1
    /\ f.gap + 8 < Behind(f) /\ f.gap + 8 < Window
    /\ f.decoys = {}

\* The stream begins at the first byte of the data chunk and the number of
\* samples announced is that of the chunk, for all regular files: also when
\* other chunks stand before and behind it.
HeaderTrue ==
    Regular(file) =>
        /\ stage # "crash"
        /\ fields.channels = file.channels
        /\ fields.start = file.size - (Behind(file) - file.gap - 8)
        /\ file.bits = 16 => fields.samples = file.data \div (2 * file.channels)

\* Who reads to the end of a file of 16-bit samples has at least as many as the
\* header announces if the data chunk is complete; what is more lies behind the
\* chunk, one sample excepted.
AnnouncedDelivered ==
    Regular(file) /\ file.bits = 16 /\ short =>
        LET behind == total - file.data IN
        /\ behind >= 0 => Len(out) >= fields.samples
        /\ FrameSize * (Len(out) - fields.samples) < behind + 2 * FrameSize

\* The deprecated getSamplesForChannel and the range read deliver what the
\* stream does of the first of two channels, as far as the file goes.
ReadersAgree ==
    stage = "stream" /\ channels = 2 /\ channel = 0 =>
        /\ \A k \in DOMAIN out : InFile(k) => k <= Len(WholeChannel) /\ WholeChannel[k] = out[k]
        /\ \A from \in 0 .. Len(out) : \A to \in from .. Len(out) :
             FrameSize * to <= total => InRange(from, to) = SubSeq(out, from + 1, to)
=============================================================================
