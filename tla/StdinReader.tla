---------------------------- MODULE StdinReader ----------------------------
(***************************************************************************)
(* wavStdinReader: a WAV file that another process writes to a pipe is     *)
(* read to the size its header announces, and searched for its data.       *)
(*                                                                         *)
(* The file begins with two fields of the RIFF header, the second its size.*)
(* A recording is described by                                             *)
(*   size     the size in the RIFF header: bytes behind it,                *)
(*   supply   bytes that the other process writes, header included,        *)
(*   mark     where "data" stands first behind that header, None if it     *)
(*            does not,                                                    *)
(*   channels the number of channels at its fixed place.                   *)
(***************************************************************************)
EXTENDS Integers, Sequences

CONSTANTS
    Field,        \* 4: bytes of a field of the RIFF header
    PipeSize,     \* bytes that a pipe holds
    None,         \* no such place
    Piped,        \* the recordings considered
    Garbled       \* bound: values of sizeOfInput when it is not read as written

ASSUME PipeAssumption ==
    /\ PipeSize \in Nat \ {0} /\ None \notin Nat
    /\ Field \in Nat \ {0} /\ Garbled \subseteq Nat

VARIABLES
    piped,        \* the recording that is written to stdin
    written,      \* bytes of it that the other process has written
    head,         \* bytes that the two reads of the header have taken
    sizeOfInput,
    bytesRead,    \* bytes behind them: bytesRead of the constructor
    reader        \* "idle", "riff" and "size" before the two reads of the
                  \* header, "body" in the loop, then the outcome: "parsed"
                  \* or "crash"

readerVars == <<piped, written, head, sizeOfInput, bytesRead, reader>>

\* The other process writes what the pipe can take.
Supply ==
    /\ written < piped.supply
    /\ \E n \in 1 .. piped.supply - written :
         /\ written + n - head - bytesRead <= PipeSize
         /\ written' = written + n
    /\ UNCHANGED <<piped, head, sizeOfInput, bytesRead, reader>>

StartReading ==
    /\ reader = "idle"
    /\ reader' = "riff"
    /\ UNCHANGED <<piped, written, head, sizeOfInput, bytesRead>>

\* What read may deliver of the header: at least one byte of what is in the
\* pipe, of a field at most, and none at the end of the input.
FieldRead ==
    {n \in 1..Field : n <= written - head} \union (IF head = piped.supply THEN {0} ELSE {})

\* That there are fewer than asked for is noticed, and ignored.
ReadRiff ==
    /\ reader = "riff"
    /\ head' \in FieldRead
    /\ reader' = "size"
    /\ UNCHANGED <<piped, written, sizeOfInput, bytesRead>>

\* With any byte missing, sizeOfInput is made of other bytes of the input and of
\* what was in memory; buf may then be too large to be allocated.
ReadSize ==
    /\ reader = "size"
    /\ \E n \in FieldRead :
         /\ head' = head + n
         /\ IF head + n = 2 * Field
            THEN sizeOfInput' = piped.size /\ reader' = "body"
            ELSE sizeOfInput' \in Garbled /\ reader' \in {"body", "crash"}
    /\ UNCHANGED <<piped, written, bytesRead>>

\* Both fields of the header were read whole.
Intact == head = 2 * Field

\* Mutant: the loop is left with whatever the first read delivered.
LeaveAtOnce == bytesRead > 0

\* Mutant: the header is counted, too.
LeaveWithHeader == bytesRead = sizeOfInput + 2 * Field

LeaveLoop == bytesRead = sizeOfInput

\* read delivers at least one byte of what is in the pipe, not beyond buf.
Read ==
    /\ reader = "body" /\ ~LeaveLoop
    /\ \E n \in 1 .. written - head - bytesRead :
         /\ bytesRead + n <= sizeOfInput
         /\ bytesRead' = bytesRead + n
    /\ UNCHANGED <<piped, written, head, sizeOfInput, reader>>

\* At the end of the input read returns 0 and the loop goes on.
ReadNothing ==
    /\ reader = "body" /\ ~LeaveLoop
    /\ head + bytesRead = piped.supply
    /\ UNCHANGED readerVars

\* i < sizeOfInput-4
Searched(i) == i < sizeOfInput - 4

\* startOfData; without a data chunk everything is taken for data.
StartOfData == IF piped.mark # None /\ Searched(piped.mark) THEN piped.mark + 8 ELSE 0

\* sizeOfData: what the header of the chunk says is overwritten.
SizeOfData == sizeOfInput - StartOfData

\* The places of the samples of a channel: getSamplesForChannel
PipedSamples(channel) ==
    [i \in 1 .. SizeOfData \div (2 * piped.channels) |->
        StartOfData + (i - 1) * piped.channels * 2 + channel * 2]

\* No samples are computed for 0 channels: a division by zero.  What is displaced
\* is searched, beyond the end of buf if need be, and taken for whatever it is.
Parse ==
    /\ reader = "body" /\ LeaveLoop
    /\ IF Intact
       THEN reader' = IF piped.channels = 0 THEN "crash" ELSE "parsed"
       ELSE reader' \in {"parsed", "crash"}
    /\ UNCHANGED <<piped, written, head, sizeOfInput, bytesRead>>
=============================================================================
