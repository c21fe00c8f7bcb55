---------------------------- MODULE AudioStream ----------------------------
(***************************************************************************)
(* AudioStream: the samples of one channel, read through a buffer of       *)
(* BufSize bytes.  The program asks for a number of samples at a time and  *)
(* takes fewer than it asked for as the end of the file.                   *)
(*                                                                         *)
(* A byte is its index after startOfData; a sample is the pair of bytes it *)
(* is put together from.  stdio's fread and feof are modelled as far as    *)
(* fillBuffer and good use them, ferror is taken to be 0.                  *)
(***************************************************************************)
EXTENDS Integers, Sequences

CONSTANTS
    BufSize,      \* _bufferSize = 4096
    MaxChannels,  \* bound: channels of the file
    MaxBytes,     \* bound: bytes from startOfData to the end of the file
    MaxSamples,   \* bound: samples asked for by one call
    MaxCalls      \* bound: calls of read

\* One sample of every channel fits into the buffer.
ASSUME BufferAssumption == /\ BufSize \in Nat /\ MaxChannels \in Nat
                           /\ 2 * MaxChannels <= BufSize
ASSUME CallsAssumption  == MaxBytes \in Nat /\ MaxSamples \in Nat /\ MaxCalls \in Nat

VARIABLES
    channel, channels,  \* _channel, _channels
    total,              \* bytes from startOfData to the end of the file
    fpos,               \* bytes that fread has delivered
    eof,                \* feof(_file)
    buf, pos, end,      \* _buf, _pos, _end
    want,               \* samples asked for; 0 between two calls
    got,                \* the loop's i
    frame,              \* bytes read of the sample of all channels
    out,                \* history: the samples delivered by all calls
    calls,              \* calls so far
    short               \* history: a call delivered fewer than asked for

vars == <<channel, channels, total, fpos, eof, buf, pos, end, want, got, frame,
          out, calls, short>>

Garbage == -1           \* what is in _buf before the first fread
Slots   == 0 .. BufSize - 1

Init ==
    /\ channels \in 1..MaxChannels
    /\ channel \in 0 .. channels - 1
    /\ total \in 0..MaxBytes
    /\ fpos = 0 /\ eof = FALSE
    /\ buf = [j \in Slots |-> Garbage]
    /\ pos = 0 /\ end = 0
    /\ want = 0 /\ got = 0
    /\ frame = << >>
    /\ out = << >>
    /\ calls = 0
    /\ short = FALSE

FrameSize == 2 * channels

\* Bytes that fread(_buf, 1, _bufferSize, _file) delivers
Rest == IF total - fpos < BufSize THEN total - fpos ELSE BufSize

Refill == pos = end

\* fread sets the end-of-file indicator only when it delivers less than it was
\* asked for; what it does not reach of _buf keeps its old value.
FillBuffer ==
    /\ buf' = [j \in Slots |-> IF j < Rest THEN fpos + j ELSE buf[j]]
    /\ end' = Rest
    /\ fpos' = fpos + Rest
    /\ eof' = (Rest < BufSize)
    /\ pos' = 1

\* readNext: the byte goes to the end of the frame.
ReadNext ==
    IF Refill
    THEN FillBuffer /\ frame' = Append(frame, buf'[0])
    ELSE /\ pos' = pos + 1
         /\ frame' = Append(frame, buf[pos])
         /\ UNCHANGED <<buf, end, fpos, eof>>

Good == pos < end \/ ~eof

Call ==
    /\ want = 0
    /\ calls < MaxCalls
    /\ want' \in 1..MaxSamples
    /\ got' = 0
    /\ calls' = calls + 1
    /\ UNCHANGED <<channel, channels, total, fpos, eof, buf, pos, end, frame, out, short>>

\* One readNext: of a sample begun, or the first of another one.
ReadByte ==
    /\ want > 0
    /\ Len(frame) < FrameSize
    /\ frame = << >> => got < want /\ Good
    /\ ReadNext
    /\ UNCHANGED <<channel, channels, total, want, got, out, calls, short>>

\* Mutant: the bytes of the channels behind this one are left in the stream.
StoreEarly ==
    /\ want > 0
    /\ Len(frame) = 2 * channel + 2
    /\ out' = Append(out, <<frame[2 * channel + 1], frame[2 * channel + 2]>>)
    /\ frame' = << >>
    /\ got' = got + 1
    /\ UNCHANGED <<channel, channels, total, fpos, eof, buf, pos, end, want, calls, short>>

\* res[i] = convertTwoBytesToShort(first, second)
Store ==
    /\ want > 0
    /\ Len(frame) = FrameSize
    /\ out' = Append(out, <<frame[2 * channel + 1], frame[2 * channel + 2]>>)
    /\ frame' = << >>
    /\ got' = got + 1
    /\ UNCHANGED <<channel, channels, total, fpos, eof, buf, pos, end, want, calls, short>>

\* Mutant: a call ends with the buffer.
ReturnAtBufferEnd ==
    /\ want > 0
    /\ frame = << >>
    /\ got = want \/ pos >= end
    /\ short' = (short \/ got < want)
    /\ want' = 0
    /\ UNCHANGED <<channel, channels, total, fpos, eof, buf, pos, end, got, frame, out, calls>>

\* res.resize(i)
Return ==
    /\ want > 0
    /\ frame = << >>
    /\ got = want \/ ~Good
    /\ short' = (short \/ got < want)
    /\ want' = 0
    /\ UNCHANGED <<channel, channels, total, fpos, eof, buf, pos, end, got, frame, out, calls>>

Step == ReadByte \/ Store \/ Return

Next == Call \/ Step

Spec == Init /\ [][Next]_vars

-----------------------------------------------------------------------------
(* Properties.                                                             *)

Bytes == Nat \union {Garbage}

\* Every variable has its type; _pos never leaves the buffer.
TypeOK ==
    /\ channels \in 1..MaxChannels
    /\ channel \in 0 .. channels - 1
    /\ total \in Nat
    /\ fpos \in 0..total
    /\ eof \in BOOLEAN
    /\ buf \in [Slots -> Bytes]
    /\ pos \in 0..BufSize
    /\ end \in 0..BufSize
    /\ want \in Nat /\ got \in Nat /\ calls \in Nat
    /\ frame \in Seq(Bytes) /\ Len(frame) <= FrameSize
    /\ out \in Seq(Bytes \X Bytes)
    /\ short \in BOOLEAN

\* The k-th sample of the channel lies wholly in the file.
InFile(k) == FrameSize * k <= total

\* The bytes of the k-th sample of the channel
Sample(k) == LET first == FrameSize * (k - 1) + 2 * channel IN <<first, first + 1>>

\* The samples delivered are those of the channel, in order and without a gap,
\* however the calls divide them up and wherever a buffer ends: also in the
\* middle of a sample.
ExactSamples == \A k \in DOMAIN out : InFile(k) => out[k] = Sample(k)

\* At most one sample is delivered that is not in the file.
OneExtra == FrameSize * Len(out) <= total + FrameSize

\* A call that delivers fewer samples than it was asked for has come to the end
\* of the file: nothing is lost for a caller that stops there.
ShortIsEnd == short => FrameSize * Len(out) >= total
=============================================================================
