---------------------------- MODULE WavFileProofs ----------------------------
(***************************************************************************)
(* Proofs about AudioStream, for every size of the buffer, number of       *)
(* channels and length of file that BufferAssumption admits, and about     *)
(* AudioFile and the stream it opens, for all files that FilesAssumption   *)
(* admits, any window of the search and any buffer.                        *)
(***************************************************************************)
EXTENDS WavFile, TLAPS

\* Bytes that have been taken out of the buffer, those made up included
Taken == fpos - end + pos

\* What the buffer holds is the last of what fread delivered; _pos is beyond
\* _end only at the end of the file and in the sample that is being read.
BufferInv ==
    /\ end <= fpos
    /\ \A j \in Slots : j < end => buf[j] = fpos - end + j
    /\ eof => fpos = total
    /\ pos > end => eof
    /\ pos > end /\ frame # << >> => pos <= Len(frame)

\* The bytes of the sample that is being read are those of the file, as far as
\* the file goes, and it was begun before the end of the file.
FrameInv ==
    /\ Taken = FrameSize * Len(out) + Len(frame)
    /\ \A k \in DOMAIN frame :
          FrameSize * Len(out) + k - 1 < total => frame[k] = FrameSize * Len(out) + k - 1
    /\ frame # << >> => want > 0 /\ FrameSize * Len(out) <= total

IInv == TypeOK /\ BufferInv /\ FrameInv /\ ExactSamples /\ OneExtra /\ ShortIsEnd

-----------------------------------------------------------------------------
LEMMA TimesNext ==
    ASSUME NEW f \in Nat, NEW n \in Nat
    PROVE  /\ f * (n + 1) = f * n + f
           /\ f * n \in Nat
OBVIOUS

LEMMA InitInv == Init => IInv
<1> SUFFICES ASSUME Init PROVE IInv
  OBVIOUS
<1> USE BufferAssumption DEF BufferAssumption, Init
<1>1. TypeOK
  BY DEF TypeOK, Slots, Bytes, Garbage, FrameSize
<1>2. FrameSize * Len(out) = 0 /\ FrameSize \in Nat /\ total \in Nat
  BY DEF FrameSize, TypeOK
<1>3. BufferInv
  BY DEF BufferInv, Slots
<1>4. FrameInv /\ OneExtra /\ ShortIsEnd
  BY <1>2 DEF FrameInv, OneExtra, ShortIsEnd, Taken
<1>5. ExactSamples
  BY DEF ExactSamples
<1> QED  BY <1>1, <1>3, <1>4, <1>5 DEF IInv

\* The sizes that the steps below calculate with
LEMMA Sizes ==
    ASSUME TypeOK
    PROVE  /\ FrameSize \in Nat /\ 2 <= FrameSize /\ FrameSize <= BufSize
           /\ Len(out) \in Nat /\ Len(frame) \in Nat
           /\ FrameSize * Len(out) \in Nat
<1>1. FrameSize \in Nat /\ 2 <= FrameSize /\ FrameSize <= BufSize
  BY BufferAssumption DEF BufferAssumption, TypeOK, FrameSize
<1>2. Len(out) \in Nat /\ Len(frame) \in Nat
  BY DEF TypeOK
<1> QED  BY <1>1, <1>2, TimesNext

\* readNext delivers the byte of the file that is next, if there is one.
LEMMA ByteRead ==
    ASSUME TypeOK, BufferInv, ReadNext, frame # << >> \/ Good, Len(frame) < FrameSize
    PROVE  \E b \in Bytes :
              /\ frame' = Append(frame, b)
              /\ Taken < total => b = Taken
<1> USE BufferAssumption DEF BufferAssumption
<1>0. FrameSize <= BufSize /\ FrameSize \in Nat /\ Len(frame) \in Nat /\ BufSize \in Nat
  BY Sizes
<1>a. /\ fpos \in Nat /\ total \in Nat /\ fpos <= total /\ pos \in 0..BufSize
      /\ end \in 0..BufSize /\ buf \in [Slots -> Bytes]
  BY DEF TypeOK
<1>1. CASE Refill
  <2>1. Rest \in Nat /\ (fpos < total => 0 < Rest) /\ 0 \in Slots
    BY <1>a, <1>0, Sizes DEF Rest, Slots
  <2>2. buf'[0] = IF 0 < Rest THEN fpos + 0 ELSE buf[0]
    BY <1>1, <2>1 DEF ReadNext, FillBuffer
  <2>3. Taken = fpos
    BY <1>1, <1>a DEF Refill, Taken
  <2>4. frame' = Append(frame, buf'[0])
    BY <1>1 DEF ReadNext
  <2>5. buf'[0] \in Bytes
    BY <2>1, <2>2, <1>a DEF Bytes
  <2> QED  BY <2>1, <2>2, <2>3, <2>4, <2>5, <1>a
<1>2. CASE ~Refill
  <2>1. frame' = Append(frame, buf[pos])
    BY <1>2 DEF ReadNext
  <2>2. pos \in Slots
    BY <1>0, <1>2, <1>a DEF BufferInv, Good, Refill, Slots
  <2>3. pos < end => buf[pos] = Taken
    BY <2>2, <1>a DEF BufferInv, Taken
  <2>4. ~(pos < end) => ~(Taken < total)
    BY <1>2, <1>a DEF BufferInv, Refill, Taken
  <2> QED  BY <2>1, <2>2, <2>3, <2>4, <1>a
<1> QED  BY <1>1, <1>2

\* readNext leaves the buffer as BufferInv says.
LEMMA BufferRead ==
    ASSUME TypeOK, BufferInv, ReadNext, frame # << >> \/ Good, Len(frame) < FrameSize,
           total' = total, Len(frame') = Len(frame) + 1
    PROVE  /\ BufferInv'
           /\ Taken' = Taken + 1
           /\ fpos' \in 0..total /\ eof' \in BOOLEAN /\ buf' \in [Slots -> Bytes]
           /\ pos' \in 0..BufSize /\ end' \in 0..BufSize
<1> USE BufferAssumption DEF BufferAssumption
<1>0. /\ FrameSize <= BufSize /\ 2 <= FrameSize /\ FrameSize \in Nat
      /\ Len(frame) \in Nat /\ BufSize \in Nat
  BY Sizes
<1>a. /\ fpos \in Nat /\ total \in Nat /\ fpos <= total /\ pos \in 0..BufSize
      /\ end \in 0..BufSize /\ buf \in [Slots -> Bytes] /\ eof \in BOOLEAN
  BY DEF TypeOK
<1>1. CASE Refill
  <2>r. /\ Rest \in 0..BufSize
        /\ fpos + Rest <= total
        /\ Rest < BufSize => fpos + Rest = total
    BY <1>a, <1>0 DEF Rest
  <2>1. PICK n \in 0..BufSize : /\ n = Rest
                                /\ fpos + n <= total
                                /\ n < BufSize => fpos + n = total
    BY <2>r
  <2>2. /\ buf' = [j \in Slots |-> IF j < n THEN fpos + j ELSE buf[j]]
        /\ end' = n /\ fpos' = fpos + n /\ pos' = 1
    BY <1>1, <2>1 DEF ReadNext, FillBuffer
  <2>e. eof' \in BOOLEAN /\ (eof' <=> n < BufSize)
    <3>1. eof' = (Rest < BufSize)
      BY <1>1, Zenon DEF ReadNext, FillBuffer
    <3>2. eof' = (n < BufSize)
      BY <2>1, <3>1, Zenon
    <3>3. (n < BufSize) \in BOOLEAN
      OBVIOUS
    <3> QED  BY <3>2, <3>3, Zenon
  <2>3. buf' \in [Slots -> Bytes]
    BY <2>2, <1>a DEF Slots, Bytes
  <2>4. \A j \in Slots : j < end' => buf'[j] = fpos' - end' + j
    BY <2>2, <1>a DEF Slots
  <2>5. Taken' = Taken + 1
    BY <2>2, <1>1, <1>a DEF Taken, Refill
  <2>6. end' <= fpos' /\ (eof' => fpos' = total')
    BY <2>1, <2>2, <2>e, <1>0, <1>a
  <2>7. pos' > end' => eof' /\ pos' <= Len(frame')
    BY <2>1, <2>2, <2>e, <1>0, <1>a
  <2>8. BufferInv'
    BY <2>4, <2>6, <2>7 DEF BufferInv
  <2> QED  BY <2>1, <2>2, <2>e, <2>3, <2>5, <2>8, <1>0, <1>a
<1>2. CASE ~Refill
  <2>1. pos' = pos + 1 /\ UNCHANGED <<buf, end, fpos, eof>>
    BY <1>2 DEF ReadNext
  <2>2. pos' \in 0..BufSize
    BY <2>1, <1>0, <1>2, <1>a DEF BufferInv, Good, Refill
  <2>3. Taken' = Taken + 1
    BY <2>1, <1>a DEF Taken
  <2>4. pos' > end' => pos > end
    BY <2>1, <1>2, <1>a DEF Refill
  <2>5. pos' > end' => frame # << >> /\ pos' <= Len(frame')
    BY <2>1, <2>4, <1>0, <1>a DEF BufferInv, Good
  <2>6. BufferInv'
    BY <2>1, <2>4, <2>5 DEF BufferInv
  <2> QED  BY <2>1, <2>2, <2>3, <2>6, <1>a
<1> QED  BY <1>1, <1>2

LEMMA CallStep == IInv /\ Call => IInv'
<1> SUFFICES ASSUME IInv, Call PROVE IInv'
  OBVIOUS
<1> USE DEF IInv
<1>1. /\ UNCHANGED <<channel, channels, total, fpos, eof, buf, pos, end, frame, out, short>>
      /\ got' = 0 /\ calls' = calls + 1
  BY DEF Call
<1>2. want' \in Nat /\ want' > 0
  BY CallsAssumption DEF CallsAssumption, Call
<1>3. TypeOK'
  BY <1>1, <1>2 DEF TypeOK, FrameSize, Slots, Bytes
<1>4. BufferInv' /\ ExactSamples' /\ OneExtra' /\ ShortIsEnd'
  BY <1>1 DEF BufferInv, ExactSamples, OneExtra, ShortIsEnd, InFile, Sample, FrameSize
<1>5. FrameInv'
  BY <1>1, <1>2 DEF FrameInv, Taken, FrameSize
<1> QED  BY <1>3, <1>4, <1>5

LEMMA ReadByteStep == IInv /\ ReadByte => IInv'
<1> SUFFICES ASSUME IInv, ReadByte PROVE IInv'
  OBVIOUS
<1> USE DEF IInv
<1>1. /\ UNCHANGED <<channel, channels, total, want, got, out, calls, short>>
      /\ want > 0 /\ Len(frame) < FrameSize /\ ReadNext
      /\ frame # << >> \/ Good
  BY DEF ReadByte
<1>2. /\ FrameSize \in Nat /\ Len(out) \in Nat /\ Len(frame) \in Nat
      /\ FrameSize * Len(out) \in Nat
      /\ total \in Nat /\ frame \in Seq(Bytes)
  BY Sizes DEF TypeOK
<1>3. PICK b \in Bytes : /\ frame' = Append(frame, b)
                         /\ Taken < total => b = Taken
  BY <1>1, ByteRead
<1>4. Len(frame') = Len(frame) + 1 /\ frame' \in Seq(Bytes) /\ frame' # << >>
  BY <1>2, <1>3
<1>5. /\ BufferInv'
      /\ Taken' = Taken + 1
      /\ fpos' \in 0..total /\ eof' \in BOOLEAN /\ buf' \in [Slots -> Bytes]
      /\ pos' \in 0..BufSize /\ end' \in 0..BufSize
  BY <1>1, <1>4, BufferRead
<1>6. TypeOK'
  <2>1. Len(frame') <= FrameSize
    BY <1>1, <1>2, <1>4
  <2> QED  BY <1>1, <1>4, <1>5, <2>1 DEF TypeOK, FrameSize
<1>7. FrameSize' = FrameSize
  BY <1>1 DEF FrameSize
<1>8. ExactSamples' /\ OneExtra' /\ ShortIsEnd'
  BY <1>1, <1>7 DEF ExactSamples, OneExtra, ShortIsEnd, InFile, Sample
<1>9. FrameInv'
  <2> DEFINE base == FrameSize * Len(out)
  <2>1. base' = base /\ base \in Nat
    BY <1>1, <1>2, <1>7
  <2>2. Taken = base + Len(frame)
    BY DEF FrameInv
  <2>3. Taken' = base + Len(frame')
    BY <1>2, <1>4, <1>5, <2>1, <2>2
  <2>4. \A k \in DOMAIN frame : base + k - 1 < total => frame[k] = base + k - 1
    BY DEF FrameInv
  <2>5. base <= total
    <3>1. CASE frame # << >>
      BY <3>1 DEF FrameInv
    <3>2. CASE frame = << >>
      <4>1. Good /\ Len(frame) = 0
        BY <1>1, <3>2
      <4>2. Taken <= total
        BY <4>1 DEF Taken, Good, BufferInv, TypeOK
      <4> QED  BY <2>1, <2>2, <4>1, <4>2
    <3> QED  BY <3>1, <3>2
  <2> HIDE DEF base
  <2>6. \A k \in DOMAIN frame' : base + k - 1 < total => frame'[k] = base + k - 1
    <3> TAKE k \in DOMAIN frame'
    <3>1. CASE k <= Len(frame)
      BY <1>2, <1>3, <2>4, <3>1
    <3>2. CASE ~(k <= Len(frame))
      <4>1. k = Len(frame) + 1
        BY <1>2, <1>4, <3>2
      <4>2. frame'[k] = b
        BY <1>2, <1>3, <4>1
      <4>3. base + k - 1 = Taken
        BY <1>2, <2>1, <2>2, <4>1
      <4> QED  BY <1>3, <4>2, <4>3
    <3> QED  BY <3>1, <3>2
  <2> QED  BY <1>1, <1>4, <2>1, <2>3, <2>5, <2>6 DEF FrameInv, base
<1> QED  BY <1>5, <1>6, <1>8, <1>9

LEMMA StoreStep == IInv /\ Store => IInv'
<1> SUFFICES ASSUME IInv, Store PROVE IInv'
  OBVIOUS
<1> USE DEF IInv
<1>1. /\ UNCHANGED <<channel, channels, total, fpos, eof, buf, pos, end, want, calls, short>>
      /\ want > 0 /\ Len(frame) = FrameSize
      /\ frame' = << >> /\ got' = got + 1
      /\ out' = Append(out, <<frame[2 * channel + 1], frame[2 * channel + 2]>>)
  BY DEF Store
<1> DEFINE first == 2 * channel
<1> DEFINE base  == FrameSize * Len(out)
<1>2. /\ FrameSize \in Nat /\ 2 <= FrameSize /\ Len(out) \in Nat /\ base \in Nat
      /\ total \in Nat /\ frame \in Seq(Bytes) /\ out \in Seq(Bytes \X Bytes)
  BY Sizes DEF TypeOK
<1>3. first \in Nat /\ first + 2 <= FrameSize
  BY DEF TypeOK, FrameSize
<1>4. frame[first + 1] \in Bytes /\ frame[first + 2] \in Bytes
  BY <1>1, <1>2, <1>3
<1>5. out' \in Seq(Bytes \X Bytes) /\ Len(out') = Len(out) + 1
  BY <1>1, <1>2, <1>4
<1>6. FrameSize' = FrameSize /\ FrameSize * (Len(out) + 1) = base + FrameSize
  BY <1>1, <1>2, TimesNext DEF FrameSize
<1>7. TypeOK'
  BY <1>1, <1>2, <1>5 DEF TypeOK, FrameSize
<1>8. BufferInv'
  BY <1>1 DEF BufferInv
<1>9. /\ Taken = base + FrameSize
      /\ \A k \in DOMAIN frame : base + k - 1 < total => frame[k] = base + k - 1
      /\ base <= total
  BY <1>1, <1>2 DEF FrameInv
<1>10. FrameSize' * Len(out') = base + FrameSize
  BY <1>5, <1>6
<1>11. FrameInv' /\ OneExtra' /\ ShortIsEnd'
  <2>1. Taken' = Taken /\ Len(frame') = 0 /\ DOMAIN frame' = {}
    BY <1>1 DEF Taken
  <2>2. short => base >= total
    BY DEF ShortIsEnd
  <2> HIDE DEF base
  <2>3. FrameInv'
    BY <1>1, <1>2, <1>9, <1>10, <2>1 DEF FrameInv
  <2>4. OneExtra' /\ ShortIsEnd'
    BY <1>1, <1>2, <1>6, <1>9, <1>10, <2>2 DEF OneExtra, ShortIsEnd
  <2> QED  BY <2>3, <2>4
<1>12. ExactSamples'
  <2> SUFFICES ASSUME NEW k \in DOMAIN out', FrameSize * k <= total
               PROVE  out'[k] = <<FrameSize * (k - 1) + first, FrameSize * (k - 1) + first + 1>>
    BY <1>1, <1>6 DEF ExactSamples, InFile, Sample
  <2>1. CASE k <= Len(out)
    <3>1. k \in DOMAIN out /\ out'[k] = out[k]
      BY <1>1, <1>2, <1>5, <2>1
    <3> QED  BY <3>1 DEF ExactSamples, InFile, Sample
  <2>2. CASE ~(k <= Len(out))
    <3>1. k = Len(out) + 1
      BY <1>2, <1>5, <2>2
    <3>2. /\ out'[k] = <<frame[first + 1], frame[first + 2]>>
          /\ FrameSize * (k - 1) = base /\ base + FrameSize <= total
      BY <1>1, <1>2, <1>6, <3>1
    <3>3. first + 1 \in DOMAIN frame /\ first + 2 \in DOMAIN frame
      BY <1>1, <1>2, <1>3
    <3> HIDE DEF first, base
    <3>4. /\ base + (first + 1) - 1 = base + first /\ base + first < total
          /\ base + (first + 2) - 1 = base + first + 1 /\ base + first + 1 < total
      BY <1>2, <1>3, <3>2
    <3>5. frame[first + 1] = base + first /\ frame[first + 2] = base + first + 1
      BY <1>9, <3>3, <3>4
    <3> QED  BY <3>2, <3>5
  <2> QED  BY <2>1, <2>2
<1> QED  BY <1>7, <1>8, <1>11, <1>12

LEMMA ReturnStep == IInv /\ Return => IInv'
<1> SUFFICES ASSUME IInv, Return PROVE IInv'
  OBVIOUS
<1> USE DEF IInv
<1>1. /\ UNCHANGED <<channel, channels, total, fpos, eof, buf, pos, end, got, frame, out, calls>>
      /\ want > 0 /\ want' = 0 /\ frame = << >>
      /\ got = want \/ ~Good
  BY DEF Return
<1>2. short' \in BOOLEAN /\ (short' => short \/ ~Good)
  BY DEF Return, TypeOK
<1>3. TypeOK'
  BY <1>1, <1>2 DEF TypeOK, FrameSize, Slots, Bytes
<1>4. BufferInv' /\ ExactSamples' /\ OneExtra' /\ FrameInv'
  BY <1>1 DEF BufferInv, ExactSamples, OneExtra, InFile, Sample, FrameSize, FrameInv, Taken
<1>5. ~Good => FrameSize * Len(out) >= total
  <2>1. Taken = FrameSize * Len(out)
    BY <1>1, Sizes DEF FrameInv
  <2>2. ~Good => Taken >= total
    BY DEF Good, Taken, BufferInv, TypeOK
  <2> QED  BY <2>1, <2>2
<1>6. ShortIsEnd'
  BY <1>1, <1>2, <1>5 DEF ShortIsEnd, FrameSize
<1> QED  BY <1>3, <1>4, <1>6

LEMMA StepInv == IInv /\ [Next]_vars => IInv'
<1>1. IInv /\ UNCHANGED vars => IInv'
  BY DEF IInv, TypeOK, BufferInv, FrameInv, ExactSamples, OneExtra, ShortIsEnd, Taken,
         InFile, Sample, FrameSize, Slots, Bytes, vars
<1> QED  BY <1>1, CallStep, ReadByteStep, StoreStep, ReturnStep DEF Next, Step

\* IInv holds in every reachable state.
THEOREM Invariance == Spec => []IInv
BY InitInv, StepInv, PTL DEF Spec

\* Every variable keeps its type and _pos stays within the buffer, also where
\* readNext runs on past the end of the file.
THEOREM TypeCorrect == Spec => []TypeOK
<1>1. IInv => TypeOK
  BY DEF IInv
<1> QED  BY Invariance, <1>1, PTL

\* Whatever the sizes of the buffer and of the calls, the samples delivered are
\* those of the channel, in order, as far as the file has them.
THEOREM SamplesAreExact == Spec => []ExactSamples
<1>1. IInv => ExactSamples
  BY DEF IInv
<1> QED  BY Invariance, <1>1, PTL

\* At most one sample is made up at the end of the file.
THEOREM AtMostOneExtra == Spec => []OneExtra
<1>1. IInv => OneExtra
  BY DEF IInv
<1> QED  BY Invariance, <1>1, PTL

\* A short answer of read means that the whole file has been delivered.
THEOREM ShortMeansEnd == Spec => []ShortIsEnd
<1>1. IInv => ShortIsEnd
  BY DEF IInv
<1> QED  BY Invariance, <1>1, PTL

-----------------------------------------------------------------------------
\* What AudioFile found stays as it is; the stream that was opened is of the
\* channels found and reaches from _startOfData to the end of the file.
OpenInv ==
    /\ file \in Files /\ Opened
    /\ stage = "stream" => channels = fields.channels /\ total = file.size - fields.start
    /\ stage # "stream" => ~short

WavInv == IInv /\ OpenInv

-----------------------------------------------------------------------------
(* Arithmetic                                                              *)

\* A number lies in the multiple of d that its quotient names.
LEMMA Quotient ==
    ASSUME NEW n \in Nat, NEW d \in Nat, d > 0
    PROVE  /\ n \div d \in Nat
           /\ d * (n \div d) <= n /\ n < d * (n \div d) + d
OBVIOUS

\* Samples of 16 bits: bits first divided by the width and then by the
\* channels are bytes divided by the size of a frame.
LEMMA SamplesOfBytes ==
    ASSUME NEW n \in Nat, NEW c \in Nat, c > 0
    PROVE  ((n * 8) \div 16) \div c = n \div (2 * c)
<1> DEFINE q == (n * 8) \div 16
           r == q \div c
           s == n \div (2 * c)
<1>1. q \in Nat /\ 2 * q <= n /\ n < 2 * q + 2
  OBVIOUS
<1>2. r \in Nat /\ c * r <= q /\ q < c * r + c
  BY <1>1, Quotient
<1>3. s \in Nat /\ (2 * c) * s <= n /\ n < (2 * c) * s + 2 * c
  BY Quotient
<1> HIDE DEF q, r, s
<1>4. (2 * c) * s = 2 * (c * s) /\ c * s \in Nat /\ c * r \in Nat
  BY <1>2, <1>3
<1>5. c * s < c * r + c /\ c * r < c * s + c
  BY <1>1, <1>2, <1>3, <1>4
<1>6. c * (r + 1) = c * r + c /\ c * (s + 1) = c * s + c
  BY <1>2, <1>3
<1>7. s < r + 1 /\ r < s + 1
  <2>1. \A a, b \in Nat : c * a < c * b => a < b
    OBVIOUS
  <2> QED  BY <1>2, <1>3, <1>5, <1>6, <2>1
<1>8. r = s
  BY <1>2, <1>3, <1>7
<1> QED  BY <1>8 DEF q, r, s

-----------------------------------------------------------------------------
(* The header                                                              *)

FileType == [size : Nat, riff : Nat, fmt : Nat, channels : Nat, bits : Nat,
             gap : Nat, decoys : SUBSET Nat, data : Nat]

LEMMA AreFiles == Files \subseteq FileType
<1> SUFFICES ASSUME NEW f \in Files PROVE f \in FileType
  OBVIOUS
<1>1. f \in [size : 0 .. SizeMax - 1, riff : 0 .. 2 * IntMax - 1, fmt : 0 .. 2 * IntMax - 1,
             channels : 0 .. 2 * ShortMax - 1, bits : 0 .. 2 * ShortMax - 1,
             gap : Nat, decoys : SUBSET Nat, data : 0 .. 2 * IntMax - 1]
  BY FilesAssumption DEF FilesAssumption
<1> QED  BY <1>1 DEF FileType

LEMMA Small == \A n, m \in Nat : n < m => n % m = n
OBVIOUS

\* A number below the first negative one is read as it stands.
LEMMA Unchanged ==
    ASSUME NEW n \in Nat
    PROVE  /\ n < ShortMax => FromTwo(n) = n
           /\ n < IntMax => FromFour(n) = n /\ (FromFour(n) * 8) % SizeMax = n * 8
<1>1. /\ ShortMax \in Nat /\ IntMax \in Nat /\ SizeMax \in Nat
      /\ ShortMax <= IntMax /\ 8 * IntMax <= SizeMax
  BY FilesAssumption DEF FilesAssumption
<1>2. n < ShortMax => n < SizeMax /\ Signed(n, ShortMax) = n
  BY <1>1 DEF Signed
<1>3. n < IntMax => n < SizeMax /\ n * 8 < SizeMax /\ n * 8 \in Nat /\ Signed(n, IntMax) = n
  BY <1>1 DEF Signed
<1>4. n < SizeMax => n % SizeMax = n
  BY <1>1, Small
<1>5. n < IntMax => (n * 8) % SizeMax = n * 8
  BY <1>1, <1>3, Small
<1> QED  BY <1>2, <1>3, <1>4, <1>5 DEF FromTwo, FromFour

\* Of a regular file exactly the data chunk is found.
LEMMA RegularPopulates ==
    ASSUME NEW f \in FileType, Regular(f)
    PROVE  /\ ~DividesByZero(f) /\ ~SearchesBeyond(f) /\ ~WritesBeyond(f)
           /\ FromFour(f.fmt) = f.fmt
           /\ Populate(f) = [channels : {f.channels}, start : {DataStart(f, f.gap)},
                             samples : {PerChannel(f, f.data)}]
<1>1. /\ f.size \in Nat /\ f.riff \in Nat /\ f.fmt \in Nat /\ f.gap \in Nat
      /\ f.channels \in Nat /\ f.bits \in Nat /\ Window \in Nat /\ IntMax \in Nat
      /\ ShortMax \in Nat /\ Window < IntMax
  BY FilesAssumption DEF FilesAssumption, FileType
<1>2. /\ f.size = f.riff + 8 /\ f.size < IntMax /\ f.fmt \in 16..Window
      /\ f.channels \in 1 .. ShortMax - 1 /\ f.bits > 0 /\ f.decoys = {}
      /\ f.gap + 8 < Behind(f) /\ f.gap + 8 < Window
  BY DEF Regular
<1>a. f.fmt < IntMax /\ f.riff < IntMax /\ f.channels < ShortMax
  BY <1>1, <1>2
<1>b. FromFour(f.fmt) = f.fmt /\ FromFour(f.riff) = f.riff /\ FromTwo(f.channels) = f.channels
  BY <1>1, <1>a, Unchanged
<1>c. Behind(f) \in Int /\ f.gap < Behind(f) - 8
  BY <1>1, <1>2, <1>b DEF Behind
<1>3. ~Refused(f) /\ ~WritesBeyond(f)
  BY <1>1, <1>2, <1>b DEF Refused, NoWav, WritesBeyond, Behind
<1>4. Marks(f) = {f.gap}
  BY <1>1, <1>2, <1>c DEF Marks, Searched
<1>5. (CHOOSE m \in Marks(f) : \A n \in Marks(f) : m <= n) = f.gap
  BY <1>1, <1>4
<1>6. ~DividesByZero(f) /\ ~SearchesBeyond(f)
  BY <1>1, <1>2, <1>c DEF DividesByZero, SearchesBeyond
<1> QED  BY <1>3, <1>4, <1>5, <1>6, <1>b DEF Populate

\* The samples announced for a channel of 16 bits
LEMMA RegularSamples ==
    ASSUME NEW f \in FileType, Regular(f), f.bits = 16
    PROVE  PerChannel(f, f.data) = f.data \div (2 * f.channels)
<1>1. /\ ShortMax \in Nat /\ f.data \in Nat /\ f.channels \in Nat /\ f.bits \in Nat
      /\ f.data < IntMax /\ f.channels < ShortMax /\ f.channels > 0 /\ f.bits < ShortMax
  BY FilesAssumption DEF FilesAssumption, FileType, Regular
<1>2. /\ (FromFour(f.data) * 8) % SizeMax = f.data * 8
      /\ FromTwo(f.channels) = f.channels /\ FromTwo(f.bits) = 16
  BY <1>1, Unchanged
<1>3. PerChannel(f, f.data) = ((f.data * 8) \div 16) \div f.channels
  BY <1>2 DEF PerChannel
<1> QED  BY <1>1, <1>3, SamplesOfBytes

\* What the program has of a regular file
LEMMA RegularOpened ==
    ASSUME file \in Files, Opened, Regular(file)
    PROVE  /\ stage # "crash"
           /\ fields.channels = file.channels
           /\ fields.start = DataStart(file, file.gap)
           /\ fields.samples = PerChannel(file, file.data)
<1>1. file \in FileType
  BY AreFiles
<1>2. fields \in Populate(file) /\ stage # "crash"
  BY <1>1, RegularPopulates DEF Opened
<1>3. fields \in [channels : {file.channels}, start : {DataStart(file, file.gap)},
                  samples : {PerChannel(file, file.data)}]
  BY <1>1, <1>2, RegularPopulates
<1> QED  BY <1>2, <1>3

-----------------------------------------------------------------------------
LEMMA WavInitInv == WavInit => WavInv
<1>1. WavInit => Init /\ IInv
  BY InitInv DEF WavInit
<1>2. WavInit => OpenInv
  BY DEF WavInit, OpenInv, Init
<1> QED  BY <1>1, <1>2 DEF WavInv

LEMMA WavStep == WavInv /\ [WavNext]_<<vars, wavVars>> => WavInv'
<1> SUFFICES ASSUME WavInv, [WavNext]_<<vars, wavVars>> PROVE WavInv'
  OBVIOUS
<1>1. [Next]_vars /\ UNCHANGED <<file, fields, asked, stage>>
  BY DEF WavNext, vars, wavVars
<1>2. IInv'
  BY <1>1, StepInv DEF WavInv
<1>3. UNCHANGED <<channels, total>>
  BY <1>1 DEF Next, Step, Call, ReadByte, ReadNext, FillBuffer, Store, Return, vars
<1>4. stage # "stream" => UNCHANGED vars
  BY DEF WavNext, vars
<1>5. Opened' <=> Opened
  BY <1>1 DEF Opened, Available
<1>6. OpenInv'
  BY <1>1, <1>3, <1>4, <1>5 DEF WavInv, OpenInv, vars
<1> QED  BY <1>2, <1>6 DEF WavInv

\* In every run of the program the file is as it was opened and the stream is
\* where IInv has it.
THEOREM WavInvariance == WavSpec => []WavInv
BY WavInitInv, WavStep, PTL DEF WavSpec

\* The samples streamed are those of the channel that was asked for, from the
\* place on where the header says the data begins.
THEOREM FileSamplesAreExact == WavSpec => []ExactSamples
<1>1. WavInv => ExactSamples
  BY DEF WavInv, IInv
<1> QED  BY WavInvariance, <1>1, PTL

\* A short answer means the end of the file, whatever the header announced.
THEOREM FileShortMeansEnd == WavSpec => []ShortIsEnd
<1>1. WavInv => ShortIsEnd
  BY DEF WavInv, IInv
<1> QED  BY WavInvariance, <1>1, PTL

\* Of a regular file the first byte and the number of samples of the data chunk
\* are found, whatever other chunks there are.
THEOREM HeaderIsTrue == WavSpec => []HeaderTrue
<1>1. WavInv => HeaderTrue
  <2> SUFFICES ASSUME WavInv, Regular(file)
               PROVE  /\ stage # "crash"
                      /\ fields.channels = file.channels
                      /\ fields.start = file.size - (Behind(file) - file.gap - 8)
                      /\ file.bits = 16 => fields.samples = file.data \div (2 * file.channels)
    BY DEF HeaderTrue
  <2>1. /\ stage # "crash"
        /\ fields.channels = file.channels
        /\ fields.start = DataStart(file, file.gap)
        /\ fields.samples = PerChannel(file, file.data)
    BY RegularOpened DEF WavInv, OpenInv
  <2>2. file \in FileType /\ FromFour(file.fmt) = file.fmt
    BY AreFiles, RegularPopulates DEF WavInv, OpenInv
  <2>3. DataStart(file, file.gap) = file.size - (Behind(file) - file.gap - 8)
    BY <2>2 DEF DataStart, Behind, FileType
  <2>4. file.bits = 16 => PerChannel(file, file.data) = file.data \div (2 * file.channels)
    BY <2>2, RegularSamples
  <2> QED  BY <2>1, <2>3, <2>4
<1> QED  BY WavInvariance, <1>1, PTL

\* Who reads a regular file of 16 bits to its end gets as many samples as the
\* header announces, and more only of what stands behind the data chunk.
THEOREM AnnouncedIsDelivered == WavSpec => []AnnouncedDelivered
<1>1. WavInv => AnnouncedDelivered
  <2> SUFFICES ASSUME WavInv, Regular(file), file.bits = 16, short
               PROVE  /\ total - file.data >= 0 => Len(out) >= fields.samples
                      /\ FrameSize * (Len(out) - fields.samples)
                            < total - file.data + 2 * FrameSize
    BY DEF AnnouncedDelivered
  <2>1. /\ channels = file.channels
        /\ fields.samples = PerChannel(file, file.data)
    BY RegularOpened DEF WavInv, OpenInv
  <2>f. file \in FileType
    BY AreFiles DEF WavInv, OpenInv
  <2>2. file.data \in Nat /\ file.channels \in Nat /\ file.channels > 0
    <3>1. ShortMax \in Nat
      BY FilesAssumption DEF FilesAssumption
    <3> QED  BY <2>f, <3>1 DEF FileType, Regular
  <2>3. /\ FrameSize = 2 * file.channels /\ FrameSize \in Nat /\ FrameSize > 0
        /\ total \in Nat /\ Len(out) \in Nat
    BY <2>1, <2>2 DEF FrameSize, WavInv, IInv, TypeOK
  <2>4. fields.samples = file.data \div FrameSize
    BY <2>1, <2>3, <2>f, RegularSamples
  <2>5. /\ FrameSize * Len(out) >= total
        /\ FrameSize * Len(out) <= total + FrameSize
    BY DEF WavInv, IInv, ShortIsEnd, OneExtra
  <2> DEFINE F == FrameSize
             n == Len(out)
             s == file.data \div FrameSize
  <2>6. s \in Nat /\ F * s <= file.data /\ file.data < F * s + F
    BY <2>2, <2>3, Quotient
  <2> HIDE DEF F, n, s
  <2>7. F \in Nat /\ F > 0 /\ n \in Nat /\ F * n >= total /\ F * n <= total + F
    BY <2>3, <2>5 DEF F, n
  <2>8. F * (n - s) = F * n - F * s
    BY <2>6, <2>7
  <2>9. total - file.data >= 0 => n >= s
    <3>1. \A a, b \in Nat : F * a <= F * b => a <= b
      BY <2>7
    <3>2. F * s \in Nat /\ F * n \in Nat
      BY <2>6, <2>7
    <3>3. file.data \in Nat /\ total \in Nat
      BY <2>2, <2>3
    <3>4. total - file.data >= 0 => F * s <= F * n
      BY <2>6, <2>7, <3>2, <3>3
    <3> QED  BY <2>6, <2>7, <3>1, <3>4
  <2>10. F * (n - s) < total - file.data + 2 * F
    <3>1. F * s \in Nat /\ F * n \in Nat
      BY <2>6, <2>7
    <3> QED  BY <2>2, <2>3, <2>6, <2>7, <2>8, <3>1
  <2> QED  BY <2>4, <2>9, <2>10 DEF F, n, s
<1> QED  BY WavInvariance, <1>1, PTL

\* Of the first of two channels, the vectors that getSamplesForChannel and
\* getSamplesForChannelInRange fill have the samples of the stream, for every
\* length of file and every range within it.
THEOREM ReadersDoAgree == WavSpec => []ReadersAgree
<1>1. WavInv => ReadersAgree
  <2> SUFFICES ASSUME WavInv, stage = "stream", channels = 2, channel = 0
               PROVE  /\ \A k \in DOMAIN out : InFile(k) => k <= Len(WholeChannel) /\ WholeChannel[k] = out[k]
                      /\ \A from \in 0 .. Len(out) : \A to \in from .. Len(out) :
                            FrameSize * to <= total => InRange(from, to) = SubSeq(out, from + 1, to)
    BY DEF ReadersAgree
  <2>1. /\ out \in Seq(Bytes \X Bytes) /\ DOMAIN out = 1..Len(out) /\ Len(out) \in Nat
        /\ total \in Nat /\ FrameSize = 4
    BY DEF WavInv, IInv, TypeOK, FrameSize
  <2>2. ASSUME NEW k \in 1..Len(out), 4 * k <= total
        PROVE  out[k] = <<4 * (k - 1), 4 * (k - 1) + 1>>
    <3>1. InFile(k) /\ k \in DOMAIN out
      BY <2>1, <2>2 DEF InFile
    <3>2. out[k] = Sample(k)
      BY <3>1 DEF WavInv, IInv, ExactSamples
    <3> QED BY <2>1, <3>2 DEF Sample
  <2>3. ASSUME NEW k \in DOMAIN out, InFile(k)
        PROVE  k <= Len(WholeChannel) /\ WholeChannel[k] = out[k]
    <3>1. k \in 1..Len(out) /\ 4 * k <= total
      BY <2>1, <2>3 DEF InFile
    <3> DEFINE last == (total + 3) \div 4
    <3>2. last \in Nat /\ k \in 1..last
      BY <2>1, <3>1
    <3>3. Len(WholeChannel) = last
      <4> HIDE DEF last
      <4> DEFINE f(m) == <<4 * (m - 1), IF 4 * (m - 1) + 1 < total THEN 4 * (m - 1) + 1
                                        ELSE IF 4 * (m - 1) >= 8 THEN 4 * (m - 1) - 7 ELSE Garbage>>
      <4>1. WholeChannel = [m \in 1..last |-> f(m)]
        BY DEF WholeChannel, last
      <4> HIDE DEF f
      <4> QED BY <3>2, <4>1
    <3>4. WholeChannel[k] = <<4 * (k - 1), 4 * (k - 1) + 1>>
      BY <2>1, <3>1, <3>2 DEF WholeChannel
    <3>5. out[k] = <<4 * (k - 1), 4 * (k - 1) + 1>>
      BY <2>2, <3>1
    <3> HIDE DEF last
    <3>6. k <= Len(WholeChannel)
      BY <3>2, <3>3
    <3> QED BY <3>4, <3>5, <3>6
  <2>4. ASSUME NEW from \in 0 .. Len(out), NEW to \in from .. Len(out), FrameSize * to <= total
        PROVE  InRange(from, to) = SubSeq(out, from + 1, to)
    <3> DEFINE n == to - from
               part == SubSeq(out, from + 1, to)
    <3>1. n \in Nat /\ from \in Nat /\ to \in Nat /\ to <= Len(out) /\ 4 * to <= total
      BY <2>1, <2>4
    <3>2. part \in Seq(Bytes \X Bytes) /\ Len(part) = n /\ \A k \in 1..n : part[k] = out[from + k]
      BY <2>1, <3>1
    <3>3. ASSUME NEW k \in 1..n
          PROVE  InRange(from, to)[k] = <<4 * from + 4 * (k - 1), 4 * from + 4 * (k - 1) + 1>>
      <4>1. 2 * channels * from = 4 * from /\ 2 * channels * (to - from) = 4 * n
        BY <3>1
      <4>2. 4 * from + 4 * n <= total /\ 4 * (k - 1) < 4 * n
        BY <2>1, <3>1
      <4> HIDE DEF n
      <4> QED BY <3>3, <4>1, <4>2 DEF InRange, n
    <3>4. ASSUME NEW k \in 1..n
          PROVE  part[k] = <<4 * from + 4 * (k - 1), 4 * from + 4 * (k - 1) + 1>>
      <4>1. from + k \in 1..Len(out) /\ 4 * (from + k) <= total
        BY <2>1, <3>1
      <4>2. out[from + k] = <<4 * (from + k - 1), 4 * (from + k - 1) + 1>>
        BY <2>2, <4>1
      <4>3. 4 * (from + k - 1) = 4 * from + 4 * (k - 1)
        BY <3>1
      <4> QED BY <3>2, <4>2, <4>3
    <3>5. InRange(from, to) = [k \in 1..n |-> InRange(from, to)[k]]
      BY DEF InRange
    <3>6. part = [k \in 1..n |-> part[k]]
      BY <3>1, <3>2
    <3>7. \A k \in 1..n : InRange(from, to)[k] = part[k]
      BY <3>3, <3>4
    <3> HIDE DEF n, part
    <3>8. [k \in 1..n |-> InRange(from, to)[k]] = [k \in 1..n |-> part[k]]
      BY <3>7
    <3> QED BY <3>5, <3>6, <3>8 DEF part
  <2> QED BY <2>3, <2>4
<1> QED  BY WavInvariance, <1>1, PTL
=============================================================================
