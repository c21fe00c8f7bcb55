--------------------------- MODULE IndexingProofs ---------------------------
(***************************************************************************)
(* Proofs about the two programs that turn files into the rows of an       *)
(* index.                                                                  *)
(*                                                                         *)
(* ismir_build_index, for any recordings, invocations, sizes of frame and  *)
(* pipe, and however the pipe's bytes arrive behind an intact header: a    *)
(* whole recording gives the fingerprints of its sound, from a file or     *)
(* stdin.  The invariant says of                                           *)
(* each stage of a track what is known of it: that the loop over read is   *)
(* left with all bytes (ReaderInv), that samples is the sound (SampledInv) *)
(* and that output and prevEnergy are those of the frames done             *)
(* (FramesInv).  An excerpt of a recording has the recording's             *)
(* fingerprints, at its place in it, but for the first.                    *)
(*                                                                         *)
(* lets_try_again, for any files, any relation of names, and any number of *)
(* starts, kills at any point: what the two tables hold, and what a query  *)
(* is answered: the histogram's matches are backed by hits (AnswerInv),    *)
(* and each insertion has its place in the table (PlacesInv).              *)
(***************************************************************************)
EXTENDS BuildIndex, SqliteIndex, FoldLemmas

\* The recordings still to be inserted; only the one that is piped is named "-".
TodoInv ==
    /\ opts \in Invocations
    /\ opts.list # << >> => piped = opts.list[Len(opts.list)]
    /\ piped \in Piped
    /\ todo \in Seq(Named)
    /\ \A k \in DOMAIN todo : todo[k].kind = "-" => todo[k] = piped
    /\ stage \in {"stdin", "frames"} => todo # << >>
    /\ stage = "stdin" => todo[1] = piped /\ todo[1].kind = "-"

\* Where the header was intact, the size is the announced one, and that many
\* bytes are read.
ReaderInv ==
    /\ reader \in {"body", "parsed"} /\ Intact => sizeOfInput = piped.size
    /\ reader = "parsed" /\ Intact => bytesRead = piped.size /\ piped.channels # 0

\* What is generated are the fingerprints of a sequence of samples; those of a
\* whole recording are its sound.
SampledInv ==
    stage = "frames" /\ Whole(todo[1]) /\ (todo[1].kind = "-" => Intact) => samples = todo[1].sound

FramesInv ==
    /\ frame \in Nat
    /\ stage = "frames" =>
          /\ output = [j \in 1..frame |-> FingerprintAt(samples, j)]
          /\ prevEnergy = Energies(samples, frame)
          /\ \A j \in 1..frame : FrameEndsBefore(j, Len(samples))

DbInv == /\ db \in Seq({db[k] : k \in DOMAIN db}) /\ SameEitherWay
         /\ \A k \in DOMAIN db : db[k].of \in Named

BuildInv == TodoInv /\ ReaderInv /\ SampledInv /\ FramesInv /\ DbInv

-----------------------------------------------------------------------------
\* A sequence of whatever is made longer.
LEMMA Longer ==
    ASSUME NEW s, s \in Seq({s[k] : k \in DOMAIN s}), NEW e
    PROVE  LET t == Append(s, e)
           IN  /\ t \in Seq({t[k] : k \in DOMAIN t})
               /\ Len(s) \in Nat /\ Len(t) = Len(s) + 1 /\ DOMAIN t = 1 .. Len(s) + 1
               /\ DOMAIN s = 1..Len(s)
               /\ t[Len(s) + 1] = e /\ \A k \in 1..Len(s) : t[k] = s[k]
<1> DEFINE S == {s[k] : k \in DOMAIN s} \union {e}
           t == Append(s, e)
<1>1. s \in Seq(S)
  OBVIOUS
<1> HIDE DEF S
<1>2. /\ t \in Seq(S) /\ Len(s) \in Nat /\ Len(t) = Len(s) + 1 /\ DOMAIN t = 1 .. Len(s) + 1
      /\ DOMAIN s = 1..Len(s) /\ e \in S
      /\ t[Len(s) + 1] = e /\ \A k \in 1..Len(s) : t[k] = s[k]
  BY <1>1 DEF S
<1> HIDE DEF t
<1>3. t \in Seq({t[k] : k \in DOMAIN t})
  BY <1>2
<1> QED BY <1>2, <1>3 DEF t

LEMMA HasFirst == \A S : \A s \in Seq(S) : s # << >> => 1 \in DOMAIN s
<1> SUFFICES ASSUME NEW S, NEW s \in Seq(S), s # << >> PROVE 1 \in DOMAIN s
  OBVIOUS
<1>1. Len(s) \in Nat \ {0} /\ DOMAIN s = 1..Len(s)
  BY EmptySeq
<1> QED BY <1>1

-----------------------------------------------------------------------------
(* Frames                                                                  *)

\* The frames that end before the last sample are the first ones.
LEMMA FramesAreFirst ==
    ASSUME NEW n \in Nat, NEW m \in Nat,
           \A j \in 1..m : FrameEndsBefore(j, n), ~FrameEndsBefore(m + 1, n)
    PROVE  FrameNumbers(n) = 1..m
<1> USE FrameAssumption DEF FrameAssumption
<1>1. \A a, b \in Nat : a <= b => Advance * a <= Advance * b /\ a <= Advance * a
                                 /\ Advance * a \in Nat /\ Advance * b \in Nat
  OBVIOUS
<1>2. ASSUME NEW k \in 1..m PROVE k \in FrameNumbers(n)
  <2>1. k - 1 \in Nat /\ k - 1 <= k - 1 /\ FrameEndsBefore(k, n)
    BY <1>2
  <2> DEFINE x == Advance * (k - 1)
  <2>2. x \in Nat /\ k - 1 <= x
    BY <1>1, <2>1
  <2>3. x + FrameLength < n
    BY <2>1 DEF FrameEndsBefore
  <2> HIDE DEF x
  <2>4. k \in 1..n
    BY <2>1, <2>2, <2>3
  <2> QED BY <2>1, <2>4 DEF FrameNumbers
<1>3. ASSUME NEW k \in FrameNumbers(n), k > m PROVE FALSE
  <2>1. k \in Nat /\ k - 1 \in Nat /\ m <= k - 1 /\ FrameEndsBefore(k, n)
    BY <1>3 DEF FrameNumbers
  <2> DEFINE x == Advance * (k - 1)
             y == Advance * m
  <2>2. x \in Nat /\ y \in Nat /\ y <= x
    BY <1>1, <2>1
  <2>3. x + FrameLength < n
    BY <2>1 DEF FrameEndsBefore
  <2>4. (m + 1) - 1 = m
    OBVIOUS
  <2>5. ~(y + FrameLength < n)
    BY <2>4 DEF FrameEndsBefore
  <2> HIDE DEF x, y
  <2> QED BY <2>2, <2>3, <2>5
<1>4. ASSUME NEW k \in FrameNumbers(n) PROVE k \in 1..m
  <2>1. k \in 1..n
    BY DEF FrameNumbers
  <2> QED BY <1>3, <2>1
<1> QED BY <1>2, <1>4

LEMMA Multiple ==
    ASSUME NEW w \in Nat \ {0}, NEW m \in Nat, NEW l \in Nat
    PROVE  /\ w * m \in Nat /\ (w * m) \div w = m
           /\ m + 1 <= l => w * m + w <= w * l
<1>1. w * m \in Nat /\ w * l \in Nat /\ w * (m + 1) = w * m + w
  OBVIOUS
<1>2. (w * m) \div w = m
  OBVIOUS
<1>3. \A a, b \in Nat : a <= b => w * a <= w * b
  OBVIOUS
<1>4. m + 1 <= l => w * (m + 1) <= w * l
  BY <1>3
<1> QED BY <1>1, <1>2, <1>4

\* Of the bytes of a whole recording that is read to its end, the samples of
\* the first channel are its sound.
LEMMA WholeParsed ==
    ASSUME piped \in Piped, Whole(piped), bytesRead = piped.size, sizeOfInput = piped.size,
           piped.channels # 0
    PROVE  [k \in DOMAIN PipedSamples(0) |-> SampleAt(piped, PipedSamples(0)[k])] = piped.sound
<1> DEFINE c == piped.channels
           l == Len(piped.sound)
<1>1. /\ c \in Nat \ {0} /\ l \in Nat /\ piped.mark \in Nat /\ piped.mark # None /\ piped.size \in Nat
      /\ piped.sound \in Seq(Int) /\ DOMAIN piped.sound = 1..l
      /\ piped.size = piped.mark + 8 + 2 * c * l
  <2>1. /\ piped.channels \in Nat /\ piped.mark \in Nat \union {None} /\ piped.size \in Nat
        /\ piped.sound \in Seq(Int)
    BY RecordingsAssumption DEF RecordingsAssumption
  <2> QED BY <2>1 DEF Whole
<1> HIDE DEF c, l
<1> DEFINE w == 2 * c
<1>2. /\ w \in Nat \ {0} /\ w >= 2 /\ w * l \in Nat
      /\ piped.size = piped.mark + 8 + w * l
  BY <1>1
<1> HIDE DEF w
<1>3. StartOfData = piped.mark + 8 /\ SizeOfData = w * l
  <2>1. Searched(piped.mark)
    BY <1>1, <1>2 DEF Searched
  <2>2. StartOfData = piped.mark + 8
    BY <1>1, <2>1 DEF StartOfData
  <2> QED BY <1>1, <1>2, <2>2 DEF SizeOfData
<1>4. (w * l) \div w = l
  BY <1>1, <1>2, Multiple
<1>5. /\ DOMAIN PipedSamples(0) = 1..l
      /\ \A k \in 1..l : PipedSamples(0)[k] = piped.mark + 8 + w * (k - 1)
  <2>1. SizeOfData \div (2 * piped.channels) = l
    BY <1>3, <1>4 DEF w, c
  <2>2. PipedSamples(0) = [k \in 1..l |-> StartOfData + (k - 1) * piped.channels * 2 + 0 * 2]
    BY <2>1 DEF PipedSamples
  <2>3. \A k \in 1..l : (k - 1) * piped.channels * 2 + 0 * 2 = w * (k - 1)
    BY <1>1 DEF w, c
  <2>4. \A k \in 1..l : /\ (k - 1) * piped.channels * 2 \in Int /\ w * (k - 1) \in Int
                         /\ piped.mark + 8 \in Int
    BY <1>1, <1>2 DEF c
  <2>5. ASSUME NEW k \in 1..l PROVE PipedSamples(0)[k] = piped.mark + 8 + w * (k - 1)
    <3>1. PipedSamples(0)[k] = StartOfData + (k - 1) * piped.channels * 2 + 0 * 2
      BY <2>2
    <3> DEFINE x == (k - 1) * piped.channels * 2
               y == w * (k - 1)
    <3>2. x \in Int /\ y \in Int /\ x + 0 * 2 = y /\ PipedSamples(0)[k] = StartOfData + x + 0 * 2
      BY <2>3, <2>4, <3>1
    <3> HIDE DEF x, y
    <3>3. PipedSamples(0)[k] = piped.mark + 8 + y
      BY <1>1, <1>3, <3>2
    <3> QED BY <3>3 DEF y
  <2> QED BY <2>2, <2>5
<1>6. ASSUME NEW k \in 1..l PROVE SampleAt(piped, PipedSamples(0)[k]) = piped.sound[k]
  <2> DEFINE p == PipedSamples(0)[k]
             y == w * (k - 1)
  <2>1. y \in Nat /\ y + w <= w * l /\ y \div w = k - 1
    <3>1. k - 1 \in Nat /\ (k - 1) + 1 <= l
      BY <1>1
    <3> QED BY <1>1, <1>2, <3>1, Multiple
  <2> HIDE DEF y
  <2>2. p = piped.mark + 8 + y
    BY <1>5 DEF y
  <2> HIDE DEF p
  <2>3. p - piped.mark - 8 = y
    BY <1>1, <2>1, <2>2
  <2>4. (p - piped.mark - 8) \div (2 * piped.channels) + 1 = k
    BY <2>1, <2>3 DEF w, c
  <2>5. p = piped.mark + 8 + 2 * piped.channels * (k - 1)
    BY <2>2 DEF y, w, c
  <2>6. p + 2 <= bytesRead
    <3> DEFINE e == w * l
               q == piped.mark
    <3>1. y \in Nat /\ q \in Nat /\ w >= 2 /\ w \in Nat /\ e \in Nat /\ y + w <= e
      BY <1>1, <1>2, <2>1
    <3>2. bytesRead = q + 8 + e /\ p = q + 8 + y
      BY <1>2, <2>2
    <3> HIDE DEF e, q
    <3> QED BY <3>1, <3>2
  <2>7. k \in DOMAIN piped.sound
    BY <1>1
  <2> QED BY <1>1, <2>4, <2>5, <2>6, <2>7 DEF SampleAt, p
<1> QED BY <1>1, <1>5, <1>6

-----------------------------------------------------------------------------
(* The invariant                                                           *)

LEMMA BuildStart == BuildInit => BuildInv
<1> SUFFICES ASSUME BuildInit PROVE BuildInv
  OBVIOUS
<1> USE DEF BuildInit
<1>1. TodoInv
  BY DEF TodoInv
<1>2. ReaderInv /\ SampledInv
  BY DEF ReaderInv, SampledInv
<1>3. FramesInv
  BY DEF FramesInv
<1>4. DbInv
  BY DEF DbInv, SameEitherWay
<1> QED BY <1>1, <1>2, <1>3, <1>4 DEF BuildInv

\* What is to be done is named, and only the last can be stdin.
LEMMA TodoOfOptions ==
    ASSUME TodoInv, Inserts
    PROVE  LET t == IF opts.file = "list" THEN opts.list ELSE SubSeq(opts.list, 1, 1)
           IN  t \in Seq(Named) /\ \A k \in DOMAIN t : t[k].kind = "-" => t[k] = piped
<1> DEFINE l == opts.list
           t == IF opts.file = "list" THEN l ELSE SubSeq(l, 1, 1)
<1>1. /\ l \in Seq(Named) /\ (opts.input => l # << >>)
      /\ \A k \in DOMAIN l : l[k].kind = "-" => k = Len(l)
  BY RecordingsAssumption DEF RecordingsAssumption, TodoInv
<1>2. \A k \in DOMAIN l : l[k].kind = "-" => l[k] = piped
  BY <1>1 DEF TodoInv
<1>3. CASE opts.file = "list"
  BY <1>1, <1>2, <1>3
<1>4. CASE opts.file # "list"
  <2>1. l # << >>
    BY <1>1, <1>4 DEF Inserts
  <2> HIDE DEF l
  <2>2. Len(l) \in Nat /\ Len(l) >= 1 /\ DOMAIN l = 1..Len(l)
    BY <1>1, <2>1
  <2>3. /\ SubSeq(l, 1, 1) \in Seq(Named) /\ Len(SubSeq(l, 1, 1)) = 1
        /\ SubSeq(l, 1, 1)[1] = l[1]
    BY <1>1, <2>2, SubSeqProperties
  <2>4. t = SubSeq(l, 1, 1) /\ 1 \in DOMAIN l
    BY <1>4, <2>2
  <2> HIDE DEF t
  <2>5. t \in Seq(Named) /\ DOMAIN t = 1..1 /\ t[1] = l[1]
    BY <2>3, <2>4
  <2>6. \A k \in DOMAIN t : k = 1
    BY <2>5
  <2>7. \A k \in DOMAIN t : t[k].kind = "-" => t[k] = piped
    BY <1>2, <2>4, <2>5, <2>6 DEF l
  <2> QED BY <2>5, <2>7 DEF t, l
<1> QED BY <1>3, <1>4

LEMMA OptionsKeeps == BuildInv /\ Options => BuildInv'
<1> SUFFICES ASSUME BuildInv, Options PROVE BuildInv'
  OBVIOUS
<1> USE DEF Options, readerVars
<1>1. TodoInv'
  <2>1. TodoInv
    BY DEF BuildInv
  <2>2. CASE Inserts
    <3> DEFINE t == IF opts.file = "list" THEN opts.list ELSE SubSeq(opts.list, 1, 1)
    <3>1. t \in Seq(Named) /\ \A k \in DOMAIN t : t[k].kind = "-" => t[k] = piped
      BY <2>1, <2>2, TodoOfOptions
    <3>2. todo' = t
      BY <2>2
    <3> HIDE DEF t
    <3>3. todo' \in Seq(Named) /\ \A k \in DOMAIN todo' : todo'[k].kind = "-" => todo'[k] = piped
      BY <3>1, <3>2
    <3> QED BY <2>1, <2>2, <3>3 DEF TodoInv
  <2>3. CASE ~Inserts
    BY <2>1, <2>3 DEF TodoInv
  <2> QED BY <2>2, <2>3
<1>2. stage' # "frames"
  OBVIOUS
<1>3. ReaderInv' /\ SampledInv'
  BY <1>2 DEF BuildInv, ReaderInv, SampledInv, Intact
<1>4. FramesInv'
  BY <1>2 DEF BuildInv, FramesInv
<1>5. DbInv'
  BY DEF BuildInv, DbInv, SameEitherWay
<1> QED BY <1>1, <1>3, <1>4, <1>5 DEF BuildInv

\* The fingerprints are generated from the samples.
LEMMA GenerateKeeps ==
    ASSUME BuildInv, NEW s, Generate(s), todo # << >>,
           Whole(todo[1]) /\ (todo[1].kind = "-" => Intact) => s = todo[1].sound,
           UNCHANGED <<opts, todo, db, readerVars>>
    PROVE  BuildInv'
<1> USE DEF Generate, readerVars, Intact
<1>1. TodoInv'
  BY DEF BuildInv, TodoInv
<1>2. ReaderInv' /\ DbInv'
  BY DEF BuildInv, ReaderInv, DbInv, SameEitherWay
<1>3. SampledInv'
  BY DEF SampledInv
<1>4. FramesInv'
  <2>1. frame' = 0 /\ output' = << >> /\ prevEnergy' = Energies(samples', 0)
    BY DEF Energies
  <2>2. output' = [j \in 1..0 |-> FingerprintAt(samples', j)]
    BY <2>1
  <2> QED BY <2>1, <2>2 DEF FramesInv
<1> QED BY <1>1, <1>2, <1>3, <1>4 DEF BuildInv

LEMMA FromFileKeeps == BuildInv /\ FromFile => BuildInv'
BY GenerateKeeps DEF FromFile

LEMMA ReceivedKeeps == BuildInv /\ Received => BuildInv'
<1> SUFFICES ASSUME BuildInv, Received PROVE BuildInv'
  OBVIOUS
<1> DEFINE s == [k \in DOMAIN PipedSamples(0) |-> SampleAt(piped, PipedSamples(0)[k])]
<1>1. CASE reader = "parsed" /\ Intact /\ Generate(s)
  <2>1. todo # << >> /\ todo[1] = piped /\ piped \in Piped
    BY DEF BuildInv, TodoInv, Received
  <2>2. bytesRead = piped.size /\ sizeOfInput = piped.size /\ piped.channels # 0
    BY <1>1 DEF BuildInv, ReaderInv
  <2>3. Whole(todo[1]) => s = todo[1].sound
    BY <2>1, <2>2, WholeParsed
  <2> HIDE DEF s
  <2> QED BY <1>1, <2>1, <2>3, GenerateKeeps DEF Received
<1>2. CASE stage' = "crash" /\ UNCHANGED <<samples, frame, prevEnergy, output>>
  BY <1>2 DEF Received, readerVars, BuildInv, TodoInv, ReaderInv, SampledInv, FramesInv, DbInv,
              SameEitherWay, Intact
<1>3. ASSUME ~Intact, NEW t, Generate(t) PROVE BuildInv'
  <2>1. todo # << >> /\ todo[1].kind = "-"
    BY DEF BuildInv, TodoInv, Received
  <2>2. UNCHANGED <<opts, todo, db, readerVars>>
    BY DEF Received
  <2> QED BY <1>3, <2>1, <2>2, GenerateKeeps
<1>4. CASE \E n \in 0 .. sizeOfInput \div 2 : ~Intact /\ Generate([k \in 1..n |-> Noise])
  BY <1>3, <1>4
<1> QED BY <1>1, <1>2, <1>4 DEF Received

\* The reader changes nothing but itself.
LEMMA ReaderKeeps ==
    ASSUME BuildInv, UNCHANGED <<opts, todo, samples, frame, prevEnergy, output, db, piped>>,
           stage' = stage \/ stage' \in {"crash", "exit 0"}
              \/ (stage' = "stdin" /\ todo # << >> /\ todo[1].kind = "-"),
           stage = "frames" => head' = head,
           ReaderInv'
    PROVE  BuildInv'
<1>1. TodoInv'
  <2>1. todo \in Seq(Named)
    BY DEF BuildInv, TodoInv
  <2>2. todo # << >> => 1 \in DOMAIN todo
    BY <2>1, HasFirst
  <2> QED BY <2>2 DEF BuildInv, TodoInv
<1>2. SampledInv'
  BY DEF BuildInv, SampledInv, Intact
<1>3. FramesInv'
  BY DEF BuildInv, FramesInv
<1>4. DbInv'
  BY DEF BuildInv, DbInv, SameEitherWay
<1> QED BY <1>1, <1>2, <1>3, <1>4 DEF BuildInv

LEMMA FromStdinKeeps == BuildInv /\ FromStdin => BuildInv'
<1> SUFFICES ASSUME BuildInv, FromStdin PROVE BuildInv'
  OBVIOUS
<1>1. ReaderInv'
  BY DEF FromStdin, StartReading, ReaderInv
<1> QED BY <1>1, ReaderKeeps DEF FromStdin, StartReading

LEMMA ReceiveKeeps == BuildInv /\ Receive => BuildInv'
<1> SUFFICES ASSUME BuildInv, Receive PROVE BuildInv'
  OBVIOUS
<1>1. ReaderInv' /\ piped' = piped
  <2>1. CASE ReadRiff
    BY <2>1 DEF ReadRiff, ReaderInv
  <2>2. CASE ReadSize
    BY <2>2 DEF ReadSize, ReaderInv, Intact
  <2>3. CASE Read \/ ReadNothing
    BY <2>3 DEF BuildInv, ReaderInv, Read, ReadNothing, readerVars, Intact
  <2>4. CASE Parse
    BY <2>4 DEF BuildInv, ReaderInv, Parse, LeaveLoop, Intact
  <2> QED BY <2>1, <2>2, <2>3, <2>4 DEF Receive
<1> QED BY <1>1, ReaderKeeps DEF Receive, buildVars

LEMMA OneFrameKeeps == BuildInv /\ OneFrame => BuildInv'
<1> SUFFICES ASSUME BuildInv, OneFrame PROVE BuildInv'
  OBVIOUS
<1>1. TodoInv' /\ ReaderInv' /\ SampledInv' /\ DbInv'
  BY DEF OneFrame, readerVars, BuildInv, TodoInv, ReaderInv, SampledInv, DbInv, SameEitherWay, Intact
<1>2. FramesInv'
  <2> DEFINE f == [j \in Nat |-> FingerprintAt(samples, j)]
  <2>1. /\ frame \in Nat /\ stage = "frames"
        /\ output = [j \in 1..frame |-> FingerprintAt(samples, j)]
        /\ prevEnergy = Energies(samples, frame)
        /\ \A j \in 1..frame : FrameEndsBefore(j, Len(samples))
    BY DEF BuildInv, FramesInv, OneFrame
  <2>2. /\ samples' = samples /\ stage' = stage /\ frame' = frame + 1
        /\ prevEnergy' = Energies(samples, frame + 1)
        /\ FrameEndsBefore(frame + 1, Len(samples))
        /\ output' = Append(output, Fingerprint(prevEnergy, Energies(samples, frame + 1)))
    BY DEF OneFrame
  <2>3. f[frame + 1] = Fingerprint(prevEnergy, Energies(samples, frame + 1))
    <3>1. (frame + 1) - 1 = frame /\ frame + 1 \in Nat
      BY <2>1
    <3> QED BY <2>1, <3>1 DEF FingerprintAt
  <2>4. /\ output = [j \in 1..frame |-> f[j]]
        /\ [j \in 1 .. frame + 1 |-> f[j]] = [j \in 1 .. frame + 1 |-> FingerprintAt(samples, j)]
    BY <2>1
  <2> HIDE DEF f
  <2>5. output' = [j \in 1 .. frame + 1 |-> f[j]]
    BY <2>1, <2>2, <2>3, <2>4, OneMore
  <2>6. \A j \in 1 .. frame + 1 : FrameEndsBefore(j, Len(samples))
    <3>1. \A j \in 1 .. frame + 1 : j \in 1..frame \/ j = frame + 1
      BY <2>1
    <3> QED BY <2>1, <2>2, <3>1
  <2>7. frame' \in Nat
    BY <2>1, <2>2
  <2> QED BY <2>2, <2>4, <2>5, <2>6, <2>7 DEF FramesInv
<1> QED BY <1>1, <1>2 DEF BuildInv

LEMMA InsertKeeps == BuildInv /\ Insert => BuildInv'
<1> SUFFICES ASSUME BuildInv, Insert PROVE BuildInv'
  OBVIOUS
<1> DEFINE e == [name |-> TrackName, of |-> todo[1], prints |-> output,
                intact |-> todo[1].kind = "-" => Intact]
<1>1. /\ stage = "frames" /\ ~FrameEndsBefore(frame + 1, Len(samples))
      /\ db' = Append(db, e) /\ todo' = Tail(todo) /\ stage' = "next"
      /\ UNCHANGED <<opts, samples, frame, prevEnergy, output, readerVars>>
  BY DEF Insert
<1>2. TodoInv'
  <2>1. todo \in Seq(Named) /\ todo # << >> /\ \A k \in DOMAIN todo : todo[k].kind = "-" => todo[k] = piped
    BY <1>1 DEF BuildInv, TodoInv
  <2>2. /\ todo' \in Seq(Named)
        /\ \A k \in DOMAIN todo' : k + 1 \in DOMAIN todo /\ todo'[k] = todo[k + 1]
    BY <1>1, <2>1
  <2>3. \A k \in DOMAIN todo' : todo'[k].kind = "-" => todo'[k] = piped
    BY <2>1, <2>2
  <2> QED BY <1>1, <2>2, <2>3 DEF BuildInv, TodoInv, readerVars
<1>3. ReaderInv' /\ SampledInv' /\ FramesInv'
  BY <1>1 DEF BuildInv, ReaderInv, SampledInv, FramesInv, readerVars, Intact
<1>4. Faithful(e) =>
        e.prints = [j \in FrameNumbers(Len(e.of.sound)) |-> FingerprintAt(e.of.sound, j)]
  <2> SUFFICES ASSUME Whole(todo[1]), todo[1].kind = "-" => Intact
      PROVE output = [j \in FrameNumbers(Len(todo[1].sound)) |-> FingerprintAt(todo[1].sound, j)]
    BY DEF Faithful
  <2>1. samples = todo[1].sound
    BY <1>1 DEF BuildInv, SampledInv
  <2>2. todo[1] \in Named
    BY <1>1 DEF BuildInv, TodoInv
  <2>3. Len(samples) \in Nat
    BY <2>1, <2>2, RecordingsAssumption DEF RecordingsAssumption
  <2>4. /\ frame \in Nat /\ output = [j \in 1..frame |-> FingerprintAt(samples, j)]
        /\ \A j \in 1..frame : FrameEndsBefore(j, Len(samples))
    BY <1>1 DEF BuildInv, FramesInv
  <2>5. FrameNumbers(Len(samples)) = 1..frame
    BY <1>1, <2>3, <2>4, FramesAreFirst
  <2> QED BY <2>1, <2>4, <2>5
<1>6. e.of \in Named
  <2>1. todo[1] \in Named
    BY <1>1 DEF BuildInv, TodoInv
  <2> QED BY <2>1
<1> HIDE DEF e
<1>5. DbInv'
  <2>1. /\ db \in Seq({db[k] : k \in DOMAIN db}) /\ SameEitherWay
        /\ \A k \in DOMAIN db : db[k].of \in Named
    BY DEF BuildInv, DbInv
  <2>2. /\ db' \in Seq({db'[k] : k \in DOMAIN db'})
        /\ Len(db) \in Nat /\ DOMAIN db = 1..Len(db) /\ DOMAIN db' = 1 .. Len(db) + 1
        /\ db'[Len(db) + 1] = e /\ \A k \in 1..Len(db) : db'[k] = db[k]
    BY <1>1, <2>1, Longer
  <2>3. \A k \in DOMAIN db' : db'[k] = e \/ (k \in DOMAIN db /\ db'[k] = db[k])
    BY <2>2
  <2>4. ASSUME NEW k \in DOMAIN db', Faithful(db'[k])
        PROVE  db'[k].prints = [j \in FrameNumbers(Len(db'[k].of.sound)) |->
                                  FingerprintAt(db'[k].of.sound, j)]
    <3>1. CASE db'[k] = e
      BY <1>4, <2>4, <3>1
    <3>2. CASE k \in DOMAIN db /\ db'[k] = db[k]
      BY <2>1, <2>4, <3>2 DEF SameEitherWay
    <3> QED BY <2>3, <3>1, <3>2
  <2>5. SameEitherWay'
    BY <2>4 DEF SameEitherWay
  <2>6. \A k \in DOMAIN db' : db'[k].of \in Named
    BY <1>6, <2>1, <2>3
  <2> QED BY <2>2, <2>5, <2>6 DEF DbInv
<1> QED BY <1>2, <1>3, <1>5 DEF BuildInv

LEMMA EndKeeps == BuildInv /\ (FromNothing \/ Finish) => BuildInv'
<1> SUFFICES ASSUME BuildInv, FromNothing \/ Finish PROVE BuildInv'
  OBVIOUS
<1>1. /\ UNCHANGED <<opts, todo, samples, frame, prevEnergy, output, db, readerVars>>
      /\ stage' \in {"crash", "exit 0"}
  BY DEF FromNothing, Finish
<1>2. ReaderInv'
  BY <1>1 DEF BuildInv, ReaderInv, readerVars, Intact
<1> QED BY <1>1, <1>2, ReaderKeeps DEF readerVars

LEMMA WriteKeeps == BuildInv /\ (Write \/ UNCHANGED <<buildVars, readerVars>>) => BuildInv'
<1> SUFFICES ASSUME BuildInv, Write \/ UNCHANGED <<buildVars, readerVars>> PROVE BuildInv'
  OBVIOUS
<1>1. UNCHANGED buildVars /\ UNCHANGED <<piped, head, sizeOfInput, bytesRead, reader>>
  BY DEF Write, Supply, readerVars
<1>2. ReaderInv'
  BY <1>1 DEF BuildInv, ReaderInv, Intact
<1> QED BY <1>1, <1>2, ReaderKeeps DEF buildVars

\* What is known of a track at each stage, from the option to the index
THEOREM BuildInvariance == BuildSpec => []BuildInv
<1>1. BuildInv /\ [BuildNext]_<<buildVars, readerVars>> => BuildInv'
  <2> SUFFICES ASSUME BuildInv, [BuildNext]_<<buildVars, readerVars>> PROVE BuildInv'
    OBVIOUS
  <2> QED BY OptionsKeeps, FromFileKeeps, FromStdinKeeps, ReceiveKeeps, ReceivedKeeps, OneFrameKeeps,
             InsertKeeps, EndKeeps, WriteKeeps DEF BuildNext, Program
<1> QED BY BuildStart, <1>1, PTL DEF BuildSpec

\* SameEitherWay: a whole recording has the same fingerprints from its file and
\* from stdin, in whatever pieces the pipe delivers it behind the header.
THEOREM SameEitherWayHolds == BuildSpec => []SameEitherWay
<1>1. BuildInv => SameEitherWay
  BY DEF BuildInv, DbInv
<1> QED BY <1>1, BuildInvariance, PTL

-----------------------------------------------------------------------------
(* An excerpt of a recording                                               *)

LEMMA FramesCount ==
    ASSUME NEW n \in Nat
    PROVE  \E m \in Nat : FrameNumbers(n) = 1..m
<1> DEFINE D == {m \in Nat : ~FrameEndsBefore(m + 1, n)}
<1>1. D \in SUBSET Nat /\ D # {}
  <2>1. Advance * n >= n /\ FrameLength > 0 /\ Advance * n \in Nat /\ FrameLength \in Nat
    BY FrameAssumption DEF FrameAssumption
  <2> DEFINE x == Advance * n
  <2>2. (n + 1) - 1 = n
    OBVIOUS
  <2>3. ~FrameEndsBefore(n + 1, n)
    <3>1. FrameEndsBefore(n + 1, n) <=> x + FrameLength < n
      BY <2>2 DEF FrameEndsBefore
    <3> HIDE DEF x
    <3> QED BY <2>1, <3>1 DEF x
  <2> QED BY <2>3
<1>2. PICK m \in D : \A k \in D : m <= k
  <2> HIDE DEF D
  <2> QED BY <1>1, Least
<1>3. m \in Nat /\ ~FrameEndsBefore(m + 1, n)
  BY <1>2
<1>4. ASSUME NEW j \in 1..m PROVE FrameEndsBefore(j, n)
  <2>1. j - 1 \in Nat /\ ~(m <= j - 1) /\ (j - 1) + 1 = j
    BY <1>3
  <2>2. j - 1 \notin D
    <3> HIDE DEF D
    <3> QED BY <1>2, <2>1
  <2> QED BY <2>1, <2>2
<1> QED BY <1>3, <1>4, FramesAreFirst

\* A frame of an excerpt that begins with a frame is one of the recording.
LEMMA ExcerptFrame ==
    ASSUME NEW u \in Seq(Int), NEW v \in Seq(Int), NEW n \in Nat,
           Len(u) + n * Advance <= Len(v),
           u = SubSeq(v, n * Advance + 1, n * Advance + Len(u)),
           NEW j \in FrameNumbers(Len(u))
    PROVE  n + j \in FrameNumbers(Len(v)) /\ Energies(u, j) = Energies(v, n + j)
<1> DEFINE a == n * Advance
           b == Advance * (j - 1)
<1>1. /\ FrameLength \in Nat \ {0} /\ Advance \in Nat \ {0}
      /\ Len(u) \in Nat /\ Len(v) \in Nat /\ j \in Nat \ {0} /\ j - 1 \in Nat /\ j <= Len(u)
  BY FrameAssumption DEF FrameAssumption, FrameNumbers
<1>2. a \in Nat /\ b \in Nat /\ Advance * ((n + j) - 1) = a + b /\ n <= a
  <2>1. \A x, y, z \in Nat : x * (y + z) = y * x + x * z /\ y * x \in Nat /\ x * z \in Nat
    OBVIOUS
  <2>2. (n + j) - 1 = n + (j - 1)
    BY <1>1
  <2>3. \A x \in Nat : \A y \in Nat \ {0} : x <= x * y
    OBVIOUS
  <2> QED BY <1>1, <2>1, <2>2, <2>3
<1>3. b + FrameLength < Len(u)
  BY DEF FrameNumbers, FrameEndsBefore
<1>4. Len(u) + a <= Len(v) /\ u = SubSeq(v, a + 1, a + Len(u))
  OBVIOUS
<1> HIDE DEF a, b
<1>5. \A k \in 1..Len(u) : u[k] = v[a + k]
  <2>1. ASSUME NEW k \in 1..Len(u) PROVE u[k] = v[a + k]
    <3>1. a + 1 \in 1 .. Len(v) + 1 /\ a + Len(u) \in a .. Len(v)
      BY <1>1, <1>2, <1>4
    <3>2. \A x \in 1 .. (a + Len(u)) - (a + 1) + 1 :
             SubSeq(v, a + 1, a + Len(u))[x] = v[(a + 1) + x - 1]
      BY <1>1, <1>2, <1>4, <3>1, SubSeqProperties
    <3>3. k \in 1 .. (a + Len(u)) - (a + 1) + 1 /\ (a + 1) + k - 1 = a + k
      BY <1>1, <1>2
    <3> QED BY <1>4, <3>2, <3>3
  <2> QED BY <2>1
<1>6. n + j \in FrameNumbers(Len(v))
  <2>1. FrameEndsBefore(n + j, Len(v)) <=> (a + b) + FrameLength < Len(v)
    BY <1>2 DEF FrameEndsBefore
  <2>2. (a + b) + FrameLength < Len(v) /\ n + j \in 1..Len(v)
    BY <1>1, <1>2, <1>3, <1>4
  <2> QED BY <2>1, <2>2 DEF FrameNumbers
<1>7. Frame(u, j) = Frame(v, n + j)
  <2> DEFINE l == SubSeq(u, b + 1, b + FrameLength)
             r == SubSeq(v, (a + b) + 1, (a + b) + FrameLength)
  <2>1. Frame(u, j) = l /\ Frame(v, n + j) = r
    BY <1>2 DEF Frame, b
  <2>2. l \in Seq(Int) /\ Len(l) = FrameLength /\ \A k \in 1..FrameLength : l[k] = u[b + k]
    BY <1>1, <1>2, <1>3
  <2>3. r \in Seq(Int) /\ Len(r) = FrameLength /\ \A k \in 1..FrameLength : r[k] = v[(a + b) + k]
    <3> DEFINE h == a + b
    <3>1. h \in Nat /\ h + FrameLength <= Len(v)
      BY <1>1, <1>2, <1>3, <1>4
    <3>2. r = SubSeq(v, h + 1, h + FrameLength)
      OBVIOUS
    <3> HIDE DEF h, l, r
    <3>3. r \in Seq(Int) /\ Len(r) = FrameLength /\ \A k \in 1..FrameLength : r[k] = v[h + k]
      <4> DEFINE x == h + 1
                 y == h + FrameLength
      <4>1. /\ x \in Int /\ y \in Int /\ x <= y /\ y - x + 1 = FrameLength
            /\ \A k \in 1..FrameLength : x + k - 1 = h + k
            /\ \A k \in x..y : v[k] \in Int
        BY <1>1, <3>1
      <4>2. r = SubSeq(v, x, y)
        BY <3>2
      <4> HIDE DEF x, y
      <4>3. /\ SubSeq(v, x, y) \in Seq(Int) /\ Len(SubSeq(v, x, y)) = IF x <= y THEN y - x + 1 ELSE 0
            /\ \A k \in 1 .. y - x + 1 : SubSeq(v, x, y)[k] = v[x + k - 1]
        <5> DEFINE w == SubSeq(v, x, y)
        <5>1. w \in Seq(Int)
          BY <4>1, SubSeqProperties
        <5>2. Len(w) = IF x <= y THEN y - x + 1 ELSE 0
          BY <4>1, SubSeqProperties
        <5>3. \A k \in 1 .. y - x + 1 : w[k] = v[x + k - 1]
          BY <4>1, SubSeqProperties
        <5> QED BY <5>1, <5>2, <5>3
      <4> QED BY <4>1, <4>2, <4>3
    <3> QED BY <3>3 DEF h
  <2> HIDE DEF l, r
  <2>4. ASSUME NEW k \in 1..FrameLength PROVE l[k] = r[k]
    <3>1. b + k \in 1..Len(u) /\ a + (b + k) = (a + b) + k
      BY <1>1, <1>2, <1>3
    <3> QED BY <1>5, <2>2, <2>3, <3>1
  <2>5. \A k \in 1..Len(l) : l[k] = r[k]
    BY <2>2, <2>4
  <2> QED BY <2>1, <2>2, <2>3, <2>5, SeqEqual
<1>8. n + j # 0 /\ j # 0
  BY <1>1
<1> QED BY <1>6, <1>7, <1>8 DEF Energies

\* From the second on, so are its fingerprints.
LEMMA ExcerptPrints ==
    ASSUME NEW u \in Seq(Int), NEW v \in Seq(Int), NEW n \in Nat,
           Len(u) + n * Advance <= Len(v),
           u = SubSeq(v, n * Advance + 1, n * Advance + Len(u)),
           NEW j \in FrameNumbers(Len(u)), j >= 2
    PROVE  n + j \in FrameNumbers(Len(v)) /\ FingerprintAt(u, j) = FingerprintAt(v, n + j)
<1>1. PICK m \in Nat : FrameNumbers(Len(u)) = 1..m
  <2>1. Len(u) \in Nat
    OBVIOUS
  <2> QED BY <2>1, FramesCount
<1>2. j - 1 \in FrameNumbers(Len(u)) /\ n + (j - 1) = (n + j) - 1
  BY <1>1
<1>3. n + j \in FrameNumbers(Len(v)) /\ Energies(u, j) = Energies(v, n + j)
  BY ExcerptFrame
<1>4. Energies(u, j - 1) = Energies(v, n + (j - 1))
  BY <1>2, ExcerptFrame
<1> QED BY <1>2, <1>3, <1>4 DEF FingerprintAt

\* A distance is a number, and 0 where there is no difference.
LEMMA DistFacts ==
    ASSUME NEW fp, NEW track, NEW start \in Nat, NEW n \in Nat,
           \A x \in 0 .. n - 1 : IsFiniteSet(fp[x + FpSkip + 1]) /\ IsFiniteSet(track[x + start + 1])
    PROVE  /\ Dist(fp, track, start, n) \in Nat
           /\ (\A x \in 0 .. n - 1 : fp[x + FpSkip + 1] = track[x + start + 1])
                 => Dist(fp, track, start, n) = 0
<1> DEFINE S == 0 .. n - 1
           p(x) == fp[x + FpSkip + 1]
           q(x) == track[x + start + 1]
           g == [x \in S |-> Difference(p(x), q(x))]
           IsDist(c) == c = [s \in SUBSET S |->
                               IF s = {} THEN 0
                               ELSE Difference(p(One(s)), q(One(s))) + c[s \ {One(s)}]]
           c == CHOOSE h : IsDist(h)
<1>1. ASSUME NEW x \in S PROVE g[x] \in Nat /\ (p(x) = q(x) => g[x] = 0)
  <2>1. IsFiniteSet((p(x) \ q(x)) \union (q(x) \ p(x)))
    BY FS_Difference, FS_Union
  <2>2. p(x) = q(x) => (p(x) \ q(x)) \union (q(x) \ p(x)) = {}
    OBVIOUS
  <2> QED BY <2>1, <2>2, FS_CardinalityType, FS_EmptySet DEF Difference
<1>2. g \in [S -> Nat] /\ IsFiniteSet(S)
  <2>1. 0 \in Int /\ n - 1 \in Int
    OBVIOUS
  <2>2. IsFiniteSet(S)
    BY <2>1, FS_Interval, Zenon
  <2> HIDE DEF S
  <2> QED BY <1>1, <2>2
<1>3. Dist(fp, track, start, n) = c[S]
  BY Zenon DEF Dist, MapThenSumSet, MapThenFoldSet, One
<1>4. ASSUME NEW h PROVE IsDist(h) <=> IsSum(g, S, h)
  <2>1. \A s \in SUBSET S : s # {} => One(s) \in S /\ g[One(s)] = Difference(p(One(s)), q(One(s)))
    <3>1. \A s \in SUBSET S : s # {} => One(s) \in S
      BY OneIs
    <3> HIDE DEF S
    <3> QED BY <3>1
  <2> HIDE DEF g, S, p, q
  <2>2. \A s \in SUBSET S :
           (IF s = {} THEN 0 ELSE Difference(p(One(s)), q(One(s))) + h[s \ {One(s)}])
             = (IF s = {} THEN 0 ELSE g[One(s)] + h[s \ {One(s)}])
    BY <2>1
  <2>3. [s \in SUBSET S |-> IF s = {} THEN 0 ELSE Difference(p(One(s)), q(One(s))) + h[s \ {One(s)}]]
          = [s \in SUBSET S |-> IF s = {} THEN 0 ELSE g[One(s)] + h[s \ {One(s)}]]
    BY <2>2, Zenon
  <2> QED BY <2>3 DEF IsSum
<1>5. IsSum(g, S, c)
  <2> HIDE DEF IsDist, g, S
  <2>1. g \in [S -> Int]
    BY <1>2
  <2>2. \E h : IsDist(h)
    BY <1>2, <1>4, <2>1, SumExists
  <2>3. IsDist(c)
    BY <2>2
  <2> QED BY <1>4, <2>3
<1> HIDE DEF c, S, g
<1>6. c[S] \in Nat /\ ((\A x \in S : g[x] = 0) => c[S] = 0)
  BY <1>2, <1>5, SumFacts
<1> QED BY <1>1, <1>3, <1>6 DEF S

LEMMA ExcerptSame ==
    ASSUME BuildInv, NEW k \in DOMAIN db, NEW m \in DOMAIN db, NEW n \in Nat,
           Faithful(db[k]), Faithful(db[m]), Excerpt(db[k], db[m], n)
    PROVE  LET query == db[k].prints
               track == db[m].prints
           IN  /\ \A j \in 2 .. Len(query) : n + j \in DOMAIN track /\ query[j] = track[n + j]
               /\ Len(query) >= FpSkip + Macro /\ FpSkip > 0 =>
                     /\ ~EarlyTerminate(query, track, n + FpSkip)
                     /\ Len(track) > n + FpSkip + Macro => FullCheck(query, track) = 0
<1> DEFINE u == db[k].of.sound
           v == db[m].of.sound
           query == db[k].prints
           track == db[m].prints
<1>1. /\ u \in Seq(Int) /\ v \in Seq(Int) /\ n \in Nat
      /\ Len(u) + n * Advance <= Len(v) /\ u = SubSeq(v, n * Advance + 1, n * Advance + Len(u))
  <2>1. db[k].of \in Named /\ db[m].of \in Named
    BY DEF BuildInv, DbInv
  <2>2. u \in Seq(Int) /\ v \in Seq(Int)
    BY <2>1, RecordingsAssumption DEF RecordingsAssumption
  <2> QED BY <2>2 DEF Excerpt
<1>2. /\ query = [j \in FrameNumbers(Len(u)) |-> FingerprintAt(u, j)]
      /\ track = [j \in FrameNumbers(Len(v)) |-> FingerprintAt(v, j)]
  BY DEF BuildInv, DbInv, SameEitherWay
<1> HIDE DEF query, track
<1>3. /\ DOMAIN query = 1..Len(query) /\ Len(query) \in Nat
      /\ DOMAIN track = 1..Len(track) /\ Len(track) \in Nat
  <2>1. Len(u) \in Nat /\ Len(v) \in Nat
    BY <1>1
  <2>2. PICK a \in Nat : FrameNumbers(Len(u)) = 1..a
    BY <2>1, FramesCount
  <2>3. PICK b \in Nat : FrameNumbers(Len(v)) = 1..b
    BY <2>1, FramesCount
  <2> QED BY <1>2, <2>2, <2>3
<1>4. ASSUME NEW j \in 2 .. Len(query)
      PROVE  n + j \in DOMAIN track /\ query[j] = track[n + j]
  <2>1. j \in FrameNumbers(Len(u)) /\ j >= 2
    BY <1>2, <1>3
  <2>2. n + j \in FrameNumbers(Len(v)) /\ FingerprintAt(u, j) = FingerprintAt(v, n + j)
    <3> HIDE DEF u, v
    <3> QED BY <1>1, <2>1, ExcerptPrints
  <2> QED BY <1>2, <2>1, <2>2
<1>5. /\ \A j \in 1..Len(query) : IsFiniteSet(query[j])
      /\ \A j \in 1..Len(track) : IsFiniteSet(track[j])
  <2>1. \A s, j : IsFiniteSet(FingerprintAt(s, j))
    <3>1. IsFiniteSet(0 .. Bands - 1)
      BY FrameAssumption, FS_Interval DEF FrameAssumption
    <3>2. \A s, j : FingerprintAt(s, j) \in SUBSET (0 .. Bands - 1)
      BY DEF FingerprintAt, Fingerprint
    <3> QED BY <3>1, <3>2, FS_Subset
  <2> QED BY <1>2, <1>3, <2>1
<1>6. ASSUME Len(query) >= FpSkip + Macro, FpSkip > 0
      PROVE  /\ ~EarlyTerminate(query, track, n + FpSkip)
             /\ Len(track) > n + FpSkip + Macro => FullCheck(query, track) = 0
  <2> DEFINE a == n + FpSkip
  <2>0. /\ FpSkip \in Nat /\ Macro \in Nat \ {0} /\ Often \in Nat \ {0} /\ Bands \in Nat /\ a \in Nat
        /\ n \in Nat
    BY <1>1, ComparisonAssumption, FrameAssumption DEF ComparisonAssumption, FrameAssumption
  <2>1. ASSUME NEW x \in 0 .. Macro - 1
        PROVE  /\ x + FpSkip + 1 \in 2..Len(query) /\ x + a + 1 = n + (x + FpSkip + 1)
               /\ x + FpSkip + 1 \in 1..Len(query)
    BY <1>3, <1>6, <2>0
  <2> HIDE DEF a
  <2>2. ASSUME NEW x \in 0 .. Macro - 1
        PROVE  /\ query[x + FpSkip + 1] = track[x + a + 1]
               /\ IsFiniteSet(query[x + FpSkip + 1]) /\ IsFiniteSet(track[x + a + 1])
    BY <1>3, <1>4, <1>5, <2>1
  <2>3. ASSUME NEW c \in 0..Macro PROVE Dist(query, track, a, c) = 0
    <3>1. \A x \in 0 .. c - 1 : x \in 0 .. Macro - 1
      BY <2>0
    <3>2. c \in Nat
      BY <2>0
    <3> QED BY <2>0, <2>2, <3>1, <3>2, DistFacts
  <2>4. ~EarlyTerminate(query, track, a)
    <3> SUFFICES ASSUME NEW c \in 0 .. Macro - 1,
                        43 * c * Bands < 100 * Dist(query, track, a, c + 1)
                 PROVE  FALSE
      BY DEF EarlyTerminate
    <3>1. Dist(query, track, a, c + 1) = 0
      <4>1. c + 1 \in 0..Macro
        BY <2>0
      <4> QED BY <2>3, <4>1
    <3>2. c \in Nat /\ 43 * c \in Nat
      BY <2>0
    <3>3. \A y, z \in Nat : ~(y * z < 0)
      OBVIOUS
    <3>4. ~(43 * c * Bands < 0)
      BY <2>0, <3>2, <3>3
    <3> QED BY <3>1, <3>4
  <2>5. ASSUME Len(track) > a + Macro PROVE FullCheck(query, track) = 0
    <3> DEFINE T == Tried(track)
               F == {FullHamming(query, track, c) : c \in T}
    <3>1. a \in T /\ \A c \in T : c \in Nat /\ c + Macro < Len(track)
      BY <1>3, <2>0, <2>5 DEF Tried
    <3>2. ASSUME NEW c \in T PROVE FullHamming(query, track, c) \in Nat
      <4>1. \A x \in 0 .. Macro - 1 : x + c + 1 \in 1..Len(track)
        BY <1>3, <2>0, <3>1
      <4>2. \A x \in 0 .. Macro - 1 : IsFiniteSet(query[x + FpSkip + 1]) /\ IsFiniteSet(track[x + c + 1])
        BY <1>5, <2>2, <4>1
      <4>3. Dist(query, track, c, Macro) \in Nat
        BY <2>0, <3>1, <4>2, DistFacts
      <4> QED BY <4>3 DEF FullHamming
    <3>3. FullHamming(query, track, a) = 0
      <4>1. Macro \in 0..Macro
        BY <2>0
      <4> QED BY <2>3, <4>1 DEF FullHamming
    <3>4. F \in SUBSET Nat /\ 0 \in F
      <4> HIDE DEF T
      <4> QED BY <3>1, <3>2, <3>3
    <3>5. Min(F) \in F /\ Min(F) <= 0
      <4> HIDE DEF F
      <4> QED BY <3>4, Least
    <3>6. Min(F) = 0
      <4>1. Min(F) \in Nat
        BY <3>4, <3>5
      <4> QED BY <3>5, <4>1
    <3>7. FullCheck(query, track) = IF T = {} THEN 2147483647 ELSE Min(F)
      BY DEF FullCheck
    <3> QED BY <3>1, <3>6, <3>7
  <2>6. Len(track) > n + FpSkip + Macro => FullCheck(query, track) = 0
    BY <2>5 DEF a
  <2> QED BY <2>4, <2>6 DEF a
<1> QED BY <1>4, <1>6 DEF query, track

\* An excerpt that begins with a frame of a recording has the recording's
\* fingerprints but for the first; the comparison at its place is not given up,
\* and the search finds no difference.
THEOREM ExcerptsAreFound == BuildSpec => []ExcerptFound
<1>1. BuildInv => ExcerptFound
  BY ExcerptSame DEF ExcerptFound
<1> QED BY <1>1, BuildInvariance, PTL

-----------------------------------------------------------------------------
(* lets_try_again: what its tables hold                                    *)

Rows   == [fp : Nat, offset : Nat, file : Nat]

\* A row as it is in the table
Bounded == [fp : Int, offset : Nat, file : Nat]
Stored == [name : Names, data : Seq(Rows)]

\* A row as it is bound, and all rows of a file
Row(r)   == [r EXCEPT !.fp = Bound(@)]
AsRows(d) == [n \in DOMAIN d |-> Row(d[n])]

Inserted == [k \in DOMAIN stored |-> AsRows(stored[k].data)]

TypeInv ==
    /\ names \in Seq(Names) /\ args \in Seq(Names)
    /\ stored \in Seq(Stored)
    /\ data \in Seq(Rows) /\ i \in 0..Len(data)
    /\ rows \in Seq(Bounded) /\ batch \in Seq(Bounded)
    /\ fileId \in Nat /\ lastRow \in Nat

\* The file that is being inserted has the id that its name gives it, and so have
\* its rows; the open transaction has those that were handled.
FileInv ==
    /\ pc \in {"fingerprints", "bulk"} => args # << >> /\ IdOf(Head(args), fileId)
    /\ pc = "bulk" => \A n \in DOMAIN data : data[n].file = fileId
    /\ pc = "bulk" /\ "row" \notin failed => batch = [n \in 1..i |-> Row(data[n])]

StoredInv ==
    \A k \in DOMAIN stored : \A n \in DOMAIN stored[k].data :
        IdOf(stored[k].name, stored[k].data[n].file)

NamesInv == \A f, g \in DOMAIN names : f < g => <<names[g], names[f]>> \notin Like

RowsInv == "row" \in failed \/ rows = FlattenSeq(Inserted)

SqliteInv == TypeInv /\ FileInv /\ StoredInv /\ NamesInv /\ RowsInv

-----------------------------------------------------------------------------
(* The two tables                                                          *)

LEMMA SqliteStart == Init => SqliteInv
<1> SUFFICES ASSUME Init PROVE SqliteInv
  OBVIOUS
<1> USE DEF Init
<1>1. TypeInv
  BY DEF TypeInv
<1>2. FileInv /\ StoredInv /\ NamesInv
  BY DEF FileInv, StoredInv, NamesInv
<1>3. RowsInv
  <2>1. Inserted = << >>
    BY DEF Inserted
  <2> HIDE DEF Inserted
  <2>2. FlattenSeq(Inserted) = << >>
    BY <2>1 DEF FlattenSeq
  <2> QED BY <2>2 DEF RowsInv
<1> QED BY <1>1, <1>2, <1>3 DEF SqliteInv

\* Steps that leave both tables and the transaction alone
LEMMA TablesKept ==
    ASSUME SqliteInv, UNCHANGED <<names, rows, stored, failed>>, args' \in Seq(Names),
           data' \in Seq(Rows), i' \in 0..Len(data'), batch' \in Seq(Bounded),
           fileId' \in Nat, lastRow' \in Nat,
           pc' \notin {"fingerprints", "bulk"}
    PROVE  SqliteInv'
<1>1. TypeInv' /\ FileInv'
  BY DEF SqliteInv, TypeInv, FileInv
<1>2. StoredInv' /\ NamesInv' /\ RowsInv'
  BY DEF SqliteInv, StoredInv, NamesInv, RowsInv, Inserted, IdOf
<1> QED BY <1>1, <1>2 DEF SqliteInv

LEMMA QuietKeeps ==
    ASSUME SqliteInv,
           Start \/ Prompt \/ Quit \/ Query \/ CountFile \/ Answer \/ PrintMatches \/ Kill
    PROVE  SqliteInv'
<1>1. UNCHANGED <<names, rows, stored, failed>>
  BY DEF Start, Prompt, Quit, Query, CountFile, Answer, PrintMatches, Kill
<1>2. args' \in Seq(Names)
  <2>1. CASE args' = args
    BY <2>1 DEF SqliteInv, TypeInv
  <2>2. CASE args' \in Starts
    BY <2>2, SoundsAssumption DEF SoundsAssumption, Names
  <2>3. CASE args' = << >>
    BY <2>3
  <2> QED BY <2>1, <2>2, <2>3 DEF Start, Prompt, Quit, Query, CountFile, Answer, PrintMatches, Kill
<1>3. data' \in Seq(Rows) /\ i' \in 0..Len(data')
  <2>1. CASE data' = data /\ i' = i
    BY <2>1 DEF SqliteInv, TypeInv
  <2>2. CASE data' = << >> /\ i' = 0
    BY <2>2
  <2> QED BY <2>1, <2>2 DEF Start, Prompt, Quit, Query, CountFile, Answer, PrintMatches, Kill
<1>4. pc' \notin {"fingerprints", "bulk"}
  BY DEF Start, Prompt, Quit, Query, CountFile, Answer, PrintMatches, Kill
<1>5. /\ batch' = batch \/ batch' = << >>
      /\ fileId' = fileId \/ fileId' = 0
      /\ lastRow' = lastRow \/ lastRow' = 0
  BY DEF Start, Prompt, Quit, Query, CountFile, Answer, PrintMatches, Kill
<1>6. batch' \in Seq(Bounded) /\ fileId' \in Nat /\ lastRow' \in Nat
  <2>1. << >> \in Seq(Bounded)
    OBVIOUS
  <2>2. 0 \in Nat
    OBVIOUS
  <2> QED BY <1>5, <2>1, <2>2, Zenon DEF SqliteInv, TypeInv
<1> QED BY <1>1, <1>2, <1>3, <1>4, <1>6, TablesKept

\* Ids stay right when names are added and statements fail.
LEMMA IdsStay ==
    ASSUME NEW name, NEW f, IdOf(name, f),
           \A g \in DOMAIN names : g \in DOMAIN names' /\ names'[g] = names[g],
           failed \subseteq failed'
    PROVE  IdOf(name, f)'
BY DEF IdOf

\* A name that is added gets an id, and no earlier name is like it.
LEMMA NewFileKeeps ==
    ASSUME TypeInv, NamesInv, NEW name \in Names, NewFile(name)
    PROVE  /\ \A f \in DOMAIN names : f \in DOMAIN names' /\ names'[f] = names[f]
           /\ names' \in Seq(Names) /\ NamesInv'
           /\ fileId' \in DOMAIN names' /\ <<name, names'[fileId']>> \in Like
<1>1. /\ names' = Append(names, name) /\ fileId' = Len(names')
      /\ \A f \in DOMAIN names : <<name, names[f]>> \notin Like
  BY DEF NewFile, Same
<1>2. names \in Seq(Names) /\ <<name, name>> \in Like
  BY LikeAssumption DEF LikeAssumption, Names, TypeInv
<1>3. /\ names' \in Seq(Names) /\ Len(names) \in Nat /\ Len(names') = Len(names) + 1
      /\ DOMAIN names = 1..Len(names) /\ DOMAIN names' = 1 .. Len(names) + 1
      /\ names'[Len(names) + 1] = name /\ \A k \in 1..Len(names) : names'[k] = names[k]
  BY <1>1, <1>2, AppendFacts
<1>4. NamesInv'
  <2> SUFFICES ASSUME NEW f \in DOMAIN names', NEW g \in DOMAIN names', f < g
               PROVE  <<names'[g], names'[f]>> \notin Like
    BY DEF NamesInv
  <2>1. f \in DOMAIN names /\ names'[f] = names[f]
    BY <1>3
  <2>2. CASE g = Len(names) + 1
    BY <1>1, <1>3, <2>1, <2>2
  <2>3. CASE g # Len(names) + 1
    <3>1. g \in DOMAIN names /\ names'[g] = names[g]
      BY <1>3, <2>3
    <3> QED BY <2>1, <3>1 DEF NamesInv
  <2> QED BY <2>2, <2>3
<1> QED BY <1>1, <1>2, <1>3, <1>4

\* The id that a name is found by
LEMMA SameFacts ==
    ASSUME TypeInv, NEW name \in Names, Same(name) # {}
    PROVE  Min(Same(name)) \in DOMAIN names /\ <<name, names[Min(Same(name))]>> \in Like
<1>1. Same(name) \in SUBSET Nat
  BY DEF TypeInv, Same
<1>2. \E m \in Same(name) : \A k \in Same(name) : m <= k
  BY <1>1, Least
<1>3. Min(Same(name)) \in Same(name)
  BY <1>2 DEF Min
<1> QED BY <1>3 DEF Same

LEMMA NextFileKeeps == SqliteInv /\ NextFile => SqliteInv'
<1> SUFFICES ASSUME SqliteInv, NextFile PROVE SqliteInv'
  OBVIOUS
<1>1. /\ args # << >> /\ args' = args /\ pc' = "fingerprints" /\ InsertFile(Head(args))
      /\ UNCHANGED <<rows, stored, data, i, batch>>
  BY DEF NextFile
<1>2. names \in Seq(Names) /\ args \in Seq(Names) /\ TypeInv /\ NamesInv /\ lastRow \in Nat
  BY DEF SqliteInv, TypeInv
<1>3. PICK name \in Names : name = Head(args)
  BY <1>1, <1>2, HeadTailProperties
<1>4. /\ \A f \in DOMAIN names : f \in DOMAIN names' /\ names'[f] = names[f]
      /\ names' \in Seq(Names) /\ NamesInv' /\ failed \subseteq failed'
      /\ fileId' \in Nat /\ lastRow' \in Nat
      /\ IdOf(name, fileId)'
      /\ "row" \in failed <=> "row" \in failed'
  <2>1. CASE KnownFile(name)
    <3>1. /\ UNCHANGED <<names, lastRow, failed>> /\ fileId' = Min(Same(name))
          /\ Same(name) # {} /\ name \notin Quoted
      BY <2>1 DEF KnownFile
    <3>2. fileId' \in DOMAIN names /\ <<name, names[fileId']>> \in Like
      BY <1>2, <1>3, <3>1, SameFacts
    <3>3. fileId' \in Nat
      BY <1>2, <3>2
    <3>4. NamesInv'
      BY <1>2, <3>1 DEF NamesInv
    <3> QED BY <1>2, <3>1, <3>2, <3>3, <3>4 DEF IdOf
  <2>2. CASE NewFile(name)
    <3>1. /\ \A f \in DOMAIN names : f \in DOMAIN names' /\ names'[f] = names[f]
          /\ names' \in Seq(Names) /\ NamesInv'
          /\ fileId' \in DOMAIN names' /\ <<name, names'[fileId']>> \in Like
      BY <1>2, <1>3, <2>2, NewFileKeeps
    <3>2. failed' = failed /\ lastRow' = fileId' /\ name \notin Quoted
      BY <2>2 DEF NewFile
    <3>3. fileId' \in Nat
      BY <3>1
    <3> QED BY <3>1, <3>2, <3>3 DEF IdOf
  <2>3. CASE NoStatement(name)
    <3>1. UNCHANGED <<names, lastRow, failed>> /\ fileId' = 0 /\ name \in Quoted
      BY <2>3 DEF NoStatement
    <3>2. NamesInv'
      BY <1>2, <3>1 DEF NamesInv
    <3> QED BY <1>2, <3>1, <3>2 DEF IdOf
  <2>4. CASE FailFile(name)
    <3>1. /\ UNCHANGED <<names, lastRow>> /\ fileId' \in {0, lastRow} /\ name \notin Quoted
          /\ failed' = failed \union {"file"}
      BY <2>4 DEF FailFile
    <3>2. NamesInv'
      BY <1>2, <3>1 DEF NamesInv
    <3>3. fileId' \in Nat
      BY <1>2, <3>1
    <3> QED BY <1>2, <3>1, <3>2, <3>3 DEF IdOf
  <2> QED BY <1>1, <1>3, <2>1, <2>2, <2>3, <2>4 DEF InsertFile
<1>5. TypeInv'
  BY <1>1, <1>4 DEF SqliteInv, TypeInv
<1>6. FileInv'
  BY <1>1, <1>3, <1>4 DEF FileInv
<1>7. StoredInv'
  <2> SUFFICES ASSUME NEW k \in DOMAIN stored, NEW n \in DOMAIN stored[k].data
               PROVE  IdOf(stored[k].name, stored[k].data[n].file)'
    BY <1>1 DEF StoredInv
  <2> DEFINE owner == stored[k].name
             f == stored[k].data[n].file
  <2>1. IdOf(owner, f) /\ owner' = owner /\ f' = f
    BY <1>1 DEF SqliteInv, StoredInv
  <2> QED BY <1>4, <2>1 DEF IdOf
<1>8. RowsInv'
  BY <1>1, <1>4 DEF SqliteInv, RowsInv, Inserted
<1> QED BY <1>4, <1>5, <1>6, <1>7, <1>8 DEF SqliteInv

\* What is read of a file is a sequence of fingerprints.
LEMMA ReadFacts ==
    ASSUME NEW name \in Names, NEW prints \in ReadOf(name)
    PROVE  prints \in Seq(Nat)
<1>1. /\ Sounds[name] \in Seq(Nat) /\ Beyond \in Nat /\ Beyond <= Len(Sounds[name])
      /\ \A n \in Stray : n \in Nat
  BY SoundsAssumption, PrintsAssumption DEF SoundsAssumption, PrintsAssumption, Names
<1> DEFINE known == Len(Sounds[name]) - Beyond
<1>2. known \in 0..Len(Sounds[name])
  BY <1>1
<1> HIDE DEF known
<1>3. SubSeq(Sounds[name], 1, known) \in Seq(Nat)
  BY <1>1, <1>2
<1>4. PICK beyond \in [1..Beyond -> Stray] : prints = SubSeq(Sounds[name], 1, known) \o beyond
  BY DEF ReadOf, known
<1>5. beyond \in Seq(Nat)
  BY <1>1
<1> QED BY <1>3, <1>4, <1>5

LEMMA FingerprintKeeps == SqliteInv /\ ReadFile => SqliteInv'
<1> SUFFICES ASSUME SqliteInv, ReadFile PROVE SqliteInv'
  OBVIOUS
<1>1. /\ pc = "fingerprints" /\ pc' = "bulk" /\ batch' = << >> /\ i' = 0
      /\ UNCHANGED <<names, rows, args, fileId, lastRow, stored, failed>>
  BY DEF ReadFile
<1>2. /\ names \in Seq(Names) /\ args \in Seq(Names) /\ args # << >> /\ fileId \in Nat
  BY <1>1 DEF SqliteInv, TypeInv, FileInv
<1>3. PICK prints \in ReadOf(Head(args)) :
         data' = [k \in DOMAIN prints |-> [fp |-> prints[k], offset |-> k - 1, file |-> fileId]]
  BY DEF ReadFile
<1>4. prints \in Seq(Nat)
  <2>1. Head(args) \in Names
    BY <1>2, HeadTailProperties
  <2> QED BY <2>1, ReadFacts
<1>5. data' \in Seq(Rows) /\ \A n \in DOMAIN data' : data'[n].file = fileId
  <2>1. DOMAIN prints = 1..Len(prints) /\ Len(prints) \in Nat /\ fileId \in Nat
        /\ \A k \in DOMAIN prints : prints[k] \in Nat /\ k - 1 \in Nat
    BY <1>2, <1>4
  <2>2. \A k \in DOMAIN prints : [fp |-> prints[k], offset |-> k - 1, file |-> fileId] \in Rows
    BY <2>1 DEF Rows
  <2>3. data' \in [1..Len(prints) -> Rows]
    BY <1>3, <2>1, <2>2
  <2> QED BY <1>3, <2>1, <2>3
<1>6. TypeInv'
  BY <1>1, <1>2, <1>5 DEF SqliteInv, TypeInv
<1>7. FileInv'
  <2>1. batch' = [n \in 1..0 |-> Row(data'[n])]
    BY <1>1
  <2> QED BY <1>1, <1>5, <2>1 DEF SqliteInv, FileInv, IdOf
<1>8. StoredInv' /\ NamesInv' /\ RowsInv'
  BY <1>1 DEF SqliteInv, StoredInv, NamesInv, RowsInv, Inserted, IdOf
<1> QED BY <1>6, <1>7, <1>8 DEF SqliteInv

LEMMA AsIsBound == \A r \in Rows : Row(r) \in Bounded
<1>1. \A m \in Nat : Bound(m) \in Int
  BY PrintsAssumption DEF PrintsAssumption, Bound
<1> QED BY <1>1 DEF Rows, Row, Bounded

LEMMA RowKeeps == SqliteInv /\ (InsertRow \/ FailRow) => SqliteInv'
<1> SUFFICES ASSUME SqliteInv, InsertRow \/ FailRow PROVE SqliteInv'
  OBVIOUS
<1>1. /\ pc = "bulk" /\ pc' = pc /\ i < Len(data) /\ i' = i + 1
      /\ UNCHANGED <<names, rows, data, args, fileId, stored>>
      /\ failed' = failed \/ failed' = failed \union {"row"}
  BY DEF InsertRow, FailRow
<1>2. TypeInv'
  <2>1. i \in Nat /\ data \in Seq(Rows) /\ Len(data) \in Nat
        /\ rows \in Seq(Bounded) /\ batch \in Seq(Bounded) /\ lastRow \in Nat
    BY DEF SqliteInv, TypeInv
  <2>2. i' \in 0..Len(data')
    BY <1>1, <2>1
  <2>3. batch' \in Seq(Bounded) /\ lastRow' \in Nat
    <3>1. CASE FailRow
      BY <2>1, <3>1 DEF FailRow
    <3>2. CASE InsertRow
      <4>1. batch' = Append(batch, Row(data[i + 1])) /\ lastRow' = Len(rows) + Len(batch')
        BY <3>2 DEF InsertRow, Row
      <4>2. data[i + 1] \in Rows
        BY <1>1, <2>1
      <4>3. Row(data[i + 1]) \in Bounded
        BY <4>2, AsIsBound
      <4> HIDE DEF Bounded
      <4>4. batch' \in Seq(Bounded)
        BY <2>1, <4>1, <4>3
      <4>5. Len(batch') \in Nat /\ Len(rows) \in Nat
        BY <2>1, <4>4
      <4> QED BY <4>1, <4>4, <4>5
    <3> QED BY <3>1, <3>2
  <2> QED BY <1>1, <2>2, <2>3 DEF SqliteInv, TypeInv
<1>3. FileInv'
  <2>1. CASE "row" \in failed'
    BY <1>1, <2>1 DEF SqliteInv, FileInv, IdOf
  <2>2. CASE "row" \notin failed'
    <3>1. InsertRow /\ "row" \notin failed
      BY <1>1, <2>2 DEF FailRow, InsertRow
    <3> DEFINE f == [n \in Nat |-> Row(data[n])]
    <3>2. batch = [n \in 1..i |-> f[n]] /\ i \in Nat
      BY <1>1, <3>1 DEF SqliteInv, FileInv, TypeInv
    <3>3. batch' = Append(batch, f[i + 1])
      BY <3>1, <3>2 DEF InsertRow, Row
    <3>4. [n \in 1 .. i + 1 |-> f[n]] = [n \in 1 .. i + 1 |-> Row(data[n])]
      BY <3>2
    <3> HIDE DEF f
    <3>5. batch' = [n \in 1 .. i + 1 |-> Row(data[n])]
      BY <3>2, <3>3, <3>4, OneMore
    <3> QED BY <1>1, <3>5 DEF SqliteInv, FileInv, IdOf
  <2> QED BY <2>1, <2>2
<1>4. StoredInv' /\ NamesInv' /\ RowsInv'
  BY <1>1 DEF SqliteInv, StoredInv, NamesInv, RowsInv, Inserted, IdOf
<1> QED BY <1>2, <1>3, <1>4 DEF SqliteInv

LEMMA EndTransactionKeeps == SqliteInv /\ EndTransaction => SqliteInv'
<1> SUFFICES ASSUME SqliteInv, EndTransaction PROVE SqliteInv'
  OBVIOUS
<1> DEFINE new == [name |-> Head(args), data |-> data]
<1>1. /\ pc = "bulk" /\ pc' = "file" /\ i >= Len(data) /\ rows' = rows \o batch
      /\ stored' = Append(stored, new) /\ args' = Tail(args)
      /\ UNCHANGED <<names, data, i, fileId, lastRow, failed>> /\ batch' = << >>
  BY DEF EndTransaction
<1>2. /\ args \in Seq(Names) /\ args # << >> /\ data \in Seq(Rows) /\ i \in 0..Len(data)
      /\ rows \in Seq(Bounded) /\ batch \in Seq(Bounded)
      /\ stored \in Seq(Stored) /\ IdOf(Head(args), fileId)
      /\ \A n \in DOMAIN data : data[n].file = fileId
  BY <1>1 DEF SqliteInv, TypeInv, FileInv
<1>3. new \in Stored /\ args' \in Seq(Names)
  BY <1>1, <1>2, HeadTailProperties DEF Stored
<1>4. new.name = Head(args) /\ new.data = data
  OBVIOUS
<1> HIDE DEF new
<1>5. /\ stored' \in Seq(Stored) /\ Len(stored) \in Nat
      /\ DOMAIN stored = 1..Len(stored) /\ DOMAIN stored' = 1 .. Len(stored) + 1
      /\ stored'[Len(stored) + 1] = new /\ \A k \in 1..Len(stored) : stored'[k] = stored[k]
  BY <1>1, <1>2, <1>3, AppendFacts
<1>6. TypeInv' /\ FileInv'
  <2>1. rows' \in Seq(Bounded) /\ batch' \in Seq(Bounded)
    <3> HIDE DEF Bounded
    <3> QED BY <1>1, <1>2
  <2>2. TypeInv'
    BY <1>1, <1>2, <1>3, <1>5, <2>1 DEF SqliteInv, TypeInv
  <2> QED BY <1>1, <2>2 DEF FileInv
<1>7. StoredInv'
  <2>1. \A k \in DOMAIN stored' : stored'[k] = new \/ (k \in DOMAIN stored /\ stored'[k] = stored[k])
    BY <1>5
  <2>2. ASSUME NEW k \in DOMAIN stored', NEW n \in DOMAIN stored'[k].data
        PROVE  IdOf(stored'[k].name, stored'[k].data[n].file)
    <3>1. CASE stored'[k] = new
      BY <1>2, <1>4, <2>2, <3>1
    <3>2. CASE k \in DOMAIN stored /\ stored'[k] = stored[k]
      BY <2>2, <3>2 DEF SqliteInv, StoredInv
    <3> QED BY <2>1, <3>1, <3>2
  <2> QED BY <1>1, <2>2 DEF StoredInv, IdOf
<1>8. RowsInv'
  <2>1. CASE "row" \in failed
    BY <1>1, <2>1 DEF RowsInv
  <2>2. CASE "row" \notin failed
    <3>1. rows = FlattenSeq(Inserted) /\ batch = AsRows(data)
      <4>1. i = Len(data) /\ DOMAIN data = 1..i
        BY <1>1, <1>2
      <4>2. batch = [n \in 1..i |-> Row(data[n])]
        BY <1>1, <2>2 DEF SqliteInv, FileInv
      <4> QED BY <2>2, <4>1, <4>2 DEF AsRows, SqliteInv, RowsInv
    <3> DEFINE f == [k \in Nat |-> AsRows(stored'[k].data)]
               l == Len(stored)
               T == [fp : Int, offset : Nat, file : Nat]
    <3>2. /\ Inserted = [k \in 1..l |-> f[k]] /\ Inserted' = [k \in 1 .. l + 1 |-> f[k]]
          /\ f[l + 1] = AsRows(data) /\ l \in Nat
      BY <1>4, <1>5 DEF Inserted
    <3>3. Inserted' = Append(Inserted, AsRows(data))
      <4> HIDE DEF f, l
      <4> QED BY <3>2, OneMore
    <3>4. ASSUME NEW d \in Seq(Rows) PROVE AsRows(d) \in Seq(T)
      <4>1. ASSUME NEW n \in DOMAIN d PROVE Row(d[n]) \in T
        <5>1. d[n] \in Rows
          OBVIOUS
        <5>2. \A m \in Nat : Bound(m) \in Int
          BY PrintsAssumption DEF PrintsAssumption, Bound
        <5> QED BY <5>1, <5>2 DEF Rows, Row
      <4>2. DOMAIN d = 1..Len(d) /\ Len(d) \in Nat
        OBVIOUS
      <4> HIDE DEF T
      <4>3. AsRows(d) \in [1..Len(d) -> T]
        BY <4>1, <4>2 DEF AsRows
      <4> QED BY <4>2, <4>3
    <3> HIDE DEF T
    <3>5. Inserted \in Seq(Seq(T)) /\ AsRows(data) \in Seq(T)
      <4>1. \A k \in DOMAIN stored : stored[k].data \in Seq(Rows)
        <5>1. \A k \in DOMAIN stored : stored[k] \in Stored
          BY <1>2
        <5> QED BY <5>1 DEF Stored
      <4>2. \A k \in 1..l : AsRows(stored[k].data) \in Seq(T)
        BY <1>5, <3>4, <4>1
      <4>3. Inserted \in [1..l -> Seq(T)]
        BY <1>5, <4>2 DEF Inserted
      <4>4. AsRows(data) \in Seq(T)
        BY <1>2, <3>4
      <4> HIDE DEF f
      <4>5. \A s : s \in [1..l -> Seq(T)] => s \in Seq(Seq(T))
        <5> HIDE DEF l
        <5> QED BY <3>2
      <4> QED BY <4>3, <4>4, <4>5
    <3>6. FlattenSeq(Inserted') = FlattenSeq(Inserted) \o AsRows(data)
      BY <3>3, <3>5, FlattenAppend
    <3>7. rows' = FlattenSeq(Inserted')
      BY <1>1, <3>1, <3>6
    <3> QED BY <3>7 DEF RowsInv
  <2> QED BY <2>1, <2>2
<1>9. NamesInv'
  BY <1>1 DEF SqliteInv, NamesInv
<1> QED BY <1>6, <1>7, <1>8, <1>9 DEF SqliteInv

\* Every invariant of the tables, at every step
THEOREM TablesInvariance == Spec => []SqliteInv
<1>1. SqliteInv /\ [Next]_vars => SqliteInv'
  <2> SUFFICES ASSUME SqliteInv, [Next]_vars PROVE SqliteInv'
    OBVIOUS
  <2>1. CASE UNCHANGED vars
    BY <2>1 DEF vars, SqliteInv, TypeInv, FileInv, StoredInv, NamesInv, RowsInv, Inserted, IdOf
  <2> QED BY <2>1, QuietKeeps, NextFileKeeps, FingerprintKeeps, RowKeeps, EndTransactionKeeps DEF Next
<1> QED BY <1>1, SqliteStart, PTL DEF Spec

\* RowsWhole: whatever files are inserted, in any number of starts, and wherever
\* the process is killed: unless a row was refused, the table has the rows of
\* whole files in the order of their insertions; unless a statement about a file
\* failed, each has the id of a name that its own matches, or 0 if no statement is
\* made of its own; and no id was given to a name that an earlier one is found by.
THEOREM RowsStayWhole == Spec => []RowsWhole
<1>1. SqliteInv => RowsWhole
  <2> SUFFICES ASSUME SqliteInv PROVE RowsWhole
    OBVIOUS
  <2>1. Inserted = [k \in DOMAIN stored |->
                   [n \in DOMAIN stored[k].data |-> [stored[k].data[n] EXCEPT !.fp = Bound(@)]]]
    BY DEF Inserted, AsRows, Row
  <2>2. "row" \in failed \/ rows = FlattenSeq([k \in DOMAIN stored |->
                   [n \in DOMAIN stored[k].data |-> [stored[k].data[n] EXCEPT !.fp = Bound(@)]]])
    BY <2>1 DEF SqliteInv, RowsInv
  <2> QED BY <2>2 DEF SqliteInv, StoredInv, NamesInv, RowsWhole
<1> QED BY <1>1, TablesInvariance, PTL

-----------------------------------------------------------------------------
(* What a file's hits add to the answer                                    *)

Match == [file : Nat, offset : Nat]

\* A match near a distance
Told(found, f, d) ==
    \E k \in DOMAIN found : found[k].file = f /\ Abs(found[k].offset - Abs(d)) < Near

\* What was there stays, and what is new are distances with enough hits.
Counted(old, new, distances, f) ==
    /\ new \in Seq(Match)
    /\ \A k \in DOMAIN old : k \in DOMAIN new /\ new[k] = old[k]
    /\ \A k \in DOMAIN new :
          \/ k \in DOMAIN old
          \/ \E d \in Int : ~(NumberOf(distances, d) < MinHits) /\ new[k] = [file |-> f, offset |-> Abs(d)]

LEMMA WithMatchFacts ==
    ASSUME NEW found \in Seq(Match), NEW f \in Nat, NEW d \in Int, NEW distances
    PROVE  /\ Counted(found, WithMatch(found, distances, f, d), distances, f)
           /\ NumberOf(distances, d) < MinHits \/ Told(WithMatch(found, distances, f, d), f, d)
<1> DEFINE w == WithMatch(found, distances, f, d)
           m == [file |-> f, offset |-> Abs(d)]
<1>0. Near \in Nat \ {0}
  BY HitsAssumption DEF HitsAssumption
<1>1. CASE NumberOf(distances, d) < MinHits
  BY <1>1 DEF WithMatch, Counted
<1>2. CASE ~(NumberOf(distances, d) < MinHits)
  <2> DEFINE near == found # << >> /\ Last(found).file = f /\ Abs(Last(found).offset - d) < Near
  <2>1. CASE near
    <3>1. w = found
      BY <2>1 DEF WithMatch
    <3>2. Len(found) \in DOMAIN found /\ Last(found) = found[Len(found)] /\ found[Len(found)] \in Match
      <4>1. Len(found) \in DOMAIN found /\ Last(found) = found[Len(found)]
        BY <2>1, EmptySeq DEF Last
      <4> QED BY <4>1
    <3>3. \A o \in Nat : Abs(o - Abs(d)) <= Abs(o - d) /\ Abs(o - Abs(d)) \in Int /\ Abs(o - d) \in Int
      BY DEF Abs
    <3>4. found[Len(found)].offset \in Nat
      BY <3>2 DEF Match
    <3>5. Abs(found[Len(found)].offset - Abs(d)) < Near
      <4> DEFINE o == found[Len(found)].offset
      <4>1. Abs(o - d) < Near /\ o \in Nat
        BY <2>1, <3>2, <3>4
      <4> HIDE DEF o
      <4>2. Abs(o - Abs(d)) < Near
        BY <1>0, <3>3, <4>1
      <4> QED BY <4>2 DEF o
    <3> QED BY <2>1, <3>1, <3>2, <3>5 DEF Told, Counted
  <2>2. CASE ~near
    <3>1. w = Append(found, m)
      BY <1>2, <2>2 DEF WithMatch
    <3>2. m \in Match /\ m.file = f /\ m.offset = Abs(d) /\ Abs(d) \in Nat
      <4>1. Abs(d) \in Nat
        BY DEF Abs
      <4> QED BY <4>1 DEF Match
    <3> HIDE DEF m
    <3>3. /\ w \in Seq(Match) /\ DOMAIN found = 1..Len(found) /\ DOMAIN w = 1 .. Len(found) + 1
          /\ w[Len(found) + 1] = m /\ \A k \in 1..Len(found) : w[k] = found[k]
          /\ Len(found) \in Nat
      BY <3>1, <3>2, AppendFacts
    <3>5. Counted(found, w, distances, f)
      <4> HIDE DEF w
      <4>1. ASSUME NEW k \in DOMAIN w, k \notin DOMAIN found PROVE w[k] = m
        BY <3>3, <4>1
      <4> QED BY <1>2, <3>3, <4>1 DEF Counted, m
    <3>6. Told(w, f, d)
      <4>1. Abs(m.offset - Abs(d)) < Near
        BY <1>0, <3>2 DEF Abs
      <4> HIDE DEF w
      <4>2. Len(found) + 1 \in DOMAIN w
        BY <3>3
      <4> QED BY <3>2, <3>3, <4>1, <4>2 DEF Told
    <3> QED BY <3>5, <3>6
  <2> QED BY <2>1, <2>2
<1> QED BY <1>1, <1>2

LEMMA CountedOnce ==
    ASSUME NEW old \in Seq(Match), NEW mid, NEW new, NEW distances, NEW f,
           Counted(old, mid, distances, f), Counted(mid, new, distances, f)
    PROVE  /\ Counted(old, new, distances, f)
           /\ \A d : Told(mid, f, d) => Told(new, f, d)
<1>1. Counted(old, new, distances, f)
  BY DEF Counted
<1>2. \A d : Told(mid, f, d) => Told(new, f, d)
  BY DEF Counted, Told
<1> QED BY <1>1, <1>2

\* The distances are handled one after the other, and each that has enough hits
\* is told.
LEMMA MatchesFacts ==
    ASSUME NEW P, IsFiniteSet(P), NEW E \in [P -> Int], NEW f \in Nat, matches \in Seq(Match)
    PROVE  /\ Counted(matches, MatchesOf(E, f), E, f)
           /\ \A d \in Range(E) :
                 \/ NumberOf(E, d) < MinHits
                 \/ Cardinality(DOMAIN E) < MinHits
                 \/ Told(MatchesOf(E, f), f, d)
<1> DEFINE S == Range(E)
<1>1. S \in SUBSET Int /\ IsFiniteSet(S)
  <2>1. S \in SUBSET Int
    BY DEF Range
  <2>2. E \in Surjection(P, S)
    BY DEF Range, Surjection
  <2> QED BY <2>1, <2>2, FS_Surjection
<1>2. Counted(matches, matches, E, f)
  BY DEF Counted
<1>3. CASE Cardinality(DOMAIN E) < MinHits
  BY <1>2, <1>3 DEF MatchesOf
<1>4. CASE ~(Cardinality(DOMAIN E) < MinHits)
  <2> DEFINE g  == [s \in SUBSET S |-> Max(s)]
             op == [found \in Seq(Match) |-> [x \in S |-> WithMatch(found, E, f, x)]]
             Is(c) == c = [s \in SUBSET S |-> IF s = {} THEN matches
                                              ELSE WithMatch(c[s \ {Max(s)}], E, f, Max(s))]
             c  == CHOOSE h : Is(h)
  <2>1. MatchesOf(E, f) = c[S]
    BY <1>4, Zenon DEF MatchesOf, MapThenFoldSet
  <2> HIDE DEF S
  <2>2. \A s \in SUBSET S : s # {} => g[s] = Max(s) /\ Max(s) \in s /\ Max(s) \in S /\ Max(s) \in Int
                                      /\ s \ {Max(s)} \in SUBSET S
    <3>1. \A s \in SUBSET S : s # {} => Max(s) \in s
      BY <1>1, FS_Subset, GreatestOfFinite
    <3> QED BY <1>1, <3>1
  <2>3. \A found \in Seq(Match) : \A x \in S : WithMatch(found, E, f, x) \in Seq(Match)
    BY <1>1, WithMatchFacts DEF Counted
  <2>4. op \in [Seq(Match) -> [S -> Seq(Match)]] /\ Picks(g, S)
    <3>1. \A found \in Seq(Match) : [x \in S |-> WithMatch(found, E, f, x)] \in [S -> Seq(Match)]
      BY <2>3
    <3>2. op \in [Seq(Match) -> [S -> Seq(Match)]]
      BY <3>1
    <3>3. Picks(g, S)
      BY <2>2 DEF Picks
    <3> QED BY <3>2, <3>3
  <2>5. Is(c)
    <3> HIDE DEF g, op
    <3>1. PICK h \in [SUBSET S -> Seq(Match)] : IsFold(S, g, matches, op, h)
      BY <1>1, <2>4, FoldExists
    <3>2. ASSUME NEW s \in SUBSET S
          PROVE  h[s] = IF s = {} THEN matches ELSE WithMatch(h[s \ {Max(s)}], E, f, Max(s))
      <4>1. CASE s = {}
        BY <3>1, <4>1 DEF IsFold
      <4>2. CASE s # {}
        <5>1. h[s] = op[h[s \ {Max(s)}]][Max(s)] /\ h[s \ {Max(s)}] \in Seq(Match) /\ Max(s) \in S
          BY <2>2, <3>1, <4>2 DEF IsFold
        <5> QED BY <4>2, <5>1 DEF op
      <4> QED BY <4>1, <4>2
    <3>3. h = [s \in SUBSET S |-> h[s]]
      OBVIOUS
    <3>4. Is(h)
      BY <3>2, <3>3, Zenon
    <3> HIDE DEF Is
    <3> QED BY <3>4
  <2> HIDE DEF c
  <2> DEFINE G == {s \in SUBSET S :
                     /\ Counted(matches, c[s], E, f)
                     /\ \A d \in s : NumberOf(E, d) < MinHits \/ Told(c[s], f, d)}
  <2>6. {} \in G
    BY <1>2, <2>5
  <2>7. ASSUME NEW s \in SUBSET S, s # {}, s \ {g[s]} \in G PROVE s \in G
    <3> DEFINE x == Max(s)
               r == s \ {x}
    <3>1. x \in s /\ x \in S /\ x \in Int /\ r \in G
      BY <2>2, <2>7
    <3>2. c[s] = WithMatch(c[r], E, f, x)
      BY <2>5, <2>7
    <3>3. /\ Counted(matches, c[r], E, f) /\ c[r] \in Seq(Match)
          /\ \A d \in r : NumberOf(E, d) < MinHits \/ Told(c[r], f, d)
      BY <3>1 DEF Counted
    <3>4. /\ Counted(c[r], c[s], E, f)
          /\ NumberOf(E, x) < MinHits \/ Told(c[s], f, x)
      BY <3>1, <3>2, <3>3, WithMatchFacts
    <3>5. /\ Counted(matches, c[s], E, f)
          /\ \A d : Told(c[r], f, d) => Told(c[s], f, d)
      BY <3>3, <3>4, CountedOnce
    <3>6. \A d \in s : NumberOf(E, d) < MinHits \/ Told(c[s], f, d)
      BY <3>3, <3>4, <3>5
    <3> QED BY <3>5, <3>6
  <2>8. S \in G
    <3> HIDE DEF G, g
    <3> QED BY <1>1, <2>4, <2>6, <2>7, BuiltUp
  <2> QED BY <2>1, <2>8 DEF S
<1> QED BY <1>3, <1>4

QueryTyped == asked \in Seq(Nat) /\ rows \in Seq(Bounded)

LEMMA DistancesFacts ==
    ASSUME QueryTyped, NEW f \in Nat
    PROVE  /\ DOMAIN Distances(asked, f) \in SUBSET ((DOMAIN asked) \X (DOMAIN rows))
           /\ Distances(asked, f) \in [DOMAIN Distances(asked, f) -> Int]
           /\ \A x \in Int : {p \in DOMAIN Distances(asked, f) : Distances(asked, f)[p] = x} = Support(f, x)
<1> DEFINE A == (DOMAIN asked) \X (DOMAIN rows)
           of == {p \in A : p[2] \in Found(asked, p[1]) /\ rows[p[2]].file = f}
           D == Distances(asked, f)
<1>1. D = [p \in of |-> rows[p[2]].offset - (p[1] - 1)]
  BY DEF Distances
<1>2. \A p \in A : p[1] \in DOMAIN asked /\ p[2] \in DOMAIN rows
  OBVIOUS
<1>3. /\ \A u \in DOMAIN asked : u \in Nat
      /\ \A r \in DOMAIN rows : rows[r] \in Bounded
  BY DEF QueryTyped
<1>4. \A p \in A : p[1] - 1 \in Int /\ rows[p[2]] \in Bounded /\ rows[p[2]].offset \in Nat
  BY <1>2, <1>3 DEF Bounded
<1>5. \A p \in of : p \in A /\ p[2] \in Found(asked, p[1]) /\ rows[p[2]].file = f
  OBVIOUS
<1>6. \A p \in A : p[2] \in Found(asked, p[1]) <=> rows[p[2]].fp = asked[p[1]]
  BY <1>2 DEF Found
<1>7. \A p \in of : rows[p[2]].offset - (p[1] - 1) \in Int
  BY <1>4, <1>5
<1>8. DOMAIN D = of /\ D \in [of -> Int] /\ of \in SUBSET A
  <2>1. of \in SUBSET A
    OBVIOUS
  <2> HIDE DEF of, D
  <2> QED BY <1>1, <1>7, <2>1
<1>9. ASSUME NEW x \in Int, NEW p \in A
      PROVE  /\ rows[p[2]] = [fp |-> asked[p[1]], offset |-> p[1] - 1 + x, file |-> f]
                <=> p \in of /\ D[p] = x
  <2> DEFINE row == rows[p[2]]
             a == p[1] - 1
             e == asked[p[1]]
  <2>1. row \in Bounded /\ a \in Int /\ row.offset \in Nat
    BY <1>4
  <2>2. p \in of <=> row.fp = e /\ row.file = f
    BY <1>6
  <2>3. p \in of => D[p] = row.offset - a
    <3> HIDE DEF of, D
    <3> QED BY <1>1
  <2> HIDE DEF row, a, e, of, D
  <2>4. row = [fp |-> e, offset |-> a + x, file |-> f] <=> row.fp = e /\ row.offset = a + x /\ row.file = f
    BY <2>1 DEF Bounded
  <2>5. row.offset = a + x <=> row.offset - a = x
    BY <2>1
  <2>6. row = [fp |-> e, offset |-> a + x, file |-> f] <=> p \in of /\ D[p] = x
    BY <2>2, <2>3, <2>4, <2>5
  <2> QED BY <2>6 DEF row, a, e
<1>10. ASSUME NEW x \in Int PROVE {p \in DOMAIN D : D[p] = x} = Support(f, x)
  <2> HIDE DEF D, of
  <2>1. {p \in DOMAIN D : D[p] = x} \subseteq Support(f, x)
    BY <1>8, <1>9 DEF Support
  <2>2. Support(f, x) \subseteq {p \in DOMAIN D : D[p] = x}
    BY <1>8, <1>9 DEF Support
  <2> QED BY <2>1, <2>2
<1> QED BY <1>8, <1>10

\* The pairs that are counted too, as a set
Extras(extras) == {Extra(k) : k \in DOMAIN extras}

LEMMA ExtrasFinite ==
    ASSUME NEW extras \in Seq(Int)
    PROVE  /\ IsFiniteSet(Extras(extras))
           /\ Len(extras) = 1 => Extras(extras) = {Extra(1)}
<1> DEFINE g == [k \in DOMAIN extras |-> Extra(k)]
<1>1. DOMAIN extras = 1..Len(extras) /\ Len(extras) \in Int
  OBVIOUS
<1>2. IsFiniteSet(DOMAIN extras)
  BY <1>1, FS_Interval
<1>3. g \in Surjection(DOMAIN extras, Extras(extras))
  BY DEF Surjection, Extras
<1>4. Len(extras) = 1 => DOMAIN extras = {1}
  BY <1>1
<1> QED BY <1>2, <1>3, <1>4, FS_Surjection DEF Extras

\* With hits of another file, and possibly without one of its own, a file has for
\* each distance its hits but one, and one more at most if there is one such hit.
LEMMA HitsFacts ==
    ASSUME QueryTyped, NEW f \in Nat, NEW extras \in Seq(Int), taken = {} \/ \E p : taken = {p},
           NEW E, E = OwnAnd(Distances(asked, f), taken, extras)
    PROVE  /\ IsFiniteSet(DOMAIN E) /\ E \in [DOMAIN E -> Int]
           /\ \A x \in Int : /\ NumberOf(E, x) \in Nat /\ Cardinality(Support(f, x)) \in Nat
                             /\ Len(extras) = 1 => NumberOf(E, x) <= Cardinality(Support(f, x)) + 1
                             /\ Cardinality(Support(f, x)) <= NumberOf(E, x) + 1
                             /\ NumberOf(E, x) <= Cardinality(DOMAIN E)
                             /\ NumberOf(E, x) # 0 => x \in Range(E)
<1> DEFINE A == (DOMAIN asked) \X (DOMAIN rows)
           D == Distances(asked, f)
           X == Extras(extras)
           O == DOMAIN D \ taken
           P == O \union X
<1>1. IsFiniteSet(A)
  <2>1. DOMAIN asked = 1..Len(asked) /\ DOMAIN rows = 1..Len(rows) /\ Len(asked) \in Int /\ Len(rows) \in Int
    BY DEF QueryTyped
  <2>2. IsFiniteSet(DOMAIN asked) /\ IsFiniteSet(DOMAIN rows)
    BY <2>1, FS_Interval
  <2> QED BY <2>2, FS_Product
<1>2. /\ DOMAIN D \in SUBSET A /\ D \in [DOMAIN D -> Int]
      /\ \A x \in Int : {p \in DOMAIN D : D[p] = x} = Support(f, x)
  BY DistancesFacts
<1>4. E = [p \in P |-> IF p \in O THEN D[p] ELSE extras[p[2]]]
  BY DEF OwnAnd, Extras
<1>x. \A p \in X : p[2] \in DOMAIN extras /\ extras[p[2]] \in Int
  BY DEF Extras, Extra
<1> HIDE DEF A, D, X
<1>5. IsFiniteSet(DOMAIN D) /\ IsFiniteSet(P) /\ IsFiniteSet(X)
  <2>1. IsFiniteSet(DOMAIN D)
    BY <1>1, <1>2, FS_Subset
  <2>2. IsFiniteSet(O)
    BY <2>1, FS_Subset
  <2>3. IsFiniteSet(X)
    BY ExtrasFinite DEF X
  <2> QED BY <2>1, <2>2, <2>3, FS_Union
<1>6. /\ DOMAIN E = P /\ E \in [P -> Int]
      /\ \A p \in P : p \in X \/ p \in DOMAIN D
      /\ \A p \in O : E[p] = D[p]
  <2>1. \A p \in P : p \in X \/ p \in DOMAIN D
    OBVIOUS
  <2>2. \A p \in O : p \in P /\ D[p] \in Int
    BY <1>2
  <2>3. \A p \in P : p \in O \/ p \in X
    OBVIOUS
  <2> HIDE DEF P, O
  <2> QED BY <1>x, <1>4, <2>1, <2>2, <2>3
<1>7. \A p \in DOMAIN D : p \notin taken => p \in P /\ p \in O
  OBVIOUS
<1>o. \A p \in P : p \in O \/ p \in X
  OBVIOUS
<1>d. O \subseteq DOMAIN D
  OBVIOUS
<1> HIDE DEF P, O
<1>8. ASSUME NEW x \in Int
      PROVE  /\ NumberOf(E, x) \in Nat /\ Cardinality(Support(f, x)) \in Nat
             /\ Len(extras) = 1 => NumberOf(E, x) <= Cardinality(Support(f, x)) + 1
             /\ Cardinality(Support(f, x)) <= NumberOf(E, x) + 1
             /\ NumberOf(E, x) <= Cardinality(DOMAIN E)
             /\ NumberOf(E, x) # 0 => x \in Range(E)
  <2> DEFINE N == {p \in DOMAIN E : E[p] = x}
             U == Support(f, x)
  <2>1. NumberOf(E, x) = Cardinality(N)
    BY DEF NumberOf
  <2>2. U = {p \in DOMAIN D : D[p] = x}
    BY <1>2
  <2>3. N \subseteq U \union X /\ U \ taken \subseteq N /\ N \subseteq P
    <3>1. N \subseteq U \union X /\ N \subseteq P
      BY <1>6, <1>o, <1>d, <2>2
    <3>2. U \ taken \subseteq N
      BY <1>6, <1>7, <2>2
    <3> QED BY <3>1, <3>2
  <2>4. IsFiniteSet(U) /\ IsFiniteSet(N) /\ Cardinality(N) <= Cardinality(P)
    <3>1. U \in SUBSET (DOMAIN D)
      BY <2>2
    <3>2. N \in SUBSET P
      BY <2>3
    <3> HIDE DEF U, N
    <3> QED BY <1>5, <3>1, <3>2, FS_Subset
  <2>5. N # {} => x \in Range(E)
    BY DEF Range
  <2> HIDE DEF N, U
  <2>6. Cardinality(U) \in Nat /\ Cardinality(N) \in Nat /\ Cardinality(P) \in Nat
    BY <1>5, <2>4, FS_CardinalityType
  <2>7. Len(extras) = 1 => Cardinality(N) <= Cardinality(U) + 1
    <3> DEFINE e == Extra(1)
    <3> SUFFICES ASSUME Len(extras) = 1 PROVE Cardinality(N) <= Cardinality(U) + 1
      OBVIOUS
    <3>0. X = {e}
      BY ExtrasFinite DEF X
    <3> HIDE DEF e
    <3>1. IsFiniteSet(U \union {e}) /\ Cardinality(U \union {e}) <= Cardinality(U) + 1
          /\ Cardinality(U \union {e}) \in Nat
      <4>1. /\ IsFiniteSet(U \union {e})
            /\ Cardinality(U \union {e}) = IF e \in U THEN Cardinality(U) ELSE Cardinality(U) + 1
        BY <2>4, FS_AddElement
      <4> QED BY <2>6, <4>1
    <3>2. N \subseteq U \union {e}
      BY <2>3, <3>0
    <3>3. Cardinality(N) <= Cardinality(U \union {e})
      BY <3>1, <3>2, FS_Subset
    <3> QED BY <2>6, <3>1, <3>3
  <2>8. Cardinality(U) <= Cardinality(N) + 1
    <3>1. IsFiniteSet(U \ taken) /\ Cardinality(U \ taken) \in Nat /\ Cardinality(U) <= Cardinality(U \ taken) + 1
      <4>1. CASE taken = {}
        <5>1. U \ taken = U
          BY <4>1
        <5>2. Cardinality(U) <= Cardinality(U) + 1
          BY <2>6
        <5> QED BY <2>4, <2>6, <5>1, <5>2, Zenon
      <4>2. CASE \E p : taken = {p}
        <5>1. PICK p : taken = {p}
          BY <4>2
        <5>2. IsFiniteSet(U \ {p}) /\ Cardinality(U \ {p}) = IF p \in U THEN Cardinality(U) - 1 ELSE Cardinality(U)
          BY <2>4, FS_RemoveElement
        <5>3. Cardinality(U \ {p}) \in Nat
          BY <5>2, FS_CardinalityType
        <5> QED BY <2>6, <5>1, <5>2, <5>3
      <4> QED BY <4>1, <4>2
    <3>2. Cardinality(U \ taken) <= Cardinality(N)
      BY <2>3, <2>4, FS_Subset
    <3> QED BY <2>6, <3>1, <3>2
  <2>9. N = {} => Cardinality(N) = 0
    BY FS_EmptySet
  <2> QED BY <1>6, <2>1, <2>4, <2>5, <2>6, <2>7, <2>8, <2>9 DEF U
<1> QED BY <1>5, <1>6, <1>8

-----------------------------------------------------------------------------
(* What is known while a query is answered                                 *)

\* A match that has the hits it needs, but for one, if its file is not the last
\* of those that are hit
Backed(m) ==
    (\E g \in FilesHit : m.file < g) =>
        \E d \in {m.offset, -m.offset} : Cardinality(Support(m.file, d)) >= MinHits - 1

\* A file that is hit is still to be counted, or comes before all that are.
ToCount == \A g \in FilesHit : g \in DOMAIN hits \/ \A h \in DOMAIN hits : g < h

\* The files that are still to be counted have all their hits; the matches are
\* backed; and a place with one hit more than are needed is told, or its file is
\* still to be counted.
CountInv ==
    /\ asked \in Seq(Nat)
    /\ DOMAIN hits \in SUBSET Nat
    /\ hits = [f \in DOMAIN hits |-> Distances(asked, f)]
    /\ taken = {} \/ \E p : taken = {p}
    /\ ToCount
    /\ matches \in Seq(Match)
    /\ \A k \in DOMAIN matches : Backed(matches[k])
    /\ \A f \in Nat : \A d \in Int :
          Cardinality(Support(f, d)) > MinHits => f \in DOMAIN hits \/ Told(matches, f, d)

AnswerInv ==
    /\ pc \in {"count", "answered"} => CountInv
    /\ pc = "answered" => hits = NoHits

LEMMA FileCounted ==
    ASSUME rows \in Seq(Bounded), CountInv, NEW f \in DOMAIN hits, NEW extras \in Seq(Int),
           Len(extras) = 1 \/ ~ \E g \in FilesHit : f < g,
           NEW new, new = MatchesOf(OwnAnd(hits[f], taken, extras), f)
    PROVE  /\ new \in Seq(Match)
           /\ \A k \in DOMAIN new : Backed(new[k])
           /\ \A g \in Nat : \A x \in Int :
                 Cardinality(Support(g, x)) > MinHits => g \in DOMAIN hits \ {f} \/ Told(new, g, x)
<1> DEFINE E == OwnAnd(Distances(asked, f), taken, extras)
<1>1. /\ QueryTyped /\ f \in Nat /\ hits[f] = Distances(asked, f)
      /\ taken = {} \/ \E p : taken = {p}
      /\ matches \in Seq(Match)
  <2>1. hits[f] = Distances(asked, f)
    BY DEF CountInv
  <2> QED BY <2>1 DEF CountInv, QueryTyped
<1>2. MinHits \in Nat \ {0}
  BY HitsAssumption DEF HitsAssumption
<1>3. new = MatchesOf(E, f)
  BY <1>1
<1>4. /\ IsFiniteSet(DOMAIN E) /\ E \in [DOMAIN E -> Int]
      /\ \A x \in Int : /\ NumberOf(E, x) \in Nat /\ Cardinality(Support(f, x)) \in Nat
                        /\ Len(extras) = 1 => NumberOf(E, x) <= Cardinality(Support(f, x)) + 1
                        /\ Cardinality(Support(f, x)) <= NumberOf(E, x) + 1
                        /\ NumberOf(E, x) <= Cardinality(DOMAIN E)
                        /\ NumberOf(E, x) # 0 => x \in Range(E)
  BY <1>1, HitsFacts
<1> HIDE DEF E
<1>5. /\ Counted(matches, new, E, f)
      /\ \A x \in Range(E) :
            \/ NumberOf(E, x) < MinHits
            \/ Cardinality(DOMAIN E) < MinHits
            \/ Told(new, f, x)
  BY <1>1, <1>3, <1>4, MatchesFacts
<1>6. new \in Seq(Match)
  BY <1>5 DEF Counted
<1>7. ASSUME NEW k \in DOMAIN new PROVE Backed(new[k])
  <2>1. CASE k \in DOMAIN matches
    BY <1>5, <2>1 DEF Counted, CountInv
  <2>2. CASE k \notin DOMAIN matches
    <3>1. PICK x \in Int : ~(NumberOf(E, x) < MinHits) /\ new[k] = [file |-> f, offset |-> Abs(x)]
      BY <1>5, <2>2 DEF Counted
    <3>2. Len(extras) = 1 => Cardinality(Support(f, x)) >= MinHits - 1
      BY <1>2, <1>4, <3>1
    <3>3. new[k].file = f /\ x \in {new[k].offset, -new[k].offset}
      BY <3>1 DEF Abs
    <3>4. CASE Len(extras) = 1
      BY <3>2, <3>3, <3>4 DEF Backed
    <3>5. CASE ~ \E g \in FilesHit : f < g
      BY <3>3, <3>5 DEF Backed
    <3> QED BY <3>4, <3>5
  <2> QED BY <2>1, <2>2
<1>8. ASSUME NEW g \in Nat, NEW x \in Int, Cardinality(Support(g, x)) > MinHits
      PROVE  g \in DOMAIN hits \ {f} \/ Told(new, g, x)
  <2>1. CASE g = f
    <3>1. NumberOf(E, x) \in Nat /\ NumberOf(E, x) >= MinHits /\ x \in Range(E)
      BY <1>2, <1>4, <1>8, <2>1
    <3>2. Cardinality(DOMAIN E) \in Nat
      BY <1>4, FS_CardinalityType
    <3>3. ~(NumberOf(E, x) < MinHits) /\ ~(Cardinality(DOMAIN E) < MinHits)
      BY <1>2, <1>4, <3>1, <3>2
    <3> QED BY <1>5, <2>1, <3>1, <3>3
  <2>2. CASE g # f /\ g \notin DOMAIN hits
    <3>1. Told(matches, g, x)
      BY <1>8, <2>2 DEF CountInv
    <3> QED BY <1>5, <3>1 DEF Counted, Told
  <2> QED BY <2>1, <2>2
<1> QED BY <1>6, <1>7, <1>8

\* Steps that answer nothing
LEMMA NoAnswerKeeps ==
    ASSUME AnswerInv,
           \/ Start \/ NextFile \/ ReadFile \/ InsertRow \/ FailRow \/ EndTransaction
           \/ Prompt \/ Quit \/ PrintMatches \/ Kill
    PROVE  AnswerInv'
<1>1. pc' \notin {"count", "answered"}
  BY DEF Start, NextFile, ReadFile, InsertRow, FailRow, EndTransaction, Prompt, Quit, PrintMatches, Kill
<1> QED BY <1>1 DEF AnswerInv

LEMMA QueryKeeps == SqliteInv /\ AnswerInv /\ Query => AnswerInv'
<1> SUFFICES ASSUME SqliteInv, AnswerInv, Query PROVE AnswerInv'
  OBVIOUS
<1>0. PICK name \in Names : \E prints \in ReadOf(name) :
         /\ asked' = prints
         /\ LET files == {rows[r].file : r \in UNION {Found(prints, u) : u \in DOMAIN prints}}
            IN  hits' = [f \in files |-> Distances(prints, f)]
  BY DEF Query
<1>1. PICK prints \in ReadOf(name) :
         /\ asked' = prints
         /\ LET files == {rows[r].file : r \in UNION {Found(prints, u) : u \in DOMAIN prints}}
            IN  hits' = [f \in files |-> Distances(prints, f)]
  BY <1>0
<1> DEFINE files == {rows[r].file : r \in UNION {Found(prints, u) : u \in DOMAIN prints}}
<1>2. /\ rows' = rows /\ batch' = batch /\ taken' = {} /\ matches' = << >> /\ pc' = "count"
      /\ hits' = [f \in files |-> Distances(prints, f)]
  BY <1>1 DEF Query
<1>3. rows \in Seq(Bounded) /\ prints \in Seq(Nat)
  BY ReadFacts DEF SqliteInv, TypeInv
<1>4. files \in SUBSET Nat
  <2>1. ASSUME NEW u \in DOMAIN prints, NEW r \in Found(prints, u) PROVE rows[r].file \in Nat
    <3>1. r \in DOMAIN rows
      BY DEF Found
    <3>2. rows[r] \in Bounded
      BY <1>3, <3>1
    <3> QED BY <3>2 DEF Bounded
  <2> QED BY <2>1
<1>5. \A f : Distances(asked, f)' = Distances(prints, f)
  BY <1>1, <1>2 DEF Distances, Found
<1>a. FilesHit' \subseteq files
  <2> SUFFICES ASSUME NEW r \in DOMAIN rows, rows[r].fp \in Range(prints)
               PROVE  rows[r].file \in files
    BY <1>1, <1>2 DEF FilesHit
  <2>1. PICK u \in DOMAIN prints : prints[u] = rows[r].fp
    BY DEF Range
  <2>2. r \in Found(prints, u)
    BY <2>1 DEF Found
  <2> QED BY <2>1, <2>2
<1>6. ASSUME NEW f \in Nat, NEW d \in Int, f \notin files PROVE Support(f, d)' = {}
  <2>1. ASSUME NEW p \in Support(f, d)' PROVE FALSE
    <3>1. /\ p[1] \in DOMAIN prints /\ p[2] \in DOMAIN rows
          /\ rows[p[2]] = [fp |-> prints[p[1]], offset |-> p[1] - 1 + d, file |-> f]
      BY <1>1, <1>2 DEF Support
    <3>2. rows[p[2]].fp = prints[p[1]] /\ rows[p[2]].file = f
      BY <3>1
    <3>3. p[2] \in Found(prints, p[1])
      BY <3>1, <3>2 DEF Found
    <3>4. f \in files
      BY <3>1, <3>2, <3>3
    <3> QED BY <1>6, <3>4
  <2> QED BY <2>1
<1> HIDE DEF files
<1>7. ASSUME NEW f \in Nat, NEW d \in Int, Cardinality(Support(f, d))' > MinHits
      PROVE  f \in DOMAIN hits'
  <2>1. CASE f \in files
    BY <1>2, <2>1
  <2>2. CASE f \notin files
    <3>1. Cardinality(Support(f, d)') = 0
      BY <1>6, <2>2, FS_EmptySet
    <3> QED BY <1>7, <3>1, HitsAssumption DEF HitsAssumption
  <2> QED BY <2>1, <2>2
<1>8. DOMAIN hits' = files /\ hits' = [f \in DOMAIN hits' |-> Distances(asked, f)']
  BY <1>2, <1>5
<1>9. CountInv'
  <2>1. asked' \in Seq(Nat) /\ DOMAIN hits' \in SUBSET Nat /\ taken' = {} /\ matches' \in Seq(Match)
        /\ DOMAIN matches' = {}
    <3>1. << >> \in Seq(Match) /\ DOMAIN << >> = {}
      OBVIOUS
    <3> QED BY <1>1, <1>2, <1>3, <1>4, <1>8, <3>1, Zenon
  <2>2. ToCount'
    BY <1>8, <1>a DEF ToCount
  <2> QED BY <1>7, <1>8, <2>1, <2>2 DEF CountInv
<1> QED BY <1>2, <1>9 DEF AnswerInv

LEMMA FilesAreNumbers ==
    ASSUME rows \in Seq(Bounded)
    PROVE  FilesHit \subseteq Nat
<1>1. \A r \in DOMAIN rows : rows[r] \in Bounded
  OBVIOUS
<1> QED BY <1>1 DEF FilesHit, Bounded

LEMMA CountFileKeeps == SqliteInv /\ AnswerInv /\ CountFile => AnswerInv'
<1> SUFFICES ASSUME SqliteInv, AnswerInv, CountFile PROVE AnswerInv'
  OBVIOUS
<1> DEFINE f == Min(DOMAIN hits)
           rest == DOMAIN hits \ {f}
           next == hits[Min(rest)]
<1>1. /\ pc = "count" /\ pc' = "count" /\ hits # NoHits
      /\ rows' = rows /\ batch' = batch /\ asked' = asked
      /\ hits' = [g \in rest |-> hits[g]]
  BY DEF CountFile
<1>2. CountInv /\ rows \in Seq(Bounded)
  BY <1>1 DEF AnswerInv, SqliteInv, TypeInv
<1>3. f \in DOMAIN hits /\ \A g \in DOMAIN hits : f <= g
  <2>1. DOMAIN hits # {}
    <3>1. SUFFICES ASSUME DOMAIN hits = {} PROVE hits = NoHits
      BY <1>1
    <3>2. hits = [g \in DOMAIN hits |-> Distances(asked, g)]
      BY <1>2 DEF CountInv
    <3> QED BY <3>1, <3>2 DEF NoHits
  <2> QED BY <1>2, <2>1, Least DEF CountInv
<1>4. PICK extras \in Seq(Int) : /\ matches' = MatchesOf(OwnAnd(hits[f], taken, extras), f)
                                 /\ taken' = {} \/ \E p : taken' = {p}
                                 /\ Len(extras) = 1 \/ rest = {}
  <2>1. CASE rest = {}
    <3>1. PICK n \in 1 .. MaxStale + 1 : \E extras \in [1..n -> Unread] :
             matches' = MatchesOf(OwnAnd(hits[f], taken, extras), f) /\ taken' = {}
      BY <2>1 DEF CountFile
    <3>2. PICK extras \in [1..n -> Unread] :
             matches' = MatchesOf(OwnAnd(hits[f], taken, extras), f) /\ taken' = {}
      BY <3>1
    <3>3. extras \in Seq(Int)
      <4>1. n \in Nat /\ \A x \in Unread : x \in Int
        BY StaleAssumption DEF StaleAssumption
      <4> QED BY <4>1
    <3> QED BY <2>1, <3>2, <3>3
  <2>2. CASE rest # {}
    <3>1. PICK p \in DOMAIN next :
             matches' = MatchesOf(OwnAnd(hits[f], taken, <<next[p]>>), f) /\ taken' = {p}
      BY <2>2 DEF CountFile
    <3>2. Min(rest) \in rest /\ Min(rest) \in Nat
      <4>1. rest \in SUBSET Nat
        BY <1>2 DEF CountInv
      <4> HIDE DEF rest
      <4>2. Min(rest) \in rest
        BY <2>2, <4>1, Least
      <4> QED BY <4>1, <4>2
    <3>3. next = Distances(asked, Min(rest))
      <4> DEFINE g == Min(rest)
      <4>1. g \in DOMAIN hits
        BY <3>2
      <4> HIDE DEF g
      <4>2. hits[g] = Distances(asked, g)
        BY <1>2, <4>1 DEF CountInv
      <4> QED BY <4>2 DEF g
    <3> HIDE DEF rest, next
    <3>4. next[p] \in Int
      <4>1. QueryTyped
        BY <1>2 DEF QueryTyped, CountInv
      <4> QED BY <3>2, <3>3, <4>1, DistancesFacts
    <3>5. <<next[p]>> \in Seq(Int) /\ Len(<<next[p]>>) = 1
      BY <3>4
    <3> QED BY <3>1, <3>5
  <2> QED BY <2>1, <2>2
<1>c. /\ Len(extras) = 1 \/ ~ \E g \in FilesHit : f < g
      /\ \A g \in FilesHit : g \in rest \/ (\A h \in rest : g < h)
  <2>1. ToCount /\ DOMAIN hits \in SUBSET Nat
    BY <1>2 DEF CountInv
  <2>2. \A h \in rest : h \in DOMAIN hits /\ f < h
    BY <1>3, <2>1
  <2>3. \A g \in FilesHit : g \in DOMAIN hits \/ \A h \in DOMAIN hits : g < h
    BY <2>1 DEF ToCount
  <2>4. \A g \in FilesHit : g \in rest \/ \A h \in rest : g < h
    BY <2>2, <2>3
  <2>5. ASSUME rest = {}, NEW g \in FilesHit, f < g PROVE FALSE
    <3>1. DOMAIN hits = {f} /\ f \in Nat
      BY <1>3, <2>1, <2>5
    <3>2. g = f \/ g < f
      BY <1>3, <2>3, <3>1
    <3>3. g \in Nat
      BY <2>5, FilesAreNumbers, <1>2
    <3> HIDE DEF f
    <3> QED BY <2>5, <3>1, <3>2, <3>3
  <2> QED BY <1>4, <2>4, <2>5
<1> HIDE DEF f
<1>5. /\ matches' \in Seq(Match)
      /\ \A k \in DOMAIN matches' : Backed(matches'[k])
      /\ \A g \in Nat : \A x \in Int :
            Cardinality(Support(g, x)) > MinHits => g \in rest \/ Told(matches', g, x)
  BY <1>2, <1>3, <1>4, <1>c, FileCounted
<1>6. /\ \A g : Distances(asked, g)' = Distances(asked, g)
      /\ \A g, x : Support(g, x)' = Support(g, x)
      /\ FilesHit' = FilesHit
  BY <1>1 DEF Distances, Found, Support, FilesHit
<1>7. DOMAIN hits' = rest /\ rest \in SUBSET Nat /\ hits' = [g \in DOMAIN hits' |-> Distances(asked, g)']
  <2>1. DOMAIN hits \in SUBSET Nat /\ \A g \in DOMAIN hits : hits[g] = Distances(asked, g)
    BY <1>2 DEF CountInv
  <2>2. \A g \in rest : hits[g] = Distances(asked, g)'
    BY <1>6, <2>1
  <2>3. rest \in SUBSET Nat
    BY <2>1
  <2> HIDE DEF rest
  <2> QED BY <1>1, <2>2, <2>3
<1>8. \A k \in DOMAIN matches' : Backed(matches[k])'
  BY <1>5, <1>6 DEF Backed
<1>9. \A g \in Nat : \A x \in Int :
         Cardinality(Support(g, x))' > MinHits => g \in DOMAIN hits' \/ Told(matches, g, x)'
  BY <1>5, <1>6, <1>7 DEF Told
<1>10. ToCount'
  BY <1>6, <1>7, <1>c DEF ToCount
<1>11. CountInv'
  BY <1>1, <1>2, <1>4, <1>5, <1>7, <1>8, <1>9, <1>10 DEF CountInv
<1> QED BY <1>1, <1>11 DEF AnswerInv

LEMMA AnswerKeeps ==
    ASSUME AnswerInv, Answer \/ UNCHANGED vars
    PROVE  AnswerInv'
<1>1. CASE Answer
  <2>1. /\ pc = "count" /\ hits = NoHits /\ UNCHANGED <<rows, batch, asked, hits, taken, matches>>
    BY <1>1 DEF Answer
  <2>2. CountInv' = CountInv
    BY <2>1 DEF CountInv, Backed, Told, Support, Distances, Found, ToCount, FilesHit
  <2>3. CountInv'
    BY <2>1, <2>2 DEF AnswerInv
  <2> QED BY <2>1, <2>3 DEF AnswerInv
<1>2. CASE UNCHANGED vars
  <2>1. UNCHANGED <<rows, batch, asked, hits, taken, matches, pc>>
    BY <1>2 DEF vars
  <2>2. CountInv' = CountInv
    BY <2>1 DEF CountInv, Backed, Told, Support, Distances, Found, ToCount, FilesHit
  <2> QED BY <2>1, <2>2 DEF AnswerInv
<1> QED BY <1>1, <1>2

\* What is known of a query at each step: the hits that are counted are those of
\* the fingerprints asked so far, and each match has the hits it needs.
THEOREM AnswerInvariance == Spec => []AnswerInv
<1>1. Init => AnswerInv
  BY DEF Init, AnswerInv
<1>2. SqliteInv /\ AnswerInv /\ [Next]_vars => AnswerInv'
  BY NoAnswerKeeps, QueryKeeps, CountFileKeeps, AnswerKeeps DEF Next
<1> QED BY <1>1, <1>2, TablesInvariance, PTL DEF Spec

\* MatchSupported: whatever was inserted, whichever order the database gives the
\* rows in, and whichever hit stands behind a file's: what is answered of a file
\* that is not the last one hit has the hits it needs but one, at the place that
\* is given or as far before the file.
THEOREM MatchesAreSupported == Spec => []MatchSupported
<1>1. AnswerInv => MatchSupported
  BY DEF AnswerInv, CountInv, Backed, MatchSupported
<1> QED BY <1>1, AnswerInvariance, PTL

-----------------------------------------------------------------------------
(* Where the rows of an insertion are                                      *)

\* The rows of the k-th insertion follow the b[k]-th, and no row is of two
\* insertions.
Placed(b) ==
    /\ b \in [DOMAIN stored -> Nat]
    /\ \A k \in DOMAIN stored : \A n \in DOMAIN stored[k].data :
          b[k] + n \in DOMAIN rows /\ rows[b[k] + n] = Row(stored[k].data[n])
    /\ \A k, l \in DOMAIN stored : \A n \in DOMAIN stored[k].data : \A m \in DOMAIN stored[l].data :
          b[k] + n = b[l] + m => k = l

PlacesInv == "row" \in failed \/ \E b : Placed(b)

LEMMA PlacesStart == Init => PlacesInv
<1> SUFFICES ASSUME Init PROVE PlacesInv
  OBVIOUS
<1>1. Placed([k \in {} |-> 0])
  BY DEF Init, Placed
<1> QED BY <1>1 DEF PlacesInv

LEMMA PlacesKept ==
    ASSUME PlacesInv, UNCHANGED <<rows, stored>>, failed \subseteq failed'
    PROVE  PlacesInv'
<1>1. \A b : Placed(b)' = Placed(b)
  BY DEF Placed
<1> QED BY <1>1 DEF PlacesInv

LEMMA EndTransactionPlaces == SqliteInv /\ PlacesInv /\ EndTransaction => PlacesInv'
<1> SUFFICES ASSUME SqliteInv, PlacesInv, EndTransaction, "row" \notin failed PROVE PlacesInv'
  BY DEF PlacesInv, EndTransaction
<1> DEFINE new == [name |-> Head(args), data |-> data]
           last == Len(stored) + 1
           R == Len(rows)
<1>1. /\ pc = "bulk" /\ i >= Len(data) /\ rows' = rows \o batch /\ stored' = Append(stored, new)
  BY DEF EndTransaction
<1>2. /\ args \in Seq(Names) /\ args # << >> /\ data \in Seq(Rows) /\ i \in 0..Len(data)
      /\ stored \in Seq(Stored) /\ rows \in Seq(Bounded) /\ batch \in Seq(Bounded)
  BY <1>1 DEF SqliteInv, TypeInv, FileInv
<1>3. new \in Stored /\ new.data = data
  BY <1>2, HeadTailProperties DEF Stored
<1> HIDE DEF new
<1>4. /\ Len(stored) \in Nat /\ DOMAIN stored = 1..Len(stored) /\ DOMAIN stored' = 1..last
      /\ stored'[last] = new /\ \A k \in 1..Len(stored) : stored'[k] = stored[k]
  BY <1>1, <1>2, <1>3, AppendFacts
<1>5. i = Len(data) /\ DOMAIN data = 1..i /\ batch = [n \in 1..i |-> Row(data[n])]
  BY <1>1, <1>2 DEF SqliteInv, FileInv
<1>6. /\ R \in Nat /\ DOMAIN rows = 1..R
      /\ \A r \in DOMAIN rows : r \in DOMAIN rows' /\ rows'[r] = rows[r]
      /\ \A n \in DOMAIN data : R + n \in DOMAIN rows' /\ rows'[R + n] = Row(data[n])
  <2>1. /\ R \in Nat /\ DOMAIN rows = 1..R /\ Len(batch) = i /\ i \in Nat
        /\ \A n \in DOMAIN data : batch[n] = Row(data[n])
    BY <1>2, <1>5
  <2>2. /\ DOMAIN rows' = 1 .. R + i /\ \A r \in 1..R : rows'[r] = rows[r]
        /\ \A n \in 1..i : rows'[R + n] = batch[n]
    <3>1. /\ Len(rows \o batch) = Len(rows) + Len(batch)
          /\ \A r \in 1..Len(rows) : (rows \o batch)[r] = rows[r]
          /\ \A n \in 1..Len(batch) : (rows \o batch)[Len(rows) + n] = batch[n]
          /\ DOMAIN (rows \o batch) = 1 .. Len(rows) + Len(batch)
      BY <1>2, ConcatFacts
    <3> QED BY <1>1, <2>1, <3>1
  <2> HIDE DEF R
  <2>3. \A n \in 1..i : R + n \in 1 .. R + i
    BY <2>1
  <2>4. \A r \in 1..R : r \in 1 .. R + i
    BY <2>1
  <2> QED BY <1>5, <2>1, <2>2, <2>3, <2>4
<1>7. PICK b : Placed(b)
  BY DEF PlacesInv
<1> DEFINE c == [k \in 1..last |-> IF k = last THEN R ELSE b[k]]
<1>8. \A k \in 1..last : k = last \/ k \in DOMAIN stored
  BY <1>4
<1>9. /\ c \in [1..last -> Nat] /\ c[last] = R
      /\ \A k \in DOMAIN stored : k # last /\ c[k] = b[k] /\ b[k] \in Nat /\ stored'[k] = stored[k]
  <2>1. /\ \A k \in DOMAIN stored : k \in 1..last /\ k # last /\ b[k] \in Nat
        /\ last \in 1..last
    BY <1>4, <1>7 DEF Placed
  <2> HIDE DEF last, R
  <2> QED BY <1>4, <1>6, <1>8, <2>1 DEF R
<1> HIDE DEF c, last, R
<1>10. ASSUME NEW k \in 1..last, NEW n \in DOMAIN stored'[k].data
       PROVE  c[k] + n \in DOMAIN rows' /\ rows'[c[k] + n] = Row(stored'[k].data[n])
  <2>1. CASE k = last
    BY <1>3, <1>4, <1>6, <1>9, <1>10, <2>1
  <2>2. CASE k \in DOMAIN stored
    <3>1. b[k] + n \in DOMAIN rows /\ rows[b[k] + n] = Row(stored[k].data[n])
      BY <1>7, <1>9, <1>10, <2>2 DEF Placed
    <3> QED BY <1>6, <1>9, <2>2, <3>1
  <2> QED BY <1>8, <2>1, <2>2
<1>11. ASSUME NEW k \in 1..last, NEW l \in 1..last,
              NEW n \in DOMAIN stored'[k].data, NEW m \in DOMAIN stored'[l].data,
              c[k] + n = c[l] + m
       PROVE  k = l
  <2>1. ASSUME NEW j \in DOMAIN stored, NEW o \in DOMAIN stored'[j].data
        PROVE  c[j] + o \in 1..R
    BY <1>6, <1>7, <1>9 DEF Placed
  <2>2. ASSUME NEW o \in DOMAIN stored'[last].data PROVE c[last] + o \notin 1..R
    <3>1. o \in 1..i /\ i \in Nat
      BY <1>2, <1>3, <1>4, <1>5, <2>2
    <3> QED BY <1>6, <1>9, <3>1
  <2>3. CASE k \in DOMAIN stored /\ l \in DOMAIN stored
    <3>1. /\ n \in DOMAIN stored[k].data /\ m \in DOMAIN stored[l].data /\ b[k] + n = b[l] + m
      BY <1>9, <1>11, <2>3
    <3> QED BY <1>7, <2>3, <3>1 DEF Placed
  <2> QED BY <1>8, <1>11, <2>1, <2>2, <2>3
<1>12. PICK x : x = c
  OBVIOUS
<1>13. Placed(x)'
  <2>1. x \in [DOMAIN stored' -> Nat]
    BY <1>4, <1>9, <1>12
  <2>2. \A k \in DOMAIN stored' : \A n \in DOMAIN stored'[k].data :
           x[k] + n \in DOMAIN rows' /\ rows'[x[k] + n] = Row(stored'[k].data[n])
    BY <1>4, <1>10, <1>12
  <2>3. \A k, l \in DOMAIN stored' : \A n \in DOMAIN stored'[k].data : \A m \in DOMAIN stored'[l].data :
           x[k] + n = x[l] + m => k = l
    BY <1>4, <1>11, <1>12
  <2> QED BY <2>1, <2>2, <2>3 DEF Placed
<1> QED BY <1>13 DEF PlacesInv

\* Unless a row was refused, the rows of each file are together in the table, at a
\* place that is known for every insertion.
THEOREM PlacesInvariance == Spec => []PlacesInv
<1>1. SqliteInv /\ PlacesInv /\ [Next]_vars => PlacesInv'
  <2> SUFFICES ASSUME SqliteInv, PlacesInv, [Next]_vars PROVE PlacesInv'
    OBVIOUS
  <2>1. CASE EndTransaction
    BY <2>1, EndTransactionPlaces
  <2>2. CASE UNCHANGED vars \/ (Next /\ ~EndTransaction)
    <3>1. UNCHANGED <<rows, stored>> /\ failed \subseteq failed'
      BY <2>2 DEF Next, vars, Start, NextFile, InsertFile, KnownFile, NewFile, NoStatement, FailFile,
                  ReadFile, InsertRow, FailRow, Prompt, Quit, Query,
                  CountFile, Answer, PrintMatches, Kill
    <3> QED BY <3>1, PlacesKept
  <2> QED BY <2>1, <2>2
<1> QED BY <1>1, PlacesStart, TablesInvariance, PTL DEF Spec

LEMMA SupportFinite ==
    ASSUME QueryTyped, NEW f, NEW d
    PROVE  IsFiniteSet(Support(f, d))
<1>1. DOMAIN asked = 1..Len(asked) /\ DOMAIN rows = 1..Len(rows) /\ Len(asked) \in Int /\ Len(rows) \in Int
  BY DEF QueryTyped
<1>2. IsFiniteSet(DOMAIN asked) /\ IsFiniteSet(DOMAIN rows)
  BY <1>1, FS_Interval
<1>3. IsFiniteSet((DOMAIN asked) \X (DOMAIN rows))
  BY <1>2, FS_Product
<1>4. Support(f, d) \in SUBSET ((DOMAIN asked) \X (DOMAIN rows))
  BY DEF Support
<1> QED BY <1>3, <1>4, FS_Subset

\* The rows of an agreement are in the table, and each is of one insertion.
LEMMA AgreementSupported ==
    ASSUME SqliteInv, AnswerInv, PlacesInv, pc = "answered", "row" \notin failed,
           NEW f \in Nat, NEW d \in Int
    PROVE  Cardinality(Agreement(f, d)) \in Nat /\ Cardinality(Agreement(f, d)) <= Cardinality(Support(f, d))
<1> DEFINE A == Agreement(f, d)
           row(u) == [fp |-> asked[u], offset |-> u - 1 + d, file |-> f]
           data_(k) == stored[k].data
           At(k, u) == CHOOSE n \in DOMAIN data_(k) : data_(k)[n] = row(u)
<1>1. PICK b : Placed(b)
  BY DEF PlacesInv
<1>2. \A p \in A : /\ p[1] \in DOMAIN asked /\ p[2] \in DOMAIN stored /\ p = <<p[1], p[2]>>
                   /\ asked[p[1]] < Half /\ row(p[1]) \in Range(data_(p[2]))
  BY DEF Agreement
<1>3. ASSUME NEW p \in A
      PROVE  /\ At(p[2], p[1]) \in DOMAIN data_(p[2])
             /\ data_(p[2])[At(p[2], p[1])] = row(p[1])
  <2>1. \E n \in DOMAIN data_(p[2]) : data_(p[2])[n] = row(p[1])
    BY <1>2 DEF Range
  <2> QED BY <2>1
<1> HIDE DEF At
<1> DEFINE r(p) == b[p[2]] + At(p[2], p[1])
           j == [p \in A |-> <<p[1], r(p)>>]
<1>4. ASSUME NEW p \in A PROVE r(p) \in DOMAIN rows /\ rows[r(p)] = row(p[1])
  <2>1. r(p) \in DOMAIN rows /\ rows[r(p)] = Row(row(p[1]))
    BY <1>1, <1>2, <1>3 DEF Placed
  <2>2. Row(row(p[1])) = row(p[1])
    BY <1>2 DEF Row, Bound
  <2> QED BY <2>1, <2>2
<1>5. ASSUME NEW p \in A PROVE <<p[1], r(p)>> \in Support(f, d)
  BY <1>2, <1>4 DEF Support
<1>6. ASSUME NEW p \in A, NEW q \in A, <<p[1], r(p)>> = <<q[1], r(q)>> PROVE p = q
  <2>1. p[1] = q[1] /\ r(p) = r(q)
    BY <1>6
  <2>2. p[2] = q[2]
    BY <1>1, <1>2, <1>3, <2>1 DEF Placed
  <2> QED BY <1>2, <2>1, <2>2
<1>7. j \in Injection(A, Support(f, d))
  <2> HIDE DEF A, r
  <2>1. j \in [A -> Support(f, d)]
    BY <1>5
  <2>2. \A p \in A : j[p] = <<p[1], r(p)>>
    OBVIOUS
  <2> HIDE DEF j
  <2>3. \A p, q \in A : j[p] = j[q] => p = q
    BY <1>6, <2>2
  <2> QED BY <2>1, <2>3 DEF Injection, IsInjective
<1>8. IsFiniteSet(Support(f, d))
  BY SupportFinite DEF SqliteInv, TypeInv, AnswerInv, CountInv, QueryTyped
<1> HIDE DEF j, A
<1>9. IsFiniteSet(A) /\ Cardinality(A) <= Cardinality(Support(f, d))
  BY <1>7, <1>8, FS_Injection
<1> QED BY <1>9, FS_CardinalityType DEF A

\* MatchFound: whatever was inserted and asked: unless a row was refused, a place
\* where a file agrees with the query in one fingerprint more than are asked for
\* has an answer near it.
THEOREM MatchesAreFound == Spec => []MatchFound
<1>1. SqliteInv /\ AnswerInv /\ PlacesInv => MatchFound
  <2> SUFFICES ASSUME SqliteInv, AnswerInv, PlacesInv, pc = "answered", "row" \notin failed,
                      NEW f \in {0} \union DOMAIN names, NEW d \in -Max(Lengths) .. Max(Lengths),
                      Cardinality(Agreement(f, d)) > MinHits
               PROVE  \E k \in DOMAIN matches :
                         matches[k].file = f /\ Abs(matches[k].offset - Abs(d)) < Near
    BY DEF MatchFound
  <2>1. f \in Nat /\ d \in Int
    <3>1. f \in Nat
      BY DEF SqliteInv, TypeInv
    <3>2. d \in Int
      OBVIOUS
    <3> QED BY <3>1, <3>2
  <2>2. IsFiniteSet(Support(f, d))
    BY SupportFinite DEF SqliteInv, TypeInv, AnswerInv, CountInv, QueryTyped
  <2>3. Cardinality(Support(f, d)) > MinHits
    <3>1. Cardinality(Support(f, d)) \in Nat /\ MinHits \in Nat
      BY <2>2, FS_CardinalityType, HitsAssumption DEF HitsAssumption
    <3>2. /\ Cardinality(Agreement(f, d)) \in Nat
          /\ Cardinality(Agreement(f, d)) <= Cardinality(Support(f, d))
      BY <2>1, AgreementSupported
    <3> QED BY <3>1, <3>2
  <2>4. f \notin DOMAIN hits
    BY DEF AnswerInv, NoHits
  <2>5. Told(matches, f, d)
    BY <2>1, <2>3, <2>4 DEF AnswerInv, CountInv
  <2> QED BY <2>5 DEF Told
<1> QED BY <1>1, TablesInvariance, AnswerInvariance, PlacesInvariance, PTL
=============================================================================
