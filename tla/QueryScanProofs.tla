--------------------------- MODULE QueryScanProofs ---------------------------
(***************************************************************************)
(* Proofs about QueryScan, for every size of block, comparison, skip and   *)
(* file that SizesAssumption admits, and about ismir_query, which takes    *)
(* the scan's steps and leaves its variables alone otherwise, and reports  *)
(* a track and a time for each match.                                      *)
(*                                                                         *)
(* The inductive invariant IInv is the conjunction of TypeOK and of the    *)
(* parts below; each part says about the loop's variables what one of the  *)
(* properties needs when the next block is read.                           *)
(***************************************************************************)
EXTENDS IsmirQuery, FoldLemmas

\* How far the scan is ahead of the place it is at
Ahead == pos - At

\* A block is left at its end or at most Step behind it, only a full block is
\* followed by another, and no more is read than there is.
BlockInv ==
    /\ i <= count + Step
    /\ pc # "scan" => count <= i
    /\ blocks = 0 => pc = "read" /\ pos = 0 /\ start = 0 /\ count = 0 /\ i = 0
    /\ pc = "read" /\ blocks > 0 => count = BufLen
    /\ start + count <= total

DriftInv ==
    /\ 0 <= Ahead
    /\ blocks > 0 => Ahead <= Step * (blocks - 1)

BufferInv ==
    /\ blocks = 0 => \A j \in Slots : db[j] = Zero
    /\ blocks > 0 => \A j \in 0 .. Macro + count - 1 : db[j] = Origin(start + j - Macro)

\* The previous match is in this block, in the one before, or far away.
MatchInv ==
    /\ prev = None <=> prevAt = None
    /\ prev # None =>
          /\ prevAt <= last
          /\ prevAt < start + count
          /\ prev - prevAt <= Ahead
          /\ \/ start <= prevAt /\ Ahead = prev - prevAt
             \/ prevAt < start /\ Ahead - (prev - prevAt) <= Step
             \/ start - prevAt >= BufLen

GapInv ==
    /\ last <= At
    /\ last <= start + count
    /\ At - last <= Near + Step

IInv == TypeOK /\ BlockInv /\ DriftInv /\ BufferInv /\ MatchInv /\ GapInv

-----------------------------------------------------------------------------
\* One block more allows for one Step more of drift.
LEMMA StepTimes ==
    ASSUME NEW n \in Nat, n > 0
    PROVE  Step * n = Step * (n - 1) + Step
BY SizesAssumption DEF SizesAssumption

LEMMA InitInv == Init => IInv
<1> SUFFICES ASSUME Init PROVE IInv
  OBVIOUS
<1> USE SizesAssumption DEF SizesAssumption, Init, None, Zero
<1>1. TypeOK
  BY DEF TypeOK, Slots
<1>2. BlockInv /\ DriftInv /\ GapInv /\ MatchInv
  BY DEF BlockInv, DriftInv, GapInv, MatchInv, Ahead, At
<1>3. BufferInv
  BY DEF BufferInv, Slots
<1> QED  BY <1>1, <1>2, <1>3 DEF IInv

LEMMA TypeStep == IInv /\ [Next]_vars => TypeOK'
<1> SUFFICES ASSUME IInv, [Next]_vars PROVE TypeOK'
  OBVIOUS
<1> USE SizesAssumption DEF SizesAssumption, IInv, TypeOK
<1>1. CASE ReadBlock
  <2>1. /\ start + count \in Nat
        /\ start + count <= total
    BY DEF BlockInv
  <2>2. /\ count' \in 0..BufLen /\ start' \in Nat
    BY <1>1, <2>1 DEF ReadBlock
  <2>3. db' \in [Slots -> Int]
    BY <1>1, <2>1, <2>2 DEF ReadBlock, Slots
  <2> QED  BY <1>1, <2>2, <2>3 DEF ReadBlock
<1>2. CASE SkipDebounced
  BY <1>2 DEF SkipDebounced
<1>3. CASE RejectEarly
  BY <1>3 DEF RejectEarly, At
<1>4. ASSUME NEW match \in BOOLEAN, Compare(match) PROVE TypeOK'
  <2>1. SkipLength \in Nat
    BY <1>4 DEF SkipLength, Compare
  <2> QED  BY <1>4, <2>1 DEF Compare, At
<1>5. CASE EndBlock
  BY <1>5 DEF EndBlock
<1>6. CASE Grow
  BY <1>6 DEF Grow
<1>7. CASE UNCHANGED vars
  BY <1>7 DEF vars
<1> QED  BY <1>1, <1>2, <1>3, <1>4, <1>5, <1>6, <1>7 DEF Next, Scan

\* What a step of the for loop does to i and pos, whichever of the three it is
Advances ==
    /\ pc = "scan" /\ i < count
    /\ \E n \in Nat : /\ n <= Near + Step /\ i + n <= count + Step
                      /\ i' = i + n /\ pos' = pos + n
    /\ UNCHANGED <<total, pc, start, count, db, blocks>>

LEMMA LoopAdvances ==
    ASSUME TypeOK, SkipDebounced \/ RejectEarly \/ \E match \in BOOLEAN : Compare(match)
    PROVE  Advances
<1> USE SizesAssumption DEF SizesAssumption, TypeOK
<1>1. CASE SkipDebounced
  <2>1. Step \in Nat /\ Step <= Near + Step /\ i + Step <= count + Step
    BY <1>1 DEF SkipDebounced
  <2> QED  BY <1>1, <2>1 DEF SkipDebounced, Advances
<1>2. CASE RejectEarly
  <2>1. Step \in Nat /\ Step <= Near + Step /\ i + Step <= count + Step
    BY <1>2 DEF RejectEarly
  <2> QED  BY <1>2, <2>1 DEF RejectEarly, Advances
<1>3. ASSUME NEW match \in BOOLEAN, Compare(match) PROVE Advances
  <2> DEFINE n == SkipLength + Step
  <2>1. n \in Nat /\ n <= Near + Step /\ i + n <= count + Step
    BY <1>3 DEF Compare, SkipLength
  <2>2. i' = i + n /\ pos' = pos + n
    BY <1>3, <2>1 DEF Compare, SkipLength
  <2> HIDE DEF n
  <2> QED  BY <1>3, <2>1, <2>2 DEF Compare, Advances
<1> QED  BY <1>1, <1>2, <1>3

LEMMA BlockStep == IInv /\ [Next]_vars => BlockInv' /\ DriftInv' /\ BufferInv'
<1> SUFFICES ASSUME IInv, [Next]_vars PROVE BlockInv' /\ DriftInv' /\ BufferInv'
  OBVIOUS
<1> USE SizesAssumption DEF SizesAssumption, IInv, TypeOK
<1>1. CASE ReadBlock
  <2>1. PICK n \in 0..BufLen : count' = n /\ start + count + n <= total
    <3>1. total - (start + count) \in Nat
      BY DEF BlockInv
    <3> QED  BY <1>1, <3>1 DEF ReadBlock
  <2>a. /\ start' = start + count /\ i' = 0 /\ pos' = pos /\ total' = total
        /\ pc' = "scan" /\ blocks' = blocks + 1
    BY <1>1 DEF ReadBlock
  <2>2. BlockInv'
    BY <2>1, <2>a DEF BlockInv
  <2>3. DriftInv'
    <3>1. CASE blocks = 0
      BY <2>a, <3>1 DEF DriftInv, BlockInv, Ahead, At
    <3>2. CASE blocks > 0
      <4>1. Ahead' = Ahead + (i - count) /\ 0 <= i - count /\ i - count <= Step
        BY <1>1, <2>a DEF Ahead, At, BlockInv, ReadBlock
      <4>2. Step * blocks = Step * (blocks - 1) + Step
        BY <3>2, StepTimes
      <4>3. Ahead' <= Step * blocks /\ 0 <= Ahead'
        <5>1. Step * (blocks - 1) \in Int /\ Step * blocks \in Int /\ Ahead \in Int
          BY DEF Ahead, At
        <5> QED  BY <3>2, <4>1, <4>2, <5>1 DEF DriftInv
      <4> QED  BY <2>a, <4>3 DEF DriftInv
    <3> QED  BY <3>1, <3>2
  <2>4. BufferInv'
    <3> SUFFICES ASSUME NEW j \in 0 .. Macro + n - 1
                 PROVE  db'[j] = Origin(start' + j - Macro)
      BY <2>1, <2>a DEF BufferInv
    <3>1. j \in Slots
      BY DEF Slots
    <3>2. CASE j < Macro
      <4>1. db'[j] = db[BufLen + j]
        BY <1>1, <3>1, <3>2 DEF ReadBlock
      <4>2. CASE blocks = 0
        <5>1. BufLen + j \in Slots
          BY <3>2 DEF Slots
        <5> QED  BY <2>a, <3>2, <4>1, <4>2, <5>1 DEF BufferInv, BlockInv, Origin, Zero
      <4>3. CASE blocks > 0
        <5>1. count = BufLen
          BY <1>1, <4>3 DEF BlockInv, ReadBlock
        <5>2. BufLen + j \in 0 .. Macro + count - 1
          BY <3>2, <5>1
        <5>3. db[BufLen + j] = Origin(start + (BufLen + j) - Macro)
          BY <4>3, <5>2 DEF BufferInv
        <5>4. start + (BufLen + j) - Macro = start' + j - Macro
          BY <2>a, <5>1
        <5> QED  BY <4>1, <5>3, <5>4
      <4> QED  BY <4>2, <4>3
    <3>3. CASE ~(j < Macro)
      <4>1. db'[j] = start' + j - Macro
        BY <1>1, <2>1, <2>a, <3>1, <3>3 DEF ReadBlock
      <4> QED  BY <2>a, <3>3, <4>1 DEF Origin
    <3> QED  BY <3>2, <3>3
  <2> QED  BY <2>2, <2>3, <2>4
<1>2. CASE SkipDebounced \/ RejectEarly \/ \E match \in BOOLEAN : Compare(match)
  <2>1. Advances
    BY <1>2, LoopAdvances
  <2>2. PICK n \in Nat : i + n <= count + Step /\ i' = i + n /\ pos' = pos + n
    BY <2>1 DEF Advances
  <2>3. BlockInv'
    BY <2>1, <2>2 DEF Advances, BlockInv
  <2>4. Ahead' = Ahead
    BY <2>1, <2>2 DEF Advances, Ahead, At
  <2>5. DriftInv' /\ BufferInv'
    BY <2>1, <2>4 DEF Advances, DriftInv, BufferInv
  <2> QED  BY <2>3, <2>5
<1>3. CASE EndBlock
  <2>1. BlockInv'
    BY <1>3 DEF EndBlock, BlockInv
  <2>2. DriftInv' /\ BufferInv'
    BY <1>3 DEF EndBlock, DriftInv, BufferInv, Ahead, At
  <2> QED  BY <2>1, <2>2
<1>4. CASE Grow
  <2>1. BlockInv'
    BY <1>4 DEF Grow, BlockInv
  <2>2. DriftInv' /\ BufferInv'
    BY <1>4 DEF Grow, DriftInv, BufferInv, Ahead, At
  <2> QED  BY <2>1, <2>2
<1>5. CASE UNCHANGED vars
  BY <1>5 DEF vars, BlockInv, DriftInv, BufferInv, Ahead, At
<1> QED  BY <1>1, <1>2, <1>3, <1>4, <1>5 DEF Next, Scan

LEMMA MatchStep == IInv /\ [Next]_vars => MatchInv' /\ GapInv'
<1> SUFFICES ASSUME IInv, [Next]_vars PROVE MatchInv' /\ GapInv'
  OBVIOUS
<1> USE SizesAssumption DEF SizesAssumption, IInv, TypeOK
<1>1. CASE ReadBlock
  <2>1. PICK n \in 0..BufLen : count' = n
    <3>1. total - (start + count) \in Nat
      BY DEF BlockInv
    <3> QED  BY <1>1, <3>1 DEF ReadBlock
  <2>2. /\ start' = start + count /\ i' = 0 /\ pos' = pos /\ blocks' = blocks + 1
        /\ prev' = prev /\ prevAt' = prevAt /\ last' = last
    BY <1>1 DEF ReadBlock
  <2>3. GapInv'
    BY <1>1, <2>1, <2>2 DEF ReadBlock, GapInv, BlockInv, At
  <2>4. Ahead' = Ahead + (i - count) /\ 0 <= i - count /\ i - count <= Step
    BY <1>1, <2>2 DEF Ahead, At, BlockInv, ReadBlock
  <2>5. ASSUME prev # None, blocks > 0 PROVE MatchInv'
    <3>1. count = BufLen
      BY <1>1, <2>5 DEF BlockInv, ReadBlock
    <3>2. prevAt < start'
      BY <2>2, <2>5 DEF MatchInv
    <3>3. prevAt \in Nat /\ prev \in Nat
      BY <2>5 DEF MatchInv
    <3>4. prev - prevAt <= Ahead'
      BY <2>4, <2>5, <3>3 DEF MatchInv, Ahead, At
    <3>5. \/ Ahead' - (prev - prevAt) <= Step
          \/ start' - prevAt >= BufLen
      BY <2>2, <2>4, <2>5, <3>1, <3>3 DEF MatchInv, Ahead, At
    <3> QED  BY <2>1, <2>2, <2>5, <3>2, <3>3, <3>4, <3>5 DEF MatchInv
  <2>6. ASSUME prev # None PROVE blocks > 0
    BY <2>6 DEF BlockInv, MatchInv
  <2> QED  BY <2>2, <2>3, <2>5, <2>6 DEF MatchInv
<1>2. CASE SkipDebounced
  <2>1. Ahead' = Ahead /\ At' = At + Step
    BY <1>2 DEF SkipDebounced, Ahead, At
  <2>2. MatchInv'
    BY <1>2, <2>1 DEF SkipDebounced, MatchInv
  <2>3. prev \in Nat /\ prevAt \in Nat
    BY <1>2 DEF SkipDebounced, Debounced, MatchInv
  <2>4. At - last < Debounce
    BY <1>2, <2>3 DEF SkipDebounced, Debounced, MatchInv, Ahead, At
  <2>5. GapInv'
    BY <1>2, <2>1, <2>4 DEF SkipDebounced, GapInv, At
  <2> QED  BY <2>2, <2>5
<1>3. CASE RejectEarly
  <2>1. Ahead' = Ahead /\ At' = At + Step
    BY <1>3 DEF RejectEarly, Ahead, At
  <2>2. MatchInv'
    BY <1>3, <2>1 DEF RejectEarly, MatchInv, GapInv, At
  <2>3. GapInv'
    BY <1>3, <2>1 DEF RejectEarly, GapInv, At
  <2> QED  BY <2>2, <2>3
<1>4. ASSUME NEW match \in BOOLEAN, Compare(match) PROVE MatchInv' /\ GapInv'
  <2>1. SkipLength \in 0..Near
    BY <1>4 DEF SkipLength, Compare
  <2>2. Ahead' = Ahead /\ At' = At + SkipLength + Step
    BY <1>4, <2>1 DEF Compare, Ahead, At
  <2>3. GapInv'
    BY <1>4, <2>1, <2>2 DEF Compare, GapInv, At
  <2>4. CASE match
    <3>1. prev' = pos /\ prevAt' = At /\ last' = At /\ start' = start /\ count' = count
      BY <1>4, <2>4 DEF Compare
    <3>2. At \in Nat /\ At < start + count
      BY <1>4 DEF At, Compare
    <3> QED  BY <2>2, <2>3, <3>1, <3>2 DEF MatchInv, Ahead, At, None
  <2>5. CASE ~match
    BY <1>4, <2>2, <2>3, <2>5 DEF Compare, MatchInv, GapInv, At
  <2> QED  BY <2>3, <2>4, <2>5
<1>5. CASE EndBlock
  BY <1>5 DEF EndBlock, MatchInv, GapInv, Ahead, At
<1>6. CASE Grow
  BY <1>6 DEF Grow, MatchInv, GapInv, Ahead, At
<1>7. CASE UNCHANGED vars
  BY <1>7 DEF vars, MatchInv, GapInv, Ahead, At
<1> QED  BY <1>1, <1>2, <1>3, <1>4, <1>5, <1>6, <1>7 DEF Next, Scan

-----------------------------------------------------------------------------
\* Each variable keeps its type, and each block is left where BlockInv to
\* GapInv say, in every run of query_scan.
THEOREM Invariance == Spec => []IInv
<1>1. IInv /\ [Next]_vars => IInv'
  BY TypeStep, BlockStep, MatchStep DEF IInv
<1> QED  BY InitInv, <1>1, PTL DEF Spec

\* The variables of query_scan keep their types.
THEOREM TypeCorrect == Spec => []TypeOK
BY Invariance, PTL DEF IInv

\* Whatever the sizes of file and block, db holds the stretch of the file that
\* the comparisons take it to hold.
THEOREM StreamUnbroken == Spec => []BufferIsStream
<1>1. IInv => BufferIsStream
  BY SizesAssumption DEF SizesAssumption, IInv, TypeOK, BlockInv, BufferInv, BufferIsStream
<1> QED  BY Invariance, <1>1, PTL

\* The drift of pos is bounded by Step for each block left behind: in the first
\* 1024*1024 fingerprints a match is reported exactly where it is.
THEOREM DriftBounded == Spec => []PosDrift
<1>1. IInv => PosDrift
  <2> SUFFICES ASSUME IInv PROVE PosDrift
    OBVIOUS
  <2>1. pos \in Nat /\ At \in Nat
    BY SizesAssumption DEF SizesAssumption, IInv, TypeOK, At
  <2>2. pc = "scan" => blocks > 0
    BY DEF IInv, TypeOK, BlockInv
  <2> QED  BY <2>1, <2>2 DEF IInv, DriftInv, Ahead, PosDrift
<1> QED  BY Invariance, <1>1, PTL

\* No stretch of the file longer than Near + Step goes without a comparison.
THEOREM NothingPassedOver == Spec => []NoGap
<1>1. IInv => NoGap
  BY DEF IInv, GapInv, NoGap
<1> QED  BY Invariance, <1>1, PTL

\* While the drift is at most Near, that is for the first 19 blocks with the
\* sizes of the code, checkNearPos never computes a negative length.
THEOREM WindowsExist == Spec => []WindowExists
<1>1. IInv => WindowExists
  <2> SUFFICES ASSUME IInv, pc = "scan", i < count, Step * (blocks - 1) <= Near
               PROVE  NearBegin <= NearEnd
    BY DEF WindowExists
  <2> USE SizesAssumption DEF SizesAssumption, IInv, TypeOK
  <2>1. blocks > 0 /\ At < total /\ At \in Nat
    BY DEF BlockInv, At
  <2>2. pos - At <= Near
    <3>1. Step * (blocks - 1) \in Int
      OBVIOUS
    <3> QED  BY <2>1, <3>1 DEF DriftInv, Ahead
  <2>3. pos - Near <= total
    BY <2>1, <2>2
  <2> QED  BY <2>3 DEF NearBegin, NearEnd
<1> QED  BY Invariance, <1>1, PTL

\* Two reported matches are Debounce - Step or more apart in the file, however
\* the blocks fall.
THEOREM MatchesAreApart == Spec => MatchesApart
<1> DEFINE Apart == prevAt' # prevAt /\ prevAt # None => prevAt' - prevAt >= Debounce - Step
<1>1. IInv /\ [Next]_vars => Apart
  <2> SUFFICES ASSUME IInv, [Next]_vars, prevAt' # prevAt, prevAt # None
               PROVE  prevAt' - prevAt >= Debounce - Step
    OBVIOUS
  <2> USE SizesAssumption DEF SizesAssumption, IInv, TypeOK
  <2>1. PICK match \in BOOLEAN : Compare(match)
    BY DEF Next, Scan, ReadBlock, SkipDebounced, RejectEarly, EndBlock, Grow, vars
  <2>2. prevAt' = At /\ ~Debounced
    BY <2>1 DEF Compare
  <2>3. prevAt \in Nat /\ prev \in Nat /\ pos - prev >= Debounce
    BY <2>2 DEF MatchInv, Debounced
  <2>4. At - prevAt >= Debounce - Step
    BY <2>3 DEF MatchInv, Ahead, At
  <2> QED  BY <2>2, <2>4
<1>2. Spec => [][Apart]_vars
  BY Invariance, <1>1, PTL DEF Spec
<1> QED  BY <1>2, PTL DEF MatchesApart

-----------------------------------------------------------------------------
\* ismir_query does what query_scan does, or something else that is not seen in
\* the scan: what holds of every scan holds of every run of the program.
THEOREM QueryScans == QuerySpec => Spec
<1>1. QueryInit => Init
  BY DEF QueryInit
<1>2. [QueryNext]_<<vars, queryVars>> => [Next]_vars
  BY DEF QueryNext, Options, Open, ReadQuery, ReadOddly, Overread, ScanStep, PrintResults, vars
<1> QED  BY <1>1, <1>2, PTL DEF QuerySpec, Spec

\* In every run of the program, the comparisons see an unbroken stretch of the
\* file, pos is ahead by at most a step a block, no stretch longer than a skip
\* and a step goes unlooked at, and two matches keep their distance.
THEOREM QueryScansWell ==
    QuerySpec => /\ []BufferIsStream
                 /\ []PosDrift
                 /\ []NoGap
                 /\ MatchesApart
BY QueryScans, StreamUnbroken, DriftBounded, NothingPassedOver, MatchesAreApart, PTL

-----------------------------------------------------------------------------
(* The line that is printed for a match                                    *)

\* The entries of the catalogue that was loaded name themselves.
EndsInv ==
    /\ DOMAIN ids \subseteq 0..MaxTotal
    /\ \A e \in DOMAIN ids : ids[e] = e

\* The catalogue on disk is read once, before anything is reported.
ReportInv ==
    /\ \E n \in 0..MaxTotal : lines \in Catalogues(n)
    /\ stage \in {"init", "open"} => report.track = None
    /\ report.at \in Nat /\ report.from \in Nat /\ Told(report.time) \in Nat

QueryInv == EndsInv /\ ReportInv /\ RightTrack

\* The least and the largest of a bounded set of numbers
LEMMA Extremes ==
    ASSUME NEW n \in Nat, NEW S \in SUBSET (0..n), S # {}
    PROVE  /\ Min(S) \in S /\ \A k \in S : Min(S) <= k
           /\ Max(S) \in S /\ \A k \in S : k <= Max(S)
<1> DEFINE Less == OpToRel(<, Nat)
<1>1. IsWellFoundedOn(Less, Nat)
  BY NatLessThanWellFounded
<1>2. \A j, k \in Nat : j < k => <<j, k>> \in Less
  BY DEF OpToRel
<1> HIDE DEF Less
<1>3. ASSUME NEW T \in SUBSET Nat, T # {} PROVE \E m \in T : \A k \in T : m <= k
  <2>1. PICK m \in T : \A k \in T : ~(<<k, m>> \in Less)
    BY <1>1, <1>3, WFMin
  <2>2. \A k \in T : ~(k < m)
    BY <1>2, <2>1
  <2> QED BY <2>2
<1>4. \E m \in S : \A k \in S : m <= k
  <2>1. S \in SUBSET Nat
    OBVIOUS
  <2> QED BY <1>3, <2>1
<1>5. \E m \in S : \A k \in S : m >= k
  <2> DEFINE T == {n - k : k \in S}
  <2>1. T \in SUBSET Nat /\ T # {}
    <3>1. \A k \in S : n - k \in Nat
      OBVIOUS
    <3>2. PICK k \in S : TRUE
      OBVIOUS
    <3>3. n - k \in T
      OBVIOUS
    <3> QED BY <3>1, <3>3
  <2>2. PICK m \in T : \A k \in T : m <= k
    BY <1>3, <2>1
  <2>3. PICK p \in S : m = n - p
    OBVIOUS
  <2>4. \A k \in S : n - p <= n - k
    BY <2>2, <2>3
  <2>5. \A k \in S : p >= k
    BY <2>4
  <2> QED BY <2>5
<1> QED BY <1>4, <1>5 DEF Min, Max

\* How far the reading of a catalogue of numbers is after each of its lines
Numbers == [end : Nat, name : Nat]
AtLine == [at : {"id"}, id : Nat, read : Seq(Numbers)]

LEMMA NumberRead ==
    ASSUME NEW a \in AtLine, NEW line \in Numbers, line.name \notin Spaced \union {NoName}
    PROVE  /\ ReadLine(a, line) \in AtLine
           /\ ReadLine(a, line).read = Append(a.read, line)
<1> DEFINE number == ReadWord(a, line.end)
           pair == [end |-> number.id, name |-> line.name]
<1>1. /\ a = [at |-> "id", id |-> a.id, read |-> a.read] /\ a.at = "id"
      /\ a.id \in Nat /\ a.read \in Seq(Numbers) /\ line.end \in Nat /\ line.name \in Nat
      /\ line = [end |-> line.end, name |-> line.name]
  BY DEF AtLine, Numbers
<1>2. number = [a EXCEPT !.at = "name", !.id = line.end]
  BY <1>1, Zenon DEF ReadWord
<1>3. number = [at |-> "name", id |-> line.end, read |-> a.read]
  BY <1>1, <1>2
<1>4. number.at = "name" /\ number.id = line.end /\ number.read = a.read
  BY <1>3
<1> HIDE DEF number
<1>5. ReadWord(number, line.name) = [number EXCEPT !.at = "id", !.read = Append(number.read, pair)]
  BY <1>4, Zenon DEF ReadWord
<1>6. pair = line
  BY <1>1, <1>4
<1> HIDE DEF pair
<1>7. Append(a.read, line) \in Seq(Numbers)
  BY <1>1, AppendProperties
<1>8. ReadWord(number, line.name) = [at |-> "id", id |-> line.end, read |-> Append(a.read, line)]
  BY <1>3, <1>4, <1>5, <1>6
<1>9. ReadLine(a, line) = ReadWord(number, line.name)
  BY Zenon DEF ReadLine, number
<1> QED BY <1>1, <1>7, <1>8, <1>9 DEF AtLine

\* A catalogue of names without white space is read as it is.
LEMMA NumbersRead ==
    ASSUME NEW given \in Seq(Numbers), \A k \in 1..Len(given) : given[k].name \notin Spaced \union {NoName}
    PROVE  ReadMap(given) = given
<1> DEFINE n == Len(given)
           op == [a \in AtLine |-> [k \in 1..n |-> ReadLine(a, given[k])]]
           Is(h) == h = [z \in SUBSET (1..n) |-> IF z = {} THEN Begin
                           ELSE ReadLine(h[z \ {Max(z)}], given[Max(z)])]
           c == CHOOSE h : Is(h)
           f == FoldLeft(ReadLine, Begin, given)
<1>1. n \in Nat /\ DOMAIN given = 1..n /\ \A k \in 1..n : given[k] \in Numbers
  OBVIOUS
<1>2. f = c[1..n]
  BY <1>1, Zenon DEF FoldLeft, MapThenFoldSet
<1>3. Begin \in AtLine /\ Begin.read = << >>
  BY EmptySeq DEF Begin, AtLine
<1>4. \A a \in AtLine : \A k \in 1..n : /\ ReadLine(a, given[k]) \in AtLine
                                        /\ ReadLine(a, given[k]).read = Append(a.read, given[k])
  BY <1>1, NumberRead
<1> HIDE DEF n, f
<1>5. op \in [AtLine -> [1..n -> AtLine]] /\ \A a \in AtLine : \A k \in 1..n : op[a][k] = ReadLine(a, given[k])
  <2>1. \A a \in AtLine : [k \in 1..n |-> ReadLine(a, given[k])] \in [1..n -> AtLine]
    BY <1>4
  <2> QED BY <2>1
<1> HIDE DEF op
<1>6. PICK h \in [SUBSET (1..n) -> AtLine] : FoldsNumbers(n, AtLine, Begin, op, h)
  BY <1>1, <1>3, <1>5, NumbersFold
<1>7. \A z \in SUBSET (1..n) :
         /\ h[z] = IF z = {} THEN Begin ELSE op[h[z \ {Max(z)}]][Max(z)]
         /\ z # {} => Max(z) \in 1..n /\ h[z \ {Max(z)}] \in AtLine
  BY <1>6 DEF FoldsNumbers
<1>8. Is(h)
  <2>1. \A z \in SUBSET (1..n) :
           h[z] = IF z = {} THEN Begin ELSE ReadLine(h[z \ {Max(z)}], given[Max(z)])
    BY <1>5, <1>7
  <2>2. h = [z \in SUBSET (1..n) |-> h[z]]
    OBVIOUS
  <2> QED BY <2>1, <2>2, Zenon
<1>9. Is(c)
  <2> HIDE DEF Is
  <2> QED BY <1>8
<1> HIDE DEF c
<1>10. FoldsTyped(n, AtLine, Begin, op, c)
  <2>1. \A z \in SUBSET (1..n) :
           c[z] = IF z = {} THEN Begin ELSE ReadLine(c[z \ {Max(z)}], given[Max(z)])
    BY <1>9
  <2> HIDE DEF Is
  <2>2. {} \in SUBSET (1..n)
    OBVIOUS
  <2>3. \A z \in SUBSET (1..n) : z # {} => Max(z) \in 1..n
    BY <1>7
  <2> QED BY <1>5, <2>1, <2>2, <2>3 DEF FoldsTyped
<1>11. PICK v \in [0..n -> AtLine] : Steps(n, Begin, op, v, c[1..n])
  BY <1>1, <1>3, <1>5, <1>10, FoldSteps
<1> DEFINE So(k) == Len(v[k].read) = k /\ \A j \in 1..k : v[k].read[j] = given[j]
           D == {k \in 0..n : ~So(k)}
<1>12. D = {}
  <2> SUFFICES ASSUME D # {} PROVE FALSE
    OBVIOUS
  <2>1. PICK k \in D : \A j \in D : k <= j
    <3>1. D \in SUBSET Nat
      OBVIOUS
    <3> HIDE DEF D
    <3> QED BY <3>1, Least
  <2>2. k \in 0..n /\ ~So(k)
    OBVIOUS
  <2>3. k # 0
    <3>1. v[0].read = << >> /\ Len(<< >>) = 0 /\ 1..0 = {}
      BY <1>3, <1>11 DEF Steps
    <3> QED BY <2>2, <3>1
  <2>4. k \in 1..n /\ k - 1 \in 0..n /\ ~(k <= k - 1)
    BY <1>1, <2>2, <2>3
  <2>5. So(k - 1) /\ v[k - 1] \in AtLine
    <3>1. k - 1 \notin D
      <4> HIDE DEF D
      <4> QED BY <2>1, <2>4
    <3> QED BY <2>4, <3>1
  <2>6. v[k].read = Append(v[k - 1].read, given[k])
    <3>1. v[k] = op[v[k - 1]][k]
      BY <1>11, <2>4 DEF Steps
    <3>2. v[k] = ReadLine(v[k - 1], given[k])
      BY <1>5, <2>4, <2>5, <3>1
    <3> HIDE DEF D
    <3> QED BY <1>4, <2>4, <2>5, <3>2
  <2>7. v[k - 1].read \in Seq(Numbers)
    BY <2>5 DEF AtLine
  <2>8. k \in Nat /\ (k - 1) + 1 = k /\ \A j \in 1..k : j \in 1..(k - 1) \/ j = k
    BY <2>4
  <2>9. /\ Len(v[k].read) = k /\ v[k].read[k] = given[k]
        /\ \A j \in 1..(k - 1) : v[k].read[j] = v[k - 1].read[j]
    BY <2>5, <2>6, <2>7, <2>8, AppendProperties
  <2> QED BY <2>2, <2>5, <2>8, <2>9
<1>13. v[n] = f /\ n \in 0..n
  BY <1>1, <1>2, <1>11 DEF Steps
<1>14. So(n) /\ f.read \in Seq(Numbers)
  BY <1>12, <1>13 DEF AtLine
<1>15. f.read = given
  BY <1>1, <1>13, <1>14
<1> QED BY <1>15 DEF ReadMap, f

\* A catalogue is read as it is, and lower_bound finds in it the name that
\* belongs to an end.
LEMMA CatalogueRead ==
    ASSUME NEW n \in 0..MaxTotal, NEW given \in Catalogues(n)
    PROVE  /\ ReadMap(given) = given
           /\ DOMAIN ToIds(given) \subseteq 0..MaxTotal
           /\ \A e \in DOMAIN ToIds(given) : ToIds(given)[e] = e
<1> USE EndsAssumption DEF EndsAssumption
<1>1. \E l \in Nat : /\ DOMAIN given = 1..l
                     /\ \A k \in DOMAIN given : \E e \in 0..MaxTotal : given[k] = Entry(e)
  <2>1. CASE n = 0
    <3>1. DOMAIN given = 1..0
      BY <2>1 DEF Catalogues
    <3> QED BY <3>1
  <2>2. CASE n # 0
    BY <2>2 DEF Catalogues
  <2> QED BY <2>1, <2>2
<1>2. PICK l \in Nat : /\ DOMAIN given = 1..l
                       /\ \A k \in DOMAIN given : \E e \in 0..MaxTotal : given[k] = Entry(e)
  BY <1>1
<1>3. \A k \in DOMAIN given : given[k].end \in 0..MaxTotal /\ given[k].name = given[k].end
  BY <1>2 DEF Entry
<1>4. ReadMap(given) = given
  <2>1. /\ \A k \in DOMAIN given : given[k].name \notin Spaced \union {NoName} /\ given[k] \in Numbers
        /\ given = [k \in 1..l |-> given[k]]
    <3>1. \A e \in 0..MaxTotal : Entry(e) \in Numbers
      BY DEF Entry, Numbers
    <3>2. given = [k \in 1..l |-> given[k]]
      <4>1. CASE n = 0
        <5>1. given = << >> /\ l = 0
          BY <1>2, <4>1 DEF Catalogues
        <5> QED BY <5>1
      <4>2. CASE n # 0
        BY <1>2, <4>2 DEF Catalogues
      <4> QED BY <4>1, <4>2
    <3> QED BY <1>2, <1>3, <3>1, <3>2
  <2>2. given \in Seq(Numbers) /\ Len(given) = l
    BY <1>2, <2>1
  <2> QED BY <1>2, <2>1, <2>2, NumbersRead
<1>5. DOMAIN ToIds(given) \subseteq 0..MaxTotal
  BY <1>3 DEF ToIds
<1>6. ASSUME NEW x \in DOMAIN ToIds(given) PROVE ToIds(given)[x] = x
  <2> DEFINE S == {k \in DOMAIN given : given[k].end = x}
  <2>1. S # {} /\ S \in SUBSET (0..l) /\ ToIds(given)[x] = given[Max(S)].name
    BY <1>2 DEF ToIds
  <2>2. Max(S) \in S
    <3> HIDE DEF S
    <3> QED BY <2>1, Extremes
  <2> QED BY <1>3, <2>1, <2>2
<1> QED BY <1>4, <1>5, <1>6

LEMMA QuotientGrows ==
    ASSUME NEW m \in Nat, NEW n \in Nat, NEW d \in Nat \ {0}, m <= n
    PROVE  m \div d \in Nat /\ n \div d \in Nat /\ m \div d <= n \div d
OBVIOUS

\* Two quotients are at most one less than that of the sum.
LEMMA QuotientOfSum ==
    ASSUME NEW m \in Nat, NEW n \in Nat, NEW d \in Nat \ {0}
    PROVE  (m + n) \div d <= m \div d + n \div d + 1
OBVIOUS

\* The timestamp loses no second.
LEMMA TimestampTold ==
    ASSUME NEW n \in Nat
    PROVE  Told(Timestamp(n)) = n
<1> USE RatesAssumption DEF RatesAssumption
<1>1. Sixty * Sixty \in Nat \ {0} /\ n \div (Sixty * Sixty) \in Int
  OBVIOUS
<1>2. Sixty * Sixty * (n \div (Sixty * Sixty)) \in Int
  BY <1>1
<1> DEFINE x == Sixty * Sixty * (n \div (Sixty * Sixty))
           y == Sixty * ((n - x) \div Sixty)
<1>3. x \in Int /\ y \in Int
  BY <1>2
<1>4. Told(Timestamp(n)) = x + y + (n - x - y)
  BY DEF Told, Timestamp
<1> HIDE DEF x, y
<1> QED BY <1>3, <1>4

\* What is reported for a match at a place that pos is ahead of, at most by the
\* drift
LEMMA ReportRight ==
    ASSUME IInv, EndsInv, pc = "scan", i < count, ids' = ids, blocks' = blocks,
           report' = [track   |-> TrackAt(pos), from |-> TrackStart(pos),
                      time    |-> Timestamp(((pos - TrackStart(pos)) * Advance) \div SampleRate),
                      pos     |-> pos, at |-> At]
    PROVE  /\ report'.at \in Nat /\ report'.from \in Nat /\ Told(report'.time) \in Nat
           /\ RightTrack'
<1> USE SizesAssumption, RatesAssumption, EndsAssumption
    DEF SizesAssumption, RatesAssumption, EndsAssumption
<1>1. At \in Nat /\ pos \in Nat /\ Drift \in Nat /\ At <= pos /\ pos <= At + Drift
  <2>1. blocks > 0 /\ blocks \in Nat /\ pos \in Nat /\ start \in Nat /\ i \in Nat
    BY DEF IInv, TypeOK, BlockInv
  <2>2. Drift \in Nat
    BY <2>1 DEF Drift
  <2>3. 0 <= Ahead /\ Ahead <= Drift
    BY <2>1 DEF IInv, DriftInv, Drift
  <2> QED BY <2>1, <2>2, <2>3 DEF At, Ahead
<1>2. DOMAIN ids \subseteq 0..MaxTotal
  BY DEF EndsInv
<1>3. MaxTotal \in Nat /\ 0 \in 0..MaxTotal /\ DOMAIN ids \subseteq Nat
  BY <1>2
<1> DEFINE before == {0} \union {e \in DOMAIN ids : e < pos}
           behind == {e \in DOMAIN ids : e >= pos}
           from   == TrackStart(pos)
           told   == ((pos - from) * Advance) \div SampleRate
<1>4. /\ from \in before /\ \A e \in before : e <= from
  <2>1. before \in SUBSET (0..MaxTotal) /\ before # {}
    BY <1>2, <1>3
  <2>2. Max(before) \in before /\ \A e \in before : e <= Max(before)
    <3> HIDE DEF before
    <3> QED BY <1>3, <2>1, Extremes
  <2>3. from = Max(before)
    BY DEF TrackStart, StartOf
  <2> QED BY <2>2, <2>3
<1>5. from \in Nat /\ from <= pos
  BY <1>1, <1>3, <1>4
<1>6. ASSUME NEW m \in Nat, m <= pos
      PROVE  /\ ((pos - m) * Advance) \in Nat
             /\ ((pos - m) * Advance) \div SampleRate \in Nat
  <2>1. pos - m \in Nat
    BY <1>1, <1>6
  <2> HIDE DEF from
  <2> QED BY <2>1
<1>7. told \in Nat /\ Told(report'.time) = told
  BY <1>5, <1>6, TimestampTold
<1>8. /\ report'.at = At /\ report'.from = from /\ report'.track = TrackAt(pos)
      /\ Drift' = Drift
  BY DEF Drift
<1>9. CASE ~HasLowerBound(ids, pos)
  <2>1. report'.track = Unknown
    BY <1>8, <1>9 DEF TrackAt
  <2>2. {0} \union DOMAIN ids \in SUBSET (0..MaxTotal) /\ {0} \union DOMAIN ids # {}
    BY <1>2, <1>3
  <2>3. Known \in {0} \union DOMAIN ids
    BY <1>3, <2>2, Extremes DEF Known
  <2>4. Known = 0 \/ Known < pos
    BY <1>1, <1>3, <1>9, <2>3 DEF HasLowerBound
  <2>5. Known \in Nat /\ Known' = Known
    BY <1>3, <2>3 DEF Known
  <2>6. (Known = 0) \/ (report'.at + Drift > Known)
    BY <1>1, <1>8, <2>4, <2>5
  <2>7. RightTrack'
    BY <1>8, <2>1, <2>5, <2>6 DEF RightTrack
  <2> QED BY <1>1, <1>5, <1>7, <1>8, <2>7
<1>10. CASE HasLowerBound(ids, pos)
  <2>1. behind # {} /\ behind \in SUBSET (0..MaxTotal)
    BY <1>2, <1>10 DEF HasLowerBound
  <2>2. Min(behind) \in behind
    <3> HIDE DEF behind
    <3> QED BY <1>3, <2>1, Extremes
  <2>3. TrackAt(pos) = Min(behind)
    BY <1>10, <2>2 DEF TrackAt, NameAt, EndsInv
  <2>4. report'.track \in 0..MaxTotal /\ report'.track # Unknown /\ At <= report'.track
    <3>1. Min(behind) \in 0..MaxTotal /\ Min(behind) >= pos
      BY <2>1, <2>2
    <3> QED BY <1>1, <1>8, <2>3, <3>1
  <2>5. ASSUME from < At PROVE report'.track = TrackOf(At)
    <3>1. \A e \in DOMAIN ids : e >= At <=> e >= pos
      <4> SUFFICES ASSUME NEW e \in DOMAIN ids PROVE e >= At <=> e >= pos
        OBVIOUS
      <4>1. e \in Nat
        BY <1>3
      <4>2. e < pos => e <= from
        BY <1>4
      <4> QED BY <1>1, <1>5, <2>5, <4>1, <4>2
    <3>2. {e \in DOMAIN ids : e >= At} = behind
      BY <3>1
    <3> QED BY <1>8, <2>3, <3>2 DEF TrackOf
  <2>6. ASSUME from < At
        PROVE  LET exact == ((At - from) * Advance) \div SampleRate
               IN  exact <= told /\ told <= exact + (Drift * Advance) \div SampleRate + 1
    <3> DEFINE m == (At - from) * Advance
               n == (pos - from) * Advance
               d == Drift * Advance
    <3>1. m \in Nat /\ n \in Nat /\ d \in Nat
      BY <1>1, <1>5, <2>6
    <3>2. m <= n /\ n <= m + d
      <4> DEFINE x == At - from
                 y == pos - from
      <4>1. x \in Nat /\ y \in Nat /\ x <= y /\ y <= x + Drift /\ Drift \in Nat
        BY <1>1, <1>5, <2>6
      <4>2. \A p, q \in Nat : p <= q => p * Advance <= q * Advance
        OBVIOUS
      <4>3. (x + Drift) * Advance = x * Advance + Drift * Advance
        BY <4>1
      <4> HIDE DEF x, y
      <4>4. x * Advance <= y * Advance /\ y * Advance <= (x + Drift) * Advance
        BY <4>1, <4>2
      <4> QED BY <4>3, <4>4 DEF x, y
    <3> HIDE DEF m, n, d
    <3>3. m \div SampleRate <= n \div SampleRate
      BY <3>1, <3>2, QuotientGrows
    <3>4. n \div SampleRate <= (m + d) \div SampleRate
      BY <3>1, <3>2, QuotientGrows
    <3>5. (m + d) \div SampleRate <= m \div SampleRate + d \div SampleRate + 1
      BY <3>1, QuotientOfSum
    <3>6. /\ m \div SampleRate \in Nat /\ n \div SampleRate \in Nat /\ d \div SampleRate \in Nat
          /\ (m + d) \div SampleRate \in Nat
      BY <3>1
    <3>7. n \div SampleRate <= m \div SampleRate + d \div SampleRate + 1
      BY <3>4, <3>5, <3>6
    <3> QED BY <3>3, <3>7 DEF m, n, d
  <2> HIDE DEF from, told
  <2>8. RightTrack'
    BY <1>1, <1>5, <1>7, <1>8, <2>4, <2>5, <2>6 DEF RightTrack, TrackOf
  <2> QED BY <1>1, <1>5, <1>7, <1>8, <2>8
<1> QED BY <1>9, <1>10

LEMMA QueryStart == QueryInit => QueryInv
<1> SUFFICES ASSUME QueryInit PROVE QueryInv
  OBVIOUS
<1> USE DEF QueryInit
<1>1. EndsInv
  <2>1. DOMAIN ids = {} /\ 0 \in 0..MaxTotal
    BY SizesAssumption DEF SizesAssumption
  <2> QED BY <2>1 DEF EndsInv
<1>2. total \in 0..MaxTotal
  BY DEF Init
<1>3. Told(report.time) \in Nat
  <2>1. report.time = Timestamp(0)
    BY DEF NoReport
  <2> QED BY <2>1, TimestampTold
<1>4. ReportInv
  BY <1>2, <1>3 DEF ReportInv, NoReport, None
<1> QED BY <1>1, <1>4 DEF QueryInv, RightTrack, NoReport

\* Where nothing is reported, what has been reported stays right: the drift
\* only grows.
LEMMA StillRight ==
    ASSUME IInv, QueryInv, ids' = ids \/ report.track = None, report' = report,
           blocks' = blocks \/ blocks' = blocks + 1
    PROVE  RightTrack'
<1> USE SizesAssumption, RatesAssumption DEF SizesAssumption, RatesAssumption
<1>1. CASE report.track = None
  BY <1>1 DEF RightTrack
<1>2. CASE report.track # None
  <2>1. ids' = ids
    BY <1>2
  <2>2. blocks \in Nat
    BY DEF IInv, TypeOK
  <2>3. Drift \in Int /\ Drift' \in Int /\ Drift <= Drift'
    <3>1. CASE blocks' = blocks
      BY <2>2, <3>1 DEF Drift
    <3>2. CASE blocks' = blocks + 1
      <4>1. Step * ((blocks + 1) - 1) = Step * (blocks - 1) + Step
        BY <2>2
      <4>2. Step * (blocks - 1) \in Int
        BY <2>2
      <4> QED BY <3>2, <4>1, <4>2 DEF Drift
    <3> QED BY <3>1, <3>2
  <2>4. report.at \in Nat /\ report.from \in Nat /\ Told(report.time) \in Nat
    BY DEF QueryInv, ReportInv
  <2>5. Known \in Nat /\ Known' = Known
    <3>1. DOMAIN ids \subseteq 0..MaxTotal
      BY DEF QueryInv, EndsInv
    <3>2. /\ {0} \union DOMAIN ids \in SUBSET (0..MaxTotal) /\ {0} \union DOMAIN ids # {}
          /\ MaxTotal \in Nat
      BY <3>1
    <3>3. Known \in 0..MaxTotal
      BY <3>2, Extremes DEF Known
    <3> QED BY <2>1, <3>2, <3>3 DEF Known
  <2>6. CASE report.track = Unknown
    <3>1. (Known = 0) \/ (report.at + Drift > Known)
      BY <1>2, <2>6 DEF QueryInv, RightTrack
    <3>2. (Known = 0) \/ (report.at + Drift' > Known)
      BY <2>3, <2>4, <2>5, <3>1
    <3> QED BY <2>5, <2>6, <3>2 DEF RightTrack
  <2>7. CASE report.track # Unknown
    <3>1. /\ report.from <= report.at + Drift /\ report.at <= report.track
          /\ report.from < report.at =>
                LET exact == ((report.at - report.from) * Advance) \div SampleRate
                IN  /\ report.track = TrackOf(report.at)
                    /\ exact <= Told(report.time)
                    /\ Told(report.time) <= exact + (Drift * Advance) \div SampleRate + 1
      BY <1>2, <2>7 DEF QueryInv, RightTrack
    <3>2. report.from <= report.at + Drift'
      BY <2>3, <2>4, <3>1
    <3>3. ASSUME report.from < report.at, NEW exact \in Int,
                 Told(report.time) <= exact + (Drift * Advance) \div SampleRate + 1
          PROVE  Told(report.time) <= exact + (Drift' * Advance) \div SampleRate + 1
      <4>1. /\ Drift * Advance \in Int /\ Drift' * Advance \in Int
            /\ Drift * Advance <= Drift' * Advance
        <5>1. \A p, q \in Int : p <= q => /\ p * Advance <= q * Advance
                                          /\ p * Advance \in Int /\ q * Advance \in Int
          OBVIOUS
        <5> QED BY <2>3, <5>1, Zenon
      <4>2. \A m, n \in Int : m <= n => /\ m \div SampleRate <= n \div SampleRate
                                       /\ m \div SampleRate \in Int /\ n \div SampleRate \in Int
        OBVIOUS
      <4> DEFINE x == (Drift * Advance) \div SampleRate
                 y == (Drift' * Advance) \div SampleRate
      <4>3. x <= y /\ x \in Int /\ y \in Int
        BY <4>1, <4>2
      <4> HIDE DEF x, y
      <4>4. Told(report.time) <= exact + x + 1
        BY <3>3 DEF x
      <4>5. Told(report.time) <= exact + y + 1
        BY <2>4, <4>3, <4>4
      <4> QED BY <4>5 DEF y
    <3>4. ((report.at - report.from) * Advance) \div SampleRate \in Int
      BY <2>4
    <3> QED BY <2>1, <2>7, <3>1, <3>2, <3>3, <3>4 DEF RightTrack, TrackOf
  <2> QED BY <2>6, <2>7
<1> QED BY <1>1, <1>2

LEMMA QueryStep ==
    ASSUME IInv, QueryInv, [QueryNext]_<<vars, queryVars>>
    PROVE  QueryInv'
<1> USE DEF QueryInv
<1>1. CASE Options
  <2>1. ids' = ids /\ report' = report /\ blocks' = blocks /\ lines' = lines
    BY <1>1 DEF Options, vars
  <2>2. ReportInv' /\ EndsInv'
    BY <1>1, <2>1 DEF Options, ReportInv, EndsInv
  <2> QED BY <2>1, <2>2, StillRight
<1>2. CASE Open
  <2>1. ids' = ToIds(ReadMap(lines)) /\ report' = report /\ blocks' = blocks /\ lines' = lines
    BY <1>2 DEF Open, vars
  <2>2. PICK n \in 0..MaxTotal : lines \in Catalogues(n)
    BY DEF ReportInv
  <2>3. EndsInv'
    BY <2>1, <2>2, CatalogueRead DEF EndsInv
  <2>4. ReportInv' /\ report.track = None
    BY <1>2, <2>1 DEF Open, ReportInv
  <2> QED BY <2>1, <2>3, <2>4, StillRight
<1>3. CASE ScanStep
  <2>1. /\ stage = "scan" /\ stage' = stage /\ lines' = lines /\ ids' = ids /\ Next
        /\ blocks' = blocks \/ blocks' = blocks + 1
    BY <1>3 DEF ScanStep, Next, Scan, ReadBlock, SkipDebounced, RejectEarly, Compare, EndBlock, Grow
  <2>2. EndsInv'
    BY <2>1 DEF EndsInv
  <2>3. CASE prevAt' = prevAt
    <3>1. report' = report
      BY <1>3, <2>3 DEF ScanStep
    <3>2. ReportInv'
      BY <2>1, <3>1 DEF ReportInv
    <3> QED BY <2>1, <2>2, <3>1, <3>2, StillRight
  <2>4. CASE prevAt' # prevAt
    <3>1. PICK match \in BOOLEAN : Compare(match)
      BY <2>1, <2>4 DEF Next, Scan, ReadBlock, SkipDebounced, RejectEarly, EndBlock, Grow
    <3>2. pc = "scan" /\ i < count /\ blocks' = blocks
      BY <3>1 DEF Compare
    <3>3. /\ report'.at \in Nat /\ report'.from \in Nat /\ Told(report'.time) \in Nat
          /\ RightTrack'
      BY <1>3, <2>1, <2>4, <3>2, ReportRight DEF ScanStep
    <3> QED BY <2>1, <2>2, <3>3 DEF ReportInv
  <2> QED BY <2>3, <2>4
<1>4. CASE PrintResults
  <2>1. ids' = ids /\ report' = report /\ blocks' = blocks /\ lines' = lines
    BY <1>4 DEF PrintResults, vars
  <2>2. ReportInv' /\ EndsInv'
    BY <1>4, <2>1 DEF PrintResults, ReportInv, EndsInv
  <2> QED BY <2>1, <2>2, StillRight
<1>5. CASE UNCHANGED <<vars, queryVars>>
  <2>1. ids' = ids /\ report' = report /\ blocks' = blocks /\ lines' = lines /\ stage' = stage
    BY <1>5 DEF vars, queryVars
  <2>2. ReportInv' /\ EndsInv'
    BY <2>1 DEF ReportInv, EndsInv
  <2> QED BY <2>1, <2>2, StillRight
<1>6. CASE ReadQuery \/ ReadOddly \/ Overread
  <2>1. /\ ids' = ids /\ report' = report /\ blocks' = blocks /\ lines' = lines
        /\ stage' \notin {"init", "open"}
    BY <1>6 DEF ReadQuery, ReadOddly, Overread, vars
  <2>2. ReportInv' /\ EndsInv'
    BY <2>1 DEF ReportInv, EndsInv
  <2> QED BY <2>1, <2>2, StillRight
<1> QED BY <1>1, <1>2, <1>3, <1>4, <1>5, <1>6 DEF QueryNext

\* For every advance and sample rate, and whatever grows while the query runs: a
\* match is reported for the track it is in, at a time in it that is late by at
\* most the drift, and without a track only behind the end of the catalogue.
THEOREM TrackIsRight == QuerySpec => []RightTrack
<1>1. QuerySpec => []IInv
  BY QueryScans, Invariance, PTL
<1>2. IInv /\ QueryInv /\ [QueryNext]_<<vars, queryVars>> => QueryInv'
  BY QueryStep
<1>3. QuerySpec => []QueryInv
  BY <1>1, <1>2, QueryStart, PTL DEF QuerySpec
<1>4. QueryInv => RightTrack
  BY DEF QueryInv
<1> QED BY <1>3, <1>4, PTL
=============================================================================
