------------------------- MODULE FingerprintDbProofs -------------------------
(***************************************************************************)
(* Proofs about FingerprintDb, for any set of databases, tracks, writers   *)
(* and readers.                                                            *)
(***************************************************************************)
EXTENDS FingerprintDb, FoldLemmas

-----------------------------------------------------------------------------
(* Lemmas about sequences and the catalogue.                               *)

LEMMA LeastElement ==
    ASSUME NEW S \in SUBSET Nat, S # {}
    PROVE  Min(S) \in S
<1> DEFINE R == OpToRel(<, Nat)
<1>1. IsWellFoundedOn(R, Nat)
  BY NatLessThanWellFounded
<1>2. PICK m \in S : \A k \in S : ~(<<k, m>> \in R)
  BY <1>1, WFMin
<1>3. \A k \in S : k < m => <<k, m>> \in R
  BY DEF OpToRel
<1> HIDE DEF R
<1>4. \A k \in S : ~(k < m)
  BY <1>2, <1>3
<1>5. \A k \in S : m <= k
  BY <1>4
<1> QED  BY <1>5 DEF Min

Readings == [at : {"id", "name", "failed"}, id : Nat, read : Seq(Lines)]

LEMMA BeginIs == Begin \in Readings
<1>1. << >> \in Seq(Lines)
  BY EmptySeq
<1> QED BY <1>1 DEF Begin, Readings

LEMMA WordRead ==
    ASSUME NEW a \in Readings, NEW word \in Names
    PROVE  /\ ReadWord(a, word) \in Readings
           /\ a.at = "id" /\ word \in Nat =>
                  ReadWord(a, word) = [at |-> "name", id |-> word, read |-> a.read]
           /\ a.at = "id" /\ word \notin Nat =>
                  ReadWord(a, word) = [at |-> "failed", id |-> a.id, read |-> a.read]
           /\ a.at = "name" =>
                  ReadWord(a, word) = [at |-> "id", id |-> a.id,
                                       read |-> Append(a.read, [end |-> a.id, name |-> word])]
           /\ a.at = "failed" => ReadWord(a, word) = a
<1> DEFINE pair == [end |-> a.id, name |-> word]
<1>1. /\ a = [at |-> a.at, id |-> a.id, read |-> a.read]
      /\ a.at \in {"id", "name", "failed"} /\ a.id \in Nat /\ a.read \in Seq(Lines)
  BY DEF Readings
<1>2. pair \in Lines
  BY <1>1 DEF Lines
<1>3. Append(a.read, pair) \in Seq(Lines)
  <2> HIDE DEF pair
  <2> QED BY <1>1, <1>2, AppendProperties
<1>4. CASE a.at = "id" /\ word \in Nat
  <2>1. ReadWord(a, word) = [a EXCEPT !.at = "name", !.id = word]
    BY <1>4, Zenon DEF ReadWord
  <2>2. ReadWord(a, word) = [at |-> "name", id |-> word, read |-> a.read]
    BY <1>1, <2>1
  <2> QED BY <1>1, <1>4, <2>2 DEF Readings
<1>5. CASE a.at = "id" /\ word \notin Nat
  <2>1. ReadWord(a, word) = [a EXCEPT !.at = "failed"]
    BY <1>5, Zenon DEF ReadWord
  <2>2. ReadWord(a, word) = [at |-> "failed", id |-> a.id, read |-> a.read]
    BY <1>1, <2>1
  <2> QED BY <1>1, <1>5, <2>2 DEF Readings
<1>6. CASE a.at = "name"
  <2>1. ReadWord(a, word) = [a EXCEPT !.at = "id", !.read = Append(a.read, pair)]
    BY <1>6, Zenon DEF ReadWord
  <2> HIDE DEF pair
  <2>2. ReadWord(a, word) = [at |-> "id", id |-> a.id, read |-> Append(a.read, pair)]
    BY <1>1, <2>1
  <2>3. ReadWord(a, word) \in Readings
    BY <1>1, <1>3, <2>2 DEF Readings
  <2> QED BY <1>6, <2>2, <2>3 DEF pair
<1>7. CASE a.at = "failed"
  <2>1. ReadWord(a, word) = a
    BY <1>7, Zenon DEF ReadWord
  <2> QED BY <1>7, <2>1
<1> QED BY <1>1, <1>4, <1>5, <1>6, <1>7

LEMMA LineRead ==
    ASSUME NEW a \in Readings, NEW line \in Lines
    PROVE  /\ ReadLine(a, line) \in Readings /\ line.end \in Nat /\ line.end \in Names
           /\ line.name \in Names /\ Cut \in Names /\ Cut \notin Nat
           /\ ReadWord(a, line.end) \in Readings
           /\ line.name = NoName => ReadLine(a, line) = ReadWord(a, line.end)
           /\ line.name \in Spaced =>
                 /\ ReadLine(a, line) = ReadWord(ReadWord(ReadWord(a, line.end), Cut), Cut)
                 /\ ReadWord(ReadWord(a, line.end), Cut) \in Readings
           /\ line.name \notin Spaced \union {NoName} =>
                 ReadLine(a, line) = ReadWord(ReadWord(a, line.end), line.name)
<1> DEFINE number == ReadWord(a, line.end)
<1>1. /\ line.end \in Nat /\ line.end \in Names /\ line.name \in Names /\ Cut \in Names
      /\ NoName \notin Spaced /\ Cut \notin Nat
  BY NamesAssumption DEF Lines, Names, NamesAssumption
<1>2. number \in Readings
  BY <1>1, WordRead
<1> HIDE DEF number
<1>3. ReadWord(number, Cut) \in Readings /\ ReadWord(number, line.name) \in Readings
  BY <1>1, <1>2, WordRead
<1>4. ReadWord(ReadWord(number, Cut), Cut) \in Readings
  BY <1>1, <1>3, WordRead
<1>5. /\ line.name = NoName => ReadLine(a, line) = number
      /\ line.name \in Spaced => ReadLine(a, line) = ReadWord(ReadWord(number, Cut), Cut)
      /\ line.name \notin Spaced \union {NoName} => ReadLine(a, line) = ReadWord(number, line.name)
  BY <1>1, Zenon DEF ReadLine, number
<1>6. ReadLine(a, line) \in Readings
  BY <1>2, <1>3, <1>4, <1>5
<1> QED BY <1>1, <1>2, <1>3, <1>5, <1>6 DEF number

\* What each line leads to from what the one before led to
LeadsLines(lines, G) ==
    \A k \in 1..Len(lines) : \A a \in Readings : a \in G[k - 1] => ReadLine(a, lines[k]) \in G[k]

LEMMA LinesReach ==
    ASSUME NEW lines \in Seq(Lines), NEW G, Begin \in G[0], LeadsLines(lines, G)
    PROVE  FoldLeft(ReadLine, Begin, lines) \in Readings /\ FoldLeft(ReadLine, Begin, lines) \in G[Len(lines)]
<1> DEFINE n == Len(lines)
           op == [a \in Readings |-> [k \in 1..n |-> ReadLine(a, lines[k])]]
           Is(h) == h = [z \in SUBSET (1..n) |-> IF z = {} THEN Begin
                           ELSE ReadLine(h[z \ {Max(z)}], lines[Max(z)])]
           c == CHOOSE h : Is(h)
           f == FoldLeft(ReadLine, Begin, lines)
<1>1. n \in Nat /\ DOMAIN lines = 1..n /\ \A k \in 1..n : lines[k] \in Lines
  OBVIOUS
<1>2. f = c[1..n]
  BY <1>1, Zenon DEF FoldLeft, MapThenFoldSet
<1> HIDE DEF n, f
<1>3. op \in [Readings -> [1..n -> Readings]]
  <2>1. \A a \in Readings : \A k \in 1..n : ReadLine(a, lines[k]) \in Readings
    BY <1>1, LineRead
  <2>2. \A a \in Readings : [k \in 1..n |-> ReadLine(a, lines[k])] \in [1..n -> Readings]
    BY <2>1
  <2> QED BY <2>2
<1>4. \A a \in Readings : \A k \in 1..n : op[a][k] = ReadLine(a, lines[k])
  OBVIOUS
<1> HIDE DEF op
<1>5. PICK h \in [SUBSET (1..n) -> Readings] : FoldsNumbers(n, Readings, Begin, op, h)
  BY <1>1, <1>3, BeginIs, NumbersFold
<1>6. \A z \in SUBSET (1..n) :
         /\ h[z] = IF z = {} THEN Begin ELSE op[h[z \ {Max(z)}]][Max(z)]
         /\ z # {} => Max(z) \in 1..n /\ h[z \ {Max(z)}] \in Readings
  BY <1>5 DEF FoldsNumbers
<1>7. Is(h)
  <2>1. \A z \in SUBSET (1..n) :
           h[z] = IF z = {} THEN Begin ELSE ReadLine(h[z \ {Max(z)}], lines[Max(z)])
    BY <1>4, <1>6
  <2>2. h = [z \in SUBSET (1..n) |-> h[z]]
    OBVIOUS
  <2> QED BY <2>1, <2>2, Zenon
<1>8. Is(c)
  <2> HIDE DEF Is
  <2> QED BY <1>7
<1> HIDE DEF c
<1>9. FoldsTyped(n, Readings, Begin, op, c)
  <2>1. \A z \in SUBSET (1..n) :
           c[z] = IF z = {} THEN Begin ELSE ReadLine(c[z \ {Max(z)}], lines[Max(z)])
    BY <1>8
  <2> HIDE DEF Is
  <2>2. {} \in SUBSET (1..n)
    OBVIOUS
  <2>3. \A z \in SUBSET (1..n) : z # {} => Max(z) \in 1..n
    BY <1>6
  <2> QED BY <1>4, <2>1, <2>2, <2>3 DEF FoldsTyped
<1>10. PICK v \in [0..n -> Readings] : Steps(n, Begin, op, v, c[1..n])
  BY <1>1, <1>3, <1>9, BeginIs, FoldSteps
<1> DEFINE D == {k \in 0..n : v[k] \notin G[k]}
<1>11. D = {}
  <2> SUFFICES ASSUME D # {} PROVE FALSE
    OBVIOUS
  <2>1. PICK k \in D : \A j \in D : k <= j
    <3>1. D \in SUBSET Nat
      OBVIOUS
    <3> HIDE DEF D
    <3> QED BY <3>1, Least
  <2>2. k \in 0..n /\ v[k] \notin G[k]
    OBVIOUS
  <2>3. k \in 1..n /\ k - 1 \in 0..n /\ ~(k <= k - 1)
    <3>1. v[0] = Begin
      BY <1>10 DEF Steps
    <3>2. k # 0
      BY <2>2, <3>1
    <3> QED BY <1>1, <2>2, <3>2
  <2>4. v[k - 1] \in G[k - 1] /\ v[k - 1] \in Readings
    <3>1. k - 1 \notin D
      <4> HIDE DEF D
      <4> QED BY <2>1, <2>3
    <3> QED BY <2>3, <3>1
  <2>5. v[k] = ReadLine(v[k - 1], lines[k])
    BY <1>4, <1>10, <2>3, <2>4 DEF Steps
  <2> QED BY <2>2, <2>3, <2>4, <2>5 DEF LeadsLines, n
<1>12. v[n] = f /\ n \in 0..n
  BY <1>1, <1>2, <1>10 DEF Steps
<1>13. v[n] \in G[n] /\ v[n] \in Readings
  BY <1>11, <1>12
<1> QED BY <1>12, <1>13 DEF n, f

\* What a query reads of a catalogue is a catalogue.
LEMMA ReadMapType ==
    ASSUME NEW lines \in Seq(Lines)
    PROVE  ReadMap(lines) \in Seq(Lines)
<1> DEFINE G == [k \in 0..Len(lines) |-> Readings]
<1>1. Len(lines) \in Nat /\ \A k \in 1..Len(lines) : lines[k] \in Lines /\ k - 1 \in 0..Len(lines)
  OBVIOUS
<1>2. LeadsLines(lines, G)
  BY <1>1, LineRead DEF LeadsLines
<1>3. Begin \in G[0]
  BY <1>1, BeginIs
<1> HIDE DEF G
<1>4. FoldLeft(ReadLine, Begin, lines) \in Readings
  BY <1>2, <1>3, LinesReach
<1> QED BY <1>4 DEF ReadMap, Readings

-----------------------------------------------------------------------------
(* The output stream.                                                      *)

LEMMA FlushType ==
    ASSUME TypeOK, NEW p \in Writers, Db(p) \in Dbs, NEW fps \in Seq(Fps), FlushOf(p, fps)
    PROVE  /\ data' \in [Dbs -> Seq(Fps)]
           /\ off' \in [Writers -> Nat]
           /\ buf' \in [Writers -> Seq(Fps)]
           /\ \A q \in Writers : Len(buf'[q]) < BufCap
<1> DEFINE d == Db(p)
<1>0. d \in Dbs
  OBVIOUS
<1> HIDE DEF d
<1>1. data[d] \in Seq(Fps)
  BY <1>0 DEF TypeOK
<1>2. /\ data[d] \o fps \in Seq(Fps)
      /\ Len(data[d]) + Len(fps) \in Nat
      /\ << >> \in Seq(Fps) /\ Len(<< >>) = 0
  BY <1>1, ConcatProperties, LenProperties, EmptySeq
<1>3. data' = [data EXCEPT ![d] = data[d] \o fps]
  BY DEF FlushOf, d
<1>4. off' = [off EXCEPT ![p] = Len(data[d]) + Len(fps)]
  BY DEF FlushOf, d
<1>5. buf' = [buf EXCEPT ![p] = << >>]
  BY DEF FlushOf
<1>6. data' \in [Dbs -> Seq(Fps)]
  BY <1>0, <1>2, <1>3 DEF TypeOK
<1>7. off' \in [Writers -> Nat]
  BY <1>2, <1>4 DEF TypeOK
<1>8. buf' \in [Writers -> Seq(Fps)]
  BY <1>2, <1>5 DEF TypeOK
<1>9. \A q \in Writers : Len(buf'[q]) < BufCap
  BY <1>2, <1>5, BufAssumption DEF TypeOK, WriterOK, BufAssumption
<1> QED  BY <1>6, <1>7, <1>8, <1>9

LEMMA OpenType ==
    ASSUME TypeOK, NEW p \in Writers, NEW d \in Dbs, OpenStream(p, d)
    PROVE  /\ off' \in [Writers -> Nat]
           /\ buf' \in [Writers -> Seq(Fps)]
           /\ \A q \in Writers : Len(buf'[q]) < BufCap
<1>1. Len(data[d]) \in Nat /\ << >> \in Seq(Fps) /\ Len(<< >>) = 0
  BY EmptySeq DEF TypeOK
<1>2. off' = [off EXCEPT ![p] = Len(data[d])] /\ buf' = [buf EXCEPT ![p] = << >>]
  BY DEF OpenStream
<1>3. off' \in [Writers -> Nat]
  BY <1>1, <1>2 DEF TypeOK
<1>4. buf' \in [Writers -> Seq(Fps)]
  BY <1>1, <1>2 DEF TypeOK
<1>5. \A q \in Writers : Len(buf'[q]) < BufCap
  BY <1>1, <1>2, BufAssumption DEF TypeOK, WriterOK, BufAssumption
<1> QED  BY <1>3, <1>4, <1>5

LEMMA PutType ==
    ASSUME TypeOK, NEW p \in Writers, Db(p) \in Dbs, NEW fp \in Fps, Put(p, fp)
    PROVE  /\ data' \in [Dbs -> Seq(Fps)]
           /\ off' \in [Writers -> Nat]
           /\ buf' \in [Writers -> Seq(Fps)]
           /\ \A q \in Writers : Len(buf'[q]) < BufCap
<1> DEFINE fps == Append(buf[p], fp)
<1>1. fps \in Seq(Fps)
  BY DEF TypeOK
<1>2. CASE Len(fps) < BufCap
  <2>1. buf' = [buf EXCEPT ![p] = fps] /\ data' = data /\ off' = off
    BY <1>2 DEF Put
  <2> HIDE DEF fps
  <2>2. buf' \in [Writers -> Seq(Fps)]
    BY <2>1, <1>1 DEF TypeOK
  <2>3. \A q \in Writers : Len(buf'[q]) < BufCap
    BY <2>1, <1>2 DEF TypeOK, WriterOK
  <2> QED  BY <2>1, <2>2, <2>3 DEF TypeOK
<1>3. CASE ~(Len(fps) < BufCap)
  <2>1. FlushOf(p, fps)
    BY <1>3 DEF Put
  <2> HIDE DEF fps
  <2> QED  BY <2>1, <1>1, FlushType
<1> QED  BY <1>2, <1>3

LEMMA TellType ==
    ASSUME TypeOK, NEW p \in Writers
    PROVE  Tell(p) \in Nat
BY DEF TypeOK, Tell

LEMMA AppendLineType ==
    ASSUME TypeOK, NEW d \in Dbs, NEW line \in Lines, AppendLine(d, line)
    PROVE  map' \in [Dbs -> Seq(Lines)]
<1>1. Append(map[d], line) \in Seq(Lines)
  BY DEF TypeOK
<1>2. map' = [map EXCEPT ![d] = Append(map[d], line)]
  BY DEF AppendLine
<1> QED  BY <1>1, <1>2 DEF TypeOK

-----------------------------------------------------------------------------
(* Type correctness.                                                       *)

LEMMA InitType == Init => TypeOK
<1> SUFFICES ASSUME Init PROVE TypeOK
  OBVIOUS
<1>1. << >> \in Seq(Fps) /\ << >> \in Seq(Lines) /\ << >> \in Seq(Dbs) /\ Len(<< >>) = 0
  BY EmptySeq
<1>2. NoJob \in Jobs
  BY <1>1 DEF NoJob, Jobs
<1>3. \A p \in Writers : WriterOK(p)
  BY <1>1, BufAssumption DEF Init, WriterOK, BufAssumption
<1> QED  BY <1>1, <1>2, <1>3 DEF Init, TypeOK, Labels

\* A step of one writer leaves what is known of the others.
LEMMA OthersOK ==
    ASSUME TypeOK, NEW p \in Writers, NEW q \in Writers, q # p,
           pc'[q] = pc[q], job'[q] = job[q], left'[q] = left[q], input'[q] = input[q],
           Len(buf'[q]) < BufCap
    PROVE  WriterOK(q)'
BY DEF TypeOK, WriterOK, Db

LEMMA InsertStartType ==
    ASSUME TypeOK, NEW p \in Writers, NEW d \in Dbs, NEW t \in Tracks, InsertStart(p, d, t)
    PROVE  TypeOK'
<1> DEFINE new == [db |-> d, track |-> t, inputs |-> << >>]
<1>1. /\ off' \in [Writers -> Nat]
      /\ buf' \in [Writers -> Seq(Fps)]
      /\ \A q \in Writers : Len(buf'[q]) < BufCap
  BY OpenType DEF InsertStart
<1>2. new \in Jobs
  BY EmptySeq DEF Jobs
<1>3. FpCount[t] \in Nat
  BY CountAssumption DEF CountAssumption
<1>4. /\ job' = [job EXCEPT ![p] = new]
      /\ left' = [left EXCEPT ![p] = FpCount[t]]
      /\ pc' = [pc EXCEPT ![p] = "write"]
      /\ UNCHANGED <<data, map, input, cursor, base, indexed>>
  BY DEF InsertStart, Go
<1>5. new.db = d /\ new.track = t
  OBVIOUS
<1> HIDE DEF new
<1>6. job' \in [Writers -> Jobs]
  BY <1>2, <1>4 DEF TypeOK
<1>7. left' \in [Writers -> Nat] /\ pc' \in [Writers -> Labels]
  BY <1>3, <1>4 DEF TypeOK, Labels
<1>8. WriterOK(p)'
  BY <1>1, <1>3, <1>4, <1>5 DEF TypeOK, WriterOK, Db
<1>9. \A q \in Writers : q # p => WriterOK(q)'
  BY <1>1, <1>4, OthersOK DEF TypeOK
<1> QED  BY <1>1, <1>4, <1>6, <1>7, <1>8, <1>9 DEF TypeOK

LEMMA InsertWritePuts ==
    ASSUME TypeOK, NEW p \in Writers, InsertWrite(p)
    PROVE  /\ \E fp \in Fps : Put(p, fp)
           /\ Db(p) \in Dbs /\ job[p].track \in Tracks
           /\ left[p] \in Nat /\ left[p] > 0
           /\ FpCount[job[p].track] \in Nat /\ left[p] <= FpCount[job[p].track]
<1> DEFINE k == FpCount[job[p].track] - left[p] + 1
<1>1. /\ pc[p] = "write" /\ left[p] > 0 /\ WriterOK(p) /\ left[p] \in Nat
  BY DEF InsertWrite, TypeOK
<1>2. /\ job[p].track \in Tracks /\ left[p] <= FpCount[job[p].track] /\ Db(p) \in Dbs
  BY <1>1 DEF WriterOK
<1>3. FpCount[job[p].track] \in Nat
  BY <1>2, CountAssumption DEF CountAssumption
<1>4. k \in Nat \ {0}
  BY <1>1, <1>2, <1>3
<1>5. Fp(job[p].track, k) \in Fps
  BY <1>2, <1>4 DEF Fp, Fps
<1>6. Put(p, Fp(job[p].track, k))
  BY DEF InsertWrite
<1> QED  BY <1>1, <1>2, <1>3, <1>5, <1>6

LEMMA InsertWriteType ==
    ASSUME TypeOK, NEW p \in Writers, InsertWrite(p)
    PROVE  TypeOK'
<1>1. /\ pc[p] = "write" /\ WriterOK(p)
      /\ left[p] \in Nat /\ left[p] > 0 /\ FpCount[job[p].track] \in Nat
      /\ left[p] <= FpCount[job[p].track] /\ Db(p) \in Dbs /\ job[p].track \in Tracks
  BY InsertWritePuts DEF InsertWrite, TypeOK
<1>6. /\ data' \in [Dbs -> Seq(Fps)]
      /\ off' \in [Writers -> Nat]
      /\ buf' \in [Writers -> Seq(Fps)]
      /\ \A q \in Writers : Len(buf'[q]) < BufCap
  BY <1>1, InsertWritePuts, PutType
<1>7. /\ left' = [left EXCEPT ![p] = left[p] - 1]
      /\ UNCHANGED <<map, pc, job, input, cursor, base, indexed>>
  BY DEF InsertWrite
<1>8. left' \in [Writers -> Nat]
  BY <1>1, <1>7 DEF TypeOK
<1>9. left'[p] <= FpCount[job[p].track]
  BY <1>1, <1>7 DEF TypeOK
<1>10. WriterOK(p)'
  BY <1>1, <1>6, <1>7, <1>9 DEF WriterOK, Db
<1>11. \A q \in Writers : q # p => WriterOK(q)'
  BY <1>6, <1>7, OthersOK DEF TypeOK
<1> QED  BY <1>6, <1>7, <1>8, <1>10, <1>11 DEF TypeOK

LEMMA InsertCloseType ==
    ASSUME TypeOK, NEW p \in Writers, InsertClose(p)
    PROVE  TypeOK'
<1>1. /\ pc[p] = "write" /\ WriterOK(p) /\ buf[p] \in Seq(Fps) /\ FlushOf(p, buf[p])
  BY DEF InsertClose, TypeOK
<1>2. Db(p) \in Dbs
  BY <1>1 DEF WriterOK
<1>3. /\ data' \in [Dbs -> Seq(Fps)]
      /\ off' \in [Writers -> Nat]
      /\ buf' \in [Writers -> Seq(Fps)]
      /\ \A q \in Writers : Len(buf'[q]) < BufCap
  BY <1>1, <1>2, FlushType
<1>4. /\ base' = [base EXCEPT ![p] = Tell(p)]
      /\ pc' = [pc EXCEPT ![p] = "map"]
      /\ UNCHANGED <<map, job, left, input, cursor, indexed>>
  BY DEF InsertClose, Go
<1>5. base' \in [Writers -> Nat] /\ pc' \in [Writers -> Labels]
  BY <1>4, TellType DEF TypeOK, Labels
<1>6. WriterOK(p)'
  BY <1>1, <1>3, <1>4 DEF TypeOK, WriterOK, Db
<1>7. \A q \in Writers : q # p => WriterOK(q)'
  BY <1>3, <1>4, OthersOK DEF TypeOK
<1> QED  BY <1>3, <1>4, <1>5, <1>6, <1>7 DEF TypeOK

\* An invocation is over: nothing is known of its job any more.
LEMMA IdleType ==
    ASSUME TypeOK, NEW p \in Writers,
           pc' = [pc EXCEPT ![p] = "idle"], job' = [job EXCEPT ![p] = NoJob],
           data' \in [Dbs -> Seq(Fps)], map' \in [Dbs -> Seq(Lines)],
           off' \in [Writers -> Nat], buf' \in [Writers -> Seq(Fps)],
           \A q \in Writers : Len(buf'[q]) < BufCap,
           UNCHANGED <<left, input, cursor, base>>, indexed' \subseteq Dbs \X Tracks
    PROVE  TypeOK'
<1>1. NoJob \in Jobs
  BY EmptySeq DEF NoJob, Jobs
<1>2. job' \in [Writers -> Jobs] /\ pc' \in [Writers -> Labels]
  BY <1>1 DEF TypeOK, Labels
<1>3. WriterOK(p)'
  BY DEF TypeOK, WriterOK
<1>4. \A q \in Writers : q # p => WriterOK(q)'
  BY OthersOK DEF TypeOK
<1> QED  BY <1>2, <1>3, <1>4 DEF TypeOK

LEMMA InsertMapType ==
    ASSUME TypeOK, NEW p \in Writers, InsertMap(p)
    PROVE  TypeOK'
<1>1. pc[p] = "map" /\ WriterOK(p) /\ base[p] \in Nat
  BY DEF InsertMap, TypeOK
<1>2. Db(p) \in Dbs /\ job[p].track \in Tracks
  BY <1>1 DEF WriterOK
<1>3. Line(base[p], job[p].track) \in Lines
  BY <1>1, <1>2 DEF Line, Lines, Names
<1>4. map' \in [Dbs -> Seq(Lines)]
  <2>1. CASE Db(p) \in InDir
    BY <2>1 DEF InsertMap, TypeOK
  <2>2. CASE Db(p) \notin InDir
    BY <2>2, <1>2, <1>3, AppendLineType DEF InsertMap
  <2> QED  BY <2>1, <2>2
<1>5. indexed' \subseteq Dbs \X Tracks
  BY <1>2 DEF InsertMap, TypeOK
<1>6. /\ pc' = [pc EXCEPT ![p] = "idle"] /\ job' = [job EXCEPT ![p] = NoJob]
      /\ UNCHANGED <<data, off, buf, left, input, cursor, base>>
  BY DEF InsertMap, Go
<1>7. \A q \in Writers : Len(buf'[q]) < BufCap
  BY <1>6 DEF TypeOK, WriterOK
<1> QED  BY <1>4, <1>5, <1>6, <1>7, IdleType DEF TypeOK

LEMMA CrashType ==
    ASSUME TypeOK, NEW p \in Writers, Crash(p)
    PROVE  TypeOK'
<1>1. << >> \in Seq(Fps) /\ Len(<< >>) = 0
  BY EmptySeq
<1>2. /\ pc' = [pc EXCEPT ![p] = "idle"] /\ job' = [job EXCEPT ![p] = NoJob]
      /\ buf' = [buf EXCEPT ![p] = << >>]
      /\ UNCHANGED <<data, map, off, left, input, cursor, base, indexed>>
  BY DEF Crash, Go
<1>3. buf' \in [Writers -> Seq(Fps)]
  BY <1>1, <1>2 DEF TypeOK
<1>4. \A q \in Writers : Len(buf'[q]) < BufCap
  BY <1>1, <1>2, BufAssumption DEF TypeOK, WriterOK, BufAssumption
<1> QED  BY <1>2, <1>3, <1>4, IdleType DEF TypeOK

LEMMA MergeStartType ==
    ASSUME TypeOK, NEW p \in Writers, NEW m \in MergeJobs, MergeStart(p, m)
    PROVE  TypeOK'
<1> DEFINE new == [db |-> m.out, track |-> NoDb, inputs |-> m.inputs]
<1>1. m.out \in Dbs /\ m.inputs \in Seq(Dbs)
  BY MergeAssumption DEF MergeAssumption
<1>2. /\ off' \in [Writers -> Nat]
      /\ buf' \in [Writers -> Seq(Fps)]
      /\ \A q \in Writers : Len(buf'[q]) < BufCap
  BY <1>1, OpenType DEF MergeStart
<1>3. new \in Jobs /\ new.db = m.out
  BY <1>1 DEF Jobs
<1>4. /\ job' = [job EXCEPT ![p] = new]
      /\ input' = [input EXCEPT ![p] = 1]
      /\ pc' = [pc EXCEPT ![p] = "input"]
      /\ UNCHANGED <<data, map, left, cursor, base, indexed>>
  BY DEF MergeStart, Go
<1> HIDE DEF new
<1>5. job' \in [Writers -> Jobs]
  BY <1>3, <1>4 DEF TypeOK
<1>6. input' \in [Writers -> Nat] /\ pc' \in [Writers -> Labels]
  BY <1>4 DEF TypeOK, Labels
<1>7. WriterOK(p)'
  BY <1>1, <1>2, <1>3, <1>4 DEF TypeOK, WriterOK, Db
<1>8. \A q \in Writers : q # p => WriterOK(q)'
  BY <1>2, <1>4, OthersOK DEF TypeOK
<1> QED  BY <1>2, <1>4, <1>5, <1>6, <1>7, <1>8 DEF TypeOK

\* A step of a merge between the places in its loops
LEMMA MergeMoveType ==
    ASSUME TypeOK, NEW p \in Writers, NEW label \in {"input", "copy", "lines"},
           pc[p] \in {"input", "copy", "lines"}, pc' = [pc EXCEPT ![p] = label],
           data' \in [Dbs -> Seq(Fps)], map' \in [Dbs -> Seq(Lines)],
           off' \in [Writers -> Nat], buf' \in [Writers -> Seq(Fps)],
           \A q \in Writers : Len(buf'[q]) < BufCap,
           cursor' \in [Writers -> Nat], base' \in [Writers -> Nat],
           input' \in [Writers -> Nat],
           \A q \in Writers : q # p => input'[q] = input[q],
           input'[p] > 0,
           label # "input" => input'[p] \in 1..Len(job[p].inputs),
           UNCHANGED <<job, left, indexed>>
    PROVE  TypeOK'
<1>1. pc' \in [Writers -> Labels]
  BY DEF TypeOK, Labels
<1>2. WriterOK(p)'
  BY DEF TypeOK, WriterOK, Db
<1>3. \A q \in Writers : q # p => WriterOK(q)'
  BY OthersOK DEF TypeOK
<1> QED  BY <1>1, <1>2, <1>3 DEF TypeOK

LEMMA MergeOpenInputType ==
    ASSUME TypeOK, NEW p \in Writers, MergeOpenInput(p)
    PROVE  TypeOK'
<1>1. /\ pc[p] = "input" /\ WriterOK(p) /\ input[p] <= Len(job[p].inputs)
      /\ pc' = [pc EXCEPT ![p] = "copy"]
      /\ base' = [base EXCEPT ![p] = Tell(p)]
      /\ cursor' = [cursor EXCEPT ![p] = 0]
      /\ UNCHANGED <<data, map, job, off, buf, left, input, indexed>>
  BY DEF MergeOpenInput, Go, TypeOK
<1>2. base' \in [Writers -> Nat] /\ cursor' \in [Writers -> Nat]
  BY <1>1, TellType DEF TypeOK
<1>3. input[p] \in 1..Len(job[p].inputs) /\ input[p] > 0
  BY <1>1 DEF TypeOK, WriterOK, Jobs
<1>4. \A q \in Writers : Len(buf'[q]) < BufCap
  BY <1>1 DEF TypeOK, WriterOK
<1> QED  BY <1>1, <1>2, <1>3, <1>4, MergeMoveType DEF TypeOK

\* The input that is being copied
LEMMA InputType ==
    ASSUME TypeOK, NEW p \in Writers, pc[p] \in {"copy", "lines"}
    PROVE  /\ Input(p) \in Dbs /\ data[Input(p)] \in Seq(Fps)
           /\ map[Input(p)] \in Seq(Lines)
           /\ Db(p) \in Dbs
           /\ input[p] \in 1..Len(job[p].inputs) /\ input[p] \in Nat /\ input[p] > 0
<1>1. /\ input[p] \in 1..Len(job[p].inputs) /\ job[p].inputs \in Seq(Dbs)
      /\ Db(p) \in Dbs
  BY DEF TypeOK, WriterOK, Jobs
<1>2. Input(p) \in Dbs
  BY <1>1, ElementOfSeq DEF Input
<1> QED  BY <1>1, <1>2 DEF TypeOK

LEMMA MergeCopyPuts ==
    ASSUME TypeOK, NEW p \in Writers, MergeCopy(p)
    PROVE  \E fp \in Fps : Put(p, fp)
<1>1. /\ pc[p] = "copy" /\ cursor[p] < Len(data[Input(p)]) /\ cursor[p] \in Nat
      /\ Put(p, data[Input(p)][cursor[p] + 1])
  BY DEF MergeCopy, TypeOK
<1>2. data[Input(p)] \in Seq(Fps)
  BY <1>1, InputType
<1>3. cursor[p] + 1 \in 1..Len(data[Input(p)])
  BY <1>1, <1>2, LenProperties
<1>4. data[Input(p)][cursor[p] + 1] \in Fps
  BY <1>2, <1>3, ElementOfSeq
<1> QED  BY <1>1, <1>4

LEMMA MergeCopyType ==
    ASSUME TypeOK, NEW p \in Writers, MergeCopy(p)
    PROVE  TypeOK'
<1>1. /\ pc[p] = "copy"
      /\ cursor' = [cursor EXCEPT ![p] = cursor[p] + 1]
      /\ UNCHANGED <<map, pc, job, left, input, base, indexed>>
  BY DEF MergeCopy
<1>2. Db(p) \in Dbs /\ input[p] \in 1..Len(job[p].inputs) /\ input[p] > 0
  BY <1>1, InputType
<1>3. /\ data' \in [Dbs -> Seq(Fps)]
      /\ off' \in [Writers -> Nat]
      /\ buf' \in [Writers -> Seq(Fps)]
      /\ \A q \in Writers : Len(buf'[q]) < BufCap
  BY <1>2, MergeCopyPuts, PutType
<1>4. cursor' \in [Writers -> Nat] /\ pc' = [pc EXCEPT ![p] = "copy"]
  BY <1>1 DEF TypeOK
<1> QED  BY <1>1, <1>2, <1>3, <1>4, MergeMoveType DEF TypeOK

LEMMA MergeCopiedType ==
    ASSUME TypeOK, NEW p \in Writers, MergeCopied(p)
    PROVE  TypeOK'
<1>1. /\ pc[p] = "copy"
      /\ pc' = [pc EXCEPT ![p] = "lines"]
      /\ cursor' = [cursor EXCEPT ![p] = 0]
      /\ UNCHANGED <<data, map, job, off, buf, left, input, base, indexed>>
  BY DEF MergeCopied, Go
<1>2. cursor' \in [Writers -> Nat]
  BY <1>1 DEF TypeOK
<1>3. input[p] \in 1..Len(job[p].inputs) /\ input[p] > 0
  BY <1>1, InputType
<1>4. \A q \in Writers : Len(buf'[q]) < BufCap
  BY <1>1 DEF TypeOK, WriterOK
<1> QED  BY <1>1, <1>2, <1>3, <1>4, MergeMoveType DEF TypeOK

\* Every line a merge adds is one of its input with the end moved on.
LEMMA MergeLineAdds ==
    ASSUME TypeOK, NEW p \in Writers, MergeLine(p)
    PROVE  \E line \in Lines : AppendLine(Db(p), line)
<1> DEFINE lines == ReadMap(map[Input(p)])
           i     == cursor[p] + 1
<1>1. pc[p] = "lines" /\ i <= Len(lines) /\ cursor[p] \in Nat /\ base[p] \in Nat
  BY DEF MergeLine, TypeOK
<1>2. lines \in Seq(Lines)
  BY <1>1, InputType, ReadMapType
<1>3. AppendLine(Db(p), Line(lines[i].end + base[p], lines[i].name))
  BY DEF MergeLine
<1> HIDE DEF lines
<1>4. i \in 1..Len(lines)
  BY <1>1, <1>2, LenProperties
<1> HIDE DEF i
<1>5. lines[i] \in Lines
  BY <1>2, <1>4, ElementOfSeq
<1>6. Line(lines[i].end + base[p], lines[i].name) \in Lines
  BY <1>1, <1>5 DEF Line, Lines
<1> QED  BY <1>3, <1>6

LEMMA MergeLineType ==
    ASSUME TypeOK, NEW p \in Writers, MergeLine(p)
    PROVE  TypeOK'
<1>1. /\ pc[p] = "lines" /\ cursor[p] \in Nat
      /\ cursor' = [cursor EXCEPT ![p] = cursor[p] + 1]
      /\ UNCHANGED <<data, pc, job, off, buf, left, input, base, indexed>>
  BY DEF MergeLine, TypeOK
<1>2. map' \in [Dbs -> Seq(Lines)]
  BY <1>1, InputType, MergeLineAdds, AppendLineType
<1>3. cursor' \in [Writers -> Nat] /\ pc' = [pc EXCEPT ![p] = "lines"]
  BY <1>1 DEF TypeOK
<1>4. input[p] \in 1..Len(job[p].inputs) /\ input[p] > 0
  BY <1>1, InputType
<1>5. \A q \in Writers : Len(buf'[q]) < BufCap
  BY <1>1 DEF TypeOK, WriterOK
<1> QED  BY <1>1, <1>2, <1>3, <1>4, <1>5, MergeMoveType DEF TypeOK

LEMMA MergeNextInputType ==
    ASSUME TypeOK, NEW p \in Writers, MergeNextInput(p)
    PROVE  TypeOK'
<1>1. /\ pc[p] = "lines"
      /\ pc' = [pc EXCEPT ![p] = "input"]
      /\ input' = [input EXCEPT ![p] = input[p] + 1]
      /\ UNCHANGED <<data, map, job, off, buf, left, cursor, base, indexed>>
  BY DEF MergeNextInput, Go
<1>2. /\ input' \in [Writers -> Nat] /\ input'[p] > 0
      /\ \A q \in Writers : q # p => input'[q] = input[q]
  BY <1>1 DEF TypeOK
<1>3. \A q \in Writers : Len(buf'[q]) < BufCap
  BY <1>1 DEF TypeOK, WriterOK
<1> QED  BY <1>1, <1>2, <1>3, MergeMoveType DEF TypeOK

LEMMA MergeEndType ==
    ASSUME TypeOK, NEW p \in Writers, MergeEnd(p)
    PROVE  TypeOK'
<1>1. /\ WriterOK(p) /\ pc[p] = "input" /\ buf[p] \in Seq(Fps) /\ FlushOf(p, buf[p])
      /\ pc' = [pc EXCEPT ![p] = "idle"] /\ job' = [job EXCEPT ![p] = NoJob]
      /\ UNCHANGED <<map, left, input, cursor, base, indexed>>
  BY DEF MergeEnd, Go, TypeOK
<1>2. Db(p) \in Dbs
  BY <1>1 DEF WriterOK
<1>3. /\ data' \in [Dbs -> Seq(Fps)]
      /\ off' \in [Writers -> Nat]
      /\ buf' \in [Writers -> Seq(Fps)]
      /\ \A q \in Writers : Len(buf'[q]) < BufCap
  BY <1>1, <1>2, FlushType
<1> QED  BY <1>1, <1>3, IdleType DEF TypeOK

\* What a query or a stuttering step leaves unchanged is all that is typed.
LEMMA SameType ==
    ASSUME TypeOK,
           UNCHANGED <<data, map, pc, job, off, buf, left, input, cursor, base, indexed>>
    PROVE  TypeOK'
BY DEF TypeOK, WriterOK, Db

LEMMA StepType == TypeOK /\ [Next]_vars => TypeOK'
<1> SUFFICES ASSUME TypeOK, [Next]_vars PROVE TypeOK'
  OBVIOUS
<1>1. ASSUME NEW p \in Writers, NEW d \in Dbs, NEW t \in Tracks, InsertStart(p, d, t)
      PROVE  TypeOK'
  BY <1>1, InsertStartType
<1>2. ASSUME NEW p \in Writers, NEW m \in MergeJobs, MergeStart(p, m)
      PROVE  TypeOK'
  BY <1>2, MergeStartType
<1>3. ASSUME NEW p \in Writers, Working(p) PROVE TypeOK'
  BY <1>3, InsertWriteType, InsertCloseType, InsertMapType, MergeOpenInputType, MergeCopyType,
     MergeCopiedType, MergeLineType, MergeNextInputType, MergeEndType DEF Working
<1>4. ASSUME NEW p \in Writers, Crash(p) PROVE TypeOK'
  BY <1>4, CrashType
<1>5. ASSUME NEW r \in Readers, NEW d \in Dbs, QueryOpen(r, d) PROVE TypeOK'
  BY <1>5, SameType DEF QueryOpen
<1>6. ASSUME NEW r \in Readers, QueryEnd(r) PROVE TypeOK'
  BY <1>6, SameType DEF QueryEnd
<1>7. CASE UNCHANGED vars
  BY <1>7, SameType DEF vars
<1> QED  BY <1>1, <1>2, <1>3, <1>4, <1>5, <1>6, <1>7 DEF Next

\* Every step keeps every variable in its type, whatever invocations run at
\* the same time and wherever one of them is killed: no merge reads an input
\* it was not given, and no stream holds back more than its buffer.
THEOREM TypeCorrect == Spec => []TypeOK
BY InitType, StepType, PTL DEF Spec

-----------------------------------------------------------------------------
(* The files only grow.                                                    *)

Prefix(s, t) == Len(s) <= Len(t) /\ \A i \in 1..Len(s) : t[i] = s[i]

LEMMA PrefixSelf ==
    ASSUME NEW S, NEW s \in Seq(S)
    PROVE  Prefix(s, s)
BY LenProperties DEF Prefix

\* What a sequence contains is what it has at its places.
LEMMA InRange ==
    ASSUME NEW S, NEW s \in Seq(S)
    PROVE  \A x : x \in Range(s) <=> \E i \in 1..Len(s) : s[i] = x
BY LenProperties DEF Range

LEMMA PrefixRange ==
    ASSUME NEW S, NEW s \in Seq(S), NEW t \in Seq(S), Prefix(s, t)
    PROVE  Range(s) \subseteq Range(t)
<1>1. Len(s) \in Nat /\ Len(t) \in Nat
  BY LenProperties
<1>2. ASSUME NEW x \in Range(s) PROVE x \in Range(t)
  <2>1. PICK i \in 1..Len(s) : s[i] = x
    BY <1>2, InRange
  <2>2. i \in 1..Len(t) /\ t[i] = x
    BY <1>1, <2>1 DEF Prefix
  <2> QED  BY <2>2, InRange
<1> QED  BY <1>2

LEMMA ConcatGrows ==
    ASSUME NEW S, NEW s \in Seq(S), NEW t \in Seq(S)
    PROVE  /\ Prefix(s, s \o t)
           /\ Range(s) \subseteq Range(s \o t)
           /\ Range(t) \subseteq Range(s \o t)
<1> DEFINE c == s \o t
<1>1. /\ c \in Seq(S) /\ Len(c) = Len(s) + Len(t) /\ Len(s) \in Nat /\ Len(t) \in Nat
      /\ \A i \in 1..Len(s) + Len(t) : c[i] = IF i <= Len(s) THEN s[i] ELSE t[i - Len(s)]
  BY ConcatProperties, LenProperties
<1> HIDE DEF c
<1>2. Prefix(s, c)
  BY <1>1 DEF Prefix
<1>3. Range(s) \subseteq Range(c)
  BY <1>1, <1>2, PrefixRange
<1>4. ASSUME NEW x \in Range(t) PROVE x \in Range(c)
  <2>1. PICK i \in 1..Len(t) : t[i] = x
    BY <1>4, InRange
  <2>2. Len(s) + i \in 1..Len(c) /\ c[Len(s) + i] = x
    BY <1>1, <2>1
  <2> QED  BY <1>1, <2>2, InRange
<1> QED  BY <1>2, <1>3, <1>4 DEF c

LEMMA AppendGrows ==
    ASSUME NEW S, NEW s \in Seq(S), NEW e \in S
    PROVE  /\ Prefix(s, Append(s, e)) /\ Append(s, e) \in Seq(S)
           /\ Range(Append(s, e)) = Range(s) \union {e}
<1> DEFINE t == Append(s, e)
<1>1. /\ t \in Seq(S) /\ Len(t) = Len(s) + 1 /\ Len(s) \in Nat
      /\ \A i \in 1..Len(s) : t[i] = s[i]
      /\ t[Len(s) + 1] = e
  BY LenProperties
<1> HIDE DEF t
<1>2. Prefix(s, t)
  BY <1>1 DEF Prefix
<1>3. Range(s) \subseteq Range(t)
  BY <1>1, <1>2, PrefixRange
<1>4. e \in Range(t)
  BY <1>1, InRange
<1>5. ASSUME NEW x \in Range(t) PROVE x \in Range(s) \union {e}
  <2>1. PICK i \in 1..Len(t) : t[i] = x
    BY <1>1, <1>5, InRange
  <2>2. CASE i \in 1..Len(s)
    BY <1>1, <2>1, <2>2, InRange
  <2>3. CASE i = Len(s) + 1
    BY <1>1, <2>1, <2>3
  <2> QED  BY <1>1, <2>1, <2>2, <2>3
<1> QED  BY <1>1, <1>2, <1>3, <1>4, <1>5 DEF t

LEMMA FlushGrows ==
    ASSUME TypeOK, NEW p \in Writers, Db(p) \in Dbs, NEW fps \in Seq(Fps), FlushOf(p, fps)
    PROVE  /\ \A d \in Dbs : Prefix(data[d], data'[d])
           /\ Range(data[Db(p)]) \subseteq Range(data'[Db(p)])
           /\ Range(fps) \subseteq Range(data'[Db(p)])
           /\ Len(data'[Db(p)]) = Len(data[Db(p)]) + Len(fps)
           /\ off'[p] = Len(data'[Db(p)])
<1> DEFINE e == Db(p)
<1>0. e \in Dbs /\ data[e] \in Seq(Fps)
  BY DEF TypeOK
<1>1. data' = [data EXCEPT ![e] = data[e] \o fps]
  BY DEF FlushOf
<1>2. off' = [off EXCEPT ![p] = Len(data[e]) + Len(fps)]
  BY DEF FlushOf
<1> HIDE DEF e
<1>3. data'[e] = data[e] \o fps /\ \A d \in Dbs : d # e => data'[d] = data[d]
  BY <1>0, <1>1 DEF TypeOK
<1>4. ASSUME NEW d \in Dbs PROVE Prefix(data[d], data'[d])
  <2>1. data[d] \in Seq(Fps)
    BY DEF TypeOK
  <2>2. CASE d = e
    BY <1>0, <1>3, <2>2, ConcatGrows
  <2>3. CASE d # e
    BY <1>3, <2>1, <2>3, PrefixSelf
  <2> QED  BY <2>2, <2>3
<1>5. Range(data[e]) \subseteq Range(data'[e]) /\ Range(fps) \subseteq Range(data'[e])
  BY <1>0, <1>3, ConcatGrows
<1>6. Len(data'[e]) = Len(data[e]) + Len(fps)
  BY <1>0, <1>3, ConcatProperties
<1>7. off'[p] = Len(data[e]) + Len(fps)
  BY <1>2 DEF TypeOK
<1> QED  BY <1>4, <1>5, <1>6, <1>7 DEF e

\* What a writer has handed to its stream is in the file or in the buffer.
Held(p) == Range(data[Db(p)]) \union Range(buf[p])

LEMMA PutGrows ==
    ASSUME TypeOK, NEW p \in Writers, Db(p) \in Dbs, NEW fp \in Fps, Put(p, fp), job' = job
    PROVE  /\ \A d \in Dbs : Prefix(data[d], data'[d])
           /\ Held(p) \union {fp} \subseteq Held(p)'
           /\ off[p] <= Len(data[Db(p)]) => off'[p] <= Len(data'[Db(p)])
           /\ \A q \in Writers : q # p => buf'[q] = buf[q] /\ off'[q] = off[q]
<1> DEFINE fps == Append(buf[p], fp)
<1>1. buf[p] \in Seq(Fps) /\ fps \in Seq(Fps) /\ Range(fps) = Range(buf[p]) \union {fp}
  BY AppendGrows DEF TypeOK
<1>2. Db(p)' = Db(p)
  BY DEF Db
<1>3. CASE Len(fps) < BufCap
  <2>1. buf' = [buf EXCEPT ![p] = fps] /\ data' = data /\ off' = off
    BY <1>3 DEF Put
  <2> HIDE DEF fps
  <2>2. buf'[p] = fps /\ \A q \in Writers : q # p => buf'[q] = buf[q]
    BY <2>1 DEF TypeOK
  <2>3. \A d \in Dbs : Prefix(data[d], data'[d])
    BY <2>1, PrefixSelf DEF TypeOK
  <2>4. Held(p) \union {fp} \subseteq Held(p)'
    BY <1>1, <1>2, <2>1, <2>2 DEF Held
  <2> QED  BY <2>1, <2>2, <2>3, <2>4
<1>4. CASE ~(Len(fps) < BufCap)
  <2>1. FlushOf(p, fps)
    BY <1>4 DEF Put
  <2> HIDE DEF fps
  <2>2. /\ \A d \in Dbs : Prefix(data[d], data'[d])
        /\ Range(data[Db(p)]) \subseteq Range(data'[Db(p)])
        /\ Range(fps) \subseteq Range(data'[Db(p)])
        /\ off'[p] = Len(data'[Db(p)])
    BY <1>1, <2>1, FlushGrows
  <2>3. Held(p) \union {fp} \subseteq Held(p)'
    BY <1>1, <1>2, <2>2 DEF Held
  <2>4. \A q \in Writers : q # p => buf'[q] = buf[q] /\ off'[q] = off[q]
    BY <2>1 DEF FlushOf, TypeOK
  <2>5. Len(data'[Db(p)]) \in Nat
    BY <1>1, <2>1, FlushType
  <2> QED  BY <2>2, <2>3, <2>4, <2>5
<1> QED  BY <1>3, <1>4

\* No program takes anything out of the fingerprint file or the catalogue.
LEMMA FilesGrow ==
    ASSUME TypeOK, [Next]_vars
    PROVE  \A d \in Dbs : Prefix(data[d], data'[d]) /\ Prefix(map[d], map'[d])
<1>1. ASSUME UNCHANGED data PROVE \A d \in Dbs : Prefix(data[d], data'[d])
  BY <1>1, PrefixSelf DEF TypeOK
<1>2. ASSUME UNCHANGED map PROVE \A d \in Dbs : Prefix(map[d], map'[d])
  BY <1>2, PrefixSelf DEF TypeOK
<1>3. ASSUME NEW e \in Dbs, NEW line \in Lines, AppendLine(e, line)
      PROVE  \A d \in Dbs : Prefix(map[d], map'[d])
  <2>1. map' = [map EXCEPT ![e] = Append(map[e], line)] /\ map[e] \in Seq(Lines)
    BY <1>3 DEF AppendLine, TypeOK
  <2>2. \A d \in Dbs : d # e => map'[d] = map[d]
    BY <2>1 DEF TypeOK
  <2>3. map'[e] = Append(map[e], line)
    BY <2>1 DEF TypeOK
  <2> QED  BY <2>1, <2>2, <2>3, AppendGrows, PrefixSelf DEF TypeOK
<1>4. ASSUME NEW p \in Writers, Working(p)
      PROVE  \A d \in Dbs : Prefix(data[d], data'[d]) /\ Prefix(map[d], map'[d])
  <2>0. /\ pc[p] # "idle" => Db(p) \in Dbs
        /\ pc[p] \in {"write", "map"} => job[p].track \in Tracks
        /\ buf[p] \in Seq(Fps) /\ base[p] \in Nat
    BY DEF TypeOK, WriterOK
  <2>1. CASE InsertWrite(p)
    <3>1. Db(p) \in Dbs /\ UNCHANGED map /\ UNCHANGED job
      BY <2>0, <2>1 DEF InsertWrite
    <3>2. \E fp \in Fps : Put(p, fp)
      BY <2>1, InsertWritePuts
    <3> QED  BY <3>1, <3>2, <1>2, PutGrows
  <2>2. CASE InsertClose(p)
    BY <2>0, <2>2, <1>2, FlushGrows DEF InsertClose
  <2>3. CASE InsertMap(p)
    <3>1. UNCHANGED data /\ Db(p) \in Dbs /\ Line(base[p], job[p].track) \in Lines
      BY <2>0, <2>3 DEF InsertMap, Line, Lines, Names
    <3>2. UNCHANGED map \/ AppendLine(Db(p), Line(base[p], job[p].track))
      BY <2>3 DEF InsertMap
    <3> QED  BY <3>1, <3>2, <1>1, <1>2, <1>3
  <2>4. CASE MergeOpenInput(p) \/ MergeCopied(p) \/ MergeNextInput(p)
    BY <2>4, <1>1, <1>2 DEF MergeOpenInput, MergeCopied, MergeNextInput
  <2>5. CASE MergeCopy(p)
    <3>1. Db(p) \in Dbs /\ UNCHANGED map /\ UNCHANGED job
      BY <2>0, <2>5 DEF MergeCopy
    <3>2. \E fp \in Fps : Put(p, fp)
      BY <2>5, MergeCopyPuts
    <3> QED  BY <3>1, <3>2, <1>2, PutGrows
  <2>6. CASE MergeLine(p)
    <3>1. UNCHANGED data /\ Db(p) \in Dbs
      BY <2>0, <2>6 DEF MergeLine
    <3> QED  BY <3>1, <2>6, <1>1, <1>3, MergeLineAdds
  <2>7. CASE MergeEnd(p)
    BY <2>0, <2>7, <1>2, FlushGrows DEF MergeEnd
  <2> QED  BY <1>4, <2>1, <2>2, <2>3, <2>4, <2>5, <2>6, <2>7 DEF Working
<1>5. CASE UNCHANGED <<data, map>>
  BY <1>5, <1>1, <1>2
<1>6. CASE \E p \in Writers : Working(p)
  BY <1>4, <1>6
<1> QED  BY <1>5, <1>6 DEF Next, InsertStart, MergeStart, Crash, QueryOpen, QueryEnd, vars

-----------------------------------------------------------------------------
(* An insertion that ran to its end is there, whatever else ran.           *)

\* What an insertion has handed on so far is in the file or in its buffer, and
\* all of it is in the file before the catalogue is written.
WriteInv ==
    \A p \in Writers :
        /\ pc[p] = "write" =>
               \A k \in 1..FpCount[job[p].track] :
                   k <= FpCount[job[p].track] - left[p] => Fp(job[p].track, k) \in Held(p)
        /\ pc[p] = "map" =>
               \A k \in 1..FpCount[job[p].track] :
                   Fp(job[p].track, k) \in Range(data[Db(p)])

LostInv == TypeOK /\ WriteInv /\ NothingLost

LEMMA InitLost == Init => LostInv
<1> SUFFICES ASSUME Init PROVE LostInv
  OBVIOUS
<1>1. TypeOK
  BY InitType
<1>2. WriteInv
  BY DEF Init, WriteInv
<1>3. NothingLost
  BY DEF Init, NothingLost
<1> QED  BY <1>1, <1>2, <1>3 DEF LostInv

\* What holds of a writer goes on holding while another one takes a step.
LEMMA HeldByOthers ==
    ASSUME LostInv, TypeOK', [Next]_vars, NEW q \in Writers,
           pc'[q] = pc[q], job'[q] = job[q], left'[q] = left[q], buf'[q] = buf[q]
    PROVE  /\ pc'[q] = "write" =>
                  \A k \in 1..FpCount[job'[q].track] :
                      k <= FpCount[job'[q].track] - left'[q] =>
                          Fp(job'[q].track, k) \in Held(q)'
           /\ pc'[q] = "map" =>
                  \A k \in 1..FpCount[job'[q].track] :
                      Fp(job'[q].track, k) \in Range(data'[Db(q)'])
<1>1. Db(q)' = Db(q)
  BY DEF Db
<1>2. ASSUME pc[q] # "idle" PROVE Range(data[Db(q)]) \subseteq Range(data'[Db(q)])
  <2>1. Db(q) \in Dbs
    BY <1>2 DEF LostInv, TypeOK, WriterOK
  <2>2. data[Db(q)] \in Seq(Fps) /\ data'[Db(q)] \in Seq(Fps)
    BY <2>1 DEF LostInv, TypeOK
  <2> QED  BY <2>1, <2>2, FilesGrow, PrefixRange DEF LostInv
<1>3. ASSUME pc[q] # "idle" PROVE Held(q) \subseteq Held(q)'
  BY <1>1, <1>2, <1>3 DEF Held
<1> QED  BY <1>1, <1>2, <1>3 DEF LostInv, WriteInv

LEMMA StepWrite ==
    ASSUME LostInv, TypeOK', [Next]_vars
    PROVE  WriteInv'
<1> SUFFICES ASSUME NEW q \in Writers
             PROVE  /\ pc'[q] = "write" =>
                           \A k \in 1..FpCount[job'[q].track] :
                               k <= FpCount[job'[q].track] - left'[q] =>
                                   Fp(job'[q].track, k) \in Held(q)'
                    /\ pc'[q] = "map" =>
                           \A k \in 1..FpCount[job'[q].track] :
                               Fp(job'[q].track, k) \in Range(data'[Db(q)'])
  BY DEF WriteInv
<1> DEFINE Same == /\ pc'[q] = pc[q] /\ job'[q] = job[q]
                   /\ left'[q] = left[q] /\ buf'[q] = buf[q]
           Elsewhere == pc'[q] \notin {"write", "map"}
<1>0. TypeOK
  BY DEF LostInv
<1>a. CASE Same
  BY <1>a, HeldByOthers
<1>b. CASE Elsewhere
  BY <1>b
<1>1. ASSUME NEW p \in Writers, NEW d \in Dbs, NEW t \in Tracks, InsertStart(p, d, t), ~Same
      PROVE  pc'[q] = "write" /\ left'[q] = FpCount[job'[q].track] /\ FpCount[job'[q].track] \in Nat
  <2>1. q = p
    BY <1>0, <1>1 DEF InsertStart, OpenStream, Go, TypeOK
  <2>2. job'[q].track = t /\ left'[q] = FpCount[t] /\ pc'[q] = "write"
    BY <1>0, <1>1, <2>1 DEF InsertStart, Go, TypeOK
  <2> QED  BY <2>2, CountAssumption DEF CountAssumption
<1>2. ASSUME NEW p \in Writers, InsertWrite(p), ~Same
      PROVE  /\ pc'[q] = "write" /\ job'[q] = job[q]
             /\ \A k \in 1..FpCount[job[q].track] :
                    k <= FpCount[job[q].track] - left'[q] => Fp(job[q].track, k) \in Held(q)'
  <2>1. /\ UNCHANGED pc /\ UNCHANGED job /\ pc[p] = "write"
        /\ left' = [left EXCEPT ![p] = left[p] - 1]
        /\ Put(p, Fp(job[p].track, FpCount[job[p].track] - left[p] + 1))
    BY <1>2 DEF InsertWrite
  <2>2. /\ Db(p) \in Dbs /\ left[p] \in Nat /\ left[p] > 0 /\ FpCount[job[p].track] \in Nat
        /\ left[p] <= FpCount[job[p].track] /\ job[p].track \in Tracks
    BY <1>0, <1>2, InsertWritePuts
  <2> DEFINE n == FpCount[job[p].track]
             f == Fp(job[p].track, n - left[p] + 1)
  <2>3. f \in Fps
    BY <2>2 DEF Fp, Fps
  <2>4. /\ Held(p) \union {f} \subseteq Held(p)'
        /\ \A r \in Writers : r # p => buf'[r] = buf[r]
    <3> HIDE DEF f
    <3>1. Put(p, f)
      BY <2>1 DEF f
    <3> QED  BY <1>0, <2>1, <2>2, <2>3, <3>1, PutGrows
  <2>5. q = p
    BY <1>0, <1>2, <2>1, <2>4 DEF TypeOK
  <2>6. left'[p] = left[p] - 1
    BY <1>0, <2>1 DEF TypeOK
  <2>7. ASSUME NEW k \in 1..n, k <= n - left'[p]
        PROVE  Fp(job[p].track, k) \in Held(p)'
    <3>1. CASE k <= n - left[p]
      BY <2>1, <2>4, <3>1 DEF LostInv, WriteInv
    <3>2. CASE k = n - left[p] + 1
      BY <2>4, <3>2
    <3> HIDE DEF n
    <3>3. n \in Nat
      BY <2>2 DEF n
    <3> QED  BY <2>2, <2>6, <2>7, <3>1, <3>2, <3>3
  <2> QED  BY <2>1, <2>5, <2>7
<1>3. ASSUME NEW p \in Writers, InsertClose(p), ~Same
      PROVE  /\ pc'[q] = "map" /\ job'[q] = job[q]
             /\ \A k \in 1..FpCount[job[q].track] : Fp(job[q].track, k) \in Range(data'[Db(q)])
  <2>1. /\ UNCHANGED job /\ UNCHANGED left /\ pc[p] = "write" /\ left[p] = 0
        /\ FlushOf(p, buf[p]) /\ pc' = [pc EXCEPT ![p] = "map"]
    BY <1>3 DEF InsertClose, Go
  <2>2. q = p
    BY <1>0, <1>3, <2>1 DEF FlushOf, TypeOK
  <2>3. Db(p) \in Dbs /\ job[p].track \in Tracks /\ buf[p] \in Seq(Fps) /\ pc'[p] = "map"
    BY <1>0, <2>1 DEF TypeOK, WriterOK
  <2>4. FpCount[job[p].track] \in Nat
    BY <2>3, CountAssumption DEF CountAssumption
  <2>5. Held(p) \subseteq Range(data'[Db(p)])
    BY <1>0, <2>1, <2>3, FlushGrows DEF Held
  <2>6. \A k \in 1..FpCount[job[p].track] : Fp(job[p].track, k) \in Held(p)
    BY <2>1, <2>4 DEF LostInv, WriteInv
  <2> QED  BY <2>1, <2>2, <2>3, <2>5, <2>6
<1>4. ASSUME NEW p \in Writers, Working(p), ~Same, ~InsertWrite(p), ~InsertClose(p)
      PROVE  Elsewhere
  <2>1. CASE InsertMap(p)
    BY <1>0, <1>4, <2>1 DEF InsertMap, Go, TypeOK
  <2>2. CASE MergeOpenInput(p) \/ MergeCopied(p) \/ MergeLine(p) \/ MergeNextInput(p)
    BY <1>0, <1>4, <2>2
    DEF MergeOpenInput, MergeCopied, MergeLine, MergeNextInput, Go, TypeOK
  <2>3. CASE MergeCopy(p)
    BY <1>0, <1>4, <2>3 DEF MergeCopy, Put, FlushOf, TypeOK
  <2>4. CASE MergeEnd(p)
    BY <1>0, <1>4, <2>4 DEF MergeEnd, FlushOf, Go, TypeOK
  <2> QED  BY <1>4, <2>1, <2>2, <2>3, <2>4 DEF Working
<1>5. ASSUME NEW p \in Writers, NEW m \in MergeJobs, MergeStart(p, m), ~Same
      PROVE  Elsewhere
  BY <1>0, <1>5 DEF MergeStart, OpenStream, Go, TypeOK
<1>6. ASSUME NEW p \in Writers, Crash(p), ~Same PROVE Elsewhere
  BY <1>0, <1>6 DEF Crash, Go, TypeOK
<1>7. CASE UNCHANGED <<pc, job, left, buf>>
  <2>1. Same
    BY <1>7
  <2> QED  BY <2>1, <1>a
<1> HIDE DEF Same, Elsewhere
<1>8. CASE \E p \in Writers, d \in Dbs, t \in Tracks : InsertStart(p, d, t) /\ ~Same
  <2>1. pc'[q] = "write" /\ left'[q] = FpCount[job'[q].track] /\ FpCount[job'[q].track] \in Nat
    BY <1>1, <1>8
  <2> QED  BY <2>1
<1>9. CASE \E p \in Writers : InsertWrite(p) /\ ~Same
  <2>1. /\ pc'[q] = "write" /\ job'[q] = job[q]
        /\ \A k \in 1..FpCount[job[q].track] :
              k <= FpCount[job[q].track] - left'[q] => Fp(job[q].track, k) \in Held(q)'
    BY <1>2, <1>9
  <2> QED  BY <2>1
<1>10. CASE \E p \in Writers : InsertClose(p) /\ ~Same
  <2>1. /\ pc'[q] = "map" /\ job'[q] = job[q]
        /\ \A k \in 1..FpCount[job[q].track] : Fp(job[q].track, k) \in Range(data'[Db(q)])
    BY <1>3, <1>10
  <2>2. Db(q)' = Db(q)
    BY <2>1 DEF Db
  <2> QED  BY <2>1, <2>2
<1>11. CASE Next
  BY <1>a, <1>b, <1>4, <1>5, <1>6, <1>7, <1>8, <1>9, <1>10, <1>11 DEF Next, QueryOpen, QueryEnd
<1> QED  BY <1>7, <1>11 DEF vars

\* What was in the files and the catalogue stays there.
LEMMA StillThere ==
    ASSUME LostInv, TypeOK', [Next]_vars,
           NEW d \in Dbs, NEW t \in Tracks, Kept(d, t)
    PROVE  Kept(d, t)'
<1>1. /\ data[d] \in Seq(Fps) /\ data'[d] \in Seq(Fps)
      /\ map[d] \in Seq(Lines) /\ map'[d] \in Seq(Lines)
  BY DEF LostInv, TypeOK
<1>2. Prefix(data[d], data'[d]) /\ Prefix(map[d], map'[d])
  BY FilesGrow DEF LostInv
<1>3. Range(data[d]) \subseteq Range(data'[d])
  BY <1>1, <1>2, PrefixRange
<1>4. ASSUME NEW i \in DOMAIN map[d] PROVE i \in DOMAIN map'[d] /\ map'[d][i] = map[d][i]
  BY <1>1, <1>2, LenProperties DEF Prefix
<1> QED  BY <1>3, <1>4 DEF Kept

LEMMA StepLost == LostInv /\ [Next]_vars => LostInv'
<1> SUFFICES ASSUME LostInv, [Next]_vars PROVE LostInv'
  OBVIOUS
<1>1. TypeOK'
  BY StepType DEF LostInv
<1>2. WriteInv'
  BY <1>1, StepWrite
<1>3. \A w \in indexed : Kept(w[1], w[2])'
  <2>1. \A w \in indexed : w[1] \in Dbs /\ w[2] \in Tracks /\ Kept(w[1], w[2])
    BY DEF LostInv, TypeOK, NothingLost
  <2> QED  BY <1>1, <2>1, StillThere
<1>4. ASSUME NEW p \in Writers, InsertMap(p) PROVE NothingLost'
  <2>1. pc[p] = "map" /\ Db(p) \in Dbs /\ job[p].track \in Tracks /\ base[p] \in Nat
    BY <1>4 DEF InsertMap, LostInv, TypeOK, WriterOK
  <2>2. PICK d \in Dbs, t \in Tracks : d = Db(p) /\ t = job[p].track
    BY <2>1
  <2>3. data' = data /\ indexed' = indexed \union {<<d, t>>}
    BY <1>4, <2>2 DEF InsertMap
  <2>4. \A k \in 1..FpCount[t] : Fp(t, k) \in Range(data'[d])
    BY <2>1, <2>2, <2>3 DEF LostInv, WriteInv
  <2>5. ASSUME d \notin InDir PROVE \E i \in DOMAIN map'[d] : map'[d][i].name = t
    <3>1. PICK line \in Lines : line = Line(base[p], t)
      BY <2>1 DEF Line, Lines, Names
    <3>2. AppendLine(d, line) /\ line.name = t
      BY <1>4, <2>2, <2>5, <3>1 DEF InsertMap, Line
    <3>3. map[d] \in Seq(Lines)
      BY DEF LostInv, TypeOK
    <3>4. map'[d] = Append(map[d], line)
      BY <3>2 DEF AppendLine, LostInv, TypeOK
    <3>5. Len(map[d]) + 1 \in DOMAIN map'[d] /\ map'[d][Len(map[d]) + 1] = line
      BY <3>3, <3>4
    <3> QED  BY <3>2, <3>5
  <2>6. Kept(d, t)'
    BY <2>4, <2>5 DEF Kept
  <2>7. \A w \in indexed' : w \in indexed \/ (w[1] = d /\ w[2] = t)
    BY <2>3
  <2> QED  BY <1>3, <2>6, <2>7 DEF NothingLost
<1>5. ASSUME indexed' = indexed PROVE NothingLost'
  BY <1>3, <1>5 DEF NothingLost
<1>6. NothingLost'
  BY <1>4, <1>5 DEF Next, Working, InsertStart, InsertWrite, InsertClose, MergeStart,
     MergeOpenInput, MergeCopy, MergeCopied, MergeLine, MergeNextInput, MergeEnd, Crash,
     QueryOpen, QueryEnd, vars
<1> QED  BY <1>1, <1>2, <1>6 DEF LostInv

\* Whatever insertions and merges run at the same time, without any lock, and
\* wherever some of them are killed: an insertion that ran to its end has all
\* its fingerprints in the file and its line in the catalogue.
THEOREM InsertionsAreKept == Spec => []NothingLost
<1>1. LostInv => NothingLost
  BY DEF LostInv
<1> QED  BY <1>1, InitLost, StepLost, PTL DEF Spec

-----------------------------------------------------------------------------
(* Between insertions, an entry never lies beyond the file.                *)

\* Where an insertion's stream was at its last flush, and the end it found
\* when it closed the stream, lie in the file.
StreamInv ==
    \A p \in Writers :
        /\ pc[p] \in {"idle", "write", "map"}
        /\ pc[p] = "write" => off[p] <= Len(data[Db(p)])
        /\ pc[p] = "map" => base[p] <= Len(data[Db(p)])

CoverInv == TypeOK /\ StreamInv /\ EndsCovered

LEMMA InitCover == Init => CoverInv
<1> SUFFICES ASSUME Init PROVE CoverInv
  OBVIOUS
<1>1. TypeOK
  BY InitType
<1>2. StreamInv
  BY DEF Init, StreamInv
<1>3. EndsCovered
  BY EmptySeq DEF Init, EndsCovered
<1> QED  BY <1>1, <1>2, <1>3 DEF CoverInv

\* A file is no shorter after a step.
LEMMA FileLonger ==
    ASSUME TypeOK, TypeOK', [Next]_vars, NEW d \in Dbs
    PROVE  /\ Len(data[d]) <= Len(data'[d])
           /\ Len(data[d]) \in Nat /\ Len(data'[d]) \in Nat
<1>1. data[d] \in Seq(Fps) /\ data'[d] \in Seq(Fps)
  BY DEF TypeOK
<1> QED  BY <1>1, FilesGrow, LenProperties DEF Prefix

\* What holds of an insertion goes on holding while another one takes a step.
LEMMA StreamOfOthers ==
    ASSUME CoverInv, TypeOK', [Next]_vars, NEW q \in Writers,
           pc'[q] = pc[q], job'[q] = job[q], off'[q] = off[q], base'[q] = base[q]
    PROVE  /\ pc'[q] \in {"idle", "write", "map"}
           /\ pc'[q] = "write" => off'[q] <= Len(data'[Db(q)'])
           /\ pc'[q] = "map" => base'[q] <= Len(data'[Db(q)'])
<1>1. Db(q)' = Db(q)
  BY DEF Db
<1>2. CASE pc[q] = "idle"
  BY <1>2
<1>3. CASE pc[q] # "idle"
  <2>1. Db(q) \in Dbs /\ off[q] \in Nat /\ base[q] \in Nat
    BY <1>3 DEF CoverInv, TypeOK, WriterOK
  <2> DEFINE n == Len(data[Db(q)])  m == Len(data'[Db(q)])
  <2>2. n <= m /\ n \in Nat /\ m \in Nat
    BY <2>1, FileLonger DEF CoverInv
  <2>3. /\ pc[q] \in {"idle", "write", "map"}
        /\ pc[q] = "write" => off[q] <= n
        /\ pc[q] = "map" => base[q] <= n
    BY DEF CoverInv, StreamInv
  <2> HIDE DEF n, m
  <2>4. (off[q] <= n => off[q] <= m) /\ (base[q] <= n => base[q] <= m)
    BY <2>1, <2>2
  <2> QED  BY <1>1, <2>3, <2>4 DEF m
<1> QED  BY <1>2, <1>3

LEMMA StepStream ==
    ASSUME MergeJobs = {}, CoverInv, TypeOK', [Next]_vars
    PROVE  StreamInv'
<1> SUFFICES ASSUME NEW q \in Writers
             PROVE  /\ pc'[q] \in {"idle", "write", "map"}
                    /\ pc'[q] = "write" => off'[q] <= Len(data'[Db(q)'])
                    /\ pc'[q] = "map" => base'[q] <= Len(data'[Db(q)'])
  BY DEF StreamInv
<1> DEFINE Same == /\ pc'[q] = pc[q] /\ job'[q] = job[q]
                   /\ off'[q] = off[q] /\ base'[q] = base[q]
<1>0. TypeOK /\ TypeOK' /\ \A p \in Writers : pc[p] \in {"idle", "write", "map"}
  BY DEF CoverInv, StreamInv
<1>a. CASE Same
  BY <1>a, StreamOfOthers
<1>b. CASE pc'[q] = "idle"
  BY <1>b
<1>1. ASSUME NEW p \in Writers, NEW d \in Dbs, NEW t \in Tracks, InsertStart(p, d, t), ~Same
      PROVE  pc'[q] = "write" /\ off'[q] = Len(data'[Db(q)']) /\ Len(data'[Db(q)']) \in Nat
  <2>1. q = p
    BY <1>0, <1>1 DEF InsertStart, OpenStream, Go, TypeOK
  <2>2. /\ job'[q].db = d /\ off'[q] = Len(data[d]) /\ pc'[q] = "write" /\ data' = data
    BY <1>0, <1>1, <2>1 DEF InsertStart, OpenStream, Go, TypeOK
  <2>3. Len(data[d]) \in Nat
    BY <1>0, LenProperties DEF TypeOK
  <2> QED  BY <2>2, <2>3 DEF Db
<1>2. ASSUME NEW p \in Writers, InsertWrite(p), ~Same
      PROVE  pc'[q] = "write" /\ Db(q)' = Db(q) /\ off'[q] <= Len(data'[Db(q)])
  <2>1. /\ UNCHANGED pc /\ UNCHANGED job /\ UNCHANGED base /\ pc[p] = "write" /\ Db(p) \in Dbs
    BY <1>0, <1>2, InsertWritePuts DEF InsertWrite
  <2>2. PICK fp \in Fps : Put(p, fp)
    BY <1>0, <1>2, InsertWritePuts
  <2>3. /\ off[p] <= Len(data[Db(p)]) => off'[p] <= Len(data'[Db(p)])
        /\ \A r \in Writers : r # p => off'[r] = off[r]
    BY <1>0, <2>1, <2>2, PutGrows
  <2>4. q = p
    BY <1>2, <2>1, <2>3
  <2>5. off[p] <= Len(data[Db(p)])
    BY <2>1 DEF CoverInv, StreamInv
  <2> QED  BY <2>1, <2>3, <2>4, <2>5 DEF Db
<1>3. ASSUME NEW p \in Writers, InsertClose(p), ~Same
      PROVE  pc'[q] = "map" /\ Db(q)' = Db(q) /\ base'[q] <= Len(data'[Db(q)])
  <2>1. /\ UNCHANGED job /\ pc[p] = "write" /\ FlushOf(p, buf[p])
        /\ pc' = [pc EXCEPT ![p] = "map"]
        /\ base' = [base EXCEPT ![p] = off[p] + Len(buf[p])]
    BY <1>3 DEF InsertClose, Go, Tell
  <2>2. q = p
    BY <1>0, <1>3, <2>1 DEF FlushOf, TypeOK
  <2>3. Db(p) \in Dbs /\ buf[p] \in Seq(Fps) /\ off[p] \in Nat
    BY <1>0, <2>1 DEF TypeOK, WriterOK
  <2>4. pc'[p] = "map" /\ base'[p] = off[p] + Len(buf[p])
    BY <1>0, <2>1 DEF TypeOK
  <2>5. Len(data'[Db(p)]) = Len(data[Db(p)]) + Len(buf[p])
    BY <1>0, <2>1, <2>3, FlushGrows
  <2>6. off[p] <= Len(data[Db(p)])
    BY <2>1 DEF CoverInv, StreamInv
  <2>7. Len(data[Db(p)]) \in Nat /\ Len(buf[p]) \in Nat
    BY <1>0, <2>3, LenProperties DEF TypeOK
  <2>8. base'[p] <= Len(data'[Db(p)])
    <3>1. \A a, b, c \in Nat : a <= b => a + c <= b + c
      OBVIOUS
    <3>2. off[p] + Len(buf[p]) <= Len(data[Db(p)]) + Len(buf[p])
      BY <2>3, <2>6, <2>7, <3>1
    <3> QED  BY <2>4, <2>5, <3>2
  <2> QED  BY <2>1, <2>2, <2>4, <2>8 DEF Db
<1>4. ASSUME NEW p \in Writers, Working(p), ~Same, ~InsertWrite(p), ~InsertClose(p)
      PROVE  pc'[q] = "idle"
  <2>1. CASE InsertMap(p)
    <3>1. /\ pc' = [pc EXCEPT ![p] = "idle"] /\ job' = [job EXCEPT ![p] = NoJob]
          /\ off' = off
      BY <2>1 DEF InsertMap, Go
    <3>2. base' = base
      BY <2>1 DEF InsertMap
    <3>3. q = p
      BY <1>0, <1>4, <3>1, <3>2 DEF TypeOK
    <3> QED  BY <1>0, <3>1, <3>3 DEF TypeOK
  <2>2. pc[p] \in {"idle", "write", "map"}
    BY <1>0
  <2>3. ~(MergeOpenInput(p) \/ MergeCopy(p) \/ MergeCopied(p))
    BY <2>2 DEF MergeOpenInput, MergeCopy, MergeCopied
  <2>4. ~(MergeLine(p) \/ MergeNextInput(p) \/ MergeEnd(p))
    BY <2>2 DEF MergeLine, MergeNextInput, MergeEnd
  <2> QED  BY <1>4, <2>1, <2>3, <2>4 DEF Working
<1>5. ASSUME NEW p \in Writers, Crash(p), ~Same PROVE pc'[q] = "idle"
  BY <1>0, <1>5 DEF Crash, Go, TypeOK
<1>6. CASE UNCHANGED <<pc, job, off, base>>
  <2>1. Same
    BY <1>6
  <2> QED  BY <2>1, <1>a
<1> HIDE DEF Same
<1>7. CASE \E p \in Writers, d \in Dbs, t \in Tracks : InsertStart(p, d, t) /\ ~Same
  <2>1. pc'[q] = "write" /\ off'[q] = Len(data'[Db(q)']) /\ Len(data'[Db(q)']) \in Nat
    BY <1>1, <1>7
  <2> QED  BY <2>1
<1>8. CASE \E p \in Writers : InsertWrite(p) /\ ~Same
  <2>1. pc'[q] = "write" /\ Db(q)' = Db(q) /\ off'[q] <= Len(data'[Db(q)])
    BY <1>2, <1>8
  <2> QED  BY <2>1
<1>9. CASE \E p \in Writers : InsertClose(p) /\ ~Same
  <2>1. pc'[q] = "map" /\ Db(q)' = Db(q) /\ base'[q] <= Len(data'[Db(q)])
    BY <1>3, <1>9
  <2> QED  BY <2>1
<1>10. CASE Next
  BY <1>a, <1>b, <1>4, <1>5, <1>6, <1>7, <1>8, <1>9, <1>10 DEF Next, QueryOpen, QueryEnd
<1> QED  BY <1>6, <1>10 DEF vars

LEMMA StepCover ==
    ASSUME MergeJobs = {}
    PROVE  CoverInv /\ [Next]_vars => CoverInv'
<1> SUFFICES ASSUME CoverInv, [Next]_vars PROVE CoverInv'
  OBVIOUS
<1>0. TypeOK /\ TypeOK' /\ \A p \in Writers : pc[p] \in {"idle", "write", "map"}
  BY StepType DEF CoverInv, StreamInv
<1>1. StreamInv'
  BY <1>0, StepStream
\* The lines that were there still lie in the file.
<1>2. ASSUME NEW d \in Dbs, NEW i \in DOMAIN map[d] PROVE map[d][i].end <= Len(data'[d])
  <2>1. map[d][i].end <= Len(data[d])
    BY DEF CoverInv, EndsCovered
  <2>2. map[d] \in Seq(Lines)
    BY <1>0 DEF TypeOK
  <2>3. map[d][i].end \in Nat
    <3>1. map[d][i] \in Lines
      BY <2>2
    <3> QED  BY <3>1 DEF Lines
  <2> QED  BY <1>0, <2>1, <2>3, FileLonger
<1>3. ASSUME map' = map PROVE EndsCovered'
  BY <1>2, <1>3 DEF EndsCovered
<1>4. ASSUME NEW p \in Writers, InsertMap(p) PROVE EndsCovered'
  <2>1. pc[p] = "map" /\ Db(p) \in Dbs /\ job[p].track \in Tracks /\ base[p] \in Nat
    BY <1>0, <1>4 DEF InsertMap, TypeOK, WriterOK
  <2>2. PICK e \in Dbs : e = Db(p)
    BY <2>1
  <2>3. PICK line \in Lines : line = Line(base[p], job[p].track)
    BY <2>1 DEF Line, Lines, Names
  <2>4. map' = map \/ AppendLine(e, line)
    BY <1>4, <2>2, <2>3 DEF InsertMap
  <2>5. line.end <= Len(data'[e])
    <3>1. data' = data /\ base[p] <= Len(data[e])
      BY <1>4, <2>1, <2>2 DEF InsertMap, CoverInv, StreamInv
    <3>2. line.end = base[p]
      BY <2>3 DEF Line
    <3> QED  BY <3>1, <3>2
  <2>6. ASSUME AppendLine(e, line), NEW d \in Dbs, NEW i \in DOMAIN map'[d]
        PROVE  map'[d][i].end <= Len(data'[d])
    <3>1. map' = [map EXCEPT ![e] = Append(map[e], line)] /\ map[e] \in Seq(Lines)
      BY <1>0, <2>6 DEF AppendLine, TypeOK
    <3>2. CASE d # e
      <4>1. map'[d] = map[d]
        BY <1>0, <3>1, <3>2 DEF TypeOK
      <4> QED  BY <1>2, <4>1
    <3>3. CASE d = e
      <4>1. map'[d] = Append(map[d], line) /\ map[d] \in Seq(Lines)
        BY <1>0, <3>1, <3>3 DEF TypeOK
      <4>2. CASE i \in DOMAIN map[d]
        <5>1. map'[d][i] = map[d][i]
          BY <4>1, <4>2
        <5> QED  BY <1>2, <4>2, <5>1
      <4>3. CASE i \notin DOMAIN map[d]
        <5>1. map'[d][i] = line
          BY <4>1, <4>3
        <5> QED  BY <2>5, <3>3, <5>1
      <4> QED  BY <4>2, <4>3
    <3> QED  BY <3>2, <3>3
  <2>7. CASE AppendLine(e, line)
    BY <2>6, <2>7 DEF EndsCovered
  <2>8. CASE map' = map
    BY <1>3, <2>8
  <2> QED  BY <2>4, <2>7, <2>8
<1>5. EndsCovered'
  <2>1. ASSUME NEW p \in Writers PROVE ~MergeLine(p)
    BY <1>0 DEF MergeLine
  <2> QED  BY <1>3, <1>4, <2>1 DEF Next, Working, InsertStart, InsertWrite, InsertClose,
     MergeStart, MergeOpenInput, MergeCopy, MergeCopied, MergeNextInput, MergeEnd, Crash,
     QueryOpen, QueryEnd, vars
<1> QED  BY <1>0, <1>1, <1>5 DEF CoverInv

\* As long as databases are only inserted into: however many insertions run at
\* the same time and wherever they are killed, no entry of the catalogue lies
\* beyond the fingerprints of the file.
THEOREM EntriesAreCovered ==
    ASSUME MergeJobs = {}
    PROVE  Spec => []EndsCovered
<1>1. CoverInv => EndsCovered
  BY DEF CoverInv
<1>2. CoverInv /\ [Next]_vars => CoverInv'
  BY StepCover
<1> QED  BY <1>1, <1>2, InitCover, PTL DEF Spec

-----------------------------------------------------------------------------
(***************************************************************************)
(* One writer at a time: what the entries of the catalogue say of the      *)
(* fingerprints, when an invocation may be killed at any point, and when   *)
(* databases are also merged but nothing is killed.                        *)
(***************************************************************************)

\* What a writer has handed to its stream counts as being in the database.
Stream(p, d) == data[d] \o (IF Db(p) = d THEN buf[p] ELSE << >>)

\* The track t ends with fingerprint e of s.
EndsAt(s, e, t) ==
    /\ t \in Tracks
    /\ FpCount[t] <= e /\ e <= Len(s)
    /\ \A k \in 1..FpCount[t] : s[(e - FpCount[t]) + k] = Fp(t, k)

\* The n last fingerprints of s are the first n of the track t.
TailOf(s, n, t) ==
    /\ n <= Len(s)
    /\ \A k \in 1..n : s[(Len(s) - n) + k] = Fp(t, k)

\* The stream of the only writer knows the end of the file, and is empty when
\* it is closed.
AloneInv ==
    \A p \in Writers :
        /\ pc[p] \in {"write", "input", "copy", "lines"} => off[p] = Len(data[Db(p)])
        /\ pc[p] \in {"idle", "map"} => buf[p] = << >>

\* What an insertion has written is the end of its database.
WrittenInv ==
    \A p \in Writers :
        /\ pc[p] = "write" =>
              TailOf(Stream(p, Db(p)), FpCount[job[p].track] - left[p], job[p].track)
        /\ pc[p] = "map" =>
              base[p] = Len(data[Db(p)]) /\ EndsAt(data[Db(p)], base[p], job[p].track)

-----------------------------------------------------------------------------
(* Insertions that may be killed                                           *)

NamedInFile ==
    \A d \in Dbs : \A i \in 1..Len(map[d]) : EndsAt(data[d], map[d][i].end, map[d][i].name)

NoMerge == \A p \in Writers : pc[p] \in {"idle", "write", "map"}

KilledInv == TypeOK /\ AloneInv /\ WrittenInv /\ NamedInFile /\ NoMerge

-----------------------------------------------------------------------------
(* Insertions and merges that are not killed                               *)

\* Invocations one at a time and none of them killed, on databases of the
\* present directory, of tracks that have fingerprints and whose names are read
\* back as they are written
Serial(w) ==
    /\ Writers = {w} /\ MaxCrashes = 0
    /\ InDir = {}
    /\ Tracks \cap (Spaced \union {NoName}) = {}
    /\ \A t \in Tracks : FpCount[t] > 0

\* Where the track of line i begins
Start(lines, i) == IF i = 1 THEN 0 ELSE lines[i - 1].end

Named(p) ==
    \A d \in Dbs : \A i \in 1..Len(map[d]) :
        EndsAt(Stream(p, d), map[d][i].end, map[d][i].name)

\* The lines of a catalogue are in the order of their ends and leave nothing out.
Chain(lines) ==
    \A i \in 1..Len(lines) :
        /\ lines[i].end = Start(lines, i) + FpCount[lines[i].name]
        /\ \A k \in 1..Len(lines) : k < i => lines[k].end < lines[i].end

\* s goes on behind fingerprint b with the first n of t, and ends there.
Copied(s, b, t, n) == n <= Len(t) /\ Len(s) = b + n /\ \A k \in 1..n : s[b + k] = t[k]

\* The last end among the first n lines
EndOf(lines, n) == IF n = 0 THEN 0 ELSE lines[n].end

\* How far the catalogue is behind the fingerprints
PlaceInv(p) ==
    /\ \A d \in Dbs : pc[p] = "idle" \/ Db(p) # d => Len(data[d]) = LastEnd(d)
    /\ pc[p] = "write" =>
          Len(Stream(p, Db(p))) = LastEnd(Db(p)) + (FpCount[job[p].track] - left[p])
    /\ pc[p] = "map" => base[p] = LastEnd(Db(p)) + FpCount[job[p].track]
    /\ pc[p] = "input" => Len(Stream(p, Db(p))) = LastEnd(Db(p))
    /\ pc[p] = "copy" => /\ base[p] = LastEnd(Db(p))
                         /\ Copied(Stream(p, Db(p)), base[p], data[Input(p)], cursor[p])
    /\ pc[p] = "lines" =>
          /\ Copied(Stream(p, Db(p)), base[p], data[Input(p)], Len(data[Input(p)]))
          /\ cursor[p] <= Len(map[Input(p)])
          /\ LastEnd(Db(p)) = base[p] + EndOf(map[Input(p)], cursor[p])
    /\ pc[p] \in {"input", "copy", "lines"} => Db(p) \notin Range(job[p].inputs)

\* A reader's catalogue is the beginning of the one on disk.
SnapInv ==
    /\ DOMAIN snap = Readers
    /\ \A r \in Readers : snap[r] # NoSnap =>
          \E d \in Dbs : \E n \in 0..Len(map[d]) :
              snap[r] = [db |-> d, ids |-> ToIds(SubSeq(map[d], 1, n))]

SerialInv ==
    /\ crashes = 0
    /\ TypeOK /\ AloneInv /\ WrittenInv /\ SnapInv
    /\ \A p \in Writers : Named(p) /\ PlaceInv(p)
    /\ \A d \in Dbs : Chain(map[d])

-----------------------------------------------------------------------------
(* Sequences of fingerprints                                               *)

LEMMA AppendToConcat ==
    ASSUME NEW S, NEW s \in Seq(S), NEW t \in Seq(S), NEW e \in S
    PROVE  s \o Append(t, e) = Append(s \o t, e)
<1>1. Append(t, e) = t \o <<e>> /\ <<e>> \in Seq(S)
  BY AppendIsConcat
<1>2. s \o t \in Seq(S)
  BY ConcatProperties
<1>3. Append(s \o t, e) = (s \o t) \o <<e>>
  BY <1>2, AppendIsConcat
<1>4. (s \o t) \o <<e>> = s \o (t \o <<e>>)
  BY <1>1, ConcatAssociative
<1> QED BY <1>1, <1>3, <1>4

\* A track that ends somewhere in the fingerprints goes on ending there.
LEMMA EndsAtStays ==
    ASSUME NEW s \in Seq(Fps), NEW u \in Seq(Fps), Prefix(s, u),
           NEW e \in Nat, NEW t, EndsAt(s, e, t)
    PROVE  EndsAt(u, e, t)
<1>1. t \in Tracks /\ FpCount[t] \in Nat
  BY CountAssumption DEF EndsAt, CountAssumption
<1>2. Len(s) \in Nat /\ Len(u) \in Nat /\ Len(s) <= Len(u) /\ \A i \in 1..Len(s) : u[i] = s[i]
  BY LenProperties DEF Prefix
<1>3. FpCount[t] <= e /\ e <= Len(s)
  BY DEF EndsAt
<1>4. e <= Len(u)
  BY <1>2, <1>3
<1>5. ASSUME NEW k \in 1..FpCount[t] PROVE u[(e - FpCount[t]) + k] = Fp(t, k)
  <2>1. (e - FpCount[t]) + k \in 1..Len(s)
    BY <1>1, <1>2, <1>3
  <2>2. s[(e - FpCount[t]) + k] = Fp(t, k)
    BY DEF EndsAt
  <2> QED BY <1>2, <2>1, <2>2
<1> QED BY <1>1, <1>3, <1>4, <1>5 DEF EndsAt

\* The next fingerprint of a track, put behind the first n of it
LEMMA TailGrows ==
    ASSUME NEW s \in Seq(Fps), NEW n \in Nat, NEW t \in Tracks, TailOf(s, n, t),
           NEW f \in Fps, f = Fp(t, n + 1)
    PROVE  TailOf(Append(s, f), n + 1, t)
<1> DEFINE u == Append(s, f)
<1>1. Len(u) = Len(s) + 1 /\ Len(s) \in Nat /\ u[Len(s) + 1] = f /\ \A i \in 1..Len(s) : u[i] = s[i]
  BY AppendProperties, LenProperties
<1>2. n <= Len(s) /\ \A k \in 1..n : s[(Len(s) - n) + k] = Fp(t, k)
  BY DEF TailOf
<1> HIDE DEF u
<1>3. ASSUME NEW k \in 1..(n + 1) PROVE u[(Len(u) - (n + 1)) + k] = Fp(t, k)
  <2>1. (Len(u) - (n + 1)) + k = (Len(s) - n) + k
    BY <1>1, <1>2
  <2>2. CASE k = n + 1
    <3>1. (Len(s) - n) + k = Len(s) + 1
      BY <1>1, <1>2, <2>2
    <3> QED BY <1>1, <2>1, <2>2, <3>1
  <2>3. CASE k # n + 1
    <3>1. k \in 1..n /\ (Len(s) - n) + k \in 1..Len(s)
      BY <1>1, <1>2, <2>3
    <3> QED BY <1>1, <1>2, <2>1, <3>1
  <2> QED BY <2>2, <2>3
<1>4. n + 1 <= Len(u)
  BY <1>1, <1>2
<1> QED BY <1>3, <1>4 DEF TailOf, u

\* What ends with all fingerprints of a track ends with that track.
LEMMA WholeTail ==
    ASSUME NEW s \in Seq(Fps), NEW t \in Tracks, TailOf(s, FpCount[t], t)
    PROVE  EndsAt(s, Len(s), t)
<1>1. Len(s) \in Nat
  BY LenProperties
<1> QED BY <1>1 DEF TailOf, EndsAt

-----------------------------------------------------------------------------
(* What a step does to the stream of the only writer                       *)

\* What a database has on disk is the beginning of what it has with the buffer
\* of its writer.
LEMMA StreamType ==
    ASSUME TypeOK, NEW p \in Writers, NEW d \in Dbs
    PROVE  /\ Stream(p, d) \in Seq(Fps) /\ Len(Stream(p, d)) \in Nat
           /\ data[d] \in Seq(Fps) /\ Len(data[d]) \in Nat
           /\ buf[p] \in Seq(Fps) /\ Len(buf[p]) \in Nat
           /\ Prefix(data[d], Stream(p, d))
           /\ buf[p] = << >> \/ Db(p) # d => Stream(p, d) = data[d]
           /\ Db(p) = d => Stream(p, d) = data[d] \o buf[p]
<1>1. data[d] \in Seq(Fps) /\ buf[p] \in Seq(Fps)
  BY DEF TypeOK
<1>2. << >> \in Seq(Fps)
  BY EmptySeq
<1> DEFINE b == IF Db(p) = d THEN buf[p] ELSE << >>
<1>3. b \in Seq(Fps)
  BY <1>1, <1>2
<1>4. Stream(p, d) = data[d] \o b /\ (Db(p) = d => b = buf[p])
  BY DEF Stream
<1>5. buf[p] = << >> \/ Db(p) # d => b = << >>
  OBVIOUS
<1> HIDE DEF b
<1>6. Stream(p, d) \in Seq(Fps) /\ Prefix(data[d], Stream(p, d))
  BY <1>1, <1>3, <1>4, ConcatProperties, ConcatGrows
<1>7. buf[p] = << >> \/ Db(p) # d => Stream(p, d) = data[d]
  BY <1>1, <1>4, <1>5, ConcatEmptySeq
<1> QED BY <1>1, <1>4, <1>6, <1>7, LenProperties

LEMMA StreamTypeNext ==
    ASSUME TypeOK', NEW p \in Writers, NEW d \in Dbs
    PROVE  /\ Stream(p, d)' \in Seq(Fps) /\ Len(Stream(p, d)') \in Nat
           /\ buf'[p] = << >> \/ Db(p)' # d => Stream(p, d)' = data'[d]
<1>1. data'[d] \in Seq(Fps) /\ buf'[p] \in Seq(Fps)
  BY DEF TypeOK
<1> DEFINE b == IF Db(p)' = d THEN buf'[p] ELSE << >>
<1>2. b \in Seq(Fps)
  BY <1>1, EmptySeq
<1>3. Stream(p, d)' = data'[d] \o b
  BY DEF Stream
<1> HIDE DEF b
<1>4. Stream(p, d)' \in Seq(Fps)
  BY <1>1, <1>2, <1>3, ConcatProperties
<1>5. buf'[p] = << >> \/ Db(p)' # d => Stream(p, d)' = data'[d]
  <2>1. buf'[p] = << >> \/ Db(p)' # d => b = << >>
    BY DEF b
  <2> QED BY <1>1, <1>3, <2>1, ConcatEmptySeq
<1> QED BY <1>4, <1>5, LenProperties

\* A flush of the buffer touches the open database only.
LEMMA FlushStream ==
    ASSUME TypeOK, NEW p \in Writers, NEW e \in Dbs, e = Db(p), NEW fps \in Seq(Fps), FlushOf(p, fps)
    PROVE  /\ data'[e] = data[e] \o fps /\ buf'[p] = << >>
           /\ \A d \in Dbs : d # e => data'[d] = data[d]
           /\ off'[p] = Len(data'[e])
<1>1. data' = [data EXCEPT ![e] = data[e] \o fps] /\ buf' = [buf EXCEPT ![p] = << >>]
  BY DEF FlushOf
<1>2. data'[e] = data[e] \o fps /\ buf'[p] = << >> /\ \A d \in Dbs : d # e => data'[d] = data[d]
  BY <1>1 DEF TypeOK
<1>3. off'[p] = Len(data'[e])
  BY FlushGrows
<1> QED BY <1>2, <1>3

\* write puts one fingerprint behind what the database has, be it in the file
\* or in the buffer.
LEMMA PutStream ==
    ASSUME TypeOK, TypeOK', NEW p \in Writers, NEW e \in Dbs, e = Db(p), job' = job,
           NEW fp \in Fps, Put(p, fp), off[p] = Len(data[e])
    PROVE  /\ Stream(p, e)' = Append(Stream(p, e), fp)
           /\ \A d \in Dbs : d # e => data'[d] = data[d]
           /\ off'[p] = Len(data'[e])
<1> DEFINE fps == Append(buf[p], fp)
<1>1. fps \in Seq(Fps) /\ data[e] \in Seq(Fps) /\ buf[p] \in Seq(Fps)
  BY AppendProperties DEF TypeOK
<1>2. data[e] \o fps = Append(Stream(p, e), fp)
  <2>1. Stream(p, e) = data[e] \o buf[p]
    BY StreamType
  <2>2. data[e] \o Append(buf[p], fp) = Append(data[e] \o buf[p], fp)
    <3>1. \A s, t \in Seq(Fps), f \in Fps : s \o Append(t, f) = Append(s \o t, f)
      BY AppendToConcat
    <3> QED BY <1>1, <3>1, Zenon
  <2> QED BY <2>1, <2>2
<1>3. Db(p)' = e
  BY DEF Db
<1>4. Stream(p, e)' = data'[e] \o buf'[p]
  BY <1>3 DEF Stream
<1>5. CASE Len(fps) < BufCap
  <2>1. buf' = [buf EXCEPT ![p] = fps] /\ data' = data /\ off' = off
    BY <1>5 DEF Put
  <2> HIDE DEF fps
  <2>2. buf'[p] = fps
    BY <2>1 DEF TypeOK
  <2> QED BY <1>2, <1>4, <2>1, <2>2
<1>6. CASE ~(Len(fps) < BufCap)
  <2>1. FlushOf(p, fps)
    BY <1>6 DEF Put
  <2> HIDE DEF fps
  <2>2. /\ data'[e] = data[e] \o fps /\ buf'[p] = << >>
        /\ \A d \in Dbs : d # e => data'[d] = data[d]
        /\ off'[p] = Len(data'[e])
    BY <1>1, <2>1, FlushStream
  <2>3. data[e] \o fps \in Seq(Fps)
    BY <1>1, ConcatProperties
  <2>4. (data[e] \o fps) \o << >> = data[e] \o fps
    BY <2>3, ConcatEmptySeq
  <2> QED BY <1>2, <1>4, <2>2, <2>4
<1> QED BY <1>5, <1>6

\* A step of insert's loop puts the next fingerprint of its track.
LEMMA InsertWriteStream ==
    ASSUME TypeOK, TypeOK', AloneInv, NEW p \in Writers, InsertWrite(p),
           NEW e \in Dbs, e = Db(p)
    PROVE  LET t == job[p].track
               n == FpCount[t] - left[p]
           IN  /\ t \in Tracks /\ n \in Nat /\ Fp(t, n + 1) \in Fps
               /\ pc[p] = "write" /\ UNCHANGED <<map, pc, job, base, snap>>
               /\ Stream(p, e)' = Append(Stream(p, e), Fp(t, n + 1))
               /\ FpCount[t] - left'[p] = n + 1
               /\ \A d \in Dbs : d # e => data'[d] = data[d]
               /\ off'[p] = Len(data'[e])
<1> DEFINE t == job[p].track
           n == FpCount[t] - left[p]
<1>1. /\ t \in Tracks
      /\ left[p] \in Nat /\ left[p] > 0 /\ FpCount[t] \in Nat /\ left[p] <= FpCount[t]
  BY InsertWritePuts
<1>2. n \in Nat /\ n + 1 \in Nat \ {0}
  BY <1>1
<1>3. Fp(t, n + 1) \in Fps
  BY <1>1, <1>2 DEF Fp, Fps
<1>4. /\ pc[p] = "write" /\ UNCHANGED <<map, pc, job, base, snap>>
      /\ Put(p, Fp(t, n + 1)) /\ left' = [left EXCEPT ![p] = left[p] - 1]
  BY DEF InsertWrite
<1>5. off[p] = Len(data[e])
  BY <1>4 DEF AloneInv
<1>6. left'[p] = left[p] - 1
  BY <1>4 DEF TypeOK
<1>7. FpCount[t] - left'[p] = n + 1
  BY <1>1, <1>6
<1>8. /\ Stream(p, e)' = Append(Stream(p, e), Fp(t, n + 1))
      /\ \A d \in Dbs : d # e => data'[d] = data[d]
      /\ off'[p] = Len(data'[e])
  <2> DEFINE fp == Fp(t, n + 1)
  <2>1. fp \in Fps /\ Put(p, fp) /\ job' = job
    BY <1>3, <1>4
  <2> HIDE DEF fp
  <2>2. /\ Stream(p, e)' = Append(Stream(p, e), fp)
        /\ \A d \in Dbs : d # e => data'[d] = data[d]
        /\ off'[p] = Len(data'[e])
    BY <1>5, <2>1, PutStream
  <2> QED BY <2>2 DEF fp
<1> QED BY <1>1, <1>2, <1>3, <1>4, <1>7, <1>8

\* After close everything is in the file.
LEMMA CloseStream ==
    ASSUME TypeOK, NEW p \in Writers, NEW e \in Dbs, e = Db(p), FlushOf(p, buf[p])
    PROVE  /\ data'[e] = Stream(p, e) /\ buf'[p] = << >>
           /\ \A d \in Dbs : d # e => data'[d] = data[d]
<1>1. buf[p] \in Seq(Fps)
  BY DEF TypeOK
<1>2. Stream(p, e) = data[e] \o buf[p]
  BY StreamType
<1>3. /\ data'[e] = data[e] \o buf[p] /\ buf'[p] = << >>
      /\ \A d \in Dbs : d # e => data'[d] = data[d]
  BY <1>1, FlushStream
<1> QED BY <1>2, <1>3

\* tellp counts what is in the buffer.
LEMMA TellStream ==
    ASSUME TypeOK, NEW p \in Writers, NEW e \in Dbs, e = Db(p), off[p] = Len(data[e])
    PROVE  Tell(p) = Len(Stream(p, e))
<1>1. /\ data[e] \in Seq(Fps) /\ buf[p] \in Seq(Fps)
      /\ Stream(p, e) = data[e] \o buf[p]
  BY StreamType
<1> QED BY <1>1, ConcatProperties DEF Tell

\* insert's line will say what tellp said before close.
LEMMA InsertCloseStream ==
    ASSUME TypeOK, AloneInv, NEW p \in Writers, InsertClose(p), NEW e \in Dbs, e = Db(p)
    PROVE  /\ job[p].track \in Tracks /\ pc[p] = "write" /\ left[p] = 0
           /\ pc'[p] = "map" /\ UNCHANGED <<map, job, left, snap>>
           /\ data'[e] = Stream(p, e) /\ buf'[p] = << >>
           /\ \A d \in Dbs : d # e => data'[d] = data[d]
           /\ base'[p] = Len(Stream(p, e))
<1>1. /\ pc[p] = "write" /\ left[p] = 0 /\ UNCHANGED <<map, job, left, snap>>
      /\ FlushOf(p, buf[p]) /\ pc' = [pc EXCEPT ![p] = "map"]
      /\ base' = [base EXCEPT ![p] = Tell(p)]
  BY DEF InsertClose, Go
<1>2. job[p].track \in Tracks
  BY <1>1 DEF TypeOK, WriterOK
<1>3. off[p] = Len(data[e])
  BY <1>1 DEF AloneInv
<1>4. Tell(p) = Len(Stream(p, e))
  BY <1>3, TellStream
<1>5. pc'[p] = "map" /\ base'[p] = Tell(p)
  BY <1>1 DEF TypeOK
<1>6. /\ data'[e] = Stream(p, e) /\ buf'[p] = << >>
      /\ \A d \in Dbs : d # e => data'[d] = data[d]
  BY <1>1, CloseStream
<1> QED BY <1>1, <1>2, <1>4, <1>5, <1>6

\* A step of merge's loop puts the next fingerprint of the input.
LEMMA MergeCopyStream ==
    ASSUME TypeOK, TypeOK', AloneInv, NEW p \in Writers, MergeCopy(p),
           NEW e \in Dbs, e = Db(p)
    PROVE  LET f == data[Input(p)][cursor[p] + 1]
           IN  /\ Input(p) \in Dbs /\ cursor[p] \in Nat /\ f \in Fps
               /\ pc[p] = "copy" /\ UNCHANGED <<map, pc, job, input, base, snap>>
               /\ cursor[p] < Len(data[Input(p)]) /\ cursor'[p] = cursor[p] + 1
               /\ Stream(p, e)' = Append(Stream(p, e), f)
               /\ \A d \in Dbs : d # e => data'[d] = data[d]
               /\ off'[p] = Len(data'[e])
<1> DEFINE f == data[Input(p)][cursor[p] + 1]
<1>1. /\ pc[p] = "copy" /\ UNCHANGED <<map, pc, job, input, base, snap>>
      /\ cursor[p] < Len(data[Input(p)]) /\ Put(p, f)
      /\ cursor' = [cursor EXCEPT ![p] = cursor[p] + 1]
  BY DEF MergeCopy
<1>2. Input(p) \in Dbs /\ data[Input(p)] \in Seq(Fps)
  BY <1>1, InputType
<1>3. cursor[p] \in Nat /\ cursor'[p] = cursor[p] + 1
  BY <1>1 DEF TypeOK
<1>4. f \in Fps
  <2>1. cursor[p] + 1 \in 1..Len(data[Input(p)])
    BY <1>1, <1>2, <1>3, LenProperties
  <2> QED BY <1>2, <2>1, ElementOfSeq
<1>5. off[p] = Len(data[e])
  BY <1>1 DEF AloneInv
<1>6. /\ Stream(p, e)' = Append(Stream(p, e), f)
      /\ \A d \in Dbs : d # e => data'[d] = data[d]
      /\ off'[p] = Len(data'[e])
  <2>1. f \in Fps /\ Put(p, f) /\ job' = job
    BY <1>1, <1>4
  <2> HIDE DEF f
  <2> QED BY <1>5, <2>1, PutStream
<1> QED BY <1>1, <1>2, <1>3, <1>4, <1>6

-----------------------------------------------------------------------------
(* The steps of a single writer                                            *)

\* With one writer, a step is a step of that writer.
LEMMA OneWriter ==
    ASSUME NEW w, Writers = {w}, [Next]_vars
    PROVE  \/ \E d \in Dbs, t \in Tracks : InsertStart(w, d, t)
           \/ \E m \in MergeJobs : MergeStart(w, m)
           \/ Working(w)
           \/ Crash(w)
           \/ UNCHANGED <<data, map, pc, job, off, buf, left, input, cursor, base>>
<1>1. \A p \in Writers : p = w
  OBVIOUS
<1>2. CASE UNCHANGED vars
  BY <1>2 DEF vars
<1>3. CASE \E r \in Readers : (\E d \in Dbs : QueryOpen(r, d)) \/ QueryEnd(r)
  BY <1>3 DEF QueryOpen, QueryEnd
<1> QED BY <1>1, <1>2, <1>3 DEF Next

\* What the beginning of an insertion leaves
LEMMA InsertStartState ==
    ASSUME TypeOK, NEW p \in Writers, NEW d \in Dbs, NEW t \in Tracks, InsertStart(p, d, t)
    PROVE  /\ pc[p] = "idle" /\ pc'[p] = "write" /\ UNCHANGED <<data, map, base, snap>>
           /\ job'[p].db = d /\ job'[p].track = t /\ left'[p] = FpCount[t]
           /\ off'[p] = Len(data[d]) /\ buf'[p] = << >>
<1> DEFINE new == [db |-> d, track |-> t, inputs |-> << >>]
<1>1. /\ pc[p] = "idle" /\ pc' = [pc EXCEPT ![p] = "write"] /\ UNCHANGED <<data, map, base, snap>>
      /\ job' = [job EXCEPT ![p] = new] /\ left' = [left EXCEPT ![p] = FpCount[t]]
      /\ off' = [off EXCEPT ![p] = Len(data[d])] /\ buf' = [buf EXCEPT ![p] = << >>]
  BY DEF InsertStart, OpenStream, Go
<1>2. new.db = d /\ new.track = t
  OBVIOUS
<1> HIDE DEF new
<1>3. job'[p] = new /\ pc'[p] = "write" /\ left'[p] = FpCount[t]
  BY <1>1 DEF TypeOK
<1>4. off'[p] = Len(data[d]) /\ buf'[p] = << >>
  BY <1>1 DEF TypeOK
<1> QED BY <1>1, <1>2, <1>3, <1>4

\* What the beginning of a merge leaves
LEMMA MergeStartState ==
    ASSUME TypeOK, NEW p \in Writers, NEW m \in MergeJobs, MergeStart(p, m)
    PROVE  /\ pc[p] = "idle" /\ pc'[p] = "input" /\ UNCHANGED <<data, map, base, snap>>
           /\ m.out \in Dbs /\ job'[p].db = m.out /\ job'[p].inputs = m.inputs
           /\ m.out \notin Range(m.inputs) /\ input'[p] = 1
           /\ off'[p] = Len(data[m.out]) /\ buf'[p] = << >>
<1> DEFINE new == [db |-> m.out, track |-> NoDb, inputs |-> m.inputs]
<1>1. /\ pc[p] = "idle" /\ pc' = [pc EXCEPT ![p] = "input"] /\ UNCHANGED <<data, map, base, snap>>
      /\ job' = [job EXCEPT ![p] = new] /\ input' = [input EXCEPT ![p] = 1]
      /\ off' = [off EXCEPT ![p] = Len(data[m.out])] /\ buf' = [buf EXCEPT ![p] = << >>]
  BY DEF MergeStart, OpenStream, Go
<1>2. new.db = m.out /\ new.inputs = m.inputs
  OBVIOUS
<1> HIDE DEF new
<1>3. job'[p] = new /\ pc'[p] = "input" /\ input'[p] = 1
  BY <1>1 DEF TypeOK
<1>4. off'[p] = Len(data[m.out]) /\ buf'[p] = << >>
  BY <1>1 DEF TypeOK
<1>5. m.out \in Dbs /\ m.out \notin Range(m.inputs)
  BY MergeAssumption DEF MergeAssumption
<1> QED BY <1>1, <1>2, <1>3, <1>4, <1>5

\* Whatever is under way has a database.
LEMMA Busy ==
    ASSUME TypeOK, NEW p \in Writers, pc[p] # "idle"
    PROVE  Db(p) \in Dbs
BY DEF TypeOK, WriterOK

\* A writer that becomes idle keeps the files and leaves no buffer.
LEMMA IdleState ==
    ASSUME TypeOK, NEW p \in Writers, Crash(p) \/ MergeEnd(p)
    PROVE  pc'[p] = "idle" /\ buf'[p] = << >>
<1>1. pc' = [pc EXCEPT ![p] = "idle"]
  BY DEF Crash, MergeEnd, Go
<1>2. buf' = [buf EXCEPT ![p] = << >>]
  BY DEF Crash, MergeEnd, FlushOf
<1> QED BY <1>1, <1>2 DEF TypeOK

\* The steps of a merge that do not touch the output
LEMMA MergeMoves ==
    ASSUME TypeOK, NEW p \in Writers,
           MergeOpenInput(p) \/ MergeCopied(p) \/ MergeLine(p) \/ MergeNextInput(p)
    PROVE  /\ pc[p] \in {"input", "copy", "lines"} /\ pc'[p] \in {"input", "copy", "lines"}
           /\ UNCHANGED <<data, job, off, buf, left>>
<1>1. CASE MergeLine(p)
  BY <1>1 DEF MergeLine
<1>2. CASE MergeOpenInput(p)
  BY <1>2 DEF MergeOpenInput, Go, TypeOK
<1>3. CASE MergeCopied(p)
  BY <1>3 DEF MergeCopied, Go, TypeOK
<1>4. CASE MergeNextInput(p)
  BY <1>4 DEF MergeNextInput, Go, TypeOK
<1> QED BY <1>1, <1>2, <1>3, <1>4

\* The offset of the only writer is the size of the file it has open.
LEMMA AloneStep ==
    ASSUME NEW w, Writers = {w}, TypeOK, TypeOK', AloneInv, [Next]_vars
    PROVE  AloneInv'
<1> DEFINE Open == pc[w] \in {"write", "input", "copy", "lines"} => off[w] = Len(data[Db(w)])
           Shut == pc[w] \in {"idle", "map"} => buf[w] = << >>
<1>0. /\ w \in Writers /\ (AloneInv <=> Open /\ Shut)
  BY DEF AloneInv
<1>1. Open' /\ Shut' => AloneInv'
  BY DEF AloneInv
<1>2. CASE \E d \in Dbs, t \in Tracks : InsertStart(w, d, t)
  <2>1. PICK d \in Dbs, t \in Tracks : InsertStart(w, d, t)
    BY <1>2
  <2>2. pc'[w] = "write" /\ job'[w].db = d /\ off'[w] = Len(data[d]) /\ data' = data
    BY <1>0, <2>1, InsertStartState
  <2> QED BY <1>1, <2>2 DEF Db
<1>3. CASE \E m \in MergeJobs : MergeStart(w, m)
  <2>1. PICK m \in MergeJobs : MergeStart(w, m)
    BY <1>3
  <2>2. pc'[w] = "input" /\ job'[w].db = m.out /\ off'[w] = Len(data[m.out]) /\ data' = data
    BY <1>0, <2>1, MergeStartState
  <2> QED BY <1>1, <2>2 DEF Db
<1>4. CASE Crash(w) \/ MergeEnd(w)
  BY <1>0, <1>1, <1>4, IdleState
<1>5. CASE InsertWrite(w)
  <2>1. pc[w] = "write"
    BY <1>5 DEF InsertWrite
  <2>2. PICK e \in Dbs : e = Db(w)
    BY <1>0, <2>1, Busy
  <2>3. pc'[w] = "write" /\ job' = job /\ off'[w] = Len(data'[e])
    BY <1>0, <1>5, <2>1, <2>2, InsertWriteStream
  <2> QED BY <1>1, <2>2, <2>3 DEF Db
<1>6. CASE InsertClose(w)
  <2>1. pc[w] = "write"
    BY <1>6 DEF InsertClose
  <2>2. PICK e \in Dbs : e = Db(w)
    BY <1>0, <2>1, Busy
  <2>3. pc'[w] = "map" /\ buf'[w] = << >>
    BY <1>0, <1>6, <2>2, InsertCloseStream
  <2> QED BY <1>1, <2>3
<1>7. CASE InsertMap(w)
  <2>1. pc[w] = "map" /\ pc'[w] = "idle" /\ buf' = buf
    BY <1>0, <1>7 DEF InsertMap, Go, TypeOK
  <2> QED BY <1>0, <1>1, <2>1
<1>8. CASE MergeCopy(w)
  <2>1. pc[w] = "copy"
    BY <1>8 DEF MergeCopy
  <2>2. PICK e \in Dbs : e = Db(w)
    BY <1>0, <2>1, Busy
  <2>3. pc'[w] = "copy" /\ job' = job /\ off'[w] = Len(data'[e])
    BY <1>0, <1>8, <2>1, <2>2, MergeCopyStream
  <2> QED BY <1>1, <2>2, <2>3 DEF Db
<1>9. CASE MergeOpenInput(w) \/ MergeCopied(w) \/ MergeLine(w) \/ MergeNextInput(w)
  BY <1>0, <1>1, <1>9, MergeMoves DEF Db
<1>10. CASE UNCHANGED <<data, map, pc, job, off, buf, left, input, cursor, base>>
  BY <1>0, <1>1, <1>10 DEF Db
<1> QED BY <1>2, <1>3, <1>4, <1>5, <1>6, <1>7, <1>8, <1>9, <1>10, OneWriter DEF Working

LEMMA EmptyTail ==
    ASSUME NEW s \in Seq(Fps), NEW t
    PROVE  TailOf(s, 0, t)
BY LenProperties DEF TailOf

\* At every turn of insert's loop, what has been written of its track is what
\* the database ends with.
LEMMA WrittenStep ==
    ASSUME NEW w, Writers = {w}, TypeOK, TypeOK', AloneInv, WrittenInv, [Next]_vars
    PROVE  WrittenInv'
<1> DEFINE AtEnd == pc[w] = "write" =>
                     TailOf(Stream(w, Db(w)), FpCount[job[w].track] - left[w], job[w].track)
           Whole == pc[w] = "map" =>
                      base[w] = Len(data[Db(w)]) /\ EndsAt(data[Db(w)], base[w], job[w].track)
<1>0. /\ w \in Writers /\ (WrittenInv <=> AtEnd /\ Whole)
  BY DEF WrittenInv
<1>1. AtEnd' /\ Whole' => WrittenInv'
  BY DEF WrittenInv
<1>2. CASE \E d \in Dbs, t \in Tracks : InsertStart(w, d, t)
  <2>1. PICK d \in Dbs, t \in Tracks : InsertStart(w, d, t)
    BY <1>2
  <2>2. pc'[w] = "write" /\ job'[w].db = d /\ job'[w].track = t /\ left'[w] = FpCount[t]
    BY <1>0, <2>1, InsertStartState
  <2>3. FpCount[t] - left'[w] = 0
    BY <2>2, CountAssumption DEF CountAssumption
  <2>4. Stream(w, d)' \in Seq(Fps)
    BY <1>0, StreamTypeNext
  <2>5. TailOf(Stream(w, d)', 0, t)
    BY <2>4, EmptyTail
  <2>6. Db(w)' = d
    BY <2>2 DEF Db
  <2>7. Stream(w, Db(w))' = Stream(w, d)'
    BY <2>6 DEF Stream
  <2>8. AtEnd'
    BY <2>2, <2>3, <2>5, <2>7 DEF TailOf
  <2> QED BY <1>1, <2>2, <2>8
<1>3. CASE \E m \in MergeJobs : MergeStart(w, m)
  BY <1>0, <1>1, <1>3, MergeStartState
<1>4. CASE Crash(w) \/ MergeEnd(w)
  BY <1>0, <1>1, <1>4, IdleState
<1>5. CASE InsertWrite(w)
  <2>1. pc[w] = "write"
    BY <1>5 DEF InsertWrite
  <2>2. PICK e \in Dbs : e = Db(w)
    BY <1>0, <2>1, Busy
  <2> DEFINE t == job[w].track
             n == FpCount[t] - left[w]
  <2>3. /\ t \in Tracks /\ n \in Nat /\ Fp(t, n + 1) \in Fps
        /\ pc'[w] = "write" /\ job' = job
        /\ Stream(w, e)' = Append(Stream(w, e), Fp(t, n + 1))
        /\ FpCount[t] - left'[w] = n + 1
    BY <1>0, <1>5, <2>1, <2>2, InsertWriteStream
  <2>4. Stream(w, e) \in Seq(Fps)
    BY <1>0, StreamType
  <2>5. TailOf(Stream(w, e), n, t)
    BY <1>0, <2>1, <2>2
  <2> HIDE DEF n, t
  <2>6. TailOf(Stream(w, e)', n + 1, t)
    BY <2>3, <2>4, <2>5, TailGrows
  <2> USE DEF t
  <2>7. job'[w].track = t /\ Db(w)' = e
    BY <2>2, <2>3 DEF Db
  <2>8. Stream(w, Db(w))' = Stream(w, e)'
    BY <2>7 DEF Stream
  <2>9. AtEnd'
    BY <2>3, <2>6, <2>7, <2>8 DEF TailOf
  <2> QED BY <1>1, <2>3, <2>9
<1>6. CASE InsertClose(w)
  <2>1. pc[w] = "write"
    BY <1>6 DEF InsertClose
  <2>2. PICK e \in Dbs : e = Db(w)
    BY <1>0, <2>1, Busy
  <2> DEFINE t == job[w].track
  <2>3. /\ t \in Tracks /\ left[w] = 0 /\ pc'[w] = "map" /\ job' = job
        /\ data'[e] = Stream(w, e) /\ base'[w] = Len(Stream(w, e))
    BY <1>0, <1>6, <2>2, InsertCloseStream
  <2>4. FpCount[t] - left[w] = FpCount[t]
    BY <2>3, CountAssumption DEF CountAssumption
  <2>5. TailOf(Stream(w, e), FpCount[t], t)
    BY <1>0, <2>1, <2>2, <2>4
  <2>6. Stream(w, e) \in Seq(Fps)
    BY <1>0, StreamType
  <2>7. EndsAt(Stream(w, e), Len(Stream(w, e)), t)
    BY <2>3, <2>5, <2>6, WholeTail
  <2>8. Db(w)' = e /\ job'[w].track = t
    BY <2>2, <2>3 DEF Db
  <2>9. Whole'
    BY <2>3, <2>7, <2>8
  <2> QED BY <1>1, <2>3, <2>9
<1>7. CASE InsertMap(w)
  <2>1. pc'[w] = "idle"
    BY <1>0, <1>7 DEF InsertMap, Go, TypeOK
  <2> QED BY <1>1, <2>1
<1>8. CASE MergeCopy(w)
  <2>1. pc'[w] = "copy"
    BY <1>0, <1>8 DEF MergeCopy
  <2> QED BY <1>1, <2>1
<1>9. CASE MergeOpenInput(w) \/ MergeCopied(w) \/ MergeLine(w) \/ MergeNextInput(w)
  BY <1>0, <1>1, <1>9, MergeMoves
<1>10. CASE UNCHANGED <<data, map, pc, job, off, buf, left, input, cursor, base>>
  BY <1>0, <1>1, <1>10 DEF Db, Stream
<1> QED BY <1>2, <1>3, <1>4, <1>5, <1>6, <1>7, <1>8, <1>9, <1>10, OneWriter DEF Working

-----------------------------------------------------------------------------
(* Insertions that may be killed: every entry names what ends there        *)

\* The file only grows: what an entry is about stays where it is.
LEMMA NamedStays ==
    ASSUME TypeOK, TypeOK', [Next]_vars, NEW d \in Dbs, NEW e \in Nat, NEW t,
           EndsAt(data[d], e, t)
    PROVE  EndsAt(data'[d], e, t)
<1>1. data[d] \in Seq(Fps) /\ data'[d] \in Seq(Fps)
  BY DEF TypeOK
<1>2. Prefix(data[d], data'[d])
  BY FilesGrow
<1> QED BY <1>1, <1>2, EndsAtStays

\* A line is written for fingerprints that are in the file.
LEMMA NamedStep ==
    ASSUME NEW w, Writers = {w}, MergeJobs = {}, TypeOK, TypeOK', KilledInv, [Next]_vars
    PROVE  NamedInFile' /\ NoMerge'
<1>0. w \in Writers /\ pc[w] \in {"idle", "write", "map"} /\ AloneInv /\ WrittenInv /\ NamedInFile
  BY DEF KilledInv, NoMerge
<1>1. UNCHANGED map => NamedInFile'
  <2> SUFFICES ASSUME UNCHANGED map, NEW d \in Dbs, NEW i \in 1..Len(map[d])
               PROVE  EndsAt(data'[d], map[d][i].end, map[d][i].name)
    BY DEF NamedInFile
  <2>1. map[d] \in Seq(Lines)
    BY DEF TypeOK
  <2>2. map[d][i] \in Lines
    BY <2>1, ElementOfSeq
  <2>3. map[d][i].end \in Nat
    BY <2>2 DEF Lines
  <2>4. EndsAt(data[d], map[d][i].end, map[d][i].name)
    BY <1>0 DEF NamedInFile
  <2> QED BY <2>3, <2>4, NamedStays
<1>2. CASE \E d \in Dbs, t \in Tracks : InsertStart(w, d, t)
  BY <1>0, <1>1, <1>2, InsertStartState DEF NoMerge
<1>3. CASE Crash(w)
  <2>1. UNCHANGED map
    BY <1>3 DEF Crash
  <2> QED BY <1>0, <1>1, <1>3, <2>1, IdleState DEF NoMerge
<1>4. CASE InsertWrite(w)
  BY <1>0, <1>1, <1>4 DEF InsertWrite, NoMerge
<1>5. CASE InsertClose(w)
  <2>1. pc' = [pc EXCEPT ![w] = "map"] /\ UNCHANGED map
    BY <1>5 DEF InsertClose, Go
  <2> QED BY <1>0, <1>1, <2>1 DEF NoMerge, TypeOK
<1>6. CASE InsertMap(w)
  <2>1. /\ pc[w] = "map" /\ pc' = [pc EXCEPT ![w] = "idle"] /\ UNCHANGED data
        /\ UNCHANGED map \/ AppendLine(Db(w), Line(base[w], job[w].track))
    BY <1>6 DEF InsertMap, Go
  <2>2. NoMerge'
    BY <1>0, <2>1 DEF NoMerge, TypeOK
  <2>3. PICK e \in Dbs : e = Db(w)
    BY <1>0, <2>1, Busy
  <2>4. EndsAt(data[e], base[w], job[w].track) /\ base[w] \in Nat
    BY <1>0, <2>1, <2>3 DEF WrittenInv, TypeOK
  <2> DEFINE line == Line(base[w], job[w].track)
  <2>5. line.end = base[w] /\ line.name = job[w].track /\ line \in Lines
    BY <1>0, <2>1 DEF Line, Lines, Names, TypeOK, WriterOK
  <2> HIDE DEF line
  <2>6. ASSUME AppendLine(e, line) PROVE NamedInFile'
    <3>1. map' = [map EXCEPT ![e] = Append(map[e], line)] /\ map[e] \in Seq(Lines)
      BY <2>6 DEF AppendLine, TypeOK
    <3>2. map'[e] = Append(map[e], line) /\ \A d \in Dbs : d # e => map'[d] = map[d]
      BY <3>1 DEF TypeOK
    <3>3. /\ Len(map'[e]) = Len(map[e]) + 1 /\ Len(map[e]) \in Nat
          /\ map'[e][Len(map[e]) + 1] = line
          /\ \A i \in 1..Len(map[e]) : map'[e][i] = map[e][i]
      BY <3>1, <3>2, AppendProperties, LenProperties
    <3> SUFFICES ASSUME NEW d \in Dbs, NEW i \in 1..Len(map'[d])
                 PROVE  EndsAt(data'[d], map'[d][i].end, map'[d][i].name)
      BY DEF NamedInFile
    <3>4. CASE d # e
      BY <1>0, <2>1, <3>2, <3>4 DEF NamedInFile
    <3>5. CASE d = e /\ i \in 1..Len(map[e])
      BY <1>0, <2>1, <3>3, <3>5 DEF NamedInFile
    <3>6. CASE d = e /\ i = Len(map[e]) + 1
      BY <2>1, <2>4, <2>5, <3>3, <3>6
    <3> QED BY <3>3, <3>4, <3>5, <3>6
  <2> QED BY <1>1, <2>1, <2>2, <2>3, <2>6 DEF line
<1>7. CASE UNCHANGED <<data, map, pc, job, off, buf, left, input, cursor, base>>
  BY <1>0, <1>1, <1>7 DEF NoMerge
<1>8. ~(\E m \in MergeJobs : MergeStart(w, m))
  OBVIOUS
<1>9. ~ (\/ MergeOpenInput(w) \/ MergeCopy(w) \/ MergeCopied(w)
         \/ MergeLine(w) \/ MergeNextInput(w) \/ MergeEnd(w))
  BY <1>0 DEF MergeOpenInput, MergeCopy, MergeCopied, MergeLine, MergeNextInput, MergeEnd
<1> QED BY <1>2, <1>3, <1>4, <1>5, <1>6, <1>7, <1>8, <1>9, OneWriter DEF Working

-----------------------------------------------------------------------------
(* The catalogue as a query sees it                                        *)

\* Sets of numbers have the least element that lower_bound looks for,
LEMMA LeastIsLeast ==
    ASSUME NEW S \in SUBSET Nat, S # {}
    PROVE  Min(S) \in S /\ \A k \in S : Min(S) <= k
<1>1. Min(S) \in S
  BY LeastElement
<1> DEFINE R == OpToRel(<, Nat)
<1>2. IsWellFoundedOn(R, Nat)
  BY NatLessThanWellFounded
<1>3. PICK m \in S : \A k \in S : ~(<<k, m>> \in R)
  BY <1>2, WFMin
<1>4. \A k \in S : k < m => <<k, m>> \in R
  BY DEF OpToRel
<1> HIDE DEF R
<1>5. \A k \in S : ~(k < m)
  BY <1>3, <1>4
<1>6. \A k \in S : m <= k
  BY <1>5
<1> QED BY <1>1, <1>6 DEF Min

\* and, as long as they are bounded, a largest one.
LEMMA LargestElement ==
    ASSUME NEW n \in Nat, NEW S \in SUBSET (0..n), S # {}
    PROVE  Max(S) \in S /\ \A k \in S : k <= Max(S)
<1> DEFINE T == {k \in 0..n : (n - k) \in S}
<1>1. T # {}
  <2>1. PICK k \in S : TRUE
    OBVIOUS
  <2>2. n - (n - k) = k /\ (n - k) \in 0..n
    OBVIOUS
  <2>3. (n - k) \in T
    BY <2>2
  <2> QED BY <2>3
<1>2. Min(T) \in T /\ \A k \in T : Min(T) <= k
  <2>1. T \subseteq Nat
    BY SMT
  <2> HIDE DEF T
  <2> QED BY <1>1, <2>1, LeastIsLeast
<1> DEFINE m == n - Min(T)
<1>3. m \in S
  BY <1>2
<1>4. \A k \in S : k <= m
  <2> SUFFICES ASSUME NEW k \in S PROVE k <= m
    OBVIOUS
  <2>1. k \in 0..n /\ n - (n - k) = k /\ (n - k) \in 0..n
    OBVIOUS
  <2>2. (n - k) \in T
    BY <2>1
  <2>3. Min(T) <= n - k /\ Min(T) \in 0..n
    BY <1>2, <2>2
  <2> QED BY <2>1, <2>3
<1> HIDE DEF m
<1> QED BY <1>3, <1>4 DEF Max

\* Every end has the name of a line with that end.
LEMMA NameOfLine ==
    ASSUME NEW lines \in Seq(Lines), NEW e \in DOMAIN ToIds(lines)
    PROVE  \E i \in 1..Len(lines) : lines[i].end = e /\ ToIds(lines)[e] = lines[i].name
<1>0. DOMAIN lines = 1..Len(lines) /\ Len(lines) \in Nat
  BY LenProperties
<1> DEFINE S == {i \in DOMAIN lines : lines[i].end = e}
<1>1. ToIds(lines)[e] = lines[Max(S)].name /\ S # {}
  BY DEF ToIds
<1>2. S \in SUBSET (0..Len(lines))
  BY <1>0
<1>3. Max(S) \in S
  <2> HIDE DEF S
  <2> QED BY <1>0, <1>1, <1>2, LargestElement
<1> QED BY <1>0, <1>1, <1>3

\* Every entry read is a line of the catalogue, with a name that is made of its
\* own: what is read in the place of a missing name is the next line's number,
\* and any other word stands behind the number of its own line.
SomeLine(lines, id, name) == \E j \in 1..Len(lines) : lines[j].end = id /\ name \in Called(lines[j].name)
OfLines(lines, read) == \A i \in 1..Len(read) : SomeLine(lines, read[i].end, read[i].name)
Unnamed(lines, id) == \E j \in 1..Len(lines) : lines[j].end = id /\ lines[j].name = NoName
ReadSoFar(lines, a) == OfLines(lines, a.read) /\ (a.at = "name" => Unnamed(lines, a.id))

LEMMA OneMoreRead ==
    ASSUME NEW lines, NEW read \in Seq(Lines), NEW id, NEW name, OfLines(lines, read), SomeLine(lines, id, name)
    PROVE  OfLines(lines, Append(read, [end |-> id, name |-> name]))
<1> DEFINE pair == [end |-> id, name |-> name]
           more == Append(read, pair)
<1>1. pair.end = id /\ pair.name = name
  OBVIOUS
<1> HIDE DEF pair
<1>2. /\ Len(more) = Len(read) + 1 /\ more[Len(read) + 1] = pair /\ Len(read) \in Nat
      /\ \A i \in 1..Len(read) : more[i] = read[i]
  BY AppendProperties
<1> HIDE DEF more
<1>3. ASSUME NEW i \in 1..Len(more) PROVE SomeLine(lines, more[i].end, more[i].name)
  <2>1. i \in 1..Len(read) \/ i = Len(read) + 1
    BY <1>2
  <2> QED BY <1>1, <1>2, <2>1 DEF OfLines
<1> QED BY <1>3 DEF OfLines, more, pair

LEMMA LineReadSo ==
    ASSUME NEW lines \in Seq(Lines), NEW k \in 1..Len(lines), lines[k].name \notin Nat,
           NEW a \in Readings, ReadSoFar(lines, a)
    PROVE  ReadSoFar(lines, ReadLine(a, lines[k]))
<1> DEFINE line == lines[k]
           number == ReadWord(a, line.end)
<1>0. line \in Lines
  BY ElementOfSeq
<1>1. /\ line.end \in Nat /\ line.end \in Names /\ line.name \in Names /\ line.name \notin Nat
      /\ Cut \in Names /\ Cut \notin Nat /\ number \in Readings
  <2> HIDE DEF line
  <2>1. line.name \notin Nat
    BY DEF line
  <2> QED BY <1>0, <2>1, LineRead
<1>2. /\ line.name = NoName => Unnamed(lines, line.end)
      /\ line.name \in Spaced => SomeLine(lines, line.end, Cut)
      /\ line.name \notin Spaced \union {NoName} => SomeLine(lines, line.end, line.name)
  BY NamesAssumption DEF Unnamed, SomeLine, Called, NamesAssumption
<1>3. Unnamed(lines, a.id) => SomeLine(lines, a.id, line.end)
  BY <1>1 DEF Unnamed, SomeLine, Called
<1>4. /\ line.name = NoName => ReadLine(a, line) = number
      /\ line.name \in Spaced => /\ ReadLine(a, line) = ReadWord(ReadWord(number, Cut), Cut)
                                 /\ ReadWord(number, Cut) \in Readings
      /\ line.name \notin Spaced \union {NoName} => ReadLine(a, line) = ReadWord(number, line.name)
  <2> HIDE DEF line
  <2> QED BY <1>0, LineRead DEF number
<1>5. a.at \in {"id", "name", "failed"} /\ a.read \in Seq(Lines) /\ OfLines(lines, a.read)
  BY DEF Readings, ReadSoFar
<1> SUFFICES ReadSoFar(lines, ReadLine(a, line))
  OBVIOUS
<1> HIDE DEF line
\* what a word that stands in the place of a number leads to
<1>6. ASSUME NEW b \in Readings, NEW word \in Names, word \notin Nat,
             b.at \in {"id", "failed"}, OfLines(lines, b.read)
      PROVE  /\ ReadSoFar(lines, ReadWord(b, word)) /\ ReadWord(b, word) \in Readings
             /\ ReadWord(b, word).at = "failed" /\ OfLines(lines, ReadWord(b, word).read)
  <2>1. CASE b.at = "failed"
    <3>1. ReadWord(b, word) = b
      BY <2>1, WordRead
    <3> QED BY <1>6, <2>1, <3>1 DEF ReadSoFar
  <2>2. CASE b.at = "id"
    <3>1. ReadWord(b, word) = [at |-> "failed", id |-> b.id, read |-> b.read] /\ ReadWord(b, word) \in Readings
      BY <1>6, <2>2, WordRead
    <3>2. ReadWord(b, word).at = "failed" /\ ReadWord(b, word).read = b.read
      BY <3>1
    <3> QED BY <1>6, <3>1, <3>2 DEF ReadSoFar
  <2> QED BY <1>6, <2>1, <2>2
\* and what one that stands in the place of a name does
<1>7. ASSUME NEW b \in Readings, NEW word \in Names,
             b.at = "name", OfLines(lines, b.read), SomeLine(lines, b.id, word)
      PROVE  /\ ReadSoFar(lines, ReadWord(b, word)) /\ ReadWord(b, word) \in Readings
             /\ ReadWord(b, word).at = "id" /\ OfLines(lines, ReadWord(b, word).read)
  <2>1. b.read \in Seq(Lines)
    BY DEF Readings
  <2>2. OfLines(lines, Append(b.read, [end |-> b.id, name |-> word]))
    BY <1>7, <2>1, OneMoreRead
  <2>3. /\ ReadWord(b, word) \in Readings
        /\ ReadWord(b, word) = [at |-> "id", id |-> b.id,
                                read |-> Append(b.read, [end |-> b.id, name |-> word])]
    BY <1>7, WordRead
  <2> QED BY <2>2, <2>3 DEF ReadSoFar
<1>8. CASE a.at = "id"
  <2>1. number = [at |-> "name", id |-> line.end, read |-> a.read]
    BY <1>1, <1>8, WordRead DEF number
  <2> HIDE DEF number
  <2>2. number.at = "name" /\ number.id = line.end /\ OfLines(lines, number.read)
    BY <1>5, <2>1
  <2>3. CASE line.name = NoName
    BY <1>2, <1>4, <2>2, <2>3 DEF ReadSoFar
  <2>4. CASE line.name \in Spaced
    <3>1. SomeLine(lines, number.id, Cut)
      BY <1>2, <2>2, <2>4
    <3>2. ReadWord(number, Cut).at = "id" /\ OfLines(lines, ReadWord(number, Cut).read)
      BY <1>1, <1>7, <2>2, <3>1
    <3> QED BY <1>1, <1>4, <1>6, <2>4, <3>2
  <2>5. CASE line.name \notin Spaced \union {NoName}
    <3>1. SomeLine(lines, number.id, line.name)
      BY <1>2, <2>2, <2>5
    <3> QED BY <1>1, <1>4, <1>7, <2>2, <2>5, <3>1
  <2> QED BY <2>3, <2>4, <2>5
<1>9. CASE a.at # "id"
  <2>1. /\ number.at \in {"id", "failed"} /\ OfLines(lines, number.read)
        /\ ReadSoFar(lines, number)
    <3>1. CASE a.at = "name"
      <4>1. SomeLine(lines, a.id, line.end)
        BY <1>3, <3>1 DEF ReadSoFar
      <4> QED BY <1>1, <1>5, <1>7, <3>1, <4>1 DEF number
    <3>2. CASE a.at = "failed"
      <4>1. number = a
        BY <1>1, <3>2, WordRead DEF number
      <4> HIDE DEF number
      <4> QED BY <1>5, <3>2, <4>1 DEF ReadSoFar
    <3> QED BY <1>5, <1>9, <3>1, <3>2
  <2> HIDE DEF number
  <2>2. CASE line.name = NoName
    BY <1>4, <2>1, <2>2
  <2>3. CASE line.name \in Spaced
    <3>1. ReadWord(number, Cut).at = "failed" /\ OfLines(lines, ReadWord(number, Cut).read)
      BY <1>1, <1>6, <2>1
    <3> QED BY <1>1, <1>4, <1>6, <2>3, <3>1
  <2>4. CASE line.name \notin Spaced \union {NoName}
    BY <1>1, <1>4, <1>6, <2>1, <2>4
  <2> QED BY <2>2, <2>3, <2>4
<1> QED BY <1>8, <1>9 DEF line

LEMMA LinesRead ==
    ASSUME NEW lines \in Seq(Lines), \A j \in 1..Len(lines) : lines[j].name \notin Nat
    PROVE  OfLines(lines, ReadMap(lines))
<1> DEFINE G == [k \in 0..Len(lines) |-> {a \in Readings : ReadSoFar(lines, a)}]
<1>1. Len(lines) \in Nat /\ \A k \in 1..Len(lines) : lines[k] \in Lines /\ k - 1 \in 0..Len(lines) /\ k \in 0..Len(lines)
  OBVIOUS
<1>2. \A k \in 0..Len(lines) : G[k] = {a \in Readings : ReadSoFar(lines, a)}
  OBVIOUS
<1> HIDE DEF G
<1>3. ASSUME NEW k \in 1..Len(lines), NEW a \in Readings, a \in G[k - 1]
      PROVE  ReadLine(a, lines[k]) \in G[k]
  <2>1. ReadSoFar(lines, a) /\ lines[k].name \notin Nat
    BY <1>1, <1>2, <1>3
  <2>2. ReadSoFar(lines, ReadLine(a, lines[k]))
    BY <2>1, LineReadSo
  <2>3. ReadLine(a, lines[k]) \in Readings
    BY <1>1, LineRead
  <2> QED BY <1>1, <1>2, <2>2, <2>3
<1>4. LeadsLines(lines, G)
  BY <1>3 DEF LeadsLines
<1>5. Begin \in G[0]
  <2>1. Begin.at = "id" /\ Begin.read = << >> /\ Len(<< >>) = 0
    BY EmptySeq DEF Begin
  <2>2. OfLines(lines, Begin.read)
    BY <2>1 DEF OfLines
  <2>3. ReadSoFar(lines, Begin)
    BY <2>1, <2>2 DEF ReadSoFar
  <2>4. 0 \in 0..Len(lines)
    BY <1>1
  <2> QED BY <1>2, <2>3, <2>4, BeginIs
<1>6. FoldLeft(ReadLine, Begin, lines) \in G[Len(lines)] /\ Len(lines) \in 0..Len(lines)
  BY <1>1, <1>4, <1>5, LinesReach
<1>7. ReadSoFar(lines, FoldLeft(ReadLine, Begin, lines))
  BY <1>2, <1>6
<1> QED BY <1>7 DEF ReadSoFar, ReadMap

\* What a line of the file says is what the map that is read from it says.
LEMMA KilledOwn ==
    ASSUME TypeOK, NamedInFile
    PROVE  OwnSuffix
<1> SUFFICES ASSUME NEW d \in Dbs, \A i \in DOMAIN map[d] : map[d][i].name \notin Nat,
                    NEW e \in DOMAIN Ids(d)
             PROVE  \E t \in Tracks :
                       /\ Ids(d)[e] \in Called(t)
                       /\ \A k \in 1..FpCount[t] : /\ e - FpCount[t] + k \in DOMAIN data[d]
                                                   /\ data[d][e - FpCount[t] + k] = Fp(t, k)
  BY Zenon DEF OwnSuffix
<1>1. map[d] \in Seq(Lines) /\ data[d] \in Seq(Fps) /\ DOMAIN map[d] = 1..Len(map[d])
  <2>1. map[d] \in Seq(Lines) /\ data[d] \in Seq(Fps)
    BY DEF TypeOK
  <2> QED BY <2>1, LenProperties
<1>2. ReadMap(map[d]) \in Seq(Lines)
  BY <1>1, ReadMapType
<1>3. PICK i \in 1..Len(ReadMap(map[d])) :
         ReadMap(map[d])[i].end = e /\ Ids(d)[e] = ReadMap(map[d])[i].name
  BY <1>2, NameOfLine DEF Ids
<1>4. PICK j \in 1..Len(map[d]) : /\ ReadMap(map[d])[i].end = map[d][j].end
                                  /\ ReadMap(map[d])[i].name \in Called(map[d][j].name)
  <2>1. OfLines(map[d], ReadMap(map[d]))
    BY <1>1, LinesRead
  <2> QED BY <2>1 DEF OfLines, SomeLine
<1> DEFINE t == map[d][j].name
<1>5. EndsAt(data[d], e, t) /\ Ids(d)[e] \in Called(t)
  BY <1>3, <1>4 DEF NamedInFile
<1>6. e \in Nat
  <2>1. map[d][j] \in Lines
    BY <1>1, ElementOfSeq
  <2> QED BY <1>3, <1>4, <2>1 DEF Lines
<1> HIDE DEF t
<1>7. /\ t \in Tracks /\ FpCount[t] \in Nat
      /\ FpCount[t] <= e /\ e <= Len(data[d])
      /\ \A k \in 1..FpCount[t] : data[d][(e - FpCount[t]) + k] = Fp(t, k)
  BY <1>5, CountAssumption DEF EndsAt, CountAssumption
<1>8. DOMAIN data[d] = 1..Len(data[d]) /\ Len(data[d]) \in Nat
  BY <1>1, LenProperties
<1>9. ASSUME NEW k \in 1..FpCount[t]
      PROVE  /\ e - FpCount[t] + k \in DOMAIN data[d]
             /\ data[d][e - FpCount[t] + k] = Fp(t, k)
  <2>1. e - FpCount[t] + k = (e - FpCount[t]) + k /\ (e - FpCount[t]) + k \in 1..Len(data[d])
    BY <1>6, <1>7, <1>8
  <2> QED BY <1>7, <1>8, <2>1
<1> QED BY <1>5, <1>7, <1>9

LEMMA KilledInit == Init => KilledInv
<1> SUFFICES ASSUME Init PROVE KilledInv
  OBVIOUS
<1>1. TypeOK
  BY InitType
<1>2. AloneInv /\ WrittenInv /\ NoMerge
  BY DEF Init, AloneInv, WrittenInv, NoMerge
<1>3. NamedInFile
  <2>1. \A d \in Dbs : 1..Len(map[d]) = {}
    BY EmptySeq DEF Init
  <2> QED BY <2>1 DEF NamedInFile
<1> QED BY <1>1, <1>2, <1>3 DEF KilledInv

\* Insertions into any databases, of any tracks, by one writer at a time, each
\* of which may be killed at any point any number of times: an entry that a query
\* reads always ends with the fingerprints of the track it names, or whose name,
\* blank or empty, is not read back as it was written.
THEOREM EntriesOwnSuffix ==
    ASSUME NEW w, Writers = {w}, MergeJobs = {}
    PROVE  Spec => []OwnSuffix
<1>1. KilledInv /\ [Next]_vars => KilledInv'
  <2> SUFFICES ASSUME KilledInv, [Next]_vars PROVE KilledInv'
    OBVIOUS
  <2>1. TypeOK /\ AloneInv /\ WrittenInv
    BY DEF KilledInv
  <2>2. TypeOK'
    BY <2>1, StepType
  <2>3. AloneInv' /\ WrittenInv'
    BY <2>1, <2>2, AloneStep, WrittenStep
  <2>4. NamedInFile' /\ NoMerge'
    BY <2>1, <2>2, NamedStep
  <2> QED BY <2>2, <2>3, <2>4 DEF KilledInv
<1>2. KilledInv => OwnSuffix
  BY KilledOwn DEF KilledInv
<1> QED BY <1>1, <1>2, KilledInit, PTL DEF Spec

-----------------------------------------------------------------------------
(* Insertions and merges that are not killed: what a step does             *)

\* What a writer has handed over stays where it is.
LEMMA StreamGrows ==
    ASSUME NEW w, Writers = {w}, TypeOK, TypeOK', AloneInv, [Next]_vars, ~Crash(w), NEW d \in Dbs
    PROVE  Prefix(Stream(w, d), Stream(w, d)')
<1>0. w \in Writers /\ Stream(w, d) \in Seq(Fps)
  BY StreamType
<1>1. ASSUME Stream(w, d)' = Stream(w, d) PROVE Prefix(Stream(w, d), Stream(w, d)')
  BY <1>0, <1>1, PrefixSelf
<1>2. ASSUME pc[w] \in {"idle", "map"}, UNCHANGED data, buf'[w] = << >>
      PROVE  Stream(w, d)' = Stream(w, d)
  <2>1. buf[w] = << >>
    BY <1>0, <1>2 DEF AloneInv
  <2>2. Stream(w, d) = data[d]
    BY <1>0, <2>1, StreamType
  <2>3. Stream(w, d)' = data'[d]
    BY <1>0, <1>2, StreamTypeNext
  <2> QED BY <1>2, <2>2, <2>3
<1>3. CASE \E e \in Dbs, t \in Tracks : InsertStart(w, e, t)
  BY <1>0, <1>1, <1>2, <1>3, InsertStartState
<1>4. CASE \E m \in MergeJobs : MergeStart(w, m)
  BY <1>0, <1>1, <1>2, <1>4, MergeStartState
<1>5. CASE InsertMap(w)
  <2>1. pc[w] = "map" /\ UNCHANGED <<data, buf>>
    BY <1>5 DEF InsertMap
  <2>2. buf'[w] = << >>
    BY <1>0, <2>1 DEF AloneInv
  <2> QED BY <1>1, <1>2, <2>1, <2>2
<1>6. ASSUME NEW e \in Dbs, e = Db(w), job' = job, NEW f \in Fps,
             Stream(w, e)' = Append(Stream(w, e), f),
             \A c \in Dbs : c # e => data'[c] = data[c]
      PROVE  Prefix(Stream(w, d), Stream(w, d)')
  <2>1. CASE d = e
    <3>1. Stream(w, d)' = Stream(w, e)' /\ Stream(w, d) = Stream(w, e)
      BY <2>1 DEF Stream
    <3>2. Stream(w, d)' = Append(Stream(w, d), f)
      BY <1>6, <3>1
    <3> QED BY <1>0, <1>6, <3>2, AppendGrows
  <2>2. CASE d # e
    <3>1. Stream(w, d) = data[d]
      BY <1>0, <1>6, <2>2, StreamType
    <3>2. Stream(w, d)' = data'[d]
      BY <1>0, <1>6, <2>2, StreamTypeNext DEF Db
    <3> QED BY <1>1, <1>6, <2>2, <3>1, <3>2
  <2> QED BY <2>1, <2>2
<1>7. CASE InsertWrite(w)
  <2>1. PICK e \in Dbs : e = Db(w)
    BY <1>0, <1>7, Busy DEF InsertWrite
  <2> DEFINE f == Fp(job[w].track, (FpCount[job[w].track] - left[w]) + 1)
  <2>2. /\ job' = job /\ f \in Fps /\ Stream(w, e)' = Append(Stream(w, e), f)
        /\ \A c \in Dbs : c # e => data'[c] = data[c]
    BY <1>0, <1>7, <2>1, InsertWriteStream
  <2> HIDE DEF f
  <2> QED BY <1>6, <2>1, <2>2
<1>8. CASE MergeCopy(w)
  <2>1. PICK e \in Dbs : e = Db(w)
    BY <1>0, <1>8, Busy DEF MergeCopy
  <2> DEFINE f == data[Input(w)][cursor[w] + 1]
  <2>2. /\ job' = job /\ f \in Fps /\ Stream(w, e)' = Append(Stream(w, e), f)
        /\ \A c \in Dbs : c # e => data'[c] = data[c]
    BY <1>0, <1>8, <2>1, MergeCopyStream
  <2> HIDE DEF f
  <2> QED BY <1>6, <2>1, <2>2
<1>9. CASE InsertClose(w) \/ MergeEnd(w)
  <2>1. pc[w] # "idle" /\ FlushOf(w, buf[w])
    BY <1>9 DEF InsertClose, MergeEnd
  <2>2. PICK e \in Dbs : e = Db(w)
    BY <1>0, <2>1, Busy
  <2>3. /\ data'[e] = Stream(w, e) /\ buf'[w] = << >>
        /\ \A c \in Dbs : c # e => data'[c] = data[c]
    BY <1>0, <2>1, <2>2, CloseStream
  <2>4. Stream(w, d)' = data'[d]
    BY <1>0, <2>3, StreamTypeNext
  <2>5. d # e => Stream(w, d) = data[d]
    BY <1>0, <2>2, StreamType
  <2> QED BY <1>1, <2>3, <2>4, <2>5
<1>10. CASE MergeOpenInput(w) \/ MergeCopied(w) \/ MergeLine(w) \/ MergeNextInput(w)
  BY <1>0, <1>1, <1>10, MergeMoves DEF Stream, Db
<1>11. CASE UNCHANGED <<data, map, pc, job, off, buf, left, input, cursor, base>>
  BY <1>1, <1>11 DEF Stream, Db
<1> QED BY <1>3, <1>4, <1>5, <1>7, <1>8, <1>9, <1>10, <1>11, OneWriter DEF Working

\* What the catalogues say stays true while they stay as they are.
LEMMA NamedKept ==
    ASSUME NEW w, Writers = {w}, TypeOK, TypeOK', AloneInv, [Next]_vars, ~Crash(w), NEW d \in Dbs,
           NEW e \in Nat, NEW t, EndsAt(Stream(w, d), e, t)
    PROVE  EndsAt(Stream(w, d)', e, t)
<1>1. Stream(w, d) \in Seq(Fps) /\ Stream(w, d)' \in Seq(Fps)
  BY StreamType, StreamTypeNext
<1>2. Prefix(Stream(w, d), Stream(w, d)')
  BY StreamGrows
<1> QED BY <1>1, <1>2, EndsAtStays

LEMMA LineTypes ==
    ASSUME NEW lines \in Seq(Lines)
    PROVE  /\ Len(lines) \in Nat
           /\ \A i \in 1..Len(lines) : lines[i] \in Lines /\ lines[i].end \in Nat
<1>1. Len(lines) \in Nat
  BY LenProperties
<1>2. \A i \in 1..Len(lines) : lines[i] \in Lines
  BY ElementOfSeq
<1>3. \A line \in Lines : line.end \in Nat
  BY DEF Lines
<1> QED BY <1>1, <1>2, <1>3

\* The last end of a catalogue in the order of its lines
LEMMA LastEndIs ==
    ASSUME TypeOK, NEW d \in Dbs
    PROVE  /\ map[d] \in Seq(Lines) /\ Len(map[d]) \in Nat
           /\ LastEnd(d) = EndOf(map[d], Len(map[d])) /\ LastEnd(d) \in Nat
<1>1. map[d] \in Seq(Lines) /\ Len(map[d]) \in Nat
  BY LenProperties DEF TypeOK
<1>2. map[d] = << >> <=> Len(map[d]) = 0
  BY <1>1, EmptySeq
<1>3. CASE map[d] = << >>
  BY <1>1, <1>2, <1>3 DEF LastEnd, EndOf
<1>4. CASE map[d] # << >>
  <2>1. map[d][Len(map[d])] \in Lines
    BY <1>1, <1>2, <1>4, ElementOfSeq
  <2> QED BY <1>1, <1>2, <1>4, <2>1 DEF LastEnd, EndOf, Lines
<1> QED BY <1>3, <1>4

\* No line ends behind the last one.
LEMMA EndsInOrder ==
    ASSUME NEW lines \in Seq(Lines), Chain(lines), NEW i \in 1..Len(lines)
    PROVE  /\ lines[i].end \in Nat /\ lines[i].end <= EndOf(lines, Len(lines))
           /\ lines[i].end = EndOf(lines, i) /\ Start(lines, i) = EndOf(lines, i - 1)
<1>1. Len(lines) \in Nat /\ \A k \in 1..Len(lines) : lines[k].end \in Nat
  BY LineTypes
<1>2. CASE i = Len(lines)
  BY <1>1, <1>2 DEF EndOf, Start
<1>3. CASE i # Len(lines)
  <2>1. i < Len(lines) /\ Len(lines) \in 1..Len(lines)
    BY <1>1, <1>3
  <2>2. lines[i].end < lines[Len(lines)].end
    BY <2>1 DEF Chain
  <2> QED BY <1>1, <2>1, <2>2 DEF EndOf, Start
<1> QED BY <1>2, <1>3

\* A line that begins where the last one ends makes the chain of tracks longer.
LEMMA ChainLonger ==
    ASSUME NEW lines \in Seq(Lines), Chain(lines), NEW line \in Lines,
           line.name \in Tracks, FpCount[line.name] > 0,
           line.end = EndOf(lines, Len(lines)) + FpCount[line.name]
    PROVE  Chain(Append(lines, line))
<1> DEFINE new == Append(lines, line)
           n == Len(lines)
<1>1. n \in Nat /\ Len(new) = n + 1 /\ new[n + 1] = line /\ \A i \in 1..n : new[i] = lines[i]
  BY AppendProperties, LenProperties
<1>2. FpCount[line.name] \in Nat /\ line.end \in Nat
  BY CountAssumption DEF CountAssumption, Lines
<1>3. \A i \in 1..n : lines[i].end \in Nat /\ lines[i].end <= EndOf(lines, n)
  BY EndsInOrder
<1>4. EndOf(lines, n) \in Nat
  BY <1>1, <1>3 DEF EndOf
<1>5. EndOf(lines, n) < line.end
  BY <1>2, <1>4
<1>6. Start(new, n + 1) = EndOf(lines, n)
  <2>1. n = 0 \/ ((n + 1) - 1 = n /\ n + 1 # 1 /\ n \in 1..n)
    BY <1>1
  <2> HIDE DEF new, n
  <2> QED BY <1>1, <2>1 DEF Start, EndOf
<1>7. \A i \in 1..n : Start(new, i) = Start(lines, i)
  <2> SUFFICES ASSUME NEW i \in 1..n PROVE Start(new, i) = Start(lines, i)
    OBVIOUS
  <2>1. i = 1 \/ i - 1 \in 1..n
    BY <1>1
  <2> HIDE DEF new, n
  <2> QED BY <1>1, <2>1 DEF Start
<1> HIDE DEF new
<1>8. ASSUME NEW i \in 1..Len(new)
      PROVE  /\ new[i].end = Start(new, i) + FpCount[new[i].name]
             /\ \A k \in 1..Len(new) : k < i => new[k].end < new[i].end
  <2>1. CASE i \in 1..n
    <3>1. new[i] = lines[i] /\ Start(new, i) = Start(lines, i)
      BY <1>1, <1>7, <2>1
    <3>2. new[i].end = Start(new, i) + FpCount[new[i].name]
      BY <2>1, <3>1 DEF Chain
    <3>3. ASSUME NEW k \in 1..Len(new), k < i PROVE new[k].end < new[i].end
      <4>1. k \in 1..n
        BY <1>1, <2>1, <3>3
      <4>2. new[k] = lines[k] /\ lines[k].end < lines[i].end
        BY <1>1, <2>1, <3>3, <4>1 DEF Chain
      <4> QED BY <3>1, <4>2
    <3> QED BY <3>2, <3>3
  <2>2. CASE i = n + 1
    <3>1. new[i] = line /\ Start(new, i) = EndOf(lines, n)
      BY <1>1, <1>6, <2>2
    <3>2. ASSUME NEW k \in 1..Len(new), k < i PROVE new[k].end < new[i].end
      <4>1. k \in 1..n
        BY <1>1, <2>2, <3>2
      <4>2. new[k] = lines[k] /\ lines[k].end \in Nat /\ lines[k].end <= EndOf(lines, n)
        BY <1>1, <1>3, <4>1
      <4> QED BY <1>2, <1>4, <1>5, <3>1, <4>2
    <3> QED BY <3>1, <3>2
  <2> QED BY <1>1, <2>1, <2>2
<1> QED BY <1>8 DEF Chain, new

\* A line that continues the catalogue and says what the fingerprints say
LEMMA LineAdded ==
    ASSUME NEW w, Serial(w), SerialInv, TypeOK', [Next]_vars, ~Crash(w),
           NEW e \in Dbs, NEW line \in Lines, AppendLine(e, line),
           line.name \in Tracks, line.end = LastEnd(e) + FpCount[line.name],
           EndsAt(Stream(w, e)', line.end, line.name)
    PROVE  /\ Named(w)' /\ \A d \in Dbs : Chain(map'[d])
           /\ LastEnd(e)' = line.end
           /\ \A d \in Dbs : d # e => LastEnd(d)' = LastEnd(d) /\ map'[d] = map[d]
           /\ map'[e] = Append(map[e], line)
<1>0. /\ w \in Writers /\ Writers = {w} /\ TypeOK /\ AloneInv /\ Named(w) /\ \A d \in Dbs : Chain(map[d])
      /\ \A t \in Tracks : FpCount[t] > 0
  BY DEF Serial, SerialInv
<1>1. map' = [map EXCEPT ![e] = Append(map[e], line)] /\ \A d \in Dbs : map[d] \in Seq(Lines)
  BY <1>0 DEF AppendLine, TypeOK
<1>2. map'[e] = Append(map[e], line) /\ \A d \in Dbs : d # e => map'[d] = map[d]
  BY <1>0, <1>1 DEF TypeOK
<1>3. Chain(map'[e])
  <2>1. line.end = EndOf(map[e], Len(map[e])) + FpCount[line.name]
    BY <1>0, LastEndIs
  <2> QED BY <1>0, <1>1, <1>2, <2>1, ChainLonger
<1>4. \A d \in Dbs : Chain(map'[d])
  BY <1>0, <1>2, <1>3
<1>5. /\ Len(map'[e]) = Len(map[e]) + 1 /\ Len(map[e]) \in Nat
      /\ map'[e][Len(map[e]) + 1] = line
      /\ \A i \in 1..Len(map[e]) : map'[e][i] = map[e][i]
  BY <1>1, <1>2, AppendProperties, LenProperties
<1>6. LastEnd(e)' = line.end
  <2>1. map'[e] # << >>
    BY <1>5, EmptySeq
  <2> QED BY <1>5, <2>1 DEF LastEnd
<1>7. \A d \in Dbs : d # e => LastEnd(d)' = LastEnd(d)
  BY <1>2 DEF LastEnd
<1>8. ASSUME NEW d \in Dbs, NEW i \in 1..Len(map[d])
      PROVE  EndsAt(Stream(w, d)', map[d][i].end, map[d][i].name)
  <2>1. map[d][i].end \in Nat
    BY <1>1, LineTypes
  <2>2. EndsAt(Stream(w, d), map[d][i].end, map[d][i].name)
    BY <1>0 DEF Named
  <2> QED BY <1>0, <2>1, <2>2, NamedKept
<1>9. ASSUME NEW d \in Dbs, NEW i \in 1..Len(map'[d])
      PROVE  EndsAt(Stream(w, d)', map'[d][i].end, map'[d][i].name)
  <2>1. CASE d # e
    BY <1>2, <1>8, <1>9, <2>1
  <2>2. CASE d = e /\ i \in 1..Len(map[e])
    BY <1>5, <1>8, <1>9, <2>2
  <2>3. CASE d = e /\ i = Len(map[e]) + 1
    <3>1. Stream(w, d)' = Stream(w, e)'
      BY <2>3 DEF Stream
    <3> QED BY <1>5, <1>9, <2>3, <3>1
  <2> QED BY <1>5, <1>9, <2>1, <2>2, <2>3
<1>10. Named(w)'
  BY <1>9 DEF Named
<1> QED BY <1>2, <1>4, <1>6, <1>7, <1>10

\* A step that writes no line leaves the chains and the named fingerprints.
LEMMA NoLineAdded ==
    ASSUME NEW w, Serial(w), SerialInv, TypeOK', [Next]_vars, ~Crash(w), UNCHANGED map
    PROVE  /\ Named(w)' /\ \A d \in Dbs : Chain(map'[d])
           /\ \A d \in Dbs : LastEnd(d)' = LastEnd(d)
<1>0. /\ w \in Writers /\ Writers = {w} /\ TypeOK /\ AloneInv /\ Named(w) /\ \A d \in Dbs : Chain(map[d])
  BY DEF Serial, SerialInv
<1>1. \A d \in Dbs : LastEnd(d)' = LastEnd(d)
  BY DEF LastEnd
<1>2. ASSUME NEW d \in Dbs, NEW i \in 1..Len(map[d])
      PROVE  EndsAt(Stream(w, d)', map[d][i].end, map[d][i].name)
  <2>1. map[d] \in Seq(Lines)
    BY <1>0 DEF TypeOK
  <2>2. map[d][i].end \in Nat
    BY <2>1, LineTypes
  <2>3. EndsAt(Stream(w, d), map[d][i].end, map[d][i].name)
    BY <1>0 DEF Named
  <2> QED BY <1>0, <2>2, <2>3, NamedKept
<1>3. Named(w)'
  BY <1>2 DEF Named
<1> QED BY <1>0, <1>1, <1>3

\* Every name is read back as it was written.
LEMMA ReadsNamed ==
    ASSUME NEW lines \in Seq(Lines), \A k \in 1..Len(lines) : lines[k].name \notin Spaced \union {NoName}
    PROVE  ReadMap(lines) = lines
<1> DEFINE n == Len(lines)
           To(k, a) == /\ a.at = "id" /\ Len(a.read) = k
                       /\ \A i \in 1..k : a.read[i] = lines[i]
           G == [k \in 0..n |-> {a \in Readings : To(k, a)}]
<1>1. n \in Nat /\ \A k \in 1..n : lines[k] \in Lines /\ k - 1 \in 0..n /\ k \in 0..n
  OBVIOUS
<1>2. \A k \in 0..n : G[k] = {a \in Readings : To(k, a)}
  OBVIOUS
<1> HIDE DEF G
<1>3. ASSUME NEW k \in 1..n, NEW a \in Readings, a \in G[k - 1]
      PROVE  ReadLine(a, lines[k]) \in G[k]
  <2> DEFINE line == lines[k]
  <2>1. To(k - 1, a) /\ line \in Lines /\ line.name \notin Spaced \union {NoName}
    BY <1>1, <1>2, <1>3
  <2>2. a.read \in Seq(Lines)
    BY DEF Readings
  <2>3. line = [end |-> line.end, name |-> line.name]
    BY <2>1 DEF Lines
  <2> HIDE DEF line, n
  <2>4. /\ ReadLine(a, line) \in Readings /\ line.end \in Nat /\ line.end \in Names /\ line.name \in Names
        /\ ReadWord(a, line.end) \in Readings
        /\ ReadLine(a, line) = ReadWord(ReadWord(a, line.end), line.name)
    BY <2>1, LineRead
  <2> DEFINE number == ReadWord(a, line.end)
  <2>5. number = [at |-> "name", id |-> line.end, read |-> a.read]
    BY <2>1, <2>4, WordRead
  <2>6. number \in Readings /\ number.at = "name" /\ number.id = line.end /\ number.read = a.read
    BY <2>4, <2>5
  <2> HIDE DEF number
  <2>7. ReadWord(number, line.name) = [at |-> "id", id |-> line.end, read |-> Append(a.read, line)]
    BY <2>3, <2>4, <2>6, WordRead
  <2> DEFINE b == ReadLine(a, line)
  <2>8. b = [at |-> "id", id |-> line.end, read |-> Append(a.read, line)]
    BY <2>4, <2>7 DEF number
  <2> HIDE DEF b
  <2>9. b.at = "id" /\ b.read = Append(a.read, line)
    BY <2>8
  <2>10. k - 1 \in Nat /\ (k - 1) + 1 = k /\ \A i \in 1..k : i \in 1..(k - 1) \/ i = k
    BY <1>1
  <2>11. Len(b.read) = k /\ b.read[k] = line /\ \A i \in 1..(k - 1) : b.read[i] = a.read[i]
    BY <2>1, <2>2, <2>9, <2>10, AppendProperties
  <2>12. To(k, b)
    BY <2>1, <2>9, <2>10, <2>11 DEF line
  <2> HIDE DEF To
  <2> QED BY <1>1, <1>2, <2>4, <2>12 DEF b, line
<1>4. LeadsLines(lines, G)
  BY <1>3 DEF LeadsLines
<1>5. Begin \in G[0]
  <2>1. Begin.at = "id" /\ Begin.read = << >> /\ Len(<< >>) = 0 /\ 1..0 = {}
    BY EmptySeq DEF Begin
  <2>2. To(0, Begin) /\ 0 \in 0..n
    BY <1>1, <2>1
  <2> HIDE DEF To
  <2> QED BY <1>2, <2>2, BeginIs
<1> DEFINE f == FoldLeft(ReadLine, Begin, lines)
<1>6. f \in Readings /\ f \in G[n] /\ n \in 0..n
  BY <1>1, <1>4, <1>5, LinesReach
<1> HIDE DEF f
<1>7. To(n, f) /\ f.read \in Seq(Lines)
  BY <1>2, <1>6 DEF Readings
<1>8. f.read = lines
  BY <1>1, <1>7
<1> QED BY <1>8 DEF ReadMap, f

LEMMA ReadsAll ==
    ASSUME NEW w, Serial(w), TypeOK, Named(w), NEW d \in Dbs
    PROVE  ReadMap(map[d]) = map[d]
<1>1. map[d] \in Seq(Lines)
  BY DEF TypeOK
<1>2. \A i \in 1..Len(map[d]) : map[d][i].name \in Tracks
  BY DEF Named, EndsAt
<1>3. \A i \in 1..Len(map[d]) : map[d][i].name \notin Spaced \union {NoName}
  BY <1>2 DEF Serial
<1> QED BY <1>1, <1>3, ReadsNamed

\* The line of an insertion says where its track ends, which is the end of the
\* file.
LEMMA InsertMapAdds ==
    ASSUME NEW w, Serial(w), SerialInv, TypeOK', InsertMap(w), NEW e \in Dbs, e = Db(w)
    PROVE  LET line == Line(base[w], job[w].track)
           IN  /\ line \in Lines /\ AppendLine(e, line) /\ line.name \in Tracks
               /\ line.end = LastEnd(e) + FpCount[line.name] /\ line.end = Len(data[e])
               /\ EndsAt(Stream(w, e)', line.end, line.name)
<1>0. w \in Writers /\ TypeOK /\ AloneInv /\ WrittenInv /\ PlaceInv(w) /\ InDir = {}
  BY DEF Serial, SerialInv
<1>1. pc[w] = "map" /\ UNCHANGED <<data, buf>> /\ AppendLine(e, Line(base[w], job[w].track))
  BY <1>0 DEF InsertMap
<1> DEFINE line == Line(base[w], job[w].track)
<1>2. job[w].track \in Tracks /\ base[w] \in Nat
  BY <1>0, <1>1 DEF TypeOK, WriterOK
<1>3. line \in Lines /\ line.end = base[w] /\ line.name = job[w].track
  BY <1>2 DEF Line, Lines, Names
<1>4. base[w] = LastEnd(e) + FpCount[job[w].track]
  BY <1>0, <1>1 DEF PlaceInv
<1>5. base[w] = Len(data[e]) /\ EndsAt(data[e], base[w], job[w].track)
  BY <1>0, <1>1 DEF WrittenInv
<1>6. Stream(w, e)' = data[e]
  <2>1. buf'[w] = << >>
    BY <1>0, <1>1 DEF AloneInv
  <2> QED BY <1>0, <1>1, <2>1, StreamTypeNext
<1>7. EndsAt(Stream(w, e)', base[w], job[w].track)
  BY <1>5, <1>6 DEF EndsAt
<1> HIDE DEF line
<1>8. EndsAt(Stream(w, e)', line.end, line.name)
  BY <1>3, <1>7
<1>9. /\ line \in Lines /\ AppendLine(e, line) /\ line.name \in Tracks
      /\ line.end = LastEnd(e) + FpCount[line.name] /\ line.end = Len(data[e])
  BY <1>1, <1>2, <1>3, <1>4, <1>5 DEF line
<1> QED BY <1>8, <1>9 DEF line

\* A track that ends with fingerprint e of an input ends with fingerprint
\* b + e of the output, when the input has been copied behind fingerprint b.
LEMMA EndsShifted ==
    ASSUME NEW s \in Seq(Fps), NEW u \in Seq(Fps), NEW b \in Nat, NEW e \in Nat, NEW t,
           EndsAt(s, e, t), Len(u) = b + Len(s), \A k \in 1..Len(s) : u[b + k] = s[k]
    PROVE  EndsAt(u, e + b, t)
<1>1. t \in Tracks /\ FpCount[t] \in Nat
  BY CountAssumption DEF EndsAt, CountAssumption
<1>2. FpCount[t] <= e /\ e <= Len(s) /\ Len(s) \in Nat
  BY LenProperties DEF EndsAt
<1>3. FpCount[t] <= e + b /\ e + b <= Len(u)
  BY <1>1, <1>2
<1>4. ASSUME NEW k \in 1..FpCount[t] PROVE u[((e + b) - FpCount[t]) + k] = Fp(t, k)
  <2>1. ((e + b) - FpCount[t]) + k = b + ((e - FpCount[t]) + k)
    BY <1>1, <1>2
  <2>2. (e - FpCount[t]) + k \in 1..Len(s)
    BY <1>1, <1>2
  <2>3. s[(e - FpCount[t]) + k] = Fp(t, k)
    BY DEF EndsAt
  <2> QED BY <2>1, <2>2, <2>3
<1> QED BY <1>1, <1>3, <1>4 DEF EndsAt

\* The input of a merge is another database, at rest.
LEMMA InputApart ==
    ASSUME TypeOK, NEW w \in Writers, PlaceInv(w), pc[w] \in {"copy", "lines"}
    PROVE  /\ Input(w) \in Dbs /\ Input(w) # Db(w)
           /\ Len(data[Input(w)]) = LastEnd(Input(w))
           /\ Stream(w, Input(w)) = data[Input(w)]
<1>1. /\ Input(w) \in Dbs /\ job[w].inputs \in Seq(Dbs)
      /\ input[w] \in 1..Len(job[w].inputs)
  BY InputType DEF TypeOK, Jobs
<1>2. Input(w) \in Range(job[w].inputs)
  BY <1>1, InRange DEF Input
<1>3. Db(w) \notin Range(job[w].inputs)
  BY DEF PlaceInv
<1>4. Len(data[Input(w)]) = LastEnd(Input(w))
  BY <1>1, <1>2, <1>3 DEF PlaceInv
<1>5. PICK c \in Dbs : c = Input(w)
  BY <1>1
<1>6. Stream(w, c) = data[c]
  BY <1>2, <1>3, <1>5, StreamType
<1> QED BY <1>1, <1>2, <1>3, <1>4, <1>5, <1>6

\* The line of a merge says where the copy of the input's track ends.
LEMMA MergeAddsLine ==
    ASSUME NEW w, Serial(w), SerialInv, TypeOK', MergeLine(w), NEW e \in Dbs, e = Db(w),
           NEW c \in Dbs, c = Input(w)
    PROVE  LET i    == cursor[w] + 1
               line == Line(map[c][i].end + base[w], map[c][i].name)
           IN  /\ i \in 1..Len(map[c])
               /\ line \in Lines /\ AppendLine(e, line) /\ line.name \in Tracks
               /\ line.end = LastEnd(e) + FpCount[line.name]
               /\ line.end = base[w] + EndOf(map[c], i)
               /\ EndsAt(Stream(w, e)', line.end, line.name)
<1>0. /\ w \in Writers /\ TypeOK /\ AloneInv /\ PlaceInv(w) /\ Named(w) /\ Chain(map[c])
      /\ cursor[w] \in Nat /\ base[w] \in Nat
  BY DEF Serial, SerialInv, TypeOK
<1> DEFINE i    == cursor[w] + 1
           line == Line(map[c][i].end + base[w], map[c][i].name)
<1>1. ReadMap(map[c]) = map[c]
  BY <1>0, ReadsAll
<1>2. /\ pc[w] = "lines" /\ UNCHANGED <<data, job, buf>>
      /\ i <= Len(map[c]) /\ AppendLine(e, line)
  BY <1>1 DEF MergeLine
<1>3. map[c] \in Seq(Lines) /\ Len(map[c]) \in Nat /\ data[c] \in Seq(Fps) /\ Stream(w, e) \in Seq(Fps)
  BY <1>0, LastEndIs, StreamType
<1>4. i \in 1..Len(map[c])
  BY <1>0, <1>2, <1>3
<1>5. c # e /\ Stream(w, c) = data[c]
  <2>1. Stream(w, Input(w)) = Stream(w, c)
    OBVIOUS
  <2> QED BY <1>0, <1>2, <2>1, InputApart
<1>6. /\ Copied(Stream(w, e), base[w], data[c], Len(data[c])) /\ LastEnd(e) = base[w] + EndOf(map[c], cursor[w])
  BY <1>0, <1>2 DEF PlaceInv
<1>7. Len(Stream(w, e)) = base[w] + Len(data[c]) /\ \A k \in 1..Len(data[c]) : Stream(w, e)[base[w] + k] = data[c][k]
  BY <1>6 DEF Copied
<1> HIDE DEF i
<1>8. map[c][i] \in Lines /\ map[c][i].end \in Nat
  BY <1>3, <1>4, LineTypes
<1>9. EndsAt(data[c], map[c][i].end, map[c][i].name)
  <2>1. EndsAt(Stream(w, c), map[c][i].end, map[c][i].name)
    BY <1>0, <1>4 DEF Named
  <2> QED BY <1>5, <2>1
<1>10. map[c][i].name \in Tracks /\ FpCount[map[c][i].name] \in Nat
  BY <1>9, CountAssumption DEF EndsAt, CountAssumption
<1>11. EndsAt(Stream(w, e), map[c][i].end + base[w], map[c][i].name)
  BY <1>0, <1>3, <1>7, <1>8, <1>9, EndsShifted
<1>12. EndsAt(Stream(w, e)', map[c][i].end + base[w], map[c][i].name)
  <2>1. Stream(w, e)' = Stream(w, e)
    BY <1>2 DEF Stream, Db
  <2> QED BY <1>11, <2>1 DEF EndsAt
<1>13. /\ map[c][i].end = EndOf(map[c], i) /\ EndOf(map[c], i - 1) \in Nat
       /\ map[c][i].end = EndOf(map[c], i - 1) + FpCount[map[c][i].name]
  <2>1. /\ map[c][i].end = EndOf(map[c], i) /\ Start(map[c], i) = EndOf(map[c], i - 1)
    BY <1>0, <1>3, <1>4, EndsInOrder
  <2>2. map[c][i].end = Start(map[c], i) + FpCount[map[c][i].name]
    BY <1>0, <1>4 DEF Chain
  <2>3. i = 1 \/ i - 1 \in 1..Len(map[c])
    BY <1>3, <1>4
  <2>4. EndOf(map[c], i - 1) \in Nat
    BY <1>3, <2>3, LineTypes DEF EndOf
  <2> QED BY <2>1, <2>2, <2>4
<1>14. i - 1 = cursor[w]
  BY <1>0 DEF i
<1>15. map[c][i].end + base[w] = LastEnd(e) + FpCount[map[c][i].name]
  BY <1>0, <1>6, <1>10, <1>13, <1>14
<1>16. map[c][i].end + base[w] = base[w] + EndOf(map[c], i)
  BY <1>0, <1>8, <1>13
<1>17. line \in Lines /\ line.end = map[c][i].end + base[w] /\ line.name = map[c][i].name
  <2>1. map[c][i].end + base[w] \in Nat
    BY <1>0, <1>8
  <2> QED BY <1>10, <2>1 DEF Line, Lines, Names
<1> HIDE DEF line
<1>18. EndsAt(Stream(w, e)', line.end, line.name)
  BY <1>12, <1>17
<1>19. /\ i \in 1..Len(map[c])
       /\ line \in Lines /\ AppendLine(e, line) /\ line.name \in Tracks
       /\ line.end = LastEnd(e) + FpCount[line.name]
       /\ line.end = base[w] + EndOf(map[c], i)
  BY <1>2, <1>4, <1>10, <1>15, <1>16, <1>17
<1> QED BY <1>18, <1>19 DEF line, i

-----------------------------------------------------------------------------
(* Where a writer is and how far the catalogue is                          *)

\* PlaceInv after a step, for a writer of database e
LEMMA PlaceNext ==
    ASSUME NEW w, NEW e \in Dbs, Db(w)' = e, pc'[w] # "idle",
           \A d \in Dbs : d # e => Len(data'[d]) = LastEnd(d)',
           pc'[w] = "write" =>
              Len(Stream(w, e)') = LastEnd(e)' + (FpCount[job'[w].track] - left'[w]),
           pc'[w] = "map" => base'[w] = LastEnd(e)' + FpCount[job'[w].track],
           pc'[w] = "input" => Len(Stream(w, e)') = LastEnd(e)',
           pc'[w] = "copy" => /\ base'[w] = LastEnd(e)'
                              /\ Copied(Stream(w, e)', base'[w], data'[Input(w)'], cursor'[w]),
           pc'[w] = "lines" =>
              /\ Copied(Stream(w, e)', base'[w], data'[Input(w)'], Len(data'[Input(w)']))
              /\ cursor'[w] <= Len(map'[Input(w)'])
              /\ LastEnd(e)' = base'[w] + EndOf(map'[Input(w)'], cursor'[w]),
           pc'[w] \in {"input", "copy", "lines"} => e \notin Range(job'[w].inputs)
    PROVE  PlaceInv(w)'
<1>1. Stream(w, Db(w))' = Stream(w, e)'
  BY DEF Stream
<1>2. LastEnd(Db(w))' = LastEnd(e)'
  BY DEF LastEnd
<1>3. data[Input(w)]' = data'[Input(w)'] /\ map[Input(w)]' = map'[Input(w)']
  OBVIOUS
<1> QED BY <1>1, <1>2, <1>3 DEF PlaceInv

LEMMA PlaceIdle ==
    ASSUME NEW w, pc'[w] = "idle", \A d \in Dbs : Len(data'[d]) = LastEnd(d)'
    PROVE  PlaceInv(w)'
BY DEF PlaceInv

\* One fingerprint more is copied.
LEMMA CopiedMore ==
    ASSUME NEW s \in Seq(Fps), NEW t \in Seq(Fps), NEW b \in Nat, NEW n \in Nat, n < Len(t),
           Copied(s, b, t, n)
    PROVE  Copied(Append(s, t[n + 1]), b, t, n + 1)
<1> DEFINE u == Append(s, t[n + 1])
<1>1. Len(t) \in Nat /\ t[n + 1] \in Fps
  <2>1. Len(t) \in Nat
    BY LenProperties
  <2>2. n + 1 \in 1..Len(t)
    BY <2>1
  <2> QED BY <2>1, <2>2, ElementOfSeq
<1>2. Len(u) = Len(s) + 1 /\ Len(s) \in Nat /\ u[Len(s) + 1] = t[n + 1] /\ \A i \in 1..Len(s) : u[i] = s[i]
  BY <1>1, AppendProperties, LenProperties
<1>3. Len(s) = b + n /\ \A k \in 1..n : s[b + k] = t[k]
  BY DEF Copied
<1> HIDE DEF u
<1>4. ASSUME NEW k \in 1..(n + 1) PROVE u[b + k] = t[k]
  <2>1. CASE k = n + 1
    <3>1. b + k = Len(s) + 1
      BY <1>3, <2>1
    <3> QED BY <1>2, <2>1, <3>1
  <2>2. CASE k # n + 1
    <3>1. k \in 1..n /\ b + k \in 1..Len(s)
      BY <1>2, <1>3, <2>2
    <3> QED BY <1>2, <1>3, <3>1
  <2> QED BY <2>1, <2>2
<1>5. n + 1 <= Len(t) /\ Len(u) = b + (n + 1)
  BY <1>1, <1>2, <1>3
<1> QED BY <1>4, <1>5 DEF Copied, u

LEMMA CopiedNothing ==
    ASSUME NEW s \in Seq(Fps), NEW t \in Seq(Fps)
    PROVE  Copied(s, Len(s), t, 0)
<1>1. Len(s) \in Nat /\ Len(t) \in Nat
  BY LenProperties
<1> QED BY <1>1 DEF Copied

\* Nothing is killed in a serial history.
LEMMA NoCrash ==
    ASSUME NEW w, Serial(w), SerialInv
    PROVE  ~Crash(w)
BY DEF Serial, SerialInv, Crash

\* An operation begins where the last one ended,
LEMMA PlaceStart ==
    ASSUME NEW w, Serial(w), SerialInv, TypeOK', [Next]_vars,
           \/ \E d \in Dbs, t \in Tracks : InsertStart(w, d, t)
           \/ \E m \in MergeJobs : MergeStart(w, m)
    PROVE  PlaceInv(w)'
<1>0. w \in Writers /\ Writers = {w} /\ TypeOK /\ PlaceInv(w) /\ ~Crash(w)
  BY NoCrash DEF Serial, SerialInv
<1>1. ASSUME NEW e \in Dbs, pc[w] = "idle", UNCHANGED <<data, map>>, buf'[w] = << >>
      PROVE  /\ \A d \in Dbs : d # e => Len(data'[d]) = LastEnd(d)'
             /\ Len(Stream(w, e)') = LastEnd(e)' /\ LastEnd(e)' \in Nat
  <2>1. \A d \in Dbs : LastEnd(d)' = LastEnd(d) /\ LastEnd(d) \in Nat
    BY <1>0, <1>1, LastEndIs DEF LastEnd
  <2>2. \A d \in Dbs : Len(data[d]) = LastEnd(d)
    BY <1>0, <1>1 DEF PlaceInv
  <2>3. Stream(w, e)' = data'[e]
    BY <1>0, <1>1, StreamTypeNext
  <2> QED BY <1>1, <2>1, <2>2, <2>3
<1>2. CASE \E d \in Dbs, t \in Tracks : InsertStart(w, d, t)
  <2>1. PICK e \in Dbs, t \in Tracks : InsertStart(w, e, t)
    BY <1>2
  <2>2. /\ pc[w] = "idle" /\ pc'[w] = "write" /\ UNCHANGED <<data, map>>
        /\ job'[w].db = e /\ job'[w].track = t /\ left'[w] = FpCount[t] /\ buf'[w] = << >>
    BY <1>0, <2>1, InsertStartState
  <2>3. /\ \A d \in Dbs : d # e => Len(data'[d]) = LastEnd(d)'
        /\ Len(Stream(w, e)') = LastEnd(e)' /\ LastEnd(e)' \in Nat
    BY <1>1, <2>2
  <2>4. FpCount[job'[w].track] - left'[w] = 0
    BY <2>2, CountAssumption DEF CountAssumption
  <2>5. Len(Stream(w, e)') = LastEnd(e)' + (FpCount[job'[w].track] - left'[w])
    BY <2>3, <2>4
  <2>6. Db(w)' = e
    BY <2>2 DEF Db
  <2> QED BY <2>2, <2>3, <2>5, <2>6, PlaceNext
<1>3. CASE \E m \in MergeJobs : MergeStart(w, m)
  <2>1. PICK m \in MergeJobs : MergeStart(w, m)
    BY <1>3
  <2>2. /\ pc[w] = "idle" /\ pc'[w] = "input" /\ UNCHANGED <<data, map>>
        /\ m.out \in Dbs /\ job'[w].db = m.out /\ job'[w].inputs = m.inputs
        /\ m.out \notin Range(m.inputs) /\ buf'[w] = << >>
    BY <1>0, <2>1, MergeStartState
  <2>3. PICK e \in Dbs : e = m.out
    BY <2>2
  <2>4. /\ \A d \in Dbs : d # e => Len(data'[d]) = LastEnd(d)'
        /\ Len(Stream(w, e)') = LastEnd(e)'
    BY <1>1, <2>2
  <2>5. Db(w)' = e /\ e \notin Range(job'[w].inputs)
    BY <2>2, <2>3 DEF Db
  <2> QED BY <2>2, <2>4, <2>5, PlaceNext
<1> QED BY <1>2, <1>3

\* an insertion ends where its track does,
LEMMA PlaceInsert ==
    ASSUME NEW w, Serial(w), SerialInv, TypeOK', [Next]_vars,
           InsertWrite(w) \/ InsertClose(w) \/ InsertMap(w)
    PROVE  PlaceInv(w)'
<1>0. w \in Writers /\ Writers = {w} /\ TypeOK /\ AloneInv /\ WrittenInv /\ PlaceInv(w) /\ ~Crash(w)
  BY NoCrash DEF Serial, SerialInv
<1>1. PICK e \in Dbs : e = Db(w)
  BY <1>0, Busy DEF InsertWrite, InsertClose, InsertMap
<1>2. LastEnd(e) \in Nat /\ \A d \in Dbs : d # e => Len(data[d]) = LastEnd(d)
  BY <1>0, <1>1, LastEndIs DEF PlaceInv
<1>3. Stream(w, e) \in Seq(Fps) /\ Len(Stream(w, e)) \in Nat
  BY <1>0, StreamType
<1>4. CASE InsertWrite(w)
  <2> DEFINE t == job[w].track
             n == FpCount[t] - left[w]
  <2>1. /\ n \in Nat /\ Fp(t, n + 1) \in Fps
        /\ pc[w] = "write" /\ UNCHANGED <<map, pc, job>>
        /\ Stream(w, e)' = Append(Stream(w, e), Fp(t, n + 1))
        /\ FpCount[t] - left'[w] = n + 1
        /\ \A d \in Dbs : d # e => data'[d] = data[d]
    BY <1>0, <1>1, <1>4, InsertWriteStream
  <2>2. Len(Stream(w, e)) = LastEnd(e) + n
    BY <1>0, <1>1, <2>1 DEF PlaceInv
  <2>3. Len(Stream(w, e)') = Len(Stream(w, e)) + 1
    BY <1>3, <2>1, AppendProperties
  <2> HIDE DEF n
  <2>4. Len(Stream(w, e)') = LastEnd(e) + (n + 1)
    BY <1>2, <2>1, <2>2, <2>3
  <2>5. \A d \in Dbs : LastEnd(d)' = LastEnd(d)
    BY <2>1 DEF LastEnd
  <2>6. Len(Stream(w, e)') = LastEnd(e)' + (FpCount[job'[w].track] - left'[w])
    BY <2>1, <2>4, <2>5
  <2>7. Db(w)' = e /\ pc'[w] = "write" /\ \A d \in Dbs : d # e => Len(data'[d]) = LastEnd(d)'
    BY <1>1, <1>2, <2>1, <2>5 DEF Db
  <2> QED BY <2>6, <2>7, PlaceNext
<1>5. CASE InsertClose(w)
  <2>1. /\ job[w].track \in Tracks /\ pc[w] = "write" /\ left[w] = 0
        /\ pc'[w] = "map" /\ UNCHANGED <<map, job>>
        /\ \A d \in Dbs : d # e => data'[d] = data[d]
        /\ base'[w] = Len(Stream(w, e))
    BY <1>0, <1>1, <1>5, InsertCloseStream
  <2>2. Len(Stream(w, e)) = LastEnd(e) + (FpCount[job[w].track] - left[w])
    BY <1>0, <1>1, <2>1 DEF PlaceInv
  <2>3. FpCount[job[w].track] - left[w] = FpCount[job[w].track]
    BY <2>1, CountAssumption DEF CountAssumption
  <2>4. \A d \in Dbs : LastEnd(d)' = LastEnd(d)
    BY <2>1 DEF LastEnd
  <2>5. base'[w] = LastEnd(e)' + FpCount[job'[w].track]
    BY <2>1, <2>2, <2>3, <2>4
  <2>6. Db(w)' = e /\ \A d \in Dbs : d # e => Len(data'[d]) = LastEnd(d)'
    BY <1>1, <1>2, <2>1, <2>4 DEF Db
  <2> QED BY <2>1, <2>5, <2>6, PlaceNext
<1>6. CASE InsertMap(w)
  <2> DEFINE line == Line(base[w], job[w].track)
  <2>1. /\ line \in Lines /\ AppendLine(e, line) /\ line.name \in Tracks
        /\ line.end = LastEnd(e) + FpCount[line.name] /\ line.end = Len(data[e])
        /\ EndsAt(Stream(w, e)', line.end, line.name)
    BY <1>1, <1>6, InsertMapAdds
  <2> HIDE DEF line
  <2>2. LastEnd(e)' = line.end /\ \A d \in Dbs : d # e => LastEnd(d)' = LastEnd(d)
    BY <1>0, <2>1, LineAdded
  <2>3. pc'[w] = "idle" /\ UNCHANGED data
    BY <1>0, <1>6 DEF InsertMap, Go, TypeOK
  <2>4. \A d \in Dbs : Len(data'[d]) = LastEnd(d)'
    BY <1>2, <2>1, <2>2, <2>3
  <2> QED BY <2>3, <2>4, PlaceIdle
<1> QED BY <1>4, <1>5, <1>6

\* and a merge where the last of its inputs does.
LEMMA PlaceMerge ==
    ASSUME NEW w, Serial(w), SerialInv, TypeOK', [Next]_vars,
           \/ MergeOpenInput(w) \/ MergeCopy(w) \/ MergeCopied(w)
           \/ MergeLine(w) \/ MergeNextInput(w) \/ MergeEnd(w)
    PROVE  PlaceInv(w)'
<1>0. /\ w \in Writers /\ Writers = {w} /\ TypeOK /\ AloneInv /\ PlaceInv(w) /\ Named(w) /\ ~Crash(w)
      /\ cursor[w] \in Nat /\ base[w] \in Nat
  BY NoCrash DEF Serial, SerialInv, TypeOK
<1>1. pc[w] \in {"input", "copy", "lines"}
  BY DEF MergeOpenInput, MergeCopy, MergeCopied, MergeLine, MergeNextInput, MergeEnd
<1>2. PICK e \in Dbs : e = Db(w)
  BY <1>0, <1>1, Busy
<1>3. /\ LastEnd(e) \in Nat /\ \A d \in Dbs : d # e => Len(data[d]) = LastEnd(d)
      /\ e \notin Range(job[w].inputs)
  BY <1>0, <1>1, <1>2, LastEndIs DEF PlaceInv
<1>4. Stream(w, e) \in Seq(Fps) /\ Len(Stream(w, e)) \in Nat
  BY <1>0, StreamType
<1>5. UNCHANGED map => \A d \in Dbs : LastEnd(d)' = LastEnd(d)
  BY DEF LastEnd
<1>6. job' = job => Db(w)' = e
  BY <1>2 DEF Db
<1>7. UNCHANGED <<data, job, buf>> => Stream(w, e)' = Stream(w, e)
  BY DEF Stream, Db
<1>8. CASE MergeOpenInput(w)
  <2>1. /\ pc[w] = "input" /\ input[w] <= Len(job[w].inputs)
        /\ base' = [base EXCEPT ![w] = Tell(w)] /\ cursor' = [cursor EXCEPT ![w] = 0]
        /\ pc' = [pc EXCEPT ![w] = "copy"]
        /\ UNCHANGED <<data, map, job, off, buf, input>>
    BY <1>8 DEF MergeOpenInput, Go
  <2>2. base'[w] = Tell(w) /\ cursor'[w] = 0 /\ pc'[w] = "copy"
    BY <1>0, <2>1 DEF TypeOK
  <2>3. Tell(w) = Len(Stream(w, e))
    <3>1. off[w] = Len(data[e])
      BY <1>0, <1>2, <2>1 DEF AloneInv
    <3> QED BY <1>0, <1>2, <3>1, TellStream
  <2>4. Len(Stream(w, e)) = LastEnd(e)
    BY <1>0, <1>2, <2>1 DEF PlaceInv
  <2>5. Input(w)' = Input(w) /\ Input(w) \in Dbs
    <3>1. input[w] \in 1..Len(job[w].inputs) /\ job[w].inputs \in Seq(Dbs)
      BY <1>0, <2>1, LenProperties DEF TypeOK, WriterOK, Jobs
    <3>2. Input(w) \in Dbs
      BY <3>1, ElementOfSeq DEF Input
    <3> QED BY <2>1, <3>2 DEF Input
  <2>6. data[Input(w)] \in Seq(Fps)
    BY <1>0, <2>5 DEF TypeOK
  <2>7. Copied(Stream(w, e), Len(Stream(w, e)), data[Input(w)], 0)
    BY <1>4, <2>6, CopiedNothing
  <2>8. /\ base'[w] = LastEnd(e)'
        /\ Copied(Stream(w, e)', base'[w], data'[Input(w)'], cursor'[w])
    BY <1>5, <1>7, <2>1, <2>2, <2>3, <2>4, <2>5, <2>7
  <2> QED BY <1>3, <1>5, <1>6, <2>1, <2>2, <2>8, PlaceNext
<1>9. CASE MergeCopy(w)
  <2> DEFINE f == data[Input(w)][cursor[w] + 1]
  <2>1. /\ Input(w) \in Dbs /\ f \in Fps
        /\ pc[w] = "copy" /\ UNCHANGED <<map, pc, job, input, base>>
        /\ cursor[w] < Len(data[Input(w)]) /\ cursor'[w] = cursor[w] + 1
        /\ Stream(w, e)' = Append(Stream(w, e), f)
        /\ \A d \in Dbs : d # e => data'[d] = data[d]
    BY <1>0, <1>2, <1>9, MergeCopyStream
  <2>2. Input(w) # e /\ Input(w)' = Input(w)
    BY <1>0, <1>1, <1>2, <2>1, InputApart DEF Input
  <2>3. data'[Input(w)'] = data[Input(w)] /\ data[Input(w)] \in Seq(Fps)
    BY <1>0, <2>1, <2>2 DEF TypeOK
  <2>4. base[w] = LastEnd(e) /\ Copied(Stream(w, e), base[w], data[Input(w)], cursor[w])
    BY <1>0, <1>2, <2>1 DEF PlaceInv
  <2>5. Copied(Append(Stream(w, e), f), base[w], data[Input(w)], cursor[w] + 1)
    BY <1>0, <1>4, <2>1, <2>3, <2>4, CopiedMore
  <2> HIDE DEF f
  <2>6. /\ base'[w] = LastEnd(e)'
        /\ Copied(Stream(w, e)', base'[w], data'[Input(w)'], cursor'[w])
    BY <1>5, <2>1, <2>3, <2>4, <2>5
  <2> QED BY <1>3, <1>5, <1>6, <2>1, <2>6, PlaceNext
<1>10. CASE MergeCopied(w)
  <2>1. /\ pc[w] = "copy" /\ cursor[w] >= Len(data[Input(w)])
        /\ cursor' = [cursor EXCEPT ![w] = 0] /\ pc' = [pc EXCEPT ![w] = "lines"]
        /\ UNCHANGED <<data, map, job, off, buf, input, base>>
    BY <1>10 DEF MergeCopied, Go
  <2>2. cursor'[w] = 0 /\ pc'[w] = "lines" /\ Input(w)' = Input(w) /\ base'[w] = base[w]
    BY <1>0, <2>1 DEF TypeOK, Input
  <2>3. base[w] = LastEnd(e) /\ Copied(Stream(w, e), base[w], data[Input(w)], cursor[w])
    BY <1>0, <1>2, <2>1 DEF PlaceInv
  <2>4. Len(data[Input(w)]) \in Nat /\ Len(map[Input(w)]) \in Nat
    BY <1>0, <2>1, InputType, LenProperties
  <2>5. cursor[w] = Len(data[Input(w)])
    <3>1. cursor[w] <= Len(data[Input(w)])
      BY <2>3 DEF Copied
    <3> QED BY <1>0, <2>1, <2>4, <3>1
  <2>6. EndOf(map[Input(w)], 0) = 0
    BY DEF EndOf
  <2>7. /\ Copied(Stream(w, e)', base'[w], data'[Input(w)'], Len(data'[Input(w)']))
        /\ cursor'[w] <= Len(map'[Input(w)'])
    BY <1>7, <2>1, <2>2, <2>3, <2>4, <2>5
  <2>8. LastEnd(e)' = base'[w] + EndOf(map'[Input(w)'], cursor'[w])
    <3>1. EndOf(map'[Input(w)'], cursor'[w]) = 0
      BY <2>1, <2>2, <2>6
    <3>2. LastEnd(e)' = LastEnd(e) /\ base'[w] = LastEnd(e)
      BY <1>5, <2>1, <2>2, <2>3
    <3> QED BY <1>3, <3>1, <3>2
  <2> QED BY <1>3, <1>5, <1>6, <2>1, <2>2, <2>7, <2>8, PlaceNext
<1>11. CASE MergeLine(w)
  <2>1. pc[w] = "lines" /\ cursor' = [cursor EXCEPT ![w] = cursor[w] + 1]
        /\ UNCHANGED <<data, pc, job, off, buf, input, base>>
    BY <1>11 DEF MergeLine
  <2>2. PICK c \in Dbs : c = Input(w)
    BY <1>0, <2>1, InputType
  <2> DEFINE i    == cursor[w] + 1
             line == Line(map[c][i].end + base[w], map[c][i].name)
  <2>3. /\ i \in 1..Len(map[c])
        /\ line \in Lines /\ AppendLine(e, line) /\ line.name \in Tracks
        /\ line.end = LastEnd(e) + FpCount[line.name]
        /\ line.end = base[w] + EndOf(map[c], i)
        /\ EndsAt(Stream(w, e)', line.end, line.name)
    BY <1>2, <1>11, <2>2, MergeAddsLine
  <2> HIDE DEF line, i
  <2>4. /\ LastEnd(e)' = line.end
        /\ \A d \in Dbs : d # e => LastEnd(d)' = LastEnd(d) /\ map'[d] = map[d]
    BY <1>0, <2>3, LineAdded
  <2>5. c # e
    BY <1>0, <1>2, <2>1, <2>2, InputApart
  <2>6. cursor'[w] = i /\ Input(w)' = c /\ base'[w] = base[w] /\ map'[c] = map[c]
    BY <1>0, <2>1, <2>2, <2>4, <2>5 DEF TypeOK, Input, i
  <2>7. Copied(Stream(w, e), base[w], data[c], Len(data[c]))
    BY <1>0, <1>2, <2>1, <2>2 DEF PlaceInv
  <2>8. /\ Copied(Stream(w, e)', base'[w], data'[Input(w)'], Len(data'[Input(w)']))
        /\ cursor'[w] <= Len(map'[Input(w)'])
        /\ LastEnd(e)' = base'[w] + EndOf(map'[Input(w)'], cursor'[w])
    <3>1. i <= Len(map[c])
      BY <2>3
    <3>2. data'[Input(w)'] = data[c] /\ map'[Input(w)'] = map[c]
      BY <2>1, <2>6
    <3> QED BY <1>7, <2>1, <2>3, <2>4, <2>6, <2>7, <3>1, <3>2
  <2> QED BY <1>3, <1>6, <2>1, <2>4, <2>8, PlaceNext
<1>12. CASE MergeNextInput(w)
  <2>1. /\ pc[w] = "lines" /\ cursor[w] >= Len(ReadMap(map[Input(w)]))
        /\ pc' = [pc EXCEPT ![w] = "input"]
        /\ UNCHANGED <<data, map, job, off, buf, cursor, base>>
    BY <1>12 DEF MergeNextInput, Go
  <2>2. PICK c \in Dbs : c = Input(w)
    BY <1>0, <2>1, InputType
  <2>3. ReadMap(map[c]) = map[c]
    BY <1>0, ReadsAll DEF Serial
  <2>4. /\ Copied(Stream(w, e), base[w], data[c], Len(data[c]))
        /\ cursor[w] <= Len(map[c]) /\ LastEnd(e) = base[w] + EndOf(map[c], cursor[w])
    BY <1>0, <1>2, <2>1, <2>2 DEF PlaceInv
  <2>5. Len(map[c]) \in Nat /\ LastEnd(c) = EndOf(map[c], Len(map[c]))
    BY <1>0, LastEndIs
  <2>6. cursor[w] = Len(map[c])
    BY <1>0, <2>1, <2>2, <2>3, <2>4, <2>5
  <2>7. Len(data[c]) = LastEnd(c)
    BY <1>0, <2>1, <2>2, InputApart
  <2>8. Len(Stream(w, e)) = base[w] + Len(data[c])
    BY <2>4 DEF Copied
  <2>9. Len(Stream(w, e)) = LastEnd(e)
    BY <2>4, <2>5, <2>6, <2>7, <2>8
  <2>10. pc'[w] = "input"
    BY <1>0, <2>1 DEF TypeOK
  <2>11. Len(Stream(w, e)') = LastEnd(e)'
    BY <1>5, <1>7, <2>1, <2>9
  <2> QED BY <1>3, <1>5, <1>6, <2>1, <2>10, <2>11, PlaceNext
<1>13. CASE MergeEnd(w)
  <2>1. /\ pc[w] = "input" /\ FlushOf(w, buf[w]) /\ UNCHANGED map
    BY <1>13 DEF MergeEnd
  <2>2. pc'[w] = "idle"
    BY <1>0, <1>13, IdleState
  <2>3. data'[e] = Stream(w, e) /\ \A d \in Dbs : d # e => data'[d] = data[d]
    BY <1>0, <1>2, <2>1, CloseStream
  <2>4. Len(Stream(w, e)) = LastEnd(e)
    BY <1>0, <1>2, <2>1 DEF PlaceInv
  <2>5. \A d \in Dbs : Len(data'[d]) = LastEnd(d)'
    BY <1>3, <1>5, <2>1, <2>3, <2>4
  <2> QED BY <2>2, <2>5, PlaceIdle
<1> QED BY <1>8, <1>9, <1>10, <1>11, <1>12, <1>13

LEMMA SamePart ==
    ASSUME NEW S, NEW s \in Seq(S), NEW u \in Seq(S), Prefix(s, u), NEW n \in 0..Len(s)
    PROVE  /\ SubSeq(u, 1, n) = SubSeq(s, 1, n) /\ SubSeq(s, 1, n) \in Seq(S)
           /\ Len(SubSeq(s, 1, n)) = n /\ \A i \in 1..n : SubSeq(s, 1, n)[i] = s[i]
<1>1. Len(s) \in Nat /\ Len(u) \in Nat /\ Len(s) <= Len(u) /\ \A i \in 1..Len(s) : u[i] = s[i]
  BY LenProperties DEF Prefix
<1>2. \A i \in 1..n : s[i] \in S /\ u[i] \in S /\ u[i] = s[i]
  <2> SUFFICES ASSUME NEW i \in 1..n PROVE s[i] \in S /\ u[i] \in S /\ u[i] = s[i]
    OBVIOUS
  <2>1. i \in 1..Len(s) /\ i \in 1..Len(u)
    BY <1>1
  <2> QED BY <1>1, <2>1, ElementOfSeq
<1>3. /\ SubSeq(s, 1, n) \in Seq(S) /\ Len(SubSeq(s, 1, n)) = n
      /\ \A i \in 1..n : SubSeq(s, 1, n)[i] = s[i]
  BY <1>1, <1>2, SubSeqProperties
<1>4. /\ SubSeq(u, 1, n) \in Seq(S) /\ Len(SubSeq(u, 1, n)) = n
      /\ \A i \in 1..n : SubSeq(u, 1, n)[i] = u[i]
  BY <1>1, <1>2, SubSeqProperties
<1>5. SubSeq(u, 1, n) = SubSeq(s, 1, n)
  BY <1>2, <1>3, <1>4, SeqEqual
<1> QED BY <1>3, <1>5

\* The catalogue that a query has loaded is the beginning of the one on disk.
LEMMA SnapStep ==
    ASSUME NEW w, Serial(w), SerialInv, TypeOK', [Next]_vars
    PROVE  SnapInv'
<1>0. TypeOK /\ SnapInv /\ Named(w) /\ \A d \in Dbs : map[d] \in Seq(Lines) /\ map'[d] \in Seq(Lines)
  BY DEF SerialInv, TypeOK, Serial
<1>1. \A d \in Dbs : Prefix(map[d], map'[d])
  BY <1>0, FilesGrow
<1> DEFINE Told(x) == \E d \in Dbs : \E n \in 0..Len(map[d]) :
                         x = [db |-> d, ids |-> ToIds(SubSeq(map[d], 1, n))]
           ToldNext(x) == \E d \in Dbs : \E n \in 0..Len(map'[d]) :
                             x = [db |-> d, ids |-> ToIds(SubSeq(map'[d], 1, n))]
<1>2. ASSUME NEW x, Told(x) PROVE ToldNext(x)
  <2>0. PICK d \in Dbs : \E n \in 0..Len(map[d]) :
           x = [db |-> d, ids |-> ToIds(SubSeq(map[d], 1, n))]
    BY <1>2
  <2>1. PICK n \in 0..Len(map[d]) : x = [db |-> d, ids |-> ToIds(SubSeq(map[d], 1, n))]
    BY <2>0
  <2>2. SubSeq(map'[d], 1, n) = SubSeq(map[d], 1, n)
    <3>1. map[d] \in Seq(Lines) /\ map'[d] \in Seq(Lines) /\ Prefix(map[d], map'[d])
      BY <1>0, <1>1
    <3> QED BY <3>1, SamePart
  <2>3. n \in 0..Len(map'[d])
    BY <1>0, <1>1, LenProperties DEF Prefix
  <2> QED BY <2>1, <2>2, <2>3
<1>3. \A r \in Readers : snap[r] # NoSnap => Told(snap[r])
  BY <1>0 DEF SnapInv
<1>4. ASSUME DOMAIN snap' = Readers, \A r \in Readers : snap'[r] # NoSnap => ToldNext(snap'[r])
      PROVE  SnapInv'
  BY <1>4 DEF SnapInv
<1>5. DOMAIN snap = Readers
  BY <1>0 DEF SnapInv
<1> HIDE DEF Told
<1>6. ASSUME UNCHANGED snap PROVE SnapInv'
  <2>1. \A r \in Readers : snap'[r] # NoSnap => ToldNext(snap'[r])
    BY <1>2, <1>3, <1>6
  <2> HIDE DEF ToldNext
  <2> QED BY <1>4, <1>5, <1>6, <2>1
<1>7. ASSUME NEW r \in Readers, NEW d \in Dbs, QueryOpen(r, d) PROVE SnapInv'
  <2> DEFINE new == [db |-> d, ids |-> ToIds(ReadMap(map[d]))]
  <2>1. snap' = [snap EXCEPT ![r] = new] /\ map' = map
    BY <1>7 DEF QueryOpen
  <2>2. ReadMap(map[d]) = map[d]
    BY <1>0, ReadsAll
  <2>3. SubSeq(map[d], 1, Len(map[d])) = map[d] /\ Len(map[d]) \in 0..Len(map[d])
    BY <1>0, SubSeqFull, LenProperties
  <2>4. Told(new)
    BY <2>2, <2>3 DEF Told
  <2> HIDE DEF new
  <2>5. \A q \in Readers : snap'[q] # NoSnap => Told(snap'[q])
    BY <1>3, <1>5, <2>1, <2>4
  <2>6. \A q \in Readers : snap'[q] # NoSnap => ToldNext(snap'[q])
    BY <1>2, <2>5
  <2> HIDE DEF ToldNext
  <2> QED BY <1>4, <1>5, <2>1, <2>6
<1>8. ASSUME NEW r \in Readers, QueryEnd(r) PROVE SnapInv'
  <2>1. snap' = [snap EXCEPT ![r] = NoSnap]
    BY <1>8 DEF QueryEnd
  <2>2. \A q \in Readers : snap'[q] # NoSnap => Told(snap'[q])
    BY <1>3, <1>5, <2>1
  <2>3. \A q \in Readers : snap'[q] # NoSnap => ToldNext(snap'[q])
    BY <1>2, <2>2
  <2> HIDE DEF ToldNext
  <2> QED BY <1>4, <1>5, <2>1, <2>3
<1>9. ASSUME NEW p \in Writers,
             \/ \E d \in Dbs, t \in Tracks : InsertStart(p, d, t)
             \/ \E m \in MergeJobs : MergeStart(p, m)
             \/ Working(p) \/ Crash(p)
      PROVE  UNCHANGED snap
  BY <1>9 DEF InsertStart, MergeStart, Working, Crash, InsertWrite, InsertClose, InsertMap,
     MergeOpenInput, MergeCopy, MergeCopied, MergeLine, MergeNextInput, MergeEnd
<1>10. UNCHANGED vars => UNCHANGED snap
  BY DEF vars
<1> QED BY <1>6, <1>7, <1>8, <1>9, <1>10 DEF Next

-----------------------------------------------------------------------------
(* The invariant                                                           *)

LEMMA SerialInit ==
    ASSUME NEW w, Serial(w), Init
    PROVE  SerialInv
<1>1. TypeOK /\ w \in Writers /\ Writers = {w}
  BY InitType DEF Serial
<1>2. AloneInv /\ WrittenInv /\ crashes = 0
  BY DEF Init, AloneInv, WrittenInv
<1>3. SnapInv
  BY DEF SnapInv, Init
<1>4. \A d \in Dbs : map[d] = << >> /\ data[d] = << >> /\ Len(map[d]) = 0 /\ Len(data[d]) = 0
  BY EmptySeq DEF Init
<1>5. \A d \in Dbs : 1..Len(map[d]) = {}
  BY <1>4
<1>6. Named(w) /\ \A d \in Dbs : Chain(map[d])
  BY <1>5 DEF Named, Chain
<1>7. PlaceInv(w)
  <2>1. pc[w] = "idle"
    BY <1>1 DEF Init
  <2> QED BY <1>4, <2>1 DEF PlaceInv, LastEnd
<1> QED BY <1>1, <1>2, <1>3, <1>6, <1>7 DEF SerialInv

LEMMA SerialStep ==
    ASSUME NEW w, Serial(w), SerialInv, [Next]_vars
    PROVE  SerialInv'
<1>0. /\ w \in Writers /\ Writers = {w} /\ TypeOK /\ AloneInv /\ WrittenInv /\ crashes = 0
      /\ PlaceInv(w) /\ ~Crash(w)
  BY NoCrash DEF Serial, SerialInv
<1>1. TypeOK'
  BY <1>0, StepType
<1>2. AloneInv' /\ WrittenInv' /\ SnapInv'
  BY <1>0, <1>1, AloneStep, WrittenStep, SnapStep
<1>3. crashes' = 0
  <2>1. ASSUME NEW p \in Writers, Working(p) PROVE UNCHANGED crashes
    BY <2>1 DEF Working, InsertWrite, InsertClose, InsertMap,
       MergeOpenInput, MergeCopy, MergeCopied, MergeLine, MergeNextInput, MergeEnd
  <2>2. UNCHANGED vars => UNCHANGED crashes
    BY DEF vars
  <2>3. \A p \in Writers : p = w
    BY <1>0
  <2> QED BY <1>0, <2>1, <2>2, <2>3 DEF Next, InsertStart, MergeStart, QueryOpen, QueryEnd
<1>4. Named(w)' /\ \A d \in Dbs : Chain(map'[d])
  <2>1. CASE UNCHANGED map
    BY <1>0, <1>1, <2>1, NoLineAdded
  <2>2. CASE InsertMap(w)
    <3>1. PICK e \in Dbs : e = Db(w)
      BY <1>0, <2>2, Busy DEF InsertMap
    <3> DEFINE line == Line(base[w], job[w].track)
    <3>2. /\ line \in Lines /\ AppendLine(e, line) /\ line.name \in Tracks
          /\ line.end = LastEnd(e) + FpCount[line.name]
          /\ EndsAt(Stream(w, e)', line.end, line.name)
      BY <1>1, <2>2, <3>1, InsertMapAdds
    <3> HIDE DEF line
    <3> QED BY <1>0, <1>1, <3>2, LineAdded
  <2>3. CASE MergeLine(w)
    <3>1. pc[w] = "lines"
      BY <2>3 DEF MergeLine
    <3>2. PICK e \in Dbs : e = Db(w)
      BY <1>0, <3>1, Busy
    <3>3. PICK c \in Dbs : c = Input(w)
      BY <1>0, <3>1, InputType
    <3> DEFINE line == Line(map[c][cursor[w] + 1].end + base[w], map[c][cursor[w] + 1].name)
    <3>4. /\ line \in Lines /\ AppendLine(e, line) /\ line.name \in Tracks
          /\ line.end = LastEnd(e) + FpCount[line.name]
          /\ EndsAt(Stream(w, e)', line.end, line.name)
      BY <1>1, <2>3, <3>2, <3>3, MergeAddsLine
    <3> HIDE DEF line
    <3> QED BY <1>0, <1>1, <3>4, LineAdded
  <2>4. UNCHANGED map \/ InsertMap(w) \/ MergeLine(w)
    BY <1>0, OneWriter DEF InsertStart, MergeStart, Working, InsertWrite, InsertClose,
       MergeOpenInput, MergeCopy, MergeCopied, MergeNextInput, MergeEnd
  <2> QED BY <2>1, <2>2, <2>3, <2>4
<1>5. PlaceInv(w)'
  <2>1. CASE UNCHANGED <<data, map, pc, job, off, buf, left, input, cursor, base>>
    BY <1>0, <2>1 DEF PlaceInv, Stream, LastEnd, Db, Input
  <2> QED BY <1>0, <1>1, <2>1, OneWriter, PlaceStart, PlaceInsert, PlaceMerge DEF Working
<1>6. \A p \in Writers : Named(p)' /\ PlaceInv(p)'
  BY <1>0, <1>4, <1>5 DEF Named, PlaceInv
<1> QED BY <1>1, <1>2, <1>3, <1>4, <1>6 DEF SerialInv

-----------------------------------------------------------------------------
(* What a query finds                                                      *)

\* In a catalogue that leaves nothing out a position belongs to the one line
\* whose end is the lower bound, and that line's track begins where the line
\* before it ends.
LEMMA FindsLine ==
    ASSUME NEW lines \in Seq(Lines), Chain(lines),
           \A i \in 1..Len(lines) : FpCount[lines[i].name] \in Nat,
           NEW pos \in Nat \ {0}, HasLowerBound(ToIds(lines), pos)
    PROVE  \E i \in 1..Len(lines) :
              /\ NameAt(ToIds(lines), pos) = lines[i].name
              /\ StartOf(ToIds(lines), pos) = Start(lines, i)
              /\ Start(lines, i) \in Nat /\ Start(lines, i) < pos /\ pos <= lines[i].end
<1> DEFINE ids   == ToIds(lines)
           E     == DOMAIN ids
           Above == {e \in E : e >= pos}
           m     == Min(Above)
<1>1. /\ Len(lines) \in Nat /\ DOMAIN lines = 1..Len(lines)
      /\ \A i \in 1..Len(lines) : lines[i].end \in Nat
  BY LineTypes, LenProperties
<1>2. E = {lines[i].end : i \in 1..Len(lines)}
  BY <1>1 DEF ToIds
<1>3. E \subseteq Nat /\ \A e \in E : \E i \in 1..Len(lines) : lines[i].end = e
  BY <1>1, <1>2
<1>4. \A i \in 1..Len(lines) : lines[i].end \in E
  BY <1>2
<1>5. Above # {} /\ Above \in SUBSET Nat
  BY <1>3 DEF HasLowerBound
<1>6. m \in E /\ m \in Nat /\ pos <= m /\ \A e \in E : e >= pos => m <= e
  <2> HIDE DEF E, ids
  <2>1. m \in Above /\ \A e \in Above : m <= e
    <3> HIDE DEF Above
    <3> QED BY <1>5, LeastIsLeast
  <2> HIDE DEF m
  <2> QED BY <1>3, <2>1
<1>7. NameAt(ids, pos) = ids[m]
  BY DEF NameAt
<1> HIDE DEF m
<1>8. PICK i \in 1..Len(lines) : lines[i].end = m /\ ids[m] = lines[i].name
  BY <1>6, NameOfLine
<1> HIDE DEF E, ids
<1>9. Start(lines, i) \in Nat /\ Start(lines, i) < pos /\ (i # 1 => i - 1 \in 1..Len(lines) /\ Start(lines, i) = lines[i - 1].end)
  <2>1. CASE i = 1
    BY <2>1 DEF Start
  <2>2. CASE i # 1
    <3>1. i - 1 \in 1..Len(lines) /\ i - 1 < i
      BY <1>1, <2>2
    <3>2. Start(lines, i) = lines[i - 1].end /\ lines[i - 1].end \in Nat /\ lines[i - 1].end \in E
      BY <1>1, <1>4, <2>2, <3>1 DEF Start
    <3>3. lines[i - 1].end < m
      BY <1>8, <3>1 DEF Chain
    <3>4. ~(lines[i - 1].end >= pos)
      BY <1>6, <3>2, <3>3
    <3> QED BY <3>1, <3>2, <3>4
  <2> QED BY <2>1, <2>2
<1>10. \A e \in E : e < pos => e <= Start(lines, i)
  <2> SUFFICES ASSUME NEW e \in E, e < pos PROVE e <= Start(lines, i)
    OBVIOUS
  <2>1. PICK k \in 1..Len(lines) : lines[k].end = e
    BY <1>3
  <2>2. e \in Nat /\ e < m
    BY <1>3, <1>6
  <2>3. k < i
    <3>1. i < k => lines[i].end < lines[k].end
      BY DEF Chain
    <3> QED BY <1>1, <1>8, <2>1, <2>2, <3>1
  <2>4. i # 1 /\ (k = i - 1 \/ k < i - 1)
    BY <1>1, <2>3
  <2>5. k < i - 1 => lines[k].end < lines[i - 1].end
    BY <1>9, <2>4 DEF Chain
  <2> QED BY <1>1, <1>9, <2>1, <2>2, <2>4, <2>5
<1>11. StartOf(ids, pos) = Start(lines, i)
  <2> DEFINE B == {0} \union {e \in E : e < pos}
  <2>1. StartOf(ids, pos) = Max(B)
    BY DEF StartOf, E
  <2>2. Start(lines, i) \in B
    BY <1>4, <1>9 DEF Start
  <2>3. \A e \in B : e \in Nat /\ e <= Start(lines, i)
    <3>1. \A e \in E : e < pos => e \in Nat /\ e <= Start(lines, i)
      BY <1>3, <1>10
    <3>2. 0 \in Nat /\ 0 <= Start(lines, i)
      BY <1>9
    <3> QED BY <3>1, <3>2
  <2> HIDE DEF B
  <2>4. B \in SUBSET (0..pos)
    BY <1>9, <2>3
  <2>5. Max(B) \in B /\ \A e \in B : e <= Max(B)
    BY <2>2, <2>4, LargestElement
  <2>6. Max(B) <= Start(lines, i) /\ Start(lines, i) <= Max(B) /\ Max(B) \in Nat
    BY <2>2, <2>3, <2>5
  <2> QED BY <1>9, <2>1, <2>6
<1> QED BY <1>6, <1>7, <1>8, <1>9, <1>11 DEF ids

\* and what is said of the position is what stands there.
LEMMA FindsTrack ==
    ASSUME NEW lines \in Seq(Lines), Chain(lines), NEW s \in Seq(Fps),
           \A i \in 1..Len(lines) : EndsAt(s, lines[i].end, lines[i].name),
           NEW pos \in Nat \ {0}, HasLowerBound(ToIds(lines), pos)
    PROVE  pos <= Len(s) /\ s[pos] = Found(ToIds(lines), pos)
<1>1. \A i \in 1..Len(lines) : lines[i].end \in Nat /\ FpCount[lines[i].name] \in Nat
  BY LineTypes, CountAssumption DEF EndsAt, CountAssumption
<1>2. PICK i \in 1..Len(lines) :
         /\ NameAt(ToIds(lines), pos) = lines[i].name
         /\ StartOf(ToIds(lines), pos) = Start(lines, i)
         /\ Start(lines, i) \in Nat /\ Start(lines, i) < pos /\ pos <= lines[i].end
  BY <1>1, FindsLine
<1> DEFINE t == lines[i].name
           k == pos - Start(lines, i)
<1>3. lines[i].end = Start(lines, i) + FpCount[t]
  BY DEF Chain
<1>4. EndsAt(s, lines[i].end, t) /\ FpCount[t] \in Nat /\ lines[i].end \in Nat
  BY <1>1
<1>5. Found(ToIds(lines), pos) = Fp(t, k)
  BY <1>2 DEF Found
<1> HIDE DEF t
<1>6. k \in 1..FpCount[t] /\ (lines[i].end - FpCount[t]) + k = pos
  <2> DEFINE b == Start(lines, i)
  <2>1. b \in Nat /\ b < pos /\ pos <= lines[i].end /\ lines[i].end = b + FpCount[t]
    BY <1>2, <1>3
  <2> HIDE DEF b
  <2>2. pos - b \in 1..FpCount[t]
    BY <1>4, <2>1
  <2>3. (lines[i].end - FpCount[t]) + (pos - b) = pos
    <3>1. lines[i].end - FpCount[t] = b
      BY <1>4, <2>1
    <3> QED BY <2>1, <3>1
  <2> QED BY <2>2, <2>3 DEF b
<1> HIDE DEF k
<1>7. s[(lines[i].end - FpCount[t]) + k] = Fp(t, k) /\ lines[i].end <= Len(s)
  BY <1>4, <1>6 DEF EndsAt
<1>8. Len(s) \in Nat
  BY LenProperties
<1> QED BY <1>2, <1>4, <1>5, <1>6, <1>7, <1>8

\* lower_bound finds, for every position, the line of the track it is in.
LEMMA SerialAttributes ==
    ASSUME NEW w, Serial(w), SerialInv
    PROVE  Attribution
<1>0. /\ w \in Writers /\ Writers = {w} /\ TypeOK /\ Named(w) /\ PlaceInv(w)
      /\ \A d \in Dbs : Chain(map[d])
  BY DEF Serial, SerialInv
<1> SUFFICES ASSUME NEW d \in Dbs, Quiet(d), NEW pos \in 1..Len(data[d])
             PROVE  HasLowerBound(Ids(d), pos) /\ data[d][pos] = Found(Ids(d), pos)
  BY DEF Attribution
<1>1. Db(w) # d
  BY <1>0 DEF Quiet
<1>2. /\ Len(data[d]) = LastEnd(d) /\ Stream(w, d) = data[d]
      /\ data[d] \in Seq(Fps) /\ Len(data[d]) \in Nat
      /\ map[d] \in Seq(Lines) /\ Len(map[d]) \in Nat /\ LastEnd(d) = EndOf(map[d], Len(map[d]))
  BY <1>0, <1>1, StreamType, LastEndIs DEF PlaceInv
<1>3. Ids(d) = ToIds(map[d])
  BY <1>0, ReadsAll DEF Ids
<1>4. pos \in Nat \ {0}
  BY <1>2
<1>5. Len(map[d]) # 0 /\ map[d][Len(map[d])].end = Len(data[d])
  <2>1. EndOf(map[d], Len(map[d])) # 0
    BY <1>2
  <2> QED BY <1>2, <2>1 DEF EndOf
<1>6. HasLowerBound(ToIds(map[d]), pos)
  <2>1. DOMAIN map[d] = 1..Len(map[d]) /\ Len(map[d]) \in 1..Len(map[d])
    BY <1>2, <1>5, LenProperties
  <2>2. Len(data[d]) \in DOMAIN ToIds(map[d])
    BY <1>5, <2>1 DEF ToIds
  <2>3. Len(data[d]) >= pos
    BY <1>2
  <2> QED BY <2>2, <2>3 DEF HasLowerBound
<1>7. \A i \in 1..Len(map[d]) : EndsAt(data[d], map[d][i].end, map[d][i].name)
  BY <1>0, <1>2 DEF Named
<1>8. data[d][pos] = Found(ToIds(map[d]), pos)
  BY <1>0, <1>2, <1>4, <1>6, <1>7, FindsTrack
<1> QED BY <1>3, <1>6, <1>8

\* What a query has loaded still tells the tracks of the positions it covers.
LEMMA SerialSnapshots ==
    ASSUME NEW w, Serial(w), SerialInv
    PROVE  SnapshotTrue
<1>0. /\ w \in Writers /\ Writers = {w} /\ TypeOK /\ Named(w) /\ SnapInv
      /\ \A d \in Dbs : Chain(map[d])
  BY DEF Serial, SerialInv
<1> SUFFICES ASSUME NEW r \in Readers, snap[r] # NoSnap,
                    NEW pos \in 1..Len(data[snap[r].db]), HasLowerBound(snap[r].ids, pos)
             PROVE  data[snap[r].db][pos] = Found(snap[r].ids, pos)
  BY DEF SnapshotTrue
<1>1. PICK d \in Dbs : \E n \in 0..Len(map[d]) :
         snap[r] = [db |-> d, ids |-> ToIds(SubSeq(map[d], 1, n))]
  BY <1>0 DEF SnapInv
<1>2. PICK n \in 0..Len(map[d]) : snap[r] = [db |-> d, ids |-> ToIds(SubSeq(map[d], 1, n))]
  BY <1>1
<1> DEFINE lines == SubSeq(map[d], 1, n)
<1>3. snap[r].db = d /\ snap[r].ids = ToIds(lines)
  BY <1>2
<1>4. /\ map[d] \in Seq(Lines) /\ Len(map[d]) \in Nat
      /\ Stream(w, d) \in Seq(Fps) /\ data[d] \in Seq(Fps) /\ Len(data[d]) \in Nat
      /\ Prefix(data[d], Stream(w, d))
  BY <1>0, StreamType, LastEndIs
<1>5. /\ lines \in Seq(Lines) /\ Len(lines) = n /\ \A i \in 1..n : lines[i] = map[d][i]
  <2>1. Prefix(map[d], map[d])
    BY <1>4, PrefixSelf
  <2> QED BY <1>4, <2>1, SamePart
<1> HIDE DEF lines
<1>6. n \in Nat /\ n <= Len(map[d])
  BY <1>4
<1>7. Chain(lines)
  <2> SUFFICES ASSUME NEW i \in 1..n
               PROVE  /\ lines[i].end = Start(lines, i) + FpCount[lines[i].name]
                      /\ \A k \in 1..n : k < i => lines[k].end < lines[i].end
    BY <1>5 DEF Chain
  <2>1. i \in 1..Len(map[d]) /\ \A k \in 1..n : k \in 1..Len(map[d])
    BY <1>4, <1>6
  <2>2. i = 1 \/ i - 1 \in 1..n
    BY <1>6
  <2>3. Start(lines, i) = Start(map[d], i)
    BY <1>5, <2>2 DEF Start
  <2>4. map[d][i].end = Start(map[d], i) + FpCount[map[d][i].name]
    BY <1>0, <2>1 DEF Chain
  <2>5. \A k \in 1..n : k < i => map[d][k].end < map[d][i].end
    BY <1>0, <2>1 DEF Chain
  <2> QED BY <1>5, <2>3, <2>4, <2>5
<1>8. \A i \in 1..Len(lines) : EndsAt(Stream(w, d), lines[i].end, lines[i].name)
  <2> SUFFICES ASSUME NEW i \in 1..n PROVE EndsAt(Stream(w, d), lines[i].end, lines[i].name)
    BY <1>5
  <2>1. i \in 1..Len(map[d])
    BY <1>4, <1>6
  <2>2. EndsAt(Stream(w, d), map[d][i].end, map[d][i].name)
    BY <1>0, <2>1 DEF Named
  <2> QED BY <1>5, <2>2
<1>9. pos \in Nat \ {0} /\ pos \in 1..Len(data[d])
  BY <1>3, <1>4
<1>10. Stream(w, d)[pos] = Found(ToIds(lines), pos)
  BY <1>3, <1>4, <1>5, <1>7, <1>8, <1>9, FindsTrack
<1>11. Stream(w, d)[pos] = data[d][pos]
  BY <1>4, <1>9 DEF Prefix
<1> QED BY <1>3, <1>10, <1>11

\* One process that inserts and merges, one operation after another: what the
\* files and the buffer hold is, at every step, what SerialInv says.
THEOREM SerialInvariance ==
    ASSUME NEW w, Serial(w)
    PROVE  Spec => []SerialInv
<1>1. Init => SerialInv
  BY SerialInit
<1>2. SerialInv /\ [Next]_vars => SerialInv'
  BY SerialStep
<1> QED BY <1>1, <1>2, PTL DEF Spec

\* Whatever tracks are inserted and whatever databases merged, one after the
\* other, of any number and length: every fingerprint of a database no
\* invocation is writing is found as its own track, at its own place in it.
THEOREM EveryPositionAttributed ==
    ASSUME NEW w, Serial(w)
    PROVE  Spec => []Attribution
<1>1. SerialInv => Attribution
  BY SerialAttributes
<1> QED BY <1>1, SerialInvariance, PTL

\* A query that loaded the catalogue at any time, also between two lines of a
\* merge, keeps finding the truth for the positions its catalogue knows.
THEOREM SnapshotsStayTrue ==
    ASSUME NEW w, Serial(w)
    PROVE  Spec => []SnapshotTrue
<1>1. SerialInv => SnapshotTrue
  BY SerialSnapshots
<1> QED BY <1>1, SerialInvariance, PTL

-----------------------------------------------------------------------------
(* The index is the abstract one                                           *)

TracksOf(lines) == [i \in DOMAIN lines |-> lines[i].name]

Indexed(d) == SubSeq(data[d] \o Pending(d), 1, LastEnd(d))

LEMMA TracksOfType ==
    ASSUME NEW lines \in Seq(Lines)
    PROVE  /\ TracksOf(lines) \in Seq(Names) /\ Len(TracksOf(lines)) = Len(lines)
           /\ \A i \in 1..Len(lines) : TracksOf(lines)[i] = lines[i].name
<1>1. DOMAIN lines = 1..Len(lines) /\ Len(lines) \in Nat
  BY LenProperties
<1>2. \A i \in 1..Len(lines) : lines[i].name \in Names
  <2>1. \A line \in Lines : line.name \in Names
    BY DEF Lines
  <2> QED BY <2>1, LineTypes
<1> DEFINE n == Len(lines)
           f == [i \in 1..n |-> lines[i].name]
<1>3. TracksOf(lines) = f
  BY <1>1 DEF TracksOf
<1>4. f \in [1..n -> Names]
  BY <1>2
<1>5. DOMAIN f = 1..n /\ \A i \in 1..n : f[i] = lines[i].name
  OBVIOUS
<1> HIDE DEF f, n
<1>6. n \in Nat
  BY <1>1 DEF n
<1>7. f \in Seq(Names) /\ Len(f) = n
  BY <1>4, <1>5, <1>6
<1> QED BY <1>3, <1>5, <1>7 DEF n

LEMMA TracksLonger ==
    ASSUME NEW lines \in Seq(Lines), NEW line \in Lines
    PROVE  TracksOf(Append(lines, line)) = Append(TracksOf(lines), line.name)
<1> DEFINE new == Append(lines, line)
           n == Len(lines)
<1>1. /\ new \in Seq(Lines) /\ n \in Nat /\ Len(new) = n + 1 /\ new[n + 1] = line
      /\ \A i \in 1..n : new[i] = lines[i]
  BY AppendProperties, LenProperties
<1>2. /\ TracksOf(new) \in Seq(Names) /\ Len(TracksOf(new)) = n + 1
      /\ \A i \in 1..(n + 1) : TracksOf(new)[i] = new[i].name
  <2> HIDE DEF new, n
  <2> QED BY <1>1, TracksOfType
<1>3. /\ TracksOf(lines) \in Seq(Names) /\ Len(TracksOf(lines)) = n
      /\ \A i \in 1..n : TracksOf(lines)[i] = lines[i].name
  BY TracksOfType
<1> DEFINE old == TracksOf(lines)
           a == Append(old, line.name)
<1>4. line.name \in Names
  BY DEF Lines
<1> HIDE DEF old, new, n
<1>5. /\ a \in Seq(Names) /\ Len(a) = n + 1 /\ a[n + 1] = line.name
      /\ \A i \in 1..n : a[i] = old[i]
  <2>1. old \in Seq(Names) /\ Len(old) = n
    BY <1>3 DEF old
  <2> QED BY <1>4, <2>1, AppendProperties
<1> HIDE DEF a
<1>6. \A i \in 1..(n + 1) : TracksOf(new)[i] = a[i]
  <2> SUFFICES ASSUME NEW i \in 1..(n + 1) PROVE TracksOf(new)[i] = a[i]
    OBVIOUS
  <2>1. CASE i = n + 1
    BY <1>1, <1>2, <1>5, <2>1
  <2>2. CASE i \in 1..n
    BY <1>1, <1>2, <1>3, <1>5, <2>2 DEF old
  <2> QED BY <1>1, <2>1, <2>2
<1>7. TracksOf(new) = a
  BY <1>2, <1>5, <1>6, SeqEqual
<1> QED BY <1>7 DEF new, a, old

\* The first n fingerprints of s and the track that ends behind them
LEMMA TrackAppended ==
    ASSUME NEW s \in Seq(Fps), NEW n \in Nat, NEW t, EndsAt(s, n + FpCount[t], t)
    PROVE  SubSeq(s, 1, n + FpCount[t]) = SubSeq(s, 1, n) \o [k \in 1..FpCount[t] |-> <<t, k>>]
<1> DEFINE c == FpCount[t]
           f == [k \in 1..c |-> <<t, k>>]
           a == SubSeq(s, 1, n + c)
           b == SubSeq(s, 1, n)
<1>1. t \in Tracks /\ c \in Nat
  BY CountAssumption DEF EndsAt, CountAssumption
<1>2. Len(s) \in Nat /\ n + c <= Len(s)
  BY LenProperties DEF EndsAt
<1>3. \A k \in 1..c : s[((n + c) - c) + k] = <<t, k>>
  BY DEF EndsAt, Fp
<1> HIDE DEF c
<1>4. \A k \in 1..c : s[n + k] = <<t, k>>
  <2>1. (n + c) - c = n
    BY <1>1
  <2> QED BY <1>3, <2>1
<1>5. f \in Seq(Fps) /\ Len(f) = c /\ \A k \in 1..c : f[k] = <<t, k>>
  <2>1. f \in [1..c -> Fps] /\ DOMAIN f = 1..c
    BY <1>1 DEF Fps
  <2>2. \A k \in 1..c : f[k] = <<t, k>>
    OBVIOUS
  <2> HIDE DEF f
  <2> QED BY <1>1, <2>1, <2>2
<1>6. Prefix(s, s)
  BY PrefixSelf
<1>7. a \in Seq(Fps) /\ Len(a) = n + c /\ \A i \in 1..(n + c) : a[i] = s[i]
  <2>1. n + c \in 0..Len(s)
    BY <1>1, <1>2
  <2> HIDE DEF a
  <2> QED BY <1>6, <2>1, SamePart DEF a
<1>8. b \in Seq(Fps) /\ Len(b) = n /\ \A i \in 1..n : b[i] = s[i]
  <2>1. n \in 0..Len(s)
    BY <1>1, <1>2
  <2> QED BY <1>6, <2>1, SamePart
<1> HIDE DEF a, b, f
<1> DEFINE g == b \o f
<1>9. g \in Seq(Fps) /\ Len(g) = n + c /\ \A i \in 1..(n + c) : g[i] = IF i <= n THEN b[i] ELSE f[i - n]
  BY <1>5, <1>8, ConcatProperties
<1> HIDE DEF g
<1>10. \A i \in 1..(n + c) : a[i] = g[i]
  <2> SUFFICES ASSUME NEW i \in 1..(n + c) PROVE a[i] = g[i]
    OBVIOUS
  <2>1. CASE i <= n
    <3>1. i \in 1..n
      BY <2>1
    <3> QED BY <1>7, <1>8, <1>9, <2>1, <3>1
  <2>2. CASE ~(i <= n)
    <3>1. i - n \in 1..c /\ n + (i - n) = i
      BY <1>1, <2>2
    <3>2. s[n + (i - n)] = <<t, i - n>> /\ f[i - n] = <<t, i - n>>
      BY <1>4, <1>5, <3>1
    <3> QED BY <1>7, <1>9, <2>2, <3>1, <3>2
  <2> QED BY <2>1, <2>2
<1>11. a = g
  BY <1>7, <1>9, <1>10, SeqEqual
<1> QED BY <1>11 DEF a, b, f, g, c

\* The refinement mapping with the one writer's buffer
LEMMA IndexedIs ==
    ASSUME NEW w, Writers = {w}
    PROVE  /\ \A d \in Dbs : Indexed(d) = SubSeq(Stream(w, d), 1, LastEnd(d))
           /\ \A d \in Dbs : Indexed(d)' = SubSeq(Stream(w, d)', 1, LastEnd(d)')
<1>1. (CHOOSE p \in Writers : Db(p) = Db(w)) = w
  OBVIOUS
<1>2. ASSUME NEW d \in Dbs PROVE Pending(d) = IF Db(w) = d THEN buf[w] ELSE << >>
  <2>1. CASE Db(w) = d
    BY <1>1, <2>1 DEF Pending, Quiet
  <2>2. CASE Db(w) # d
    BY <2>2 DEF Pending, Quiet
  <2> QED BY <2>1, <2>2
<1>3. (CHOOSE p \in Writers : Db(p)' = Db(w)') = w
  OBVIOUS
<1>4. ASSUME NEW d \in Dbs PROVE Pending(d)' = IF Db(w)' = d THEN buf'[w] ELSE << >>
  <2>1. CASE Db(w)' = d
    BY <1>3, <2>1 DEF Pending, Quiet
  <2>2. CASE Db(w)' # d
    BY <2>2 DEF Pending, Quiet
  <2> QED BY <2>1, <2>2
<1> QED BY <1>2, <1>4 DEF Indexed, Stream

LEMMA IndexedWithin ==
    ASSUME NEW w, Serial(w), SerialInv, NEW d \in Dbs
    PROVE  LastEnd(d) \in 0..Len(Stream(w, d))
<1>0. w \in Writers /\ TypeOK /\ Named(w)
  BY DEF Serial, SerialInv
<1>1. /\ map[d] \in Seq(Lines) /\ Len(map[d]) \in Nat
      /\ LastEnd(d) = EndOf(map[d], Len(map[d])) /\ LastEnd(d) \in Nat
      /\ Len(Stream(w, d)) \in Nat
  BY <1>0, LastEndIs, StreamType
<1>2. CASE Len(map[d]) = 0
  BY <1>1, <1>2 DEF EndOf
<1>3. CASE Len(map[d]) # 0
  <2>1. Len(map[d]) \in 1..Len(map[d])
    BY <1>1, <1>3
  <2>2. EndsAt(Stream(w, d), map[d][Len(map[d])].end, map[d][Len(map[d])].name)
    BY <1>0, <2>1 DEF Named
  <2>3. map[d][Len(map[d])].end <= Len(Stream(w, d))
    BY <2>2 DEF EndsAt
  <2> QED BY <1>1, <1>3, <2>3 DEF EndOf
<1> QED BY <1>2, <1>3

\* Nothing of what the catalogue accounts for changes.
LEMMA IndexedStays ==
    ASSUME NEW w, Serial(w), SerialInv, TypeOK', [Next]_vars, NEW d \in Dbs
    PROVE  /\ SubSeq(Stream(w, d)', 1, LastEnd(d)) = Indexed(d)
           /\ LastEnd(d)' = LastEnd(d) => Indexed(d)' = Indexed(d)
<1>0. w \in Writers /\ Writers = {w} /\ TypeOK /\ AloneInv /\ ~Crash(w)
  BY NoCrash DEF Serial, SerialInv
<1>1. Prefix(Stream(w, d), Stream(w, d)')
  BY <1>0, StreamGrows
<1>2. LastEnd(d) \in 0..Len(Stream(w, d))
  BY IndexedWithin
<1>3. Stream(w, d) \in Seq(Fps) /\ Stream(w, d)' \in Seq(Fps)
  BY <1>0, StreamType, StreamTypeNext
<1>4. SubSeq(Stream(w, d)', 1, LastEnd(d)) = SubSeq(Stream(w, d), 1, LastEnd(d))
  BY <1>1, <1>2, <1>3, SamePart
<1> QED BY <1>0, <1>4, IndexedIs

\* A line written adds a whole track to the abstract index.
LEMMA IndexAdds ==
    ASSUME NEW w, Serial(w), SerialInv, TypeOK', [Next]_vars,
           NEW e \in Dbs, NEW line \in Lines, AppendLine(e, line),
           line.name \in Tracks, line.end = LastEnd(e) + FpCount[line.name],
           EndsAt(Stream(w, e)', line.end, line.name)
    PROVE  Index!Next
<1>0. w \in Writers /\ Writers = {w} /\ TypeOK /\ ~Crash(w)
  BY NoCrash DEF Serial, SerialInv
<1> DEFINE t == line.name
<1>1. /\ LastEnd(e)' = line.end /\ map'[e] = Append(map[e], line)
      /\ \A d \in Dbs : d # e => LastEnd(d)' = LastEnd(d) /\ map'[d] = map[d]
  BY <1>0, LineAdded
<1>2. map[e] \in Seq(Lines) /\ LastEnd(e) \in Nat
  BY <1>0, LastEndIs
<1>3. TracksOf(map'[e]) = Append(TracksOf(map[e]), t)
  BY <1>1, <1>2, TracksLonger
<1>4. Stream(w, e)' \in Seq(Fps)
  BY <1>0, StreamTypeNext
<1>5. SubSeq(Stream(w, e)', 1, LastEnd(e)')
         = SubSeq(Stream(w, e)', 1, LastEnd(e)) \o [k \in 1..FpCount[t] |-> <<t, k>>]
  <2>1. EndsAt(Stream(w, e)', LastEnd(e) + FpCount[t], t)
    OBVIOUS
  <2> HIDE DEF t
  <2>2. SubSeq(Stream(w, e)', 1, LastEnd(e) + FpCount[t])
         = SubSeq(Stream(w, e)', 1, LastEnd(e)) \o [k \in 1..FpCount[t] |-> <<t, k>>]
    BY <1>2, <1>4, <2>1, TrackAppended
  <2>3. LastEnd(e)' = LastEnd(e) + FpCount[t]
    BY <1>1 DEF t
  <2> QED BY <2>2, <2>3
<1>6. Indexed(e)' = Indexed(e) \o [k \in 1..FpCount[t] |-> <<t, k>>]
  BY <1>0, <1>5, IndexedIs, IndexedStays
<1>7. \A d \in Dbs : d # e => Indexed(d)' = Indexed(d) /\ TracksOf(map'[d]) = TracksOf(map[d])
  BY <1>1, IndexedStays
<1> DEFINE T == [d \in Dbs |-> TracksOf(map[d])]
           S == [d \in Dbs |-> Indexed(d)]
           Tn == [d \in Dbs |-> TracksOf(map'[d])]
           Sn == [d \in Dbs |-> Indexed(d)']
<1> HIDE DEF t
<1>8. Tn = [T EXCEPT ![e] = Append(T[e], t)]
  BY <1>3, <1>7
<1>9. Sn = [S EXCEPT ![e] = S[e] \o [k \in 1..FpCount[t] |-> <<t, k>>]]
  BY <1>6, <1>7
<1>10. Index!Add(e, t)
  BY <1>8, <1>9 DEF Index!Add, TracksOf, Indexed
<1>11. t \in Tracks
  BY DEF t
<1> QED BY <1>10, <1>11 DEF Index!Next

LEMMA IndexInit ==
    ASSUME NEW w, Serial(w), Init
    PROVE  Index!Init
<1>0. Writers = {w}
  BY DEF Serial
<1>1. ASSUME NEW d \in Dbs PROVE TracksOf(map[d]) = << >> /\ Indexed(d) = << >>
  <2>1. map[d] = << >> /\ data[d] = << >> /\ buf[w] = << >> /\ << >> \in Seq(Lines) /\ << >> \in Seq(Fps)
    BY <1>0, EmptySeq DEF Init
  <2>2. TracksOf(map[d]) \in Seq(Names) /\ Len(TracksOf(map[d])) = 0
    BY <2>1, TracksOfType, EmptySeq
  <2>3. TracksOf(map[d]) = << >>
    BY <2>2, EmptySeq
  <2>4. Stream(w, d) = << >>
    <3>1. Stream(w, d) = << >> \o << >>
      BY <2>1 DEF Stream
    <3> QED BY <2>1, <3>1, ConcatEmptySeq
  <2>5. LastEnd(d) = 0
    BY <2>1 DEF LastEnd
  <2>6. SubSeq(<< >>, 1, 0) = << >>
    <3>1. Prefix(<< >>, << >>) /\ 0 \in 0..Len(<< >>)
      <4>1. Len(<< >>) = 0
        OBVIOUS
      <4> QED BY <4>1 DEF Prefix
    <3>2. SubSeq(<< >>, 1, 0) \in Seq(Fps) /\ Len(SubSeq(<< >>, 1, 0)) = 0
      BY <2>1, <3>1, SamePart
    <3> QED BY <3>2, EmptySeq
  <2>7. Indexed(d) = << >>
    BY <1>0, <2>4, <2>5, <2>6, IndexedIs
  <2> QED BY <2>3, <2>7
<1> DEFINE T == [d \in Dbs |-> TracksOf(map[d])]
           S == [d \in Dbs |-> Indexed(d)]
<1>2. T = [d \in Dbs |-> << >>] /\ S = [d \in Dbs |-> << >>]
  BY <1>1
<1> QED BY <1>2 DEF Index!Init, TracksOf, Indexed

\* Each step is a step of the abstract index or none that it sees.
LEMMA IndexStep ==
    ASSUME NEW w, Serial(w), SerialInv, SerialInv', [Next]_vars
    PROVE  \/ Index!Next
           \/ UNCHANGED << [d \in Dbs |-> [i \in DOMAIN map[d] |-> map[d][i].name]],
                           [d \in Dbs |-> SubSeq(data[d] \o Pending(d), 1, LastEnd(d))] >>
<1>0. /\ w \in Writers /\ Writers = {w} /\ TypeOK /\ TypeOK' /\ ~Crash(w)
  BY NoCrash DEF Serial, SerialInv
<1>1. CASE UNCHANGED map
  <2>1. \A d \in Dbs : LastEnd(d)' = LastEnd(d)
    BY <1>1 DEF LastEnd
  <2>2. \A d \in Dbs : Indexed(d)' = Indexed(d)
    BY <1>0, <2>1, IndexedStays
  <2> QED BY <1>1, <2>2 DEF Indexed
<1>2. CASE InsertMap(w)
  <2>1. PICK e \in Dbs : e = Db(w)
    BY <1>0, <1>2, Busy DEF InsertMap
  <2> DEFINE line == Line(base[w], job[w].track)
  <2>2. /\ line \in Lines /\ AppendLine(e, line) /\ line.name \in Tracks
        /\ line.end = LastEnd(e) + FpCount[line.name]
        /\ EndsAt(Stream(w, e)', line.end, line.name)
    BY <1>0, <1>2, <2>1, InsertMapAdds
  <2> HIDE DEF line
  <2> QED BY <1>0, <2>2, IndexAdds
<1>3. CASE MergeLine(w)
  <2>1. pc[w] = "lines"
    BY <1>3 DEF MergeLine
  <2>2. PICK e \in Dbs : e = Db(w)
    BY <1>0, <2>1, Busy
  <2>3. PICK c \in Dbs : c = Input(w)
    BY <1>0, <2>1, InputType
  <2> DEFINE line == Line(map[c][cursor[w] + 1].end + base[w], map[c][cursor[w] + 1].name)
  <2>4. /\ line \in Lines /\ AppendLine(e, line) /\ line.name \in Tracks
        /\ line.end = LastEnd(e) + FpCount[line.name]
        /\ EndsAt(Stream(w, e)', line.end, line.name)
    BY <1>0, <1>3, <2>2, <2>3, MergeAddsLine
  <2> HIDE DEF line
  <2> QED BY <1>0, <2>4, IndexAdds
<1>4. UNCHANGED map \/ InsertMap(w) \/ MergeLine(w)
  BY <1>0, OneWriter DEF InsertStart, MergeStart, Working, InsertWrite, InsertClose,
     MergeOpenInput, MergeCopy, MergeCopied, MergeNextInput, MergeEnd
<1> QED BY <1>1, <1>2, <1>3, <1>4

\* An index is what IndexSpec promises: an insertion, and every line that a
\* merge copies, adds one whole track to it, and no other step, also none of
\* those that write fingerprints or hold them back, changes what it holds.
THEOREM IndexImplemented ==
    ASSUME NEW w, Serial(w)
    PROVE  Spec => AddsWholeTracks
<1>1. Init => Index!Init
  BY IndexInit
<1>2. SerialInv /\ SerialInv' /\ [Next]_vars =>
        [Index!Next]_<< [d \in Dbs |-> [i \in DOMAIN map[d] |-> map[d][i].name]],
                        [d \in Dbs |-> SubSeq(data[d] \o Pending(d), 1, LastEnd(d))] >>
  BY IndexStep
<1> QED BY <1>1, <1>2, SerialInvariance, PTL DEF Spec, AddsWholeTracks, Index!Spec

=============================================================================
