----------------------------- MODULE SoundProofs -----------------------------
(***************************************************************************)
(* Proofs about the two programs that look for one recording in another.   *)
(*                                                                         *)
(* sound-match: for needles and haystacks of any length, any number of     *)
(* parts in a piece, and whatever the correlations say where the needle is *)
(* not.                                                                    *)
(*                                                                         *)
(* The log that overlap-analysis writes: for any arguments and files, any  *)
(* size of the stream's buffer and of the C library's.  The print level is *)
(* changed without a flush, which loses nothing only because every text    *)
(* that the program puts into the stream ends with endl: LineInv says so   *)
(* of the queue of operations and of the buffer.                           *)
(*                                                                         *)
(* The search of overlap-analysis, for files of any content: if the        *)
(* correlation is the sum of products around the circle, its second half   *)
(* are the common parts of the files (RotatedIs), the difference of prefix *)
(* sums is the energy of both (EnergyIs), no quotient exceeds 1            *)
(* (CommonBounded), and the search keeps the place with the largest        *)
(* (PlaceLooked).                                                          *)
(***************************************************************************)
EXTENDS SoundMain, OverlapAnalysis, FoldLemmas

\* Parts correlated so far: those of the pieces before this one, and of this one
Correlated == j * Pieces + (IF pc = "read" THEN 0 ELSE ii)

\* Every piece but the last is read whole; after the last one the stream is at
\* its end and all of its parts have been correlated.
PieceInv ==
    /\ pc = "read"  => readPos = (j * Pieces) * N
    /\ pc = "parts" => /\ readPos - large = (j * Pieces) * N
                       /\ ii <= NumberOfParts
                       /\ large = Pieces * N \/ readPos = streamLen
    /\ pc \in {"match", "done"} => Records <= Correlated

\* What the correlations have recorded of the needle
RecordInv ==
    place # Nowhere =>
        \A k \in 0 .. Records - 1 : k < Correlated =>
            /\ k * N <= place /\ place < k * N + N =>
                  begins[k] = [s |-> N - (place - k * N), hit |-> TRUE]
            /\ place <= k * N /\ k * N < place + N =>
                  ends[k] = [s |-> N - (k * N - place), hit |-> TRUE]

\* A needle that begins within the first of a pair of parts is among the results
\* once the pair has been looked at.
PairInv ==
    /\ pc \in {"match", "done"} /\ place # Nowhere =>
          \A q \in 0 .. Records - 2 :
              q < i /\ q * N < place /\ place < q * N + N =>
                  \E k \in DOMAIN results : results[k] = place
    /\ pc \in {"read", "parts"} => i = 0
    /\ pc = "done" => Records > 0 /\ i >= Records - 1

IInv == TypeOK /\ PieceInv /\ OverrunCause /\ RecordInv /\ ResultsInside /\ PairInv

\* A program that has searched and ended with 0 has printed the time of every
\* result.
MainInv ==
    stage = "exit 0" /\ ~arguments.version =>
        pc = "done" /\ shown = [k \in DOMAIN results |-> TimeOf(results[k])]

-----------------------------------------------------------------------------
(* Multiples of N, and what division by N gives                            *)

LEMMA Multiple ==
    ASSUME NEW a \in Nat
    PROVE  a * N \in Nat /\ (a + 1) * N = a * N + N
BY NeedleAssumption DEF NeedleAssumption

LEMMA SumOfMultiples ==
    ASSUME NEW a \in Nat, NEW b \in Nat
    PROVE  (a + b) * N = a * N + b * N
BY NeedleAssumption DEF NeedleAssumption

LEMMA MultiplesGrow ==
    ASSUME NEW a \in Nat, NEW b \in Nat, a < b
    PROVE  a * N + N <= b * N
<1>1. PICK d \in Nat : b = (a + 1) + d
  <2> WITNESS b - (a + 1) \in Nat
  <2> QED OBVIOUS
<1>2. b * N = (a * N + N) + d * N
  BY <1>1, Multiple, SumOfMultiples, a + 1 \in Nat
<1>3. a * N \in Nat /\ d * N \in Nat /\ N \in Nat
  BY Multiple, NeedleAssumption DEF NeedleAssumption
<1> QED BY <1>2, <1>3

\* The whole parts of n samples cover all but less than a part.
LEMMA WholeParts ==
    ASSUME NEW n \in Nat
    PROVE  /\ n \div N \in Nat
           /\ (n \div N) * N <= n
           /\ n < (n \div N) * N + N
<1>1. N \in Nat \ {0}
  BY NeedleAssumption DEF NeedleAssumption
<1>2. \A d \in Nat \ {0} : /\ n \div d \in Nat
                           /\ (n \div d) * d <= n
                           /\ n < (n \div d) * d + d
  OBVIOUS
<1> QED BY <1>1, <1>2

\* A multiple of N that is no greater than n is one of at most n \div N.
LEMMA PartsFit ==
    ASSUME NEW n \in Nat, NEW q \in Nat, q * N <= n
    PROVE  q <= n \div N
<1> SUFFICES ASSUME n \div N < q PROVE FALSE
  BY WholeParts
<1>1. (n \div N) * N + N <= q * N
  BY MultiplesGrow, WholeParts
<1>2. (n \div N) * N \in Nat /\ q * N \in Nat /\ N \in Nat
  BY Multiple, WholeParts, NeedleAssumption DEF NeedleAssumption
<1> QED BY <1>1, <1>2, WholeParts

-----------------------------------------------------------------------------
LEMMA InitInv == Init => IInv
<1> SUFFICES ASSUME Init PROVE IInv
  OBVIOUS
<1> USE DEF Init
<1>0. N \in Nat \ {0} /\ Pieces \in Nat \ {0} /\ MaxLen \in Nat /\ MaxExtra \in Nat
  BY NeedleAssumption, PiecesAssumption, BoundAssumption DEF NeedleAssumption, PiecesAssumption, BoundAssumption
<1>1. hayLen \in Nat /\ streamLen \in Nat /\ hayLen <= streamLen
  BY <1>0
<1>2. Blank \in Peak
  BY <1>0 DEF Blank, Peak
<1>3. TypeOK
  <2>1. place \in {Nowhere} \union Nat
    BY <1>0, <1>1
  <2>2. large \in 0 .. Pieces * N /\ readPos \in large .. streamLen /\ ii \in 0..Pieces
    <3>1. Pieces * N \in Nat
      BY <1>0, Multiple
    <3> QED BY <1>0, <1>1, <3>1
  <2>3. begins \in [0 .. Records - 1 -> Peak] /\ ends \in [0 .. Records - 1 -> Peak]
    BY <1>2
  <2>4. j \in Nat /\ i \in Nat /\ results \in Seq(Nat)
    OBVIOUS
  <2> QED BY <1>1, <2>1, <2>2, <2>3, <2>4 DEF TypeOK
<1>4. j * Pieces = 0
  BY <1>0
<1>5. PieceInv
  BY <1>0, <1>4 DEF PieceInv
<1>6. RecordInv
  <2>1. Correlated = 0
    BY <1>4 DEF Correlated
  <2> QED BY <2>1 DEF RecordInv
<1> QED BY <1>3, <1>5, <1>6 DEF IInv, OverrunCause, ResultsInside, PairInv

-----------------------------------------------------------------------------
(* What the invariant says of the numbers                                  *)

\* The variables of the loop as numbers, for the arithmetic below
LEMMA Numbers ==
    ASSUME TypeOK
    PROVE  /\ N \in Nat /\ 0 < N /\ Pieces \in Nat /\ 0 < Pieces
           /\ hayLen \in Nat /\ streamLen \in Nat /\ hayLen <= streamLen
           /\ large \in Nat /\ large <= Pieces * N /\ Pieces * N \in Nat
           /\ readPos \in Nat /\ large <= readPos /\ readPos <= streamLen
           /\ j \in Nat /\ ii \in Nat /\ ii <= Pieces /\ i \in Nat
           /\ place = Nowhere \/ place \in Nat
           /\ place # Nowhere => place \in Nat
           /\ j * Pieces \in Nat /\ (j * Pieces) * N \in Nat
           /\ Records \in Nat /\ Records * N <= hayLen
<1>1. N \in Nat /\ 0 < N /\ Pieces \in Nat /\ 0 < Pieces
  BY NeedleAssumption, PiecesAssumption DEF NeedleAssumption, PiecesAssumption
<1>2. hayLen \in Nat /\ streamLen \in Nat /\ hayLen <= streamLen
  BY DEF TypeOK
<1>3. Pieces * N \in Nat
  BY <1>1
<1>4. large \in 0 .. Pieces * N /\ readPos \in large .. streamLen
  BY DEF TypeOK
<1>5. j \in Nat /\ ii \in 0..Pieces /\ i \in Nat
  BY DEF TypeOK
<1>6. place \in {Nowhere} \union Nat
  BY DEF TypeOK
<1>7. j * Pieces \in Nat
  BY <1>1, <1>5
<1>8. (j * Pieces) * N \in Nat
  BY <1>7, Multiple
<1>9. Records \in Nat /\ Records * N <= hayLen
  BY <1>2, WholeParts DEF Records
<1> QED BY <1>1, <1>2, <1>3, <1>4, <1>5, <1>6, <1>7, <1>8, <1>9

\* The parts of a piece lie within it.
LEMMA Parts ==
    ASSUME TypeOK
    PROVE  /\ NumberOfParts \in Nat
           /\ NumberOfParts <= Pieces
           /\ NumberOfParts * N <= large
           /\ large < NumberOfParts * N + N
           /\ NumberOfParts = Pieces => large = Pieces * N
<1>1. /\ NumberOfParts \in Nat
      /\ NumberOfParts * N <= large
      /\ large < NumberOfParts * N + N
  BY Numbers, WholeParts DEF NumberOfParts
<1>2. NumberOfParts <= Pieces
  <2> SUFFICES ASSUME Pieces < NumberOfParts PROVE FALSE
    BY <1>1, Numbers
  <2>1. Pieces * N + N <= NumberOfParts * N
    BY <1>1, Numbers, MultiplesGrow
  <2>2. NumberOfParts * N \in Nat
    BY <1>1, Multiple
  <2> QED BY <1>1, <2>1, <2>2, Numbers
<1>3. NumberOfParts = Pieces => large = Pieces * N
  BY <1>1, Numbers
<1> QED BY <1>1, <1>2, <1>3

-----------------------------------------------------------------------------
\* The next piece is read, and its records are made.
LEMMA ReadPieceInv ==
    ASSUME IInv, ReadPiece
    PROVE  IInv'
<1> USE DEF ReadPiece
<1>0. TypeOK /\ PieceInv /\ OverrunCause /\ RecordInv /\ ResultsInside /\ PairInv
  BY DEF IInv
<1>1. readPos = (j * Pieces) * N
  BY <1>0 DEF PieceInv
<1>2. /\ large' \in Nat /\ large' <= Pieces * N
      /\ readPos' \in Nat /\ large' <= readPos' /\ readPos' <= streamLen
      /\ readPos' - large' = readPos
      /\ large' = Pieces * N \/ readPos' = streamLen
  <2>1. \A piece, left \in Nat :
          LET n == IF left < piece THEN left ELSE piece
          IN  n \in Nat /\ n <= piece /\ n <= left /\ (n = piece \/ n = left)
    OBVIOUS
  <2>2. streamLen - readPos \in Nat /\ Pieces * N \in Nat /\ readPos \in Nat /\ streamLen \in Nat
    BY <1>0, Numbers
  <2>3. /\ large' \in Nat /\ large' <= Pieces * N /\ large' <= streamLen - readPos
        /\ large' = Pieces * N \/ large' = streamLen - readPos
    BY <2>1, <2>2
  <2>4. \A n \in Nat : n <= streamLen - readPos =>
           /\ readPos + n \in Nat /\ n <= readPos + n /\ readPos + n <= streamLen
           /\ (readPos + n) - n = readPos
           /\ n = streamLen - readPos => readPos + n = streamLen
    BY <2>2
  <2> QED BY <2>3, <2>4
<1>3. TypeOK'
  <2>1. /\ hayLen' \in Nat /\ streamLen' \in Nat /\ hayLen' <= streamLen'
        /\ place' \in {Nowhere} \union Nat
        /\ pc' \in {"read", "parts", "match", "done", "overrun"}
        /\ j' \in Nat /\ i' \in Nat
        /\ results' \in Seq(Nat)
    BY <1>0 DEF TypeOK
  <2>2. begins' \in [0 .. Records' - 1 -> Peak] /\ ends' \in [0 .. Records' - 1 -> Peak]
    BY <1>0 DEF TypeOK, Records
  <2>3. ii' \in 0..Pieces
    BY <1>0, Numbers
  <2>4. large' \in 0 .. Pieces * N /\ readPos' \in large' .. streamLen'
    BY <1>0, <1>2, Numbers
  <2> QED BY <2>1, <2>2, <2>3, <2>4 DEF TypeOK, Peak
<1>4. PieceInv'
  <2>1. NumberOfParts' \in Nat
    BY <1>2, WholeParts DEF NumberOfParts
  <2> QED BY <1>1, <1>2, <2>1 DEF PieceInv, NumberOfParts
<1>5. Correlated' = Correlated
  BY <1>0, Numbers DEF Correlated
<1>6. RecordInv'
  BY <1>0, <1>5 DEF RecordInv, Records
<1>7. OverrunCause' /\ ResultsInside' /\ PairInv'
  BY <1>0 DEF OverrunCause, ResultsInside, PairInv, Records
<1> QED BY <1>3, <1>4, <1>6, <1>7 DEF IInv

\* All parts of the piece have their records; an incomplete piece is the last.
LEMMA EndPieceInv ==
    ASSUME IInv, EndPiece
    PROVE  IInv'
<1> USE DEF EndPiece
<1>0. TypeOK /\ PieceInv /\ OverrunCause /\ RecordInv /\ ResultsInside /\ PairInv
  BY DEF IInv
<1>1. /\ readPos - large = (j * Pieces) * N
      /\ large = Pieces * N \/ readPos = streamLen
  BY <1>0 DEF PieceInv
<1>2. ii = NumberOfParts
  BY <1>0, Parts, Numbers DEF PieceInv
<1>3. Correlated = j * Pieces + NumberOfParts
  BY <1>2 DEF Correlated
<1>4. CASE NumberOfParts # Pieces
  <2>1. large # Pieces * N
    <3> SUFFICES ASSUME large = Pieces * N PROVE FALSE
      OBVIOUS
    <3>1. Pieces <= NumberOfParts
      BY <1>0, Numbers, PartsFit DEF NumberOfParts
    <3> QED BY <1>0, <1>4, <3>1, Parts, Numbers
  <2>2. readPos = streamLen
    BY <1>1, <2>1
  <2>3. Correlated * N = (j * Pieces) * N + NumberOfParts * N
    BY <1>0, <1>3, Numbers, Parts, SumOfMultiples
  <2>4. Correlated \in Nat /\ Correlated * N \in Nat /\ NumberOfParts * N \in Nat
    <3>1. Correlated \in Nat
      BY <1>0, <1>3, Numbers, Parts
    <3>2. NumberOfParts \in Nat
      BY <1>0, Parts
    <3> QED BY <3>1, <3>2, Multiple
  <2>5. hayLen < Correlated * N + N
    BY <1>0, <1>1, <2>2, <2>3, <2>4, Numbers, Parts
  <2>6. Records <= Correlated
    <3> SUFFICES ASSUME Correlated < Records PROVE FALSE
      BY <1>0, <2>4, Numbers
    <3>1. Correlated * N + N <= Records * N
      BY <1>0, <2>4, Numbers, MultiplesGrow
    <3>2. Records * N \in Nat
      BY <1>0, Numbers, Multiple
    <3> QED BY <1>0, <2>4, <2>5, <3>1, <3>2, Numbers
  <2>7. TypeOK'
    BY <1>0, <1>4 DEF TypeOK, Records, Peak
  <2>8. Correlated' = Correlated
    BY <1>4 DEF Correlated
  <2>9. PieceInv'
    BY <1>4, <2>6, <2>8 DEF PieceInv, Records
  <2>10. RecordInv'
    BY <1>0, <1>4, <2>8 DEF RecordInv, Records
  <2>11. PairInv'
    <3>1. i = 0 /\ i' = 0 /\ pc' = "match"
      BY <1>0, <1>4 DEF PairInv
    <3> QED BY <3>1 DEF PairInv
  <2>12. OverrunCause' /\ ResultsInside'
    BY <1>0, <1>4 DEF OverrunCause, ResultsInside
  <2> QED BY <2>7, <2>9, <2>10, <2>11, <2>12 DEF IInv
<1>5. CASE NumberOfParts = Pieces
  <2>1. large = Pieces * N
    BY <1>0, <1>5, Parts
  <2>2. j + 1 \in Nat /\ (j + 1) * Pieces = j * Pieces + Pieces
    BY <1>0, Numbers
  <2>3. (j * Pieces + Pieces) * N = (j * Pieces) * N + Pieces * N
    BY <1>0, Numbers, SumOfMultiples
  <2>4. readPos = ((j + 1) * Pieces) * N
    BY <1>0, <1>1, <2>1, <2>2, <2>3, Numbers
  <2>5. PieceInv'
    BY <1>5, <2>4 DEF PieceInv
  <2>6. Correlated' = Correlated
    <3>1. Correlated' = (j + 1) * Pieces + 0
      BY <1>5 DEF Correlated
    <3> QED BY <1>0, <1>3, <1>5, <2>2, <3>1, Numbers
  <2>7. RecordInv'
    BY <1>0, <1>5, <2>6 DEF RecordInv, Records
  <2>8. TypeOK'
    BY <1>0, <1>5, <2>2 DEF TypeOK, Records, Peak
  <2>9. OverrunCause' /\ ResultsInside' /\ PairInv'
    BY <1>0, <1>5 DEF OverrunCause, ResultsInside, PairInv
  <2> QED BY <2>5, <2>7, <2>8, <2>9 DEF IInv
<1> QED BY <1>4, <1>5

\* The part that is correlated begins at a multiple of N, and has a record
\* unless there are fewer records than parts in the stream.
LEMMA CorrelatePartInv ==
    ASSUME IInv, CorrelatePart
    PROVE  IInv'
<1> USE DEF CorrelatePart
<1>0. TypeOK /\ PieceInv /\ OverrunCause /\ RecordInv /\ ResultsInside /\ PairInv
  BY DEF IInv
<1>1. /\ pc = "parts" /\ ii < NumberOfParts
      /\ readPos - large = (j * Pieces) * N
      /\ large = Pieces * N \/ readPos = streamLen
      /\ i = 0
  BY <1>0 DEF PieceInv, PairInv
<1>2. Index \in Nat /\ Index = j * Pieces + ii /\ Correlated = Index
  BY <1>0, <1>1, Numbers DEF Index, Correlated
<1>3. Index * N = (j * Pieces) * N + ii * N /\ Index * N \in Nat /\ ii * N \in Nat
  BY <1>0, <1>2, Numbers, SumOfMultiples, Multiple
<1>4. PartStart = Index * N
  BY <1>1, <1>3 DEF PartStart
<1>5. Index * N + N <= streamLen
  <2>1. ii * N + N <= NumberOfParts * N
    BY <1>0, <1>1, Numbers, Parts, MultiplesGrow
  <2>2. NumberOfParts * N \in Nat
    BY <1>0, Parts, Multiple
  <2> QED BY <1>0, <1>1, <1>3, <2>1, <2>2, Numbers, Parts
<1>6. CASE ~(Index < Records)
  <2>1. Index + 1 <= streamLen \div N
    <3>1. (Index + 1) * N <= streamLen /\ Index + 1 \in Nat
      BY <1>2, <1>5, Multiple
    <3> QED BY <1>0, <3>1, Numbers, PartsFit
  <2>2. Records < streamLen \div N
    BY <1>0, <1>2, <1>6, <2>1, Numbers, WholeParts
  <2>3. OverrunCause'
    BY <1>6, <2>2 DEF OverrunCause, Records
  <2>4. TypeOK'
    BY <1>0, <1>6 DEF TypeOK, Records, Peak
  <2>5. RecordInv' /\ PieceInv' /\ ResultsInside' /\ PairInv'
    <3>1. Correlated' = Correlated
      BY <1>1, <1>6 DEF Correlated
    <3> QED BY <1>0, <1>6, <3>1 DEF RecordInv, PieceInv, ResultsInside, PairInv, Records
  <2> QED BY <2>3, <2>4, <2>5 DEF IInv
<1>7. CASE Index < Records
  <2>1. PICK b \in BeginPeaks : begins' = [begins EXCEPT ![Index] = b]
    BY <1>7
  <2>2. PICK e \in EndPeaks : ends' = [ends EXCEPT ![Index] = e]
    BY <1>7
  <2>3. b \in Peak
    <3>1. PICK m \in IF BeginsHere THEN {place - PartStart} ELSE 0 .. N - 1 :
             b = [s |-> N - m, hit |-> BeginsHere]
      BY <2>1 DEF BeginPeaks
    <3>2. m \in 0 .. N - 1
      <4>1. BeginsHere => place - PartStart \in 0 .. N - 1
        BY <1>0, <1>3, <1>4, Numbers DEF BeginsHere
      <4> QED BY <3>1, <4>1
    <3>3. N - m \in 0..N /\ BeginsHere \in BOOLEAN
      BY <1>0, <3>2, Numbers DEF BeginsHere
    <3> QED BY <3>1, <3>3 DEF Peak
  <2>4. e \in Peak
    <3>1. PICK m \in IF EndsHere THEN {PartStart - place} ELSE 0 .. N - 1 :
             e = [s |-> N - m, hit |-> EndsHere]
      BY <2>2 DEF EndPeaks
    <3>2. m \in 0 .. N - 1
      <4>1. EndsHere => PartStart - place \in 0 .. N - 1
        BY <1>0, <1>3, <1>4, Numbers DEF EndsHere
      <4> QED BY <3>1, <4>1
    <3>3. N - m \in 0..N /\ EndsHere \in BOOLEAN
      BY <1>0, <3>2, Numbers DEF EndsHere
    <3> QED BY <3>1, <3>3 DEF Peak
  <2>5. Index \in 0 .. Records - 1
    BY <1>0, <1>2, <1>7, Numbers
  <2>6. TypeOK'
    <3>1. begins \in [0 .. Records - 1 -> Peak] /\ ends \in [0 .. Records - 1 -> Peak]
      BY <1>0 DEF TypeOK
    <3>2. begins' \in [0 .. Records - 1 -> Peak]
      BY <2>1, <2>3, <3>1
    <3>3. ends' \in [0 .. Records - 1 -> Peak]
      BY <2>2, <2>4, <3>1
    <3>4. Records' = Records
      BY DEF Records
    <3>5. ii' \in 0..Pieces
      BY <1>0, <1>1, <1>7, Numbers, Parts
    <3>6. /\ hayLen' \in Nat /\ streamLen' \in Nat /\ hayLen' <= streamLen'
          /\ place' \in {Nowhere} \union Nat
          /\ pc' \in {"read", "parts", "match", "done", "overrun"}
          /\ large' \in 0 .. Pieces * N
          /\ readPos' \in large' .. streamLen'
          /\ j' \in Nat /\ i' \in Nat
          /\ results' \in Seq(Nat)
      BY <1>0, <1>7 DEF TypeOK
    <3> QED BY <3>2, <3>3, <3>4, <3>5, <3>6 DEF TypeOK, Peak
  <2>7. PieceInv'
    <3>1. ii + 1 <= NumberOfParts /\ NumberOfParts' = NumberOfParts /\ ii' = ii + 1 /\ pc' = "parts"
      BY <1>0, <1>1, <1>7, Numbers, Parts DEF NumberOfParts
    <3> QED BY <1>0, <1>1, <1>7, <3>1 DEF PieceInv
  <2>8. RecordInv'
    <3>1. Correlated' = Index + 1 /\ Records' = Records
      <4>1. Correlated' = j * Pieces + (ii + 1)
        BY <1>1, <1>7 DEF Correlated
      <4> QED BY <1>0, <1>2, <4>1, Numbers DEF Records
    <3> SUFFICES ASSUME place # Nowhere, NEW k \in 0 .. Records - 1, k < Index + 1
                 PROVE  /\ k * N <= place /\ place < k * N + N =>
                              begins'[k] = [s |-> N - (place - k * N), hit |-> TRUE]
                        /\ place <= k * N /\ k * N < place + N =>
                              ends'[k] = [s |-> N - (k * N - place), hit |-> TRUE]
      BY <3>1 DEF RecordInv
    <3>2. begins \in [0 .. Records - 1 -> Peak] /\ ends \in [0 .. Records - 1 -> Peak]
      BY <1>0 DEF TypeOK
    <3>3. CASE k = Index
      <4>1. begins'[k] = b /\ ends'[k] = e
        BY <2>1, <2>2, <2>5, <3>2, <3>3
      <4>2. k * N <= place /\ place < k * N + N =>
               b = [s |-> N - (place - k * N), hit |-> TRUE]
        <5> SUFFICES ASSUME BeginsHere PROVE b = [s |-> N - (place - k * N), hit |-> TRUE]
          BY <1>4, <3>3 DEF BeginsHere
        <5> QED BY <1>4, <2>1, <3>3 DEF BeginPeaks
      <4>3. place <= k * N /\ k * N < place + N =>
               e = [s |-> N - (k * N - place), hit |-> TRUE]
        <5> SUFFICES ASSUME EndsHere PROVE e = [s |-> N - (k * N - place), hit |-> TRUE]
          BY <1>4, <3>3 DEF EndsHere
        <5> QED BY <1>4, <2>2, <3>3 DEF EndPeaks
      <4> QED BY <4>1, <4>2, <4>3
    <3>4. CASE k # Index
      <4>1. begins'[k] = begins[k] /\ ends'[k] = ends[k]
        BY <2>1, <2>2, <3>2, <3>4
      <4>2. k < Correlated
        <5>1. k \in Int /\ Index \in Int
          BY <1>0, <1>2, Numbers
        <5>2. k < Index
          BY <3>4, <5>1
        <5> QED BY <1>2, <5>2
      <4> QED BY <1>0, <4>1, <4>2 DEF RecordInv
    <3> QED BY <3>3, <3>4
  <2>9. OverrunCause' /\ ResultsInside' /\ PairInv'
    BY <1>0, <1>1, <1>7 DEF OverrunCause, ResultsInside, PairInv
  <2> QED BY <2>6, <2>7, <2>8, <2>9 DEF IInv
<1> QED BY <1>6, <1>7

\* A pair of records made by the needle gives the place of the needle.
LEMMA PairFound ==
    ASSUME IInv, pc = "match", place # Nowhere,
           i <= Records - 2, i * N < place, place < i * N + N
    PROVE  High = {TRUE} /\ LengthFits /\ Position = place
<1>0. TypeOK /\ PieceInv /\ RecordInv
  BY DEF IInv
<1>1. i \in 0 .. Records - 1 /\ i + 1 \in 0 .. Records - 1 /\ i \in Nat
  BY <1>0, Numbers
<1>2. Records <= Correlated /\ Correlated \in Nat
  <2>1. Correlated = j * Pieces + ii
    BY DEF Correlated
  <2> QED BY <1>0, <2>1, Numbers DEF PieceInv
<1>3. i < Correlated /\ i + 1 < Correlated
  BY <1>0, <1>1, <1>2, Numbers
<1>4. i * N \in Nat /\ (i + 1) * N = i * N + N
  BY <1>1, Multiple
<1>5. place \in Nat /\ N \in Nat
  BY <1>0, Numbers
<1>6. begins[i] = [s |-> N - (place - i * N), hit |-> TRUE]
  <2>1. i * N <= place
    BY <1>4, <1>5
  <2> QED BY <1>0, <1>1, <1>3, <2>1 DEF RecordInv
<1>7. ends[i + 1] = [s |-> N - ((i + 1) * N - place), hit |-> TRUE]
  <2>1. place <= (i + 1) * N /\ (i + 1) * N < place + N
    BY <1>4, <1>5
  <2> QED BY <1>0, <1>1, <1>3, <2>1 DEF RecordInv
<1>8. High = {TRUE}
  <2>1. begins[i].hit /\ ends[i + 1].hit
    BY <1>6, <1>7
  <2>2. ~Blank.hit
    BY DEF Blank
  <2>3. begins[i] # Blank /\ ends[i + 1] # Blank
    BY <2>1, <2>2
  <2> QED BY <2>1, <2>3 DEF High
<1>9. begins[i].s = N - (place - i * N) /\ ends[i + 1].s = N - ((i + 1) * N - place)
  BY <1>6, <1>7
<1>10. Overlap = N
  <2>1. Overlap = (N - (place - i * N)) + (N - ((i * N + N) - place))
    BY <1>4, <1>9 DEF Overlap
  <2> QED BY <1>4, <1>5, <2>1
<1>11. LengthFits
  BY <1>10, NeedleAssumption DEF LengthFits, NeedleAssumption
<1>12. Position = place
  <2>1. Position = (i * N + N) - (N - (place - i * N))
    BY <1>4, <1>9 DEF Position
  <2> QED BY <1>4, <1>5, <2>1
<1> QED BY <1>8, <1>11, <1>12

\* What is reported is not before the haystack and not behind it.
LEMMA PositionFits ==
    ASSUME TypeOK, pc = "match", Records # 0, i < Records - 1
    PROVE  Position \in Nat /\ Position + N <= hayLen
<1>1. i \in Nat /\ N \in Nat /\ Records \in Nat /\ hayLen \in Nat /\ Records * N <= hayLen
  BY Numbers
<1>2. i * N \in Nat /\ (i + 1) * N = i * N + N
  BY <1>1, Multiple
<1>3. (i + 1) * N + N <= Records * N
  <2>1. i + 1 \in Nat /\ i + 1 < Records
    BY <1>1
  <2> QED BY <1>1, <2>1, MultiplesGrow
<1>4. begins[i].s \in 0..N
  <2>1. i \in 0 .. Records - 1
    BY <1>1
  <2>2. begins[i] \in Peak
    BY <2>1 DEF TypeOK
  <2> QED BY <2>2 DEF Peak
<1>5. Records * N \in Nat
  BY <1>1, Multiple
<1>6. Position = (i * N + N) - begins[i].s
  BY <1>2 DEF Position
<1>7. (i * N + N) + N <= hayLen
  BY <1>1, <1>2, <1>3, <1>5
<1> QED BY <1>1, <1>2, <1>4, <1>6, <1>7

\* Two neighbouring records are looked at.
LEMMA MatchPairInv ==
    ASSUME IInv, MatchPair
    PROVE  IInv'
<1> USE DEF MatchPair
<1>0. TypeOK /\ PieceInv /\ OverrunCause /\ RecordInv /\ ResultsInside /\ PairInv
  BY DEF IInv
<1>1. Records' = Records /\ Correlated' = Correlated /\ RecordInv'
  <2>1. pc # "read" /\ pc' # "read"
    OBVIOUS
  <2>2. Correlated' = Correlated
    BY <2>1 DEF Correlated
  <2> QED BY <1>0, <2>2 DEF RecordInv, Records
<1>2. CASE Records = 0
  <2>1. TypeOK'
    BY <1>0, <1>2 DEF TypeOK, Records, Peak
  <2>2. PieceInv' /\ OverrunCause' /\ ResultsInside' /\ PairInv'
    BY <1>0, <1>1, <1>2 DEF PieceInv, OverrunCause, ResultsInside, PairInv
  <2> QED BY <1>1, <2>1, <2>2 DEF IInv
<1>3. CASE Records # 0
  <2>1. PICK high \in High :
           results' = IF high /\ LengthFits THEN Append(results, Position) ELSE results
    BY <1>3
  <2>2. i < Records - 1 /\ i' = i + 1 /\ pc' = "match"
    BY <1>3
  <2>3. Position \in Nat /\ Position + N <= hayLen
    BY <1>0, <1>3, <2>2, PositionFits
  <2>4. results \in Seq(Nat)
    BY <1>0 DEF TypeOK
  <2>5. /\ Append(results, Position) \in Seq(Nat)
        /\ Len(Append(results, Position)) = Len(results) + 1
        /\ Append(results, Position)[Len(results) + 1] = Position
        /\ \A k \in 1..Len(results) : Append(results, Position)[k] = results[k]
    BY <2>3, <2>4, AppendProperties
  <2>6. results' \in Seq(Nat) /\ Len(results) \in Nat
    BY <2>1, <2>4, <2>5
  <2>7. \A k \in DOMAIN results : k \in DOMAIN results' /\ results'[k] = results[k]
    BY <2>1, <2>4, <2>5
  <2>8. TypeOK'
    <3>1. i' \in Nat
      <4>1. i \in Nat
        BY <1>0, Numbers
      <4>2. i + 1 \in Nat
        BY <4>1
      <4> QED BY <2>2, <4>2
    <3>2. begins' \in [0 .. Records' - 1 -> Peak] /\ ends' \in [0 .. Records' - 1 -> Peak]
      BY <1>0, <1>1 DEF TypeOK
    <3>3. /\ hayLen' \in Nat /\ streamLen' \in Nat /\ hayLen' <= streamLen'
          /\ place' \in {Nowhere} \union Nat
          /\ pc' \in {"read", "parts", "match", "done", "overrun"}
          /\ large' \in 0 .. Pieces * N
          /\ readPos' \in large' .. streamLen'
          /\ j' \in Nat /\ ii' \in 0..Pieces
      BY <1>0, <2>2 DEF TypeOK
    <3> QED BY <2>6, <3>1, <3>2, <3>3 DEF TypeOK, Peak
  <2>9. ResultsInside'
    <3> SUFFICES ASSUME NEW k \in DOMAIN results' PROVE results'[k] + N <= hayLen
      BY DEF ResultsInside
    <3>1. CASE k \in DOMAIN results
      BY <1>0, <2>7, <3>1 DEF ResultsInside
    <3>2. CASE k \notin DOMAIN results
      <4>1. results' = Append(results, Position) /\ k = Len(results) + 1
        BY <2>1, <2>4, <2>5, <3>2
      <4> QED BY <2>3, <2>5, <4>1
    <3> QED BY <3>1, <3>2
  <2>10. PairInv'
    <3> SUFFICES ASSUME place # Nowhere, NEW q \in 0 .. Records - 2, q < i + 1,
                        q * N < place, place < q * N + N
                 PROVE  \E k \in DOMAIN results' : results'[k] = place
      BY <1>1, <2>2 DEF PairInv
    <3>1. CASE q < i
      BY <1>0, <2>7, <3>1 DEF PairInv
    <3>2. CASE q = i
      <4>1. High = {TRUE} /\ LengthFits /\ Position = place
        <5>1. i <= Records - 2
          BY <3>2
        <5> QED BY <3>2, <5>1, PairFound
      <4>2. results' = Append(results, place)
        BY <2>1, <4>1
      <4>3. Len(results) + 1 \in DOMAIN results'
        BY <2>4, <2>5, <2>6, <4>1, <4>2
      <4> QED BY <2>5, <4>1, <4>2, <4>3
    <3>3. q < i \/ q = i
      <4>1. q \in Int /\ i \in Int
        BY <1>0, Numbers
      <4> QED BY <4>1
    <3> QED BY <3>1, <3>2, <3>3
  <2>11. PieceInv' /\ OverrunCause'
    BY <1>0, <1>1, <2>2 DEF PieceInv, OverrunCause
  <2> QED BY <1>1, <2>8, <2>9, <2>10, <2>11 DEF IInv
<1> QED BY <1>2, <1>3

LEMMA FinishInv ==
    ASSUME IInv, Finish
    PROVE  IInv'
<1> USE DEF Finish
<1>0. TypeOK /\ PieceInv /\ OverrunCause /\ RecordInv /\ ResultsInside /\ PairInv
  BY DEF IInv
<1>1. TypeOK'
  BY <1>0 DEF TypeOK, Records, Peak
<1>2. Correlated' = Correlated /\ Records' = Records
  BY DEF Correlated, Records
<1>3. PieceInv' /\ OverrunCause' /\ ResultsInside' /\ RecordInv'
  BY <1>0, <1>2 DEF PieceInv, OverrunCause, ResultsInside, RecordInv
<1>4. PairInv'
  BY <1>0, <1>2 DEF PairInv
<1> QED BY <1>1, <1>3, <1>4 DEF IInv

LEMMA NextInv ==
    ASSUME IInv, Next
    PROVE  IInv'
BY ReadPieceInv, CorrelatePartInv, EndPieceInv, MatchPairInv, FinishInv DEF Next

LEMMA StutterInv ==
    ASSUME IInv, UNCHANGED vars
    PROVE  IInv'
<1> USE DEF vars
<1>1. TypeOK' /\ OverrunCause' /\ ResultsInside'
  BY DEF IInv, TypeOK, Records, Peak, OverrunCause, ResultsInside
<1>2. PieceInv' /\ RecordInv' /\ PairInv'
  BY DEF IInv, PieceInv, RecordInv, PairInv, Correlated, Records, NumberOfParts
<1> QED BY <1>1, <1>2 DEF IInv

\* The records are those of the parts they are taken for, and the pairs that
\* have been looked at are the first ones, at every turn of match()'s loops.
THEOREM Invariance == Spec => []IInv
<1>1. Init => IInv
  BY InitInv
<1>2. IInv /\ [Next]_vars => IInv'
  BY NextInv, StutterInv
<1> QED BY <1>1, <1>2, PTL DEF Spec

\* match() alone: the variables keep their types, and every position reported
\* leaves room for the needle in the haystack.
THEOREM TypeCorrect == Spec => []TypeOK
<1>1. IInv => TypeOK
  BY DEF IInv
<1> QED BY <1>1, Invariance, PTL

-----------------------------------------------------------------------------
(* sound-match, the program: its steps are steps of match() or leave the   *)
(* variables of match() alone.                                             *)

AllInv == IInv /\ MainInv

LEMMA MainInit == SoundInit => AllInv
<1> SUFFICES ASSUME SoundInit PROVE AllInv
  OBVIOUS
<1>1. IInv
  BY InitInv DEF SoundInit
<1>2. MainInv
  BY DEF SoundInit, MainInv
<1> QED BY <1>1, <1>2 DEF AllInv

\* The program's other steps leave what match() has; its results are printed
\* after match() has returned.
LEMMA MainStep ==
    ASSUME AllInv, [SoundNext]_<<vars, mainVars>>
    PROVE  AllInv'
<1>0. IInv /\ MainInv
  BY DEF AllInv
<1>1. CASE Options
  <2>1. UNCHANGED vars /\ arguments' = arguments
    BY <1>1 DEF Options
  <2>2. IInv'
    BY <1>0, <2>1, StutterInv
  <2>3. MainInv'
    BY <1>1 DEF Options, MainInv
  <2> QED BY <2>2, <2>3 DEF AllInv
<1>2. CASE Open
  <2>1. IInv'
    BY <1>0, <1>2, StutterInv DEF Open
  <2>2. MainInv'
    BY <1>2 DEF Open, MainInv
  <2> QED BY <2>1, <2>2 DEF AllInv
<1>3. CASE Match
  <2>1. IInv'
    BY <1>0, <1>3, NextInv DEF Match
  <2>2. MainInv'
    BY <1>3 DEF Match, MainInv, mainVars
  <2> QED BY <2>1, <2>2 DEF AllInv
<1>4. CASE PrintResults
  <2>1. IInv'
    BY <1>0, <1>4, StutterInv DEF PrintResults
  <2>2. MainInv'
    <3>1. pc' = "done" /\ results' = results /\ shown' = [k \in DOMAIN results |-> TimeOf(results[k])]
      BY <1>4 DEF PrintResults, vars
    <3> QED BY <3>1 DEF MainInv, TimeOf
  <2> QED BY <2>1, <2>2 DEF AllInv
<1>5. CASE Overrun
  <2>1. IInv'
    BY <1>0, <1>5, StutterInv DEF Overrun
  <2>2. MainInv'
    BY <1>5 DEF Overrun, MainInv
  <2> QED BY <2>1, <2>2 DEF AllInv
<1>6. CASE UNCHANGED <<vars, mainVars>>
  <2>1. IInv'
    BY <1>0, <1>6, StutterInv
  <2>2. MainInv'
    BY <1>0, <1>6 DEF MainInv, TimeOf, vars, mainVars
  <2> QED BY <2>1, <2>2 DEF AllInv
<1> QED BY <1>1, <1>2, <1>3, <1>4, <1>5, <1>6 DEF SoundNext

\* match()'s invariant and that of the program around it hold in every run of
\* sound-match, with whatever options.
THEOREM SoundInvariance == SoundSpec => []AllInv
<1>1. AllInv /\ [SoundNext]_<<vars, mainVars>> => AllInv'
  BY MainStep
<1> QED BY MainInit, <1>1, PTL DEF SoundSpec

\* Every occurrence that sound-match reports lies wholly within the haystack,
\* for every length of needle and haystack, and whatever the correlations say.
THEOREM ReportsWithinHaystack == SoundSpec => []ResultsInside
<1>1. AllInv => ResultsInside
  BY DEF AllInv, IInv
<1> QED BY <1>1, SoundInvariance, PTL

\* The vectors of records are left only for a haystack shorter than the needle,
\* or one whose header announces fewer whole parts than its stream delivers.
THEOREM OverrunExplained == SoundSpec => []OverrunCause
<1>1. AllInv => OverrunCause
  BY DEF AllInv, IInv
<1> QED BY <1>1, SoundInvariance, PTL

-----------------------------------------------------------------------------
(* The time that is printed                                                *)

\* A quotient is known by the multiple it names.
LEMMA QuotientUnique ==
    ASSUME NEW n \in Nat, NEW d \in Nat \ {0}, NEW r \in Nat,
           d * r <= n, n < d * r + d
    PROVE  n \div d = r
<1> DEFINE q == n \div d
<1>1. q \in Nat /\ d * q <= n /\ n < d * q + d
  OBVIOUS
<1> HIDE DEF q
<1>2. d * (q + 1) = d * q + d /\ d * (r + 1) = d * r + d
  BY <1>1
<1>3. d * q \in Nat /\ d * r \in Nat
  BY <1>1
<1>4. d * q < d * (r + 1) /\ d * r < d * (q + 1)
  BY <1>1, <1>2, <1>3
<1>5. \A a, b \in Nat : d * a < d * b => a < b
  OBVIOUS
<1>6. q < r + 1 /\ r < q + 1
  BY <1>1, <1>4, <1>5
<1>7. q = r
  BY <1>1, <1>6
<1> QED BY <1>7 DEF q

\* Dividing twice is dividing by the square.
LEMMA QuotientTwice ==
    ASSUME NEW n \in Nat, NEW d \in Nat \ {0}
    PROVE  n \div (d * d) = (n \div d) \div d
<1> DEFINE q == n \div d
           r == q \div d
<1>1. q \in Nat /\ d * q <= n /\ n < d * q + d
  OBVIOUS
<1> HIDE DEF q
<1>2. r \in Nat /\ d * r <= q /\ q < d * r + d
  BY <1>1
<1> HIDE DEF r
<1>3. \A a, b \in Nat : (a <= b => d * a <= d * b) /\ d * (a + 1) = d * a + d /\ d * a \in Nat
  OBVIOUS
<1>4. d * (d * r) <= d * q
  BY <1>1, <1>2, <1>3
<1>5. d * (q + 1) <= d * (d * (r + 1))
  <2>1. d * (r + 1) = d * r + d /\ d * r \in Nat /\ d * (r + 1) \in Nat /\ q + 1 \in Nat
    BY <1>1, <1>2, <1>3
  <2>2. q + 1 <= d * (r + 1)
    BY <1>1, <1>2, <2>1
  <2> QED BY <1>3, <2>1, <2>2
<1>6. d * (d * (r + 1)) = d * (d * r) + d * d
  BY <1>2
<1>7. d * (q + 1) = d * q + d
  BY <1>1, <1>3
<1>8. d * (d * r) = (d * d) * r /\ d * d \in Nat \ {0} /\ (d * d) * r \in Nat /\ d * q \in Nat
  BY <1>1, <1>2
<1>9. (d * d) * r <= n /\ n < (d * d) * r + d * d
  BY <1>1, <1>4, <1>5, <1>6, <1>7, <1>8
<1>10. n \div (d * d) = r
  BY <1>2, <1>8, <1>9, QuotientUnique
<1> QED BY <1>10 DEF q, r

\* Hours, minutes and seconds tell the second at which the result begins.
LEMMA TimeOfSeconds ==
    ASSUME NEW p \in Nat
    PROVE  Seconds(TimeOf(p)) = p \div Rate
<1> DEFINE n == p \div Rate
           m == n \div Sixty
<1>1. Rate \in Nat \ {0} /\ Sixty \in Nat \ {0}
  BY RateAssumption DEF RateAssumption
<1>2. \A d \in Nat \ {0} : \A x \in Nat :
         /\ x \div d \in Nat /\ x % d \in Nat
         /\ x = d * (x \div d) + (x % d)
  OBVIOUS
<1>3. n \in Nat
  BY <1>1, <1>2
<1>4. Seconds(TimeOf(p)) = Sixty * Sixty * (n \div (Sixty * Sixty)) + Sixty * (m % Sixty) + (n % Sixty)
  BY DEF Seconds, TimeOf
<1> HIDE DEF n
<1>5. n \div (Sixty * Sixty) = m \div Sixty
  BY <1>1, <1>3, QuotientTwice
<1>6. m \in Nat /\ n % Sixty \in Nat /\ n = Sixty * m + (n % Sixty)
  BY <1>1, <1>2, <1>3
<1> HIDE DEF m
<1>7. m \div Sixty \in Nat /\ m % Sixty \in Nat /\ m = Sixty * (m \div Sixty) + (m % Sixty)
  BY <1>1, <1>2, <1>6
<1>8. \A a, b \in Nat : Sixty * Sixty * a + Sixty * b = Sixty * (Sixty * a + b)
  BY <1>1
<1>9. Sixty * Sixty * (m \div Sixty) + Sixty * (m % Sixty) = Sixty * m
  BY <1>7, <1>8
<1>10. Seconds(TimeOf(p)) = n
  BY <1>4, <1>5, <1>6, <1>9
<1> QED BY <1>10 DEF n

\* A needle that begins within a part, and ends by the end of the last one, has
\* a whole part behind the one it begins in.
LEMMA AcrossParts ==
    ASSUME NEW p \in Nat, NEW r \in Nat, p % N # 0, p + N <= N * r
    PROVE  LET q == p \div N
           IN  q \in Nat /\ q <= r - 2 /\ q * N < p /\ p < q * N + N
<1> DEFINE q == p \div N
<1>1. N \in Nat \ {0}
  BY NeedleAssumption DEF NeedleAssumption
<1>2. q \in Nat /\ q * N <= p /\ p < q * N + N
  BY WholeParts
<1>3. p = q * N + (p % N) /\ p % N \in Nat
  <2>1. \A d \in Nat \ {0} : \A x \in Nat : x = (x \div d) * d + (x % d) /\ x % d \in Nat
    OBVIOUS
  <2> QED BY <1>1, <2>1
<1> HIDE DEF q
<1>4. q * N \in Nat /\ (q + 1) * N = q * N + N /\ r * N \in Nat
  BY <1>2, Multiple
<1>5. q * N < p
  <2>1. \A a, b, c \in Nat : a = b + c /\ c # 0 => b < a
    OBVIOUS
  <2> QED BY <1>3, <1>4, <2>1
<1>6. q <= r - 2
  <2>1. q + 1 < r
    <3> SUFFICES ASSUME r <= q + 1 PROVE FALSE
      BY <1>2
    <3>1. r * N <= (q + 1) * N
      <4>1. r = q + 1 \/ r < q + 1
        BY <1>2
      <4>2. r < q + 1 => r * N + N <= (q + 1) * N
        BY <1>2, MultiplesGrow
      <4>3. r * N \in Nat /\ (q + 1) * N \in Nat
        BY <1>1, <1>4
      <4> QED BY <1>1, <4>1, <4>2, <4>3
    <3>2. p + N <= r * N
      BY <1>1
    <3> QED BY <1>1, <1>4, <1>5, <3>1, <3>2
  <2> QED BY <1>2, <2>1
<1> QED BY <1>2, <1>5, <1>6 DEF q

\* When the program has searched and ends with 0, a needle that lies across two
\* neighbouring whole parts of the haystack is printed with the second at which
\* it begins: the pieces in which the haystack is read make no difference.
THEOREM FoundAcrossParts == SoundSpec => []PrintedAcross
<1>0. \A a, b, c \in Nat : a <= b - 2 /\ c >= b - 1 => a \in 0 .. b - 2 /\ a < c
  OBVIOUS
<1>1. ASSUME AllInv PROVE PrintedAcross
  <2>0. IInv /\ MainInv
    BY <1>1 DEF AllInv
  <2>1. TypeOK /\ PairInv
    BY <2>0 DEF IInv
  <2> SUFFICES ASSUME stage = "exit 0", ~arguments.version, place # Nowhere,
                      place % N # 0, place + N <= N * Records
               PROVE  \E k \in DOMAIN shown : Seconds(shown[k]) = place \div Rate
    BY DEF PrintedAcross
  <2>2. pc = "done" /\ shown = [k \in DOMAIN results |-> TimeOf(results[k])]
    BY <2>0 DEF MainInv
  <2>3. i >= Records - 1
    BY <2>1, <2>2 DEF PairInv
  <2> DEFINE q == place \div N
  <2>4. place \in Nat /\ Records \in Nat /\ i \in Nat
    BY <2>1, Numbers
  <2>5. q \in Nat /\ q <= Records - 2 /\ q * N < place /\ place < q * N + N
    BY <2>4, AcrossParts
  <2> HIDE DEF q
  <2>6. q \in 0 .. Records - 2 /\ q < i
    BY <1>0, <2>3, <2>4, <2>5
  <2>7. PICK k \in DOMAIN results : results[k] = place
    BY <2>1, <2>2, <2>5, <2>6 DEF PairInv
  <2>8. k \in DOMAIN shown /\ shown[k] = TimeOf(place)
    BY <2>2, <2>7
  <2>9. Seconds(TimeOf(place)) = place \div Rate
    BY <2>4, TimeOfSeconds
  <2> QED BY <2>8, <2>9
<1> QED BY <1>1, SoundInvariance, PTL


-----------------------------------------------------------------------------
(* overlap-analysis and its log                                            *)


\* Operations on the stream
Texts == Seq({Char, Sync} \union {<<"level", n>> : n \in Int})

\* Characters are the numbers of those before them.
LogTypeOK ==
    /\ buf \in Seq(Nat) /\ pending \in Seq(Nat) /\ disk \in Seq(Nat) /\ due \in Seq(Nat)
    /\ count \in Nat
    /\ todo \in Texts
    /\ level \in Int /\ printLevel \in Int

\* Operations that a last endl ends
EndsInSync(operations) == operations = << >> \/ operations[Len(operations)] = Sync

LineInv == EndsInSync(todo) /\ (todo = << >> => buf = << >>)

\* Nothing is done with the log of a program that has ended.
EndInv ==
    /\ phase \in Ended => todo = << >> /\ pending = << >>
    /\ phase = "killed" => IsPrefix(disk, due)
    /\ phase # "killed" => NothingLostYet

LogInv == LogTypeOK /\ LineInv /\ EndInv

-----------------------------------------------------------------------------
(* What the program puts into the stream                                   *)

LEMMA LineEnds ==
    ASSUME NEW n \in Nat
    PROVE  Line(n) \in Texts /\ Line(n) # << >> /\ EndsInSync(Line(n))
BY DEF Line, Texts, EndsInSync

\* Texts that end with endl do so together.
LEMMA TogetherEnds ==
    ASSUME NEW r \in Texts, NEW t \in Texts, t # << >>, EndsInSync(t)
    PROVE  r \o t \in Texts /\ r \o t # << >> /\ EndsInSync(r \o t)
<1>1. r \o t \in Texts /\ Len(r \o t) = Len(r) + Len(t) /\ Len(t) \in Nat /\ Len(t) > 0 /\ Len(r) \in Nat
  BY DEF Texts
<1>2. (r \o t)[Len(r) + Len(t)] = t[Len(t)]
  BY <1>1 DEF Texts
<1> QED BY <1>1, <1>2 DEF EndsInSync

LEMMA ManipulatorEnds ==
    ASSUME NEW n \in Int
    PROVE  Manipulator(n) \in Texts /\ Manipulator(n) # << >> /\ EndsInSync(Manipulator(n))
<1>1. <<<<"level", n>>>> \in Texts
  BY DEF Texts
<1>2. Line(0) \in Texts /\ Line(1) \in Texts /\ Line(0) # << >> /\ Line(1) # << >>
      /\ EndsInSync(Line(0)) /\ EndsInSync(Line(1))
  BY LineEnds
<1>3. <<<<"level", n>>>> \o Line(0) \in Texts
  BY <1>1, <1>2, TogetherEnds
<1> QED BY <1>2, <1>3, TogetherEnds DEF Manipulator

-----------------------------------------------------------------------------
(* The stream                                                              *)

\* What the log has of the text, in the file or on the way to it
OnTheWay == disk \o pending \o (IF Printed THEN buf ELSE << >>)

\* fwrite and flush move text, and change none.
LEMMA FlushMoves ==
    ASSUME LogTypeOK, Flush
    PROVE  /\ disk' \in Seq(Nat) /\ pending' \in Seq(Nat)
           /\ disk' \o pending' = OnTheWay
<1> USE DEF LogTypeOK
<1>1. CASE Printed
  <2>1. /\ pending \o buf \in Seq(Nat)
        /\ disk \o (pending \o buf) = (disk \o pending) \o buf
        /\ (disk \o pending) \o buf \in Seq(Nat)
    OBVIOUS
  <2>2. OnTheWay = disk \o pending \o buf
    BY <1>1 DEF OnTheWay
  <2>3. CASE Len(pending \o buf) < FileBuf
    BY <1>1, <2>1, <2>2, <2>3 DEF Flush, Written
  <2>4. CASE ~(Len(pending \o buf) < FileBuf)
    <3>1. pending' = << >> /\ disk' = disk \o pending \o buf
      BY <1>1, <2>4 DEF Flush, Written
    <3> QED BY <2>1, <2>2, <3>1
  <2> QED BY <2>3, <2>4
<1>2. CASE ~Printed
  <2>1. OnTheWay = disk \o pending
    BY <1>2 DEF OnTheWay
  <2> QED BY <1>2, <2>1 DEF Flush
<1> QED BY <1>1, <1>2

\* The next operation that is queued, and those behind it
LEMMA NextOperation ==
    ASSUME todo \in Texts, todo # << >>, EndsInSync(todo), todo' = Tail(todo)
    PROVE  /\ todo' \in Texts /\ EndsInSync(todo')
           /\ todo' = << >> => Head(todo) = Sync
<1>1. Len(todo) \in Nat \ {0} /\ todo' \in Texts /\ Len(todo') = Len(todo) - 1
      /\ \A k \in 1..Len(todo') : todo'[k] = todo[k + 1]
  BY DEF Texts
<1>2. CASE todo' = << >>
  <2>0. Len(todo') = 0
    BY ONLY <1>2
  <2>1. Len(todo) = 1
    BY ONLY <1>1, <2>0
  <2>2. Head(todo) = todo[1]
    BY DEF Texts
  <2> QED BY <1>1, <1>2, <2>1, <2>2 DEF EndsInSync
<1>3. CASE todo' # << >>
  <2>1. Len(todo') \in 1..Len(todo')
    BY <1>1, <1>3 DEF Texts
  <2> QED BY <1>1, <1>3, <2>1 DEF EndsInSync
<1> QED BY <1>1, <1>2, <1>3

LEMMA CharacterKept ==
    ASSUME LogTypeOK, LineInv, NothingLostYet, PutCharacter
    PROVE  LogTypeOK' /\ LineInv' /\ NothingLostYet'
<1> USE DEF LogTypeOK
<1>1. /\ todo # << >> /\ Head(todo) = Char /\ todo' = Tail(todo) /\ count' = count + 1
      /\ level' = level /\ printLevel' = printLevel /\ Printed' = Printed
  BY DEF PutCharacter, Printed
<1>2. todo' \in Texts /\ EndsInSync(todo') /\ todo' # << >>
  BY <1>1, NextOperation DEF LineInv, Char, Sync
<1>3. disk \o pending \in Seq(Nat) /\ due \in Seq(Nat) /\ count \in Nat
  OBVIOUS
<1>4. due' = IF Printed THEN Append(due, count) ELSE due
  BY DEF PutCharacter
<1>5. CASE Len(buf) = BufSize
  <2>1. Flush /\ buf' = <<count>>
    BY <1>5 DEF PutCharacter, PutIntoBuffer
  <2>2. disk' \in Seq(Nat) /\ pending' \in Seq(Nat) /\ disk' \o pending' = due
    BY <2>1, FlushMoves DEF NothingLostYet, OnTheWay
  <2>3. NothingLostYet'
    <3>1. due \o <<count>> = Append(due, count) /\ due \o << >> = due
      BY <1>3
    <3> QED BY <1>1, <1>4, <2>1, <2>2, <3>1 DEF NothingLostYet
  <2> QED BY <1>1, <1>2, <1>3, <1>4, <2>1, <2>2, <2>3 DEF LineInv
<1>6. CASE Len(buf) # BufSize
  <2>1. buf' = Append(buf, count) /\ disk' = disk /\ pending' = pending
    BY <1>6 DEF PutCharacter, PutIntoBuffer
  <2>2. NothingLostYet'
    <3>1. (disk \o pending) \o Append(buf, count) = Append((disk \o pending) \o buf, count)
      BY <1>3
    <3> QED BY <1>1, <1>4, <2>1, <3>1 DEF NothingLostYet
  <2> QED BY <1>1, <1>2, <1>3, <1>4, <2>1, <2>2 DEF LineInv
<1> QED BY <1>5, <1>6

LEMMA SynchroniseKept ==
    ASSUME LogTypeOK, LineInv, NothingLostYet, Synchronise
    PROVE  LogTypeOK' /\ LineInv' /\ NothingLostYet'
<1> USE DEF LogTypeOK
<1>1. /\ Flush /\ buf' = << >> /\ todo # << >> /\ todo' = Tail(todo)
      /\ level' = level /\ printLevel' = printLevel /\ count' = count /\ due' = due
  BY DEF Synchronise
<1>2. todo' \in Texts /\ EndsInSync(todo')
  BY <1>1, NextOperation DEF LineInv
<1>3. disk' \in Seq(Nat) /\ pending' \in Seq(Nat) /\ disk' \o pending' = due
  BY <1>1, FlushMoves DEF NothingLostYet, OnTheWay
<1>4. disk' \o pending' \o << >> = disk' \o pending'
  BY <1>3
<1> QED BY <1>1, <1>2, <1>3, <1>4 DEF LineInv, NothingLostYet

\* The level is changed after a flush.
LEMMA LevelKept ==
    ASSUME LogTypeOK, LineInv, NothingLostYet, SetLevel
    PROVE  LogTypeOK' /\ LineInv' /\ NothingLostYet'
<1> USE DEF LogTypeOK
<1>1. /\ todo # << >> /\ Head(todo)[1] = "level" /\ todo' = Tail(todo) /\ level' = Head(todo)[2]
      /\ printLevel' = printLevel /\ count' = count /\ due' = due
  BY DEF SetLevel
<1>2. todo' \in Texts /\ EndsInSync(todo') /\ todo' # << >>
  <2>1. Head(todo) # Sync
    BY <1>1 DEF Sync
  <2> QED BY <1>1, <2>1, NextOperation DEF LineInv
<1>3. level' \in Int
  <2>1. Head(todo) \in {Char, Sync} \union {<<"level", n>> : n \in Int}
    BY <1>1 DEF Texts
  <2>2. Head(todo) # Char /\ Head(todo) # Sync
    BY <1>1 DEF Char, Sync
  <2> QED BY <1>1, <2>1, <2>2
<1>4. CASE level = Head(todo)[2]
  <2>1. level' = level /\ buf' = buf /\ pending' = pending /\ disk' = disk
    BY <1>1, <1>4 DEF SetLevel
  <2> QED BY <1>1, <1>2, <1>3, <2>1 DEF LineInv, NothingLostYet, Printed
<1>5. CASE level # Head(todo)[2]
  <2>1. Flush /\ buf' = << >>
    BY <1>5 DEF SetLevel
  <2>2. disk' \in Seq(Nat) /\ pending' \in Seq(Nat) /\ disk' \o pending' = due
    BY <2>1, FlushMoves DEF NothingLostYet, OnTheWay
  <2>3. disk' \o pending' \o << >> = disk' \o pending'
    BY <2>2
  <2> QED BY <1>1, <1>2, <1>3, <2>1, <2>2, <2>3 DEF LineInv, NothingLostYet
<1> QED BY <1>4, <1>5

-----------------------------------------------------------------------------
(* The program                                                             *)

OverlapInv == LogInv /\ input \in Inputs

LEMMA OverlapStart == OverlapInit => OverlapInv
<1> SUFFICES ASSUME OverlapInit PROVE OverlapInv
  OBVIOUS
<1> USE DEF OverlapInit, LogInit
<1>1. LogTypeOK
  BY DEF LogTypeOK, Texts, Information
<1>2. LineInv /\ EndInv
  BY DEF LineInv, EndsInSync, EndInv, Ended, NothingLostYet
<1> QED BY <1>1, <1>2 DEF OverlapInv, LogInv

\* A step of the program itself puts a text into the stream, or changes the
\* print level, when the text before has been dealt with.
LEMMA SaidKept ==
    ASSUME LogInv, todo = << >>, phase \notin Ended, phase' \notin Ended,
           NEW text \in Texts, EndsInSync(text), Say(text)
    PROVE  LogInv'
<1>1. buf = << >>
  BY DEF LogInv, LineInv
<1>2. LogTypeOK'
  BY DEF LogInv, LogTypeOK, Say
<1>3. LineInv'
  BY <1>1 DEF Say, LineInv
<1>4. EndInv'
  BY DEF LogInv, EndInv, Ended, Say, NothingLostYet, Printed
<1> QED BY <1>2, <1>3, <1>4 DEF LogInv

LEMMA LevelOptionKept ==
    ASSUME LogInv, todo = << >>, phase \notin Ended, phase' \notin Ended,
           NEW n \in Int, SetPrintLevel(n)
    PROVE  LogInv'
<1>1. buf = << >>
  BY DEF LogInv, LineInv
<1>2. LogTypeOK' /\ LineInv'
  BY DEF LogInv, LogTypeOK, SetPrintLevel, LineInv
<1>3. disk' \o pending' \o (IF Printed' THEN buf' ELSE << >>) = disk \o pending \o (IF Printed THEN buf ELSE << >>)
  BY <1>1 DEF SetPrintLevel
<1>4. EndInv'
  BY <1>3 DEF LogInv, EndInv, Ended, SetPrintLevel, NothingLostYet
<1> QED BY <1>2, <1>4 DEF LogInv

\* The texts of the program
LEMMA TextsOfProgram ==
    ASSUME input \in Inputs
    PROVE  /\ << >> \in Texts /\ EndsInSync(<< >>)
           /\ \A n \in {Fatal, Information, Debug} :
                 /\ Manipulator(n) \o Line(1) \in Texts
                 /\ EndsInSync(Manipulator(n) \o Line(1))
           /\ LET text == PrintPart \o PrintPart \o PrintPart \o PrintPart
              IN  text \in Texts /\ EndsInSync(text)
           /\ LET text == Manipulator(Debug) \o Line(1) \o Line(1) \o Manipulator(Debug) \o <<Sync>> \o Line(1)
              IN  text \in Texts /\ EndsInSync(text)
<1>1. << >> \in Texts /\ EndsInSync(<< >>)
  BY DEF Texts, EndsInSync
<1>2. ASSUME NEW n \in Int, NEW m \in Nat
      PROVE  /\ Manipulator(n) \o Line(m) \in Texts /\ Manipulator(n) \o Line(m) # << >>
             /\ EndsInSync(Manipulator(n) \o Line(m))
  BY ManipulatorEnds, LineEnds, TogetherEnds
<1>3. PrintPart \in Texts /\ PrintPart # << >> /\ EndsInSync(PrintPart)
  <2>1. input.idLength \in Nat
    BY InputsAssumption DEF InputsAssumption
  <2> QED BY <1>2, <2>1 DEF PrintPart, Information
<1>4. /\ PrintPart \o PrintPart \o PrintPart \o PrintPart \in Texts
      /\ EndsInSync(PrintPart \o PrintPart \o PrintPart \o PrintPart)
  <2>1. PrintPart \o PrintPart \in Texts
    BY <1>3, TogetherEnds
  <2>2. PrintPart \o PrintPart \o PrintPart \in Texts
    BY <1>3, <2>1, TogetherEnds
  <2> QED BY <1>3, <2>2, TogetherEnds
<1>5. LET text == Manipulator(Debug) \o Line(1) \o Line(1) \o Manipulator(Debug) \o <<Sync>> \o Line(1)
      IN  text \in Texts /\ EndsInSync(text)
  <2>1. Manipulator(Debug) \o Line(1) \in Texts /\ Line(1) \in Texts /\ Line(1) # << >> /\ EndsInSync(Line(1))
    BY <1>2, LineEnds DEF Debug
  <2>2. Manipulator(Debug) \o Line(1) \o Line(1) \in Texts
    BY <2>1, TogetherEnds
  <2>3. Manipulator(Debug) \o Line(1) \o Line(1) \o Manipulator(Debug) \in Texts
    BY <2>2, ManipulatorEnds, TogetherEnds DEF Debug
  <2>4. <<Sync>> \in Texts /\ <<Sync>> # << >> /\ EndsInSync(<<Sync>>)
    BY DEF Texts, EndsInSync
  <2>5. Manipulator(Debug) \o Line(1) \o Line(1) \o Manipulator(Debug) \o <<Sync>> \in Texts
    BY <2>3, <2>4, TogetherEnds
  <2> QED BY <2>1, <2>5, TogetherEnds
<1> QED BY <1>1, <1>2, <1>4, <1>5 DEF Fatal, Information, Debug

\* The steps between those of the log
LEMMA ProgramKept ==
    ASSUME OverlapInv,
           \/ Arguments \/ LevelOption \/ Headers \/ Rates \/ Read
           \/ Correlate \/ Search \/ Report
    PROVE  LogInv' /\ input' = input
<1> USE DEF Step, Ended
<1>0. LogInv /\ input \in Inputs
  BY DEF OverlapInv
<1>1. CASE Arguments
  <2>1. /\ todo = << >> /\ phase = "arguments" /\ phase' \in {"exit 0", "exit 1", "level"}
        /\ Say(<< >>) \/ Say(Manipulator(Information) \o Line(1))
    BY <1>1 DEF Arguments
  <2> QED BY <1>0, <1>1, <2>1, TextsOfProgram, SaidKept DEF Arguments
<1>2. CASE LevelOption
  <2>1. /\ todo = << >> /\ phase = "level" /\ phase' = "headers"
        /\ Say(<< >>) \/ (input.level \in 1..5 /\ SetPrintLevel(input.level))
    BY <1>2 DEF LevelOption
  <2>2. CASE Say(<< >>)
    BY <1>0, <1>2, <2>1, <2>2, TextsOfProgram, SaidKept DEF LevelOption
  <2>3. CASE input.level \in 1..5 /\ SetPrintLevel(input.level)
    BY <1>0, <1>2, <2>1, <2>3, LevelOptionKept DEF LevelOption
  <2> QED BY <2>1, <2>2, <2>3
<1>3. CASE Headers
  BY <1>0, <1>3, TextsOfProgram, SaidKept DEF Headers
<1>4. CASE Rates
  <2>1. /\ todo = << >> /\ phase = "rates" /\ phase' \in {"read", "exit 1"}
        /\ Say(Manipulator(Debug) \o Line(1)) \/ Say(Manipulator(Fatal) \o Line(1))
    BY <1>4 DEF Rates
  <2> QED BY <1>0, <1>4, <2>1, TextsOfProgram, SaidKept DEF Rates
<1>5. CASE Read
  BY <1>0, <1>5, TextsOfProgram, SaidKept DEF Read
<1>6. CASE Correlate
  BY <1>0, <1>6, TextsOfProgram, SaidKept DEF Correlate
<1>7. CASE Search
  BY <1>0, <1>7, TextsOfProgram, SaidKept DEF Search
<1>8. CASE Report
  BY <1>0, <1>8, TextsOfProgram, SaidKept DEF Report
<1> QED BY <1>1, <1>2, <1>3, <1>4, <1>5, <1>6, <1>7, <1>8

\* The destructor of the log writes what is left of a text that ends with endl.
LEMMA ExitKept ==
    ASSUME LogInv, Exit
    PROVE  LogInv'
<1>1. todo = << >> /\ buf = << >> /\ phase \notin Ended /\ phase' \in {"ended 0", "ended 1"}
  BY DEF Exit, Step, LogInv, LineInv, Ended
<1>2. /\ disk' = disk \o pending \o (IF Printed THEN buf ELSE << >>) /\ buf' = << >> /\ pending' = << >>
      /\ todo' = todo /\ level' = level /\ printLevel' = printLevel /\ count' = count /\ due' = due
  BY DEF Exit, CloseLog
<1>3. disk' = due
  BY <1>1, <1>2 DEF LogInv, EndInv, Ended, NothingLostYet
<1>4. LogTypeOK'
  BY <1>2, <1>3 DEF LogInv, LogTypeOK
<1>5. disk' \o pending' \o (IF Printed' THEN buf' ELSE << >>) = due'
  <2>1. due \in Seq(Nat)
    BY DEF LogInv, LogTypeOK
  <2>2. due \o << >> \o << >> = due
    BY <2>1
  <2> QED BY <1>2, <1>3, <2>2
<1>6. EndInv'
  BY <1>1, <1>2, <1>5 DEF EndInv, Ended, NothingLostYet
<1> QED BY <1>1, <1>2, <1>4, <1>6 DEF LogInv, LineInv

\* What is in the file when the process is killed is the beginning of what is due.
LEMMA KillKept ==
    ASSUME LogInv, Kill
    PROVE  LogInv'
<1> USE DEF LogInv, LogTypeOK
<1>1. /\ phase' = "killed" /\ buf' = << >> /\ pending' = << >> /\ todo' = << >>
      /\ level' = level /\ printLevel' = printLevel /\ disk' = disk /\ count' = count /\ due' = due
  BY DEF Kill, LoseLog
<1>2. LogTypeOK'
  BY <1>1 DEF Texts
<1>3. IsPrefix(disk, due)
  <2>1. NothingLostYet
    BY DEF Kill, EndInv, Ended
  <2>2. PICK rest \in Seq(Nat) : due = disk \o rest
    <3>1. /\ disk \o pending \o << >> = disk \o pending
          /\ disk \o pending \o buf = disk \o (pending \o buf)
          /\ pending \o buf \in Seq(Nat)
      OBVIOUS
    <3> QED BY <2>1, <3>1 DEF NothingLostYet
  <2> QED BY <2>2 DEF IsPrefix
<1>4. EndInv'
  BY <1>1, <1>3 DEF EndInv, Ended
<1> QED BY <1>1, <1>2, <1>4 DEF LineInv, EndsInSync

LEMMA OverlapStep == OverlapInv /\ [OverlapNext]_<<logVars, overlapVars>> => OverlapInv'
<1> SUFFICES ASSUME OverlapInv, [OverlapNext]_<<logVars, overlapVars>> PROVE OverlapInv'
  OBVIOUS
<1> USE DEF OverlapInv
<1>1. CASE \/ Arguments \/ LevelOption \/ Headers \/ Rates \/ Read
           \/ Correlate \/ Search \/ Report
  BY <1>1, ProgramKept
<1>2. CASE Exit
  BY <1>2, ExitKept DEF Exit
<1>3. CASE Log
  <2>1. phase' = phase /\ input' = input /\ LogStep
    BY <1>3 DEF Log, overlapVars
  <2>2. todo # << >> /\ phase \notin Ended /\ NothingLostYet
    BY <2>1 DEF LogStep, PutCharacter, Synchronise, SetLevel, LogInv, LineInv, EndInv, Ended
  <2>3. LogTypeOK' /\ LineInv' /\ NothingLostYet'
    BY <2>1, <2>2, CharacterKept, SynchroniseKept, LevelKept DEF LogStep, LogInv
  <2> QED BY <2>1, <2>2, <2>3 DEF LogInv, EndInv, Ended
<1>4. CASE Kill
  BY <1>4, KillKept DEF Kill
<1>5. CASE UNCHANGED <<logVars, overlapVars>>
  <2>1. LogTypeOK' /\ LineInv'
    BY <1>5 DEF logVars, LogInv, LogTypeOK, LineInv
  <2>2. EndInv'
    BY <1>5 DEF logVars, overlapVars, LogInv, EndInv, NothingLostYet, Printed
  <2> QED BY <1>5, <2>1, <2>2 DEF LogInv, overlapVars
<1> QED BY <1>1, <1>2, <1>3, <1>4, <1>5 DEF OverlapNext

\* What is queued ends with endl, and what has been put into the stream is in
\* the file or on the way to it, at every step of overlap-analysis.
THEOREM LogInvariance == OverlapSpec => []OverlapInv
BY OverlapStart, OverlapStep, PTL DEF OverlapSpec

\* The log has all text of the levels that are printed, each character once and
\* in order, whatever the arguments, the levels and the sizes of the buffers;
\* of a program that was killed it has the beginning.
THEOREM LogIsComplete == OverlapSpec => []LogComplete
<1>1. OverlapInv => LogComplete
  <2> SUFFICES ASSUME OverlapInv PROVE LogComplete
    OBVIOUS
  <2> USE DEF OverlapInv, LogInv
  <2>1. CASE phase \in {"ended 0", "ended 1"}
    <3>1. buf = << >> /\ pending = << >> /\ disk \in Seq(Nat) /\ NothingLostYet
      BY <2>1 DEF LineInv, EndInv, Ended, LogTypeOK
    <3>2. disk \o << >> \o << >> = disk
      BY <3>1
    <3> QED BY <2>1, <3>1, <3>2 DEF LogComplete, NothingLostYet
  <2>2. CASE phase \notin {"ended 0", "ended 1"}
    BY <2>2 DEF EndInv, LogComplete, Ended
  <2> QED BY <2>1, <2>2
<1> QED BY LogInvariance, <1>1, PTL

-----------------------------------------------------------------------------
(* Sums over an array                                                      *)

\* SumTo is the last of the running sums.
LEMMA SumToIs ==
    ASSUME NEW n \in Nat, NEW f \in [0 .. n - 1 -> Int]
    PROVE  \E v : Running(n, f, v) /\ SumTo(n, f) = v[n]
<1> DEFINE S == 0 .. n - 1
           c == CHOOSE h : IsSum(f, S, h)
           v == [k \in 0..n |-> c[0 .. k - 1]]
<1>1. SumTo(n, f) = c[S]
  BY Zenon DEF SumTo, MapThenFoldSet, One, IsSum
<1>2. IsFiniteSet(S)
  BY FS_Interval
<1>3. IsSum(f, S, c)
  <2> HIDE DEF S
  <2>1. f \in [S -> Int]
    BY DEF S
  <2> QED BY <1>2, <2>1, SumExists
<1> HIDE DEF c
<1>4. \A r \in SUBSET S : c[r] \in Int
  <2> HIDE DEF S
  <2>1. f \in [S -> Int]
    BY DEF S
  <2> QED BY <1>2, <1>3, <2>1, AnySumTyped
<1>10. InAnyOrder(f, S, c)
  <2> HIDE DEF S, v
  <2>1. f \in [S -> Int]
    BY DEF S
  <2> QED BY <1>2, <1>3, <2>1, AnyOrder
<1>5. \A k \in 0..n : 0 .. k - 1 \in SUBSET S
  OBVIOUS
<1>6. c[{}] = 0
  BY <1>3 DEF IsSum
<1>7. ASSUME NEW k \in 0 .. n - 1 PROVE c[0 .. (k + 1) - 1] = c[0 .. k - 1] + f[k]
  <2> DEFINE r == 0 .. (k + 1) - 1
  <2>1. r \in SUBSET S /\ k \in r /\ r \ {k} = 0 .. k - 1 /\ k \in 0..n
    OBVIOUS
  <2>3. c[r] = f[k] + c[0 .. k - 1]
    <3> HIDE DEF S, r
    <3> QED BY <1>10, <2>1 DEF InAnyOrder
  <2>4. f[k] \in Int /\ c[0 .. k - 1] \in Int
    BY <1>4, <1>5, <2>1
  <2> QED BY <2>3, <2>4
<1>8. Running(n, f, v)
  <2>1. v \in [0..n -> Int]
    BY <1>4, <1>5
  <2>2. v[0] = 0
    <3>1. 0 .. 0 - 1 = {}
      OBVIOUS
    <3> QED BY <1>6, <3>1
  <2>3. \A k \in 0 .. n - 1 : f[k] \in Int /\ v[k + 1] = v[k] + f[k]
    BY <1>7
  <2> QED BY <2>1, <2>2, <2>3 DEF Running
<1>9. v[n] = c[S]
  OBVIOUS
<1> HIDE DEF v
<1> QED BY <1>1, <1>8, <1>9

\* f is zero but for its part from h on.
ZeroAround(f, n, h, m) == \A k \in 0 .. n - 1 : k < h \/ h + m <= k => f[k] = 0

\* A sum to which only a part of the array contributes
LEMMA SumInside ==
    ASSUME NEW n \in Nat, NEW h \in Nat, NEW m \in Nat, h + m <= n,
           NEW f \in [0 .. n - 1 -> Int], NEW g \in [0 .. m - 1 -> Int],
           PartFrom(g, f, h, m), ZeroAround(f, n, h, m)
    PROVE  SumTo(n, f) = SumTo(m, g) /\ SumTo(m, g) \in Int
<1>1. PICK v : Running(n, f, v) /\ SumTo(n, f) = v[n]
  BY SumToIs
<1>2. PICK u : Running(m, g, u) /\ SumTo(m, g) = u[m]
  BY SumToIs
<1>3. v[0] = 0 /\ u[m] \in Int
  BY <1>1, <1>2 DEF Running
<1>4. v[h] = 0
  <2>1. 0 \in Nat /\ 0 + h <= n /\ 0 + h = h
    OBVIOUS
  <2>2. ZeroFrom(f, 0, h)
    <3>1. \A k \in 0 .. h - 1 : 0 + k = k /\ k \in 0 .. n - 1 /\ k < h
      OBVIOUS
    <3> QED BY <3>1 DEF ZeroFrom, ZeroAround
  <2>3. v[0 + h] = v[0]
    BY <1>1, <2>1, <2>2, RunningZero
  <2> QED BY <1>3, <2>1, <2>3
<1>5. v[h + m] = v[h] + u[m]
  <2>1. m \in 0..m
    OBVIOUS
  <2> QED BY <1>1, <1>2, <2>1, RunningPart
<1>6. v[n] = v[h + m]
  <2> DEFINE b == h + m
             r == n - b
  <2>1. b \in Nat /\ r \in Nat /\ b + r = n /\ b + r <= n
    OBVIOUS
  <2>2. ZeroFrom(f, b, r)
    <3>1. \A k \in 0 .. r - 1 : b + k \in 0 .. n - 1 /\ h + m <= b + k
      OBVIOUS
    <3> QED BY <3>1 DEF ZeroFrom, ZeroAround
  <2> HIDE DEF b, r
  <2>3. v[b + r] = v[b]
    BY <1>1, <2>1, <2>2, RunningZero
  <2> QED BY <2>1, <2>3 DEF b
<1> QED BY <1>1, <1>2, <1>3, <1>4, <1>5, <1>6

-----------------------------------------------------------------------------
(* The two arrays, when the memory that nobody has written is zero         *)

\* The part of file 1 that is used, and that of file 2
Last1  == [k \in 0 .. PaddingSize - 1 |-> Left(input.file1, ToAdd + k)]
First2 == [k \in 0 .. PaddingSize - 1 |-> Left(input.file2, k)]

WholeFrames == Len(input.file1) % 2 = 0 /\ Len(input.file2) % 2 = 0

Silence == WholeFrames /\ Shorts > 0 /\ a1 = SecondHalf(0) /\ a2 = FirstHalf(0)

LEMMA HalfLengths ==
    ASSUME input \in Inputs, WholeFrames, Shorts > 0
    PROVE  /\ PaddingSize \in Nat \ {0} /\ Shorts = 2 * PaddingSize /\ ToAdd \in Nat
           /\ Len(input.file1) = 2 * (ToAdd + PaddingSize) /\ Frames(input.file1) = ToAdd + PaddingSize
           /\ Len(input.file2) \in Nat /\ 2 * PaddingSize <= Len(input.file2)
           /\ input.file1 \in Seq(Int) /\ input.file2 \in Seq(Int)
<1> DEFINE l == Len(input.file1)
           r == Len(input.file2)
           n == Shorts
<1>1. input.file1 \in Seq(Int) /\ input.file2 \in Seq(Int)
  BY InputsAssumption DEF InputsAssumption
<1>2. l \in Nat /\ r \in Nat
  BY <1>1
<1>3. n = (IF l < r THEN l ELSE r)
  BY DEF Shorts
<1>4. PaddingSize = n \div 2 /\ ToAdd = (l \div 2) - (n \div 2) /\ Frames(input.file1) = l \div 2
  BY DEF PaddingSize, ToAdd, Frames
<1>5. l % 2 = 0 /\ r % 2 = 0 /\ n > 0
  BY DEF WholeFrames
<1> HIDE DEF l, r, n
<1>6. n \in Nat \ {0} /\ n % 2 = 0 /\ n <= l /\ n <= r
  BY <1>2, <1>3, <1>5
<1>7. \A x \in Nat : x % 2 = 0 => x \div 2 \in Nat /\ x = 2 * (x \div 2)
  OBVIOUS
<1>8. l \div 2 \in Nat /\ l = 2 * (l \div 2) /\ n \div 2 \in Nat /\ n = 2 * (n \div 2)
  BY <1>2, <1>5, <1>6, <1>7
<1>9. n \div 2 \in Nat \ {0} /\ (l \div 2) - (n \div 2) \in Nat
  BY <1>6, <1>8
<1>10. (l \div 2) = ((l \div 2) - (n \div 2)) + (n \div 2) /\ 2 * (n \div 2) <= r
  BY <1>6, <1>8
<1> QED BY <1>1, <1>2, <1>4, <1>8, <1>9, <1>10 DEF l, r, n

LEMMA PartsTyped ==
    ASSUME input \in Inputs, WholeFrames, Shorts > 0
    PROVE  /\ Last1 \in [0 .. PaddingSize - 1 -> Int] /\ First2 \in [0 .. PaddingSize - 1 -> Int]
           /\ \A k \in 0 .. PaddingSize - 1 : /\ Last1[k] = Left(input.file1, ToAdd + k)
                                              /\ First2[k] = Left(input.file2, k)
<1> DEFINE H == PaddingSize
           A == ToAdd
<1>1. /\ H \in Nat \ {0} /\ A \in Nat /\ Len(input.file1) = 2 * (A + H)
      /\ Len(input.file2) \in Nat /\ 2 * H <= Len(input.file2)
      /\ input.file1 \in Seq(Int) /\ input.file2 \in Seq(Int)
  BY HalfLengths
<1> HIDE DEF H, A
<1>2. ASSUME NEW k \in 0 .. H - 1
      PROVE  Left(input.file1, A + k) \in Int /\ Left(input.file2, k) \in Int
  <2>1. 2 * (A + k) + 1 \in 1..Len(input.file1) /\ 2 * k + 1 \in 1..Len(input.file2)
    BY <1>1
  <2> QED BY <1>1, <2>1 DEF Left
<1> QED BY <1>2 DEF H, A, Last1, First2

LEMMA HalvesAre ==
    ASSUME input \in Inputs, Silence
    PROVE  /\ a1 \in [0 .. 2 * PaddingSize - 1 -> Int] /\ a2 \in [0 .. 2 * PaddingSize - 1 -> Int]
           /\ \A k \in 0 .. PaddingSize - 1 :
                 /\ a1[k] = 0 /\ a1[PaddingSize + k] = Last1[k]
                 /\ a2[k] = First2[k] /\ a2[PaddingSize + k] = 0
<1> DEFINE H == PaddingSize
           A == ToAdd
           n == Shorts
           l == Len(input.file1)
<1>1. H \in Nat \ {0} /\ n = 2 * H /\ A \in Nat /\ l = 2 * (A + H)
  BY HalfLengths DEF Silence
<1>2. /\ Last1 \in [0 .. H - 1 -> Int] /\ First2 \in [0 .. H - 1 -> Int]
      /\ \A k \in 0 .. H - 1 : /\ Last1[k] = input.file1[2 * (A + k) + 1]
                               /\ First2[k] = input.file2[2 * k + 1]
  BY PartsTyped DEF Silence, Left
<1>3. /\ a1 = [i0 \in 0 .. n - 1 |-> IF 2 * i0 < n THEN 0 ELSE input.file1[l - n + 2 * i0 - n + 1]]
      /\ a2 = [i0 \in 0 .. n - 1 |-> IF 2 * i0 < n THEN input.file2[2 * i0 + 1] ELSE 0]
  BY DEF Silence, SecondHalf, FirstHalf
<1> HIDE DEF H, A, n, l
<1>4. ASSUME NEW k \in 0 .. H - 1
      PROVE  a1[k] = 0 /\ a1[H + k] = Last1[k] /\ a2[k] = First2[k] /\ a2[H + k] = 0
  <2>1. /\ k \in 0 .. n - 1 /\ 2 * k < n /\ H + k \in 0 .. n - 1 /\ ~(2 * (H + k) < n)
        /\ l - n + 2 * (H + k) - n + 1 = 2 * (A + k) + 1
    BY <1>1
  <2> QED BY <1>2, <1>3, <2>1
<1>5. ASSUME NEW k \in 0 .. n - 1 PROVE a1[k] \in Int /\ a2[k] \in Int
  <2>1. CASE k \in 0 .. H - 1
    BY <1>2, <1>4, <2>1
  <2>2. CASE k \notin 0 .. H - 1
    <3>1. k - H \in 0 .. H - 1 /\ H + (k - H) = k
      BY <1>1, <2>2
    <3> QED BY <1>2, <1>4, <3>1
  <2> QED BY <2>1, <2>2
<1>6. a1 = [k \in 0 .. n - 1 |-> a1[k]] /\ a2 = [k \in 0 .. n - 1 |-> a2[k]]
  BY <1>3
<1>7. a1 \in [0 .. n - 1 -> Int] /\ a2 \in [0 .. n - 1 -> Int]
  BY <1>5, <1>6
<1> QED BY <1>1, <1>4, <1>7 DEF H

-----------------------------------------------------------------------------
(* What the search compares                                                *)

\* The products of which Common is the sum, when d of the frames read of file 1
\* are left out
Products(d) == [k \in 0 .. PaddingSize - d - 1 |-> Last1[d + k] * First2[k]]

Squares(f, n) == [k \in 0 .. n - 1 |-> f[k] * f[k]]

LEMMA ProductsTyped ==
    ASSUME input \in Inputs, WholeFrames, Shorts > 0, NEW d \in 0 .. PaddingSize - 1
    PROVE  /\ PaddingSize - d \in Nat /\ Products(d) \in [0 .. PaddingSize - d - 1 -> Int]
           /\ \A k \in 0 .. PaddingSize - d - 1 :
                 /\ Last1[d + k] \in Int /\ First2[k] \in Int
                 /\ Products(d)[k] = Last1[d + k] * First2[k]
<1> DEFINE H == PaddingSize
<1>1. H \in Nat \ {0} /\ d \in Nat /\ d < H
  BY HalfLengths
<1>2. Last1 \in [0 .. H - 1 -> Int] /\ First2 \in [0 .. H - 1 -> Int]
  BY PartsTyped
<1> HIDE DEF H
<1>3. ASSUME NEW k \in 0 .. H - d - 1
      PROVE  Last1[d + k] \in Int /\ First2[k] \in Int /\ Last1[d + k] * First2[k] \in Int
  <2>1. d + k \in 0 .. H - 1 /\ k \in 0 .. H - 1
    BY <1>1
  <2>2. Last1[d + k] \in Int /\ First2[k] \in Int
    BY <1>2, <2>1
  <2>3. \A x, y \in Int : x * y \in Int
    OBVIOUS
  <2> QED BY <2>2, <2>3
<1>4. H - d \in Nat
  BY <1>1
<1> QED BY <1>3, <1>4 DEF Products, H

LEMMA CommonIs ==
    ASSUME input \in Inputs, WholeFrames, Shorts > 0, NEW d \in 0 .. PaddingSize - 1
    PROVE  Common(ToAdd + d) = SumTo(PaddingSize - d, Products(d))
<1> DEFINE H == PaddingSize
           A == ToAdd
           n == Frames(input.file1) - (A + d)
           f == [k \in 0 .. n - 1 |-> Left(input.file1, (A + d) + k) * Left(input.file2, k)]
<1>1. H \in Nat \ {0} /\ A \in Nat /\ Frames(input.file1) = A + H
  BY HalfLengths
<1>2. \A k \in 0 .. H - 1 : Last1[k] = Left(input.file1, A + k) /\ First2[k] = Left(input.file2, k)
  BY PartsTyped
<1>3. Common(A + d) = SumTo(n, f)
  BY DEF Common
<1> HIDE DEF H, A
<1>4. n = H - d
  BY <1>1
<1>5. \A k \in 0 .. H - d - 1 : d + k \in 0 .. H - 1 /\ k \in 0 .. H - 1 /\ (A + d) + k = A + (d + k)
  BY <1>1
<1>6. f = [k \in 0 .. H - d - 1 |-> Last1[d + k] * First2[k]]
  BY <1>2, <1>4, <1>5
<1> HIDE DEF f, n
<1> QED BY <1>3, <1>4, <1>6 DEF Products, H, A

\* The correlation around the circle, from its middle on
LEMMA RotatedIs ==
    ASSUME input \in Inputs, Silence, NEW d \in 0 .. PaddingSize - 1
    PROVE  Rotated(a1, a2)[PaddingSize + d] = Common(ToAdd + d)
<1> DEFINE H == PaddingSize
           n == 2 * H
           m == H - d
           t == H + d
           f == [k \in 0 .. n - 1 |-> a1[(k + t) % n] * a2[k]]
           g == Products(d)
<1>1. H \in Nat \ {0} /\ d \in Nat /\ d < H
  BY HalfLengths DEF Silence
<1>2. /\ a1 \in [0 .. n - 1 -> Int] /\ a2 \in [0 .. n - 1 -> Int]
      /\ \A k \in 0 .. H - 1 : a1[k] = 0 /\ a1[H + k] = Last1[k] /\ a2[k] = First2[k] /\ a2[H + k] = 0
  BY HalvesAre
<1>3. /\ m \in Nat /\ g \in [0 .. m - 1 -> Int]
      /\ \A k \in 0 .. m - 1 : g[k] = Last1[d + k] * First2[k]
  BY ProductsTyped DEF Silence
<1>4. Common(ToAdd + d) = SumTo(m, g)
  BY CommonIs DEF Silence
<1> HIDE DEF H, g
<1>5. n \in Nat \ {0} /\ t \in 0 .. n - 1 /\ 0 \in Nat /\ 0 + m <= n
  BY <1>1
<1>6. Size(a1) = n
  <2>1. DOMAIN a1 = 0 .. n - 1
    BY <1>2
  <2>2. Cardinality(0 .. n - 1) = n
    BY <1>5, FS_Interval
  <2> QED BY <2>1, <2>2 DEF Size
<1>7. Rotated(a1, a2)[t] = SumTo(n, f)
  BY <1>5, <1>6 DEF Rotated
<1>8. ASSUME NEW k \in 0 .. n - 1 PROVE (k + t) % n \in 0 .. n - 1
  <2>1. k + t \in Int
    BY <1>1
  <2> QED BY <1>5, <2>1
<1>9. f \in [0 .. n - 1 -> Int]
  <2>1. ASSUME NEW k \in 0 .. n - 1 PROVE a1[(k + t) % n] * a2[k] \in Int
    <3>1. a1[(k + t) % n] \in Int /\ a2[k] \in Int
      BY <1>2, <1>8
    <3>2. \A x, y \in Int : x * y \in Int
      OBVIOUS
    <3> QED BY <3>1, <3>2
  <2> QED BY <2>1
<1>10. ASSUME NEW k \in 0 .. m - 1 PROVE g[k] = f[0 + k]
  <2>1. k \in 0 .. n - 1 /\ 0 + k = k /\ k + t \in 0 .. n - 1 /\ k + t = H + (d + k)
        /\ d + k \in 0 .. H - 1 /\ k \in 0 .. H - 1
    BY <1>1
  <2>2. (k + t) % n = k + t
    BY <1>5, <2>1
  <2>3. f[k] = a1[H + (d + k)] * a2[k]
    BY <2>1, <2>2
  <2> QED BY <1>2, <1>3, <2>1, <2>3
<1>11. ASSUME NEW k \in 0 .. n - 1, k < 0 \/ 0 + m <= k PROVE f[k] = 0
  <2>1. f[k] = a1[(k + t) % n] * a2[k]
    OBVIOUS
  <2>2. CASE k < H
    <3>1. k + t - n \in 0 .. H - 1
      BY <1>1, <1>11, <2>2
    <3>2. (k + t) % n = k + t - n
      <4> DEFINE e == k + t - n
      <4>1. e \in 0 .. n - 1 /\ k + t = e + n
        BY <1>1, <3>1
      <4>2. \A x \in Nat : x < n => (x + n) % n = x
        <5> HIDE DEF n
        <5> QED BY <1>5
      <4>3. e \in Nat /\ e < n
        BY <1>5, <4>1
      <4>4. (e + n) % n = e
        BY <4>2, <4>3
      <4>5. (k + t) % n = e
        BY <4>1, <4>4
      <4> QED BY <4>5
    <3>3. a1[(k + t) % n] = 0
      BY <1>2, <3>1, <3>2
    <3>4. a2[k] \in Int
      BY <1>2
    <3>5. \A x \in Int : 0 * x = 0
      OBVIOUS
    <3> QED BY <2>1, <3>3, <3>4, <3>5
  <2>3. CASE ~(k < H)
    <3>1. k - H \in 0 .. H - 1 /\ H + (k - H) = k
      BY <1>1, <2>3
    <3>2. a2[k] = 0
      BY <1>2, <3>1
    <3>3. a1[(k + t) % n] \in Int
      BY <1>2, <1>8
    <3>4. \A x \in Int : x * 0 = 0
      OBVIOUS
    <3> QED BY <2>1, <3>2, <3>3, <3>4
  <2> QED BY <2>2, <2>3
<1> HIDE DEF n, m, f
<1>12. SumTo(n, f) = SumTo(m, g)
  <2>1. n \in Nat
    BY <1>5
  <2>2. PartFrom(g, f, 0, m) /\ ZeroAround(f, n, 0, m)
    BY <1>10, <1>11 DEF PartFrom, ZeroAround
  <2>3. /\ 0 \in Nat /\ m \in Nat /\ 0 + m <= n
        /\ f \in [0 .. n - 1 -> Int] /\ g \in [0 .. m - 1 -> Int]
    BY <1>3, <1>5, <1>9
  <2> QED BY <2>1, <2>2, <2>3, SumInside
<1> QED BY <1>4, <1>7, <1>12 DEF H

LEMMA SquaresTyped ==
    ASSUME NEW n, NEW f, \A k \in 0 .. n - 1 : f[k] \in Int
    PROVE  /\ Squares(f, n) \in [0 .. n - 1 -> Int]
           /\ \A k \in 0 .. n - 1 : Squares(f, n)[k] = f[k] * f[k] /\ Squares(f, n)[k] >= 0
<1>1. \A x \in Int : x * x \in Int /\ x * x >= 0
  OBVIOUS
<1>2. \A k \in 0 .. n - 1 : f[k] * f[k] \in Int /\ f[k] * f[k] >= 0
  BY <1>1
<1> QED BY <1>2 DEF Squares

LEMMA EnergySum ==
    ASSUME input \in Inputs, WholeFrames, Shorts > 0
    PROVE  Energy = SumTo(PaddingSize, Squares(First2, PaddingSize))
                    + SumTo(PaddingSize, Squares(Last1, PaddingSize))
<1> DEFINE H == PaddingSize
           p == Squares(Last1, H)
           q == Squares(First2, H)
<1>1. \A k \in 0 .. H - 1 : Last1[k] = Left(input.file1, ToAdd + k) /\ First2[k] = Left(input.file2, k)
  BY PartsTyped
<1>2. Energy = SumTo(H, [k \in 0 .. H - 1 |-> Left(input.file2, k) * Left(input.file2, k)])
               + SumTo(H, [k \in 0 .. H - 1 |->
                               Left(input.file1, ToAdd + k) * Left(input.file1, ToAdd + k)])
  BY DEF Energy
<1> HIDE DEF H
<1>3. /\ q = [k \in 0 .. H - 1 |-> Left(input.file2, k) * Left(input.file2, k)]
      /\ p = [k \in 0 .. H - 1 |-> Left(input.file1, ToAdd + k) * Left(input.file1, ToAdd + k)]
  BY <1>1 DEF Squares
<1>4. Energy = SumTo(H, q) + SumTo(H, p)
  BY <1>2, <1>3
<1> HIDE DEF p, q
<1> QED BY <1>4 DEF H, p, q

\* The squares of both parts are what the program takes from its prefix sums.
LEMMA EnergyIs ==
    ASSUME input \in Inputs, Silence, NEW d \in 0 .. PaddingSize - 1, s = PaddingSize + d
    PROVE  NormFactor = Energy
<1> DEFINE H == PaddingSize
           n == 2 * H
           p == Squares(Last1, H)
           q == Squares(First2, H)
<1>1. H \in Nat \ {0} /\ d \in Nat /\ d < H /\ Shorts = n
  BY HalfLengths DEF Silence
<1>2. /\ a1 \in [0 .. n - 1 -> Int] /\ a2 \in [0 .. n - 1 -> Int]
      /\ \A k \in 0 .. H - 1 : a1[k] = 0 /\ a1[H + k] = Last1[k] /\ a2[k] = First2[k] /\ a2[H + k] = 0
  BY HalvesAre
<1>3. /\ Last1 \in [0 .. H - 1 -> Int] /\ First2 \in [0 .. H - 1 -> Int]
  BY PartsTyped DEF Silence
<1>4. Energy = SumTo(H, q) + SumTo(H, p)
  BY EnergySum DEF Silence
<1>5. s = H + d
  OBVIOUS
<1>6. NormFactor = PrefixSum(a1, n - 1) - (IF n - s - 2 >= 0 THEN PrefixSum(a1, n - s - 2) ELSE 0)
                   + PrefixSum(a2, s)
  BY <1>1 DEF NormFactor
<1> HIDE DEF H
<1>7. /\ p \in [0 .. H - 1 -> Int] /\ q \in [0 .. H - 1 -> Int]
      /\ \A k \in 0 .. H - 1 : p[k] = Last1[k] * Last1[k] /\ q[k] = First2[k] * First2[k]
  <2>1. (\A k \in 0 .. H - 1 : Last1[k] \in Int) /\ (\A k \in 0 .. H - 1 : First2[k] \in Int)
    BY <1>3
  <2> QED BY <2>1, SquaresTyped
<1> HIDE DEF p, q
<1>8. ASSUME NEW a, NEW e \in Nat, e <= n, \A k \in 0 .. n - 1 : a[k] \in Int
      PROVE  /\ PrefixSum(a, e - 1) = SumTo(e, Squares(a, e))
             /\ Squares(a, e) \in [0 .. e - 1 -> Int]
             /\ \A k \in 0 .. e - 1 : Squares(a, e)[k] = a[k] * a[k]
  <2>1. (e - 1) + 1 = e
    OBVIOUS
  <2>2. \A k \in 0 .. e - 1 : a[k] \in Int
    BY <1>1, <1>8
  <2>3. PrefixSum(a, e - 1) = SumTo(e, Squares(a, e))
    BY <2>1 DEF PrefixSum, Squares
  <2> QED BY <2>2, <2>3, SquaresTyped
<1>9. (\A k \in 0 .. n - 1 : a1[k] \in Int) /\ (\A k \in 0 .. n - 1 : a2[k] \in Int)
  BY <1>2
<1>10. 0 * 0 = 0
  OBVIOUS
<1>11. PrefixSum(a1, n - 1) = SumTo(H, p) /\ SumTo(H, p) \in Int
  <2> DEFINE f == Squares(a1, n)
  <2>1. n \in Nat /\ n <= n /\ H + H <= n /\ H \in Nat
    BY <1>1
  <2>2. PrefixSum(a1, n - 1) = SumTo(n, f) /\ f \in [0 .. n - 1 -> Int]
        /\ \A k \in 0 .. n - 1 : f[k] = a1[k] * a1[k]
    BY <1>8, <1>9, <2>1
  <2>3. PartFrom(p, f, H, H)
    <3>1. \A k \in 0 .. H - 1 : H + k \in 0 .. n - 1
      BY <1>1
    <3> QED BY <1>2, <1>7, <2>2, <3>1 DEF PartFrom
  <2>4. ZeroAround(f, n, H, H)
    <3>1. \A k \in 0 .. n - 1 : k < H \/ H + H <= k => k \in 0 .. H - 1
      BY <1>1
    <3> QED BY <1>2, <1>10, <2>2, <3>1 DEF ZeroAround
  <2> HIDE DEF f, n
  <2> QED BY <1>7, <2>1, <2>2, <2>3, <2>4, SumInside
<1>12. PrefixSum(a2, s) = SumTo(H, q) /\ SumTo(H, q) \in Int
  <2> DEFINE e == s + 1
             f == Squares(a2, e)
  <2>1. e \in Nat /\ e <= n /\ 0 + H <= e /\ H \in Nat /\ 0 \in Nat /\ e - 1 = s
    BY <1>1, <1>5
  <2>2. PrefixSum(a2, e - 1) = SumTo(e, f) /\ f \in [0 .. e - 1 -> Int]
        /\ \A k \in 0 .. e - 1 : f[k] = a2[k] * a2[k]
    <3> HIDE DEF e
    <3> QED BY <1>8, <1>9, <2>1
  <2>3. PartFrom(q, f, 0, H)
    <3>1. \A k \in 0 .. H - 1 : k \in 0 .. e - 1 /\ 0 + k = k
      BY <1>1, <1>5
    <3> QED BY <1>2, <1>7, <2>2, <3>1 DEF PartFrom
  <2>4. ZeroAround(f, e, 0, H)
    <3>1. \A k \in 0 .. e - 1 : k < 0 \/ 0 + H <= k => k - H \in 0 .. H - 1 /\ H + (k - H) = k
      BY <1>1, <1>5
    <3> QED BY <1>2, <1>10, <2>2, <3>1 DEF ZeroAround
  <2> HIDE DEF f, e
  <2> QED BY <1>7, <2>1, <2>2, <2>3, <2>4, SumInside
<1>13. n - s - 2 >= 0 => PrefixSum(a1, n - s - 2) = 0
  <2> DEFINE e == n - s - 1
             f == Squares(a1, e)
             g == [k \in 0 .. 0 - 1 |-> 0]
  <2>1. SUFFICES ASSUME n - s - 2 >= 0 PROVE PrefixSum(a1, n - s - 2) = 0
    OBVIOUS
  <2>2. e \in Nat /\ e <= n /\ 0 + 0 <= e /\ 0 \in Nat /\ e - 1 = n - s - 2 /\ e <= H
    BY <1>1, <1>5, <2>1
  <2>3. PrefixSum(a1, e - 1) = SumTo(e, f) /\ f \in [0 .. e - 1 -> Int]
        /\ \A k \in 0 .. e - 1 : f[k] = a1[k] * a1[k]
    <3> HIDE DEF e
    <3> QED BY <1>8, <1>9, <2>2
  <2>4. PartFrom(g, f, 0, 0) /\ g \in [0 .. 0 - 1 -> Int]
    BY DEF PartFrom
  <2>5. ZeroAround(f, e, 0, 0)
    <3>1. \A k \in 0 .. e - 1 : k \in 0 .. H - 1
      BY <1>1, <2>2
    <3> QED BY <1>2, <1>10, <2>3, <3>1 DEF ZeroAround
  <2> HIDE DEF f, e, g
  <2>6. SumTo(e, f) = SumTo(0, g)
    BY <2>2, <2>3, <2>4, <2>5, SumInside
  <2>7. SumTo(0, g) = 0
    <3>1. PICK v : Running(0, g, v) /\ SumTo(0, g) = v[0]
      BY <2>2, <2>4, SumToIs
    <3> QED BY <3>1 DEF Running
  <2> QED BY <2>2, <2>3, <2>6, <2>7
<1>14. NormFactor = SumTo(H, p) + SumTo(H, q)
  <2>1. \A x, y \in Int : x - 0 + y = x + y
    OBVIOUS
  <2>2. (IF n - s - 2 >= 0 THEN PrefixSum(a1, n - s - 2) ELSE 0) = 0
    BY <1>13
  <2> HIDE DEF n
  <2> QED BY <1>6, <1>11, <1>12, <2>1, <2>2
<1>15. SumTo(H, p) + SumTo(H, q) = SumTo(H, q) + SumTo(H, p)
  BY <1>11, <1>12
<1> QED BY <1>4, <1>14, <1>15 DEF H, p, q

\* No quotient exceeds 1.
LEMMA CommonBounded ==
    ASSUME input \in Inputs, WholeFrames, Shorts > 0, NEW d \in 0 .. PaddingSize - 1
    PROVE  /\ Common(ToAdd + d) \in Int /\ Energy \in Nat
           /\ 2 * Common(ToAdd + d) <= Energy /\ -Energy <= 2 * Common(ToAdd + d)
<1> DEFINE H == PaddingSize
           m == H - d
           g == Products(d)
           p == Squares(Last1, H)
           q == Squares(First2, H)
           p1 == [k \in 0 .. m - 1 |-> Last1[d + k] * Last1[d + k]]
           q1 == Squares(First2, m)
<1>1. H \in Nat \ {0} /\ d \in Nat /\ m \in Nat /\ d + m <= H /\ d + m = H /\ 0 + m <= H /\ 0 + d <= H
  <2>1. H \in Nat \ {0} /\ d \in 0 .. H - 1
    BY HalfLengths
  <2> HIDE DEF H
  <2> QED BY <2>1
<1>2. (\A k \in 0 .. H - 1 : Last1[k] \in Int) /\ (\A k \in 0 .. H - 1 : First2[k] \in Int)
  BY PartsTyped
<1>3. /\ m \in Nat /\ g \in [0 .. m - 1 -> Int]
      /\ \A k \in 0 .. m - 1 : g[k] = Last1[d + k] * First2[k]
  BY ProductsTyped
<1>4. Common(ToAdd + d) = SumTo(m, g)
  BY CommonIs
<1>5. Energy = SumTo(H, q) + SumTo(H, p)
  BY EnergySum
<1> HIDE DEF H, g
<1>6. \A k \in 0 .. m - 1 : d + k \in 0 .. H - 1 /\ k \in 0 .. H - 1
  BY <1>1
<1>7. /\ p \in [0 .. H - 1 -> Int] /\ q \in [0 .. H - 1 -> Int]
      /\ \A k \in 0 .. H - 1 : p[k] = Last1[k] * Last1[k] /\ q[k] = First2[k] * First2[k]
      /\ \A k \in 0 .. H - 1 : p[k] >= 0 /\ q[k] >= 0
  BY <1>2, SquaresTyped
<1>8. q1 \in [0 .. m - 1 -> Int] /\ \A k \in 0 .. m - 1 : q1[k] = First2[k] * First2[k]
  <2>1. \A k \in 0 .. m - 1 : First2[k] \in Int
    BY <1>2, <1>6
  <2> QED BY <2>1, SquaresTyped
<1>9. p1 \in [0 .. m - 1 -> Int] /\ \A k \in 0 .. m - 1 : p1[k] = p[d + k]
  <2>1. \A k \in 0 .. m - 1 : p[d + k] = Last1[d + k] * Last1[d + k] /\ p[d + k] \in Int
    <3> HIDE DEF p
    <3> QED BY <1>6, <1>7
  <2> HIDE DEF p
  <2> QED BY <2>1
<1> HIDE DEF p, q, q1
<1>10. PartFrom(p1, p, d, m) /\ PartFrom(q1, q, 0, m)
  <2>1. \A k \in 0 .. m - 1 : 0 + k = k
    OBVIOUS
  <2> QED BY <1>6, <1>7, <1>8, <1>9, <2>1 DEF PartFrom
<1>11. \A k \in 0 .. m - 1 : /\ 2 * g[k] <= p1[k] + q1[k] /\ -(p1[k] + q1[k]) <= 2 * g[k]
  <2> SUFFICES ASSUME NEW k \in 0 .. m - 1
               PROVE  2 * g[k] <= p1[k] + q1[k] /\ -(p1[k] + q1[k]) <= 2 * g[k]
    OBVIOUS
  <2>1. g[k] = Last1[d + k] * First2[k] /\ q1[k] = First2[k] * First2[k]
        /\ p1[k] = Last1[d + k] * Last1[d + k]
    BY <1>3, <1>8
  <2>2. Last1[d + k] \in Int /\ First2[k] \in Int
    BY <1>2, <1>6
  <2> HIDE DEF p1
  <2> QED BY <2>1, <2>2, TwiceProduct
<1> HIDE DEF m, p1
<1>12. PICK v : Running(m, g, v) /\ SumTo(m, g) = v[m]
  BY <1>3, SumToIs
<1>13. PICK x : Running(m, p1, x) /\ SumTo(m, p1) = x[m]
  BY <1>1, <1>9, SumToIs
<1>14. PICK y : Running(m, q1, y) /\ SumTo(m, q1) = y[m]
  BY <1>1, <1>8, SumToIs
<1>15. PICK x1 : Running(H, p, x1) /\ SumTo(H, p) = x1[H]
  <2>1. H \in Nat
    BY <1>1
  <2> QED BY <1>7, <2>1, SumToIs
<1>16. PICK y1 : Running(H, q, y1) /\ SumTo(H, q) = y1[H]
  <2>1. H \in Nat
    BY <1>1
  <2> QED BY <1>7, <2>1, SumToIs
<1>17. /\ v[m] \in Int /\ x[m] \in Int /\ y[m] \in Int
       /\ 2 * v[m] <= x[m] + y[m] /\ -(x[m] + y[m]) <= 2 * v[m]
  BY <1>1, <1>11, <1>12, <1>13, <1>14, RunningBetween
<1>18. H \in Nat /\ 0 \in Nat /\ m \in 0..m /\ 0 + d = d /\ 0 + m = m
  BY <1>1
<1>19. x[m] <= x1[H] /\ x1[H] \in Int
  <2>1. \A k \in 0..m : x1[d + k] = x1[d] + x[k]
    BY <1>1, <1>10, <1>13, <1>15, <1>18, RunningPart
  <2>2. \A k \in 0 .. d - 1 : p[0 + k] >= 0
    <3>1. \A k \in 0 .. d - 1 : 0 + k = k /\ k \in 0 .. H - 1
      BY <1>1
    <3> QED BY <1>7, <3>1
  <2>3. x1[0] <= x1[0 + d] /\ x1[0] \in Int /\ x1[0 + d] \in Int
    BY <1>1, <1>15, <1>18, <2>2, RunningUp
  <2>4. x1[0] = 0
    BY <1>15 DEF Running
  <2>5. x1[H] = x1[d] + x[m]
    BY <1>1, <1>18, <2>1
  <2>6. x1[d] \in Int /\ 0 <= x1[d]
    BY <1>18, <2>3, <2>4
  <2> QED BY <1>17, <2>5, <2>6
<1>20. y[m] <= y1[H] /\ y1[H] \in Int
  <2>1. \A k \in 0..m : y1[0 + k] = y1[0] + y[k]
    BY <1>1, <1>10, <1>14, <1>16, <1>18, RunningPart
  <2>2. y1[0] = 0
    BY <1>16 DEF Running
  <2>3. y1[m] = y[m]
    <3>1. y1[m] = 0 + y[m]
      BY <1>18, <2>1, <2>2
    <3> QED BY <1>17, <3>1
  <2>4. \A k \in 0 .. d - 1 : q[m + k] >= 0
    <3>1. \A k \in 0 .. d - 1 : m + k \in 0 .. H - 1
      BY <1>1
    <3> QED BY <1>7, <3>1
  <2>5. m + d <= H /\ m + d = H
    BY <1>1
  <2>6. y1[m] <= y1[m + d] /\ y1[m] \in Int /\ y1[m + d] \in Int
    BY <1>1, <1>16, <1>18, <2>4, <2>5, RunningUp
  <2> QED BY <2>3, <2>5, <2>6
<1>21. Energy = y1[H] + x1[H]
  BY <1>5, <1>15, <1>16
<1>22. Common(ToAdd + d) = v[m]
  BY <1>4, <1>12
<1>23. 0 <= x[m] + y[m]
  BY <1>17
<1>24. \A a, b, e, f, g1 \in Int : a <= f /\ b <= g1 /\ 2 * e <= a + b /\ -(a + b) <= 2 * e =>
          2 * e <= g1 + f /\ -(g1 + f) <= 2 * e
  OBVIOUS
<1>25. 2 * v[m] <= y1[H] + x1[H] /\ -(y1[H] + x1[H]) <= 2 * v[m]
  BY <1>17, <1>19, <1>20, <1>24
<1>26. y1[H] + x1[H] \in Nat
  BY <1>17, <1>19, <1>20, <1>23
<1> QED BY <1>17, <1>21, <1>22, <1>25, <1>26

-----------------------------------------------------------------------------
(* The search, as far as it has come                                       *)

\* The reported place is the best of the first d that are looked at.
Best(d, value, number, at) ==
    \/ /\ value = <<0, 1>>
       /\ \A e \in 0 .. d - 1 : Common(ToAdd + e) = 0
    \/ /\ number \in 0 .. d - 1 /\ at = ToAdd + number
       /\ Common(at) # 0 /\ value = <<2 * Abs(Common(at)), Energy>>
       /\ \A e \in 0 .. d - 1 : Abs(Common(ToAdd + e)) <= Abs(Common(at))

\* Nothing is looked at before the correlation.
EarlyInv ==
    phase \in {"arguments", "level", "headers", "rates", "read", "correlate"} => s = 0 /\ max = <<0, 1>>

ArraysInv ==
    phase \in {"correlate", "search"} \/ s > 0 =>
        (\E pad \in Pads : a1 = SecondHalf(pad)) /\ (\E pad \in Pads : a2 = FirstHalf(pad))

\* The places of the second half are looked at one after the other, to the end.
PlaceOfSearch ==
    /\ s \in Nat
    /\ phase = "search" => PaddingSize <= s /\ s <= Shorts
    /\ phase \in {"exit 0", "ended 0"} /\ s > 0 => s = Shorts

CrossInv == phase = "search" /\ PaddingSize < s => cross = Rotated(a1, a2)

BestInv == phase \in {"search", "exit 0", "ended 0"} /\ s > 0 /\ Silence => Best(s - PaddingSize, max, found, second)

SearchInv ==
    /\ input \in Inputs
    /\ EarlyInv /\ ArraysInv /\ PlaceOfSearch /\ CrossInv /\ BestInv

\* With zeros at both ends, all that was not written is zero.
LEMMA SilenceIs ==
    ASSUME input \in Inputs, ArraysInv, s > 0, s \in Nat, WholeFrames, Shorts > 0,
           a1[0] = 0, a2[Shorts - 1] = 0
    PROVE  Silence
<1> DEFINE n == Shorts
<1>1. PICK x \in Pads : a1 = SecondHalf(x)
  BY DEF ArraysInv
<1>2. PICK y \in Pads : a2 = FirstHalf(y)
  BY DEF ArraysInv
<1>3. n = 2 * PaddingSize /\ PaddingSize \in Nat \ {0}
  BY HalfLengths
<1>4. 0 \in 0 .. n - 1 /\ n - 1 \in 0 .. n - 1 /\ 2 * 0 < n /\ ~(2 * (n - 1) < n)
  BY <1>3
<1>5. a1[0] = x
  <2>1. SecondHalf(x)[0] = x
    BY <1>4 DEF SecondHalf
  <2> QED BY <1>1, <2>1
<1>6. a2[n - 1] = y
  <2>1. FirstHalf(y)[n - 1] = y
    BY <1>4 DEF FirstHalf
  <2> QED BY <1>2, <2>1
<1> QED BY <1>1, <1>2, <1>5, <1>6 DEF Silence

\* One place more
LEMMA PlaceLooked ==
    ASSUME input \in Inputs, Silence, NEW d \in 0 .. PaddingSize - 1, s = PaddingSize + d,
           cross = Rotated(a1, a2), Best(d, max, found, second), Search
    PROVE  Best(d + 1, max', found', second')
<1> DEFINE C(e) == Common(ToAdd + e)
           new == C(d)
           E == Energy
           A == ToAdd
<1>1. PaddingSize \in Nat \ {0} /\ d \in Nat /\ A \in Nat
  BY HalfLengths DEF Silence
<1>2. new \in Int /\ E \in Nat /\ 2 * new <= E /\ -E <= 2 * new
  BY CommonBounded DEF Silence
<1>3. cross[s] = new
  BY RotatedIs
<1>4. NormFactor = E
  BY EnergyIs
<1>5. \A e \in 0 .. d : C(e) \in Int /\ Abs(C(e)) \in Nat /\ (Abs(C(e)) = 0 <=> C(e) = 0)
  <2> SUFFICES ASSUME NEW e \in 0 .. d
               PROVE  C(e) \in Int /\ Abs(C(e)) \in Nat /\ (Abs(C(e)) = 0 <=> C(e) = 0)
    OBVIOUS
  <2>1. e \in 0 .. PaddingSize - 1
    BY <1>1
  <2>2. C(e) \in Int
    BY <2>1, CommonBounded DEF Silence
  <2> HIDE DEF C
  <2> QED BY <2>2 DEF Abs
<1>6. Shorts = 2 * PaddingSize
  BY HalfLengths DEF Silence
<1>7. s - PaddingSize = d /\ Second = A + d
  BY <1>1, <1>6 DEF Second
<1>8. IF E > 0 /\ 2 * Abs(new) * max[2] > max[1] * E /\ 2 * Abs(new) <= E
      THEN max' = <<2 * Abs(new), E>> /\ found' = d /\ second' = A + d
      ELSE UNCHANGED <<max, found, second>>
  BY <1>3, <1>4, <1>7 DEF Search, Better
<1>9. 2 * Abs(new) <= E /\ (E = 0 => new = 0)
  <2> HIDE DEF new, E
  <2> QED BY <1>2 DEF Abs
<1>10. /\ d \in 0 .. d /\ \A e \in 0 .. (d + 1) - 1 : e \in 0 .. d - 1 \/ e = d
       /\ d \in 0 .. (d + 1) - 1 /\ \A e \in 0 .. d - 1 : e \in 0 .. (d + 1) - 1 /\ e \in 0 .. d
  BY <1>1
<1>11. \/ /\ max = <<0, 1>>
          /\ \A e \in 0 .. d - 1 : C(e) = 0
       \/ /\ found \in 0 .. d - 1 /\ second = A + found
          /\ C(found) # 0 /\ max = <<2 * Abs(C(found)), E>>
          /\ \A e \in 0 .. d - 1 : Abs(C(e)) <= Abs(C(found))
  BY DEF Best
<1>12. SUFFICES \/ /\ max' = <<0, 1>>
                   /\ \A e \in 0 .. (d + 1) - 1 : C(e) = 0
                \/ /\ found' \in 0 .. (d + 1) - 1 /\ second' = A + found'
                   /\ C(found') # 0 /\ max' = <<2 * Abs(C(found')), E>>
                   /\ \A e \in 0 .. (d + 1) - 1 : Abs(C(e)) <= Abs(C(found'))
  BY DEF Best
<1> DEFINE K(e) == Abs(C(e))
<1>13. \A x, y \in Nat : /\ E > 0 => (2 * x * E > 2 * y * E <=> x > y)
                          /\ 2 * x * 1 > 0 * E <=> x # 0
  <2> HIDE DEF E
  <2> QED BY <1>2
<1>14. E \in Nat /\ K(d) \in Nat /\ \A e \in 0 .. d - 1 : K(e) \in Nat
  BY <1>2, <1>5, <1>10
<1>15. CASE max = <<0, 1>> /\ \A e \in 0 .. d - 1 : C(e) = 0
  <2>1. CASE E > 0 /\ K(d) # 0
    <3>1. 2 * Abs(new) * max[2] > max[1] * E
      <4>1. max[1] = 0 /\ max[2] = 1
        BY <1>15
      <4> HIDE DEF E, new, C
      <4> QED BY <1>13, <1>14, <2>1, <4>1 DEF new
    <3>2. max' = <<2 * Abs(C(d)), E>> /\ found' = d /\ second' = A + d
      BY <1>8, <1>9, <2>1, <3>1
    <3>3. C(d) # 0
      BY <1>5, <1>10, <2>1
    <3>4. \A e \in 0 .. d - 1 : Abs(C(e)) = 0
      BY <1>5, <1>10, <1>15
    <3>5. \A e \in 0 .. (d + 1) - 1 : Abs(C(e)) <= Abs(C(d))
      <4> HIDE DEF C
      <4> QED BY <1>10, <1>14, <3>4
    <3> HIDE DEF C, E, A
    <3> QED BY <1>10, <3>2, <3>3, <3>5
  <2>2. CASE ~(E > 0 /\ K(d) # 0)
    <3>1. ~(E > 0 /\ 2 * Abs(new) * max[2] > max[1] * E)
      <4>1. max[1] = 0 /\ max[2] = 1
        BY <1>15
      <4> HIDE DEF E, new, C
      <4> QED BY <1>13, <1>14, <2>2, <4>1 DEF new
    <3>2. max' = <<0, 1>>
      BY <1>8, <1>15, <3>1
    <3>3. C(d) = 0
      <4>1. E = 0 \/ K(d) = 0
        <5> HIDE DEF E, K
        <5> QED BY <1>14, <2>2
      <4> QED BY <1>5, <1>9, <1>10, <4>1
    <3> HIDE DEF C, E, A
    <3> QED BY <1>10, <1>15, <3>2, <3>3
  <2> QED BY <2>1, <2>2
<1>16. CASE /\ found \in 0 .. d - 1 /\ second = A + found
            /\ C(found) # 0 /\ max = <<2 * Abs(C(found)), E>>
            /\ \A e \in 0 .. d - 1 : Abs(C(e)) <= Abs(C(found))
  <2>1. K(found) \in Nat /\ max[1] = 2 * K(found) /\ max[2] = E
    BY <1>14, <1>16
  <2>2. CASE E > 0 /\ K(d) > K(found)
    <3>1. 2 * Abs(new) * max[2] > max[1] * E
      <4> HIDE DEF E, new, C
      <4> QED BY <1>13, <1>14, <2>1, <2>2 DEF new
    <3>2. max' = <<2 * Abs(C(d)), E>> /\ found' = d /\ second' = A + d
      BY <1>8, <1>9, <2>2, <3>1
    <3>3. K(d) # 0
      <4> HIDE DEF K
      <4> QED BY <1>14, <2>1, <2>2
    <3>4. C(d) # 0
      BY <1>5, <1>10, <3>3
    <3>5. \A e \in 0 .. (d + 1) - 1 : K(e) <= K(d)
      <4>1. \A e \in 0 .. d - 1 : K(e) <= K(found)
        BY <1>16
      <4> HIDE DEF K
      <4> QED BY <1>10, <1>14, <2>1, <2>2, <4>1
    <3> HIDE DEF C, E, A
    <3> QED BY <1>10, <3>2, <3>4, <3>5
  <2>3. CASE ~(E > 0 /\ K(d) > K(found))
    <3>1. ~(E > 0 /\ 2 * Abs(new) * max[2] > max[1] * E)
      <4> HIDE DEF E, new, C
      <4> QED BY <1>13, <1>14, <2>1, <2>3 DEF new
    <3>2. UNCHANGED <<max, found, second>>
      BY <1>8, <3>1
    <3>3. K(d) <= K(found)
      <4>1. E = 0 => K(d) = 0
        BY <1>5, <1>9, <1>10
      <4> HIDE DEF K, E
      <4> QED BY <1>14, <2>1, <2>3, <4>1
    <3>4. \A e \in 0 .. (d + 1) - 1 : K(e) <= K(found)
      <4>1. \A e \in 0 .. d - 1 : K(e) <= K(found)
        BY <1>16
      <4> HIDE DEF K
      <4> QED BY <1>10, <3>3, <4>1
    <3> HIDE DEF C, E, A
    <3> QED BY <1>10, <1>16, <3>2, <3>4
  <2> QED BY <2>2, <2>3
<1> QED BY <1>11, <1>15, <1>16

LEMMA Halved == ASSUME input \in Inputs PROVE Shorts \in Nat /\ PaddingSize \in Nat /\ PaddingSize <= Shorts
<1>1. input.file1 \in Seq(Int) /\ input.file2 \in Seq(Int)
  BY InputsAssumption DEF InputsAssumption
<1>2. Len(input.file1) \in Nat /\ Len(input.file2) \in Nat
  BY <1>1
<1>3. Shorts \in Nat
  BY <1>2 DEF Shorts
<1>4. \A x \in Nat : x \div 2 \in Nat /\ x \div 2 <= x
  OBVIOUS
<1> QED BY <1>3, <1>4 DEF PaddingSize

\* The files are the same all the time.
LEMMA SameInput ==
    ASSUME input' = input
    PROVE  /\ Shorts' = Shorts /\ PaddingSize' = PaddingSize /\ (WholeFrames' <=> WholeFrames)
           /\ \A pad : SecondHalf(pad)' = SecondHalf(pad) /\ FirstHalf(pad)' = FirstHalf(pad)
<1>1. Shorts' = Shorts
  BY DEF Shorts
<1>2. \A pad : SecondHalf(pad)' = SecondHalf(pad) /\ FirstHalf(pad)' = FirstHalf(pad)
  BY <1>1 DEF SecondHalf, FirstHalf
<1> QED BY <1>1, <1>2 DEF PaddingSize, WholeFrames

LEMMA BestKept ==
    ASSUME input' = input, Best(s' - PaddingSize, max', found', second')
    PROVE  Best(s - PaddingSize, max, found, second)'
<1>1. Shorts' = Shorts /\ PaddingSize' = PaddingSize
  BY SameInput
<1>2. ToAdd' = ToAdd
  BY <1>1 DEF ToAdd
<1>3. \A p : Common(p)' = Common(p)
  BY DEF Common, Frames, Left
<1>4. Energy' = Energy
  BY <1>1, <1>2 DEF Energy, Left
<1>5. Common(second)' = Common(second')
  BY DEF Common, Frames, Left
<1> QED BY <1>1, <1>2, <1>3, <1>4, <1>5 DEF Best

LEMMA SearchStart == OverlapInit => SearchInv
<1> SUFFICES ASSUME OverlapInit PROVE SearchInv
  OBVIOUS
<1>1. input \in Inputs /\ phase = "arguments" /\ s = 0 /\ max = <<0, 1>>
  BY DEF OverlapInit
<1> QED BY <1>1 DEF SearchInv, EarlyInv, ArraysInv, PlaceOfSearch, CrossInv, BestInv

\* No part of the search is entered.
Apart ==
    \/ phase' = phase
    \/ phase' \in {"level", "headers", "rates", "read"} /\ s = 0 /\ max = <<0, 1>>
    \/ phase' = "exit 0" /\ s = 0
    \/ phase' = "exit 0" /\ phase = "search" /\ s >= Shorts
    \/ phase' = "ended 0" /\ phase = "exit 0"
    \/ phase' \in {"exit 1", "ended 1", "killed"}

LEMMA SearchIdle ==
    ASSUME SearchInv, UNCHANGED <<input, a1, a2, cross, s, max, found, second>>,
           Apart
    PROVE  SearchInv'
<1>1. input' = input /\ a1' = a1 /\ a2' = a2 /\ cross' = cross /\ s' = s
      /\ max' = max /\ found' = found /\ second' = second
  OBVIOUS
<1>2. Shorts' = Shorts /\ PaddingSize' = PaddingSize /\ (WholeFrames' <=> WholeFrames)
      /\ \A pad : SecondHalf(pad)' = SecondHalf(pad) /\ FirstHalf(pad)' = FirstHalf(pad)
  BY <1>1, SameInput
<1>3. input' \in Inputs
  BY <1>1 DEF SearchInv
<1>4. s \in Nat /\ Shorts \in Nat /\ PaddingSize \in Nat
  BY Halved DEF SearchInv, PlaceOfSearch
<1>10. phase' \in {"search", "exit 0", "ended 0"} =>
          \/ phase' = phase
          \/ phase' = "exit 0" /\ s = 0
          \/ phase' = "exit 0" /\ phase = "search" /\ s >= Shorts
          \/ phase' = "ended 0" /\ phase = "exit 0"
  BY DEF Apart
<1>11. phase' \in {"correlate", "search"} => phase' = phase
  BY DEF Apart
<1>12. (s > 0 => s # 0) /\ (s >= Shorts /\ s <= Shorts => s = Shorts)
  BY <1>4
<1>5. EarlyInv'
  BY <1>1 DEF Apart, SearchInv, EarlyInv
<1>6. ArraysInv'
  BY <1>1, <1>2, <1>4, <1>11 DEF SearchInv, ArraysInv
<1>7. PlaceOfSearch'
  <2>1. phase' = "search" => PaddingSize <= s /\ s <= Shorts
    BY <1>11 DEF SearchInv, PlaceOfSearch
  <2>2. phase' \in {"exit 0", "ended 0"} /\ s > 0 => s = Shorts
    BY <1>10, <1>11, <1>12, Zenon DEF SearchInv, PlaceOfSearch
  <2> QED BY <1>1, <1>2, <1>4, <2>1, <2>2 DEF PlaceOfSearch
<1>8. CrossInv'
  <2>1. Rotated(a1, a2)' = Rotated(a1, a2)
    BY <1>1
  <2> QED BY <1>1, <1>2, <1>11, <2>1 DEF SearchInv, CrossInv
<1>9. BestInv'
  <2> SUFFICES ASSUME phase' \in {"search", "exit 0", "ended 0"}, s' > 0, Silence'
               PROVE  Best(s - PaddingSize, max, found, second)'
    BY DEF BestInv
  <2>1. Silence
    BY <1>1, <1>2 DEF Silence
  <2>2. phase \in {"search", "exit 0", "ended 0"} /\ s > 0
    BY <1>1, <1>10, <1>12, Zenon
  <2>3. Best(s - PaddingSize, max, found, second)
    BY <2>1, <2>2 DEF SearchInv, BestInv
  <2>4. Best(s' - PaddingSize, max', found', second')
    BY <1>1, <2>3
  <2> QED BY <1>1, <2>4, BestKept
<1> QED BY <1>3, <1>5, <1>6, <1>7, <1>8, <1>9 DEF SearchInv

\* One place more, in the program
LEMMA SearchAction ==
    ASSUME SearchInv, TransformsAgree, Search
    PROVE  SearchInv'
<1>1. input' = input /\ a1' = a1 /\ a2' = a2 /\ cross' = cross /\ s' = s + 1 /\ s < Shorts
      /\ phase = "search" /\ phase' = "search" /\ todo = << >>
  BY DEF Search, Step
<1>2. Shorts' = Shorts /\ PaddingSize' = PaddingSize /\ (WholeFrames' <=> WholeFrames)
      /\ \A pad : SecondHalf(pad)' = SecondHalf(pad) /\ FirstHalf(pad)' = FirstHalf(pad)
  BY <1>1, SameInput
<1>3. input \in Inputs /\ s \in Nat /\ Shorts \in Nat /\ PaddingSize \in Nat /\ PaddingSize <= s
  BY <1>1, Halved DEF SearchInv, PlaceOfSearch
<1>4. cross = Rotated(a1, a2)
  <2>1. CASE s = PaddingSize
    BY <1>1, <2>1 DEF TransformsAgree
  <2>2. CASE PaddingSize < s
    BY <1>1, <2>2 DEF SearchInv, CrossInv
  <2> QED BY <1>3, <2>1, <2>2
<1>5. EarlyInv'
  BY <1>1 DEF EarlyInv
<1>6. ArraysInv'
  <2> SUFFICES (\E pad \in Pads : a1' = SecondHalf(pad)') /\ (\E pad \in Pads : a2' = FirstHalf(pad)')
    BY DEF ArraysInv
  <2>1. (\E pad \in Pads : a1 = SecondHalf(pad)) /\ (\E pad \in Pads : a2 = FirstHalf(pad))
    BY <1>1 DEF SearchInv, ArraysInv
  <2> QED BY <1>1, <1>2, <2>1
<1>7. PlaceOfSearch'
  BY <1>1, <1>2, <1>3 DEF PlaceOfSearch
<1>8. CrossInv'
  <2>1. Rotated(a1, a2)' = Rotated(a1, a2)
    BY <1>1
  <2> QED BY <1>1, <1>4, <2>1 DEF CrossInv
<1>9. BestInv'
  <2> SUFFICES ASSUME Silence' PROVE Best(s - PaddingSize, max, found, second)'
    BY DEF BestInv
  <2>1. Silence
    BY <1>1, <1>2 DEF Silence
  <2> DEFINE d == s - PaddingSize
  <2>2. PaddingSize \in Nat \ {0} /\ Shorts = 2 * PaddingSize
    BY <1>3, <2>1, HalfLengths DEF Silence
  <2>3. s > 0 /\ d \in 0 .. PaddingSize - 1 /\ s = PaddingSize + d /\ (s + 1) - PaddingSize = d + 1
    BY <1>1, <1>3, <2>2
  <2>4. Best(d, max, found, second)
    BY <1>1, <2>1, <2>3 DEF SearchInv, BestInv
  <2> HIDE DEF d
  <2>5. Best(d + 1, max', found', second')
    BY <1>3, <1>4, <2>1, <2>3, <2>4, PlaceLooked
  <2>6. Best(s' - PaddingSize, max', found', second')
    BY <1>1, <2>3, <2>5
  <2> QED BY <1>1, <2>6, BestKept
<1> QED BY <1>1, <1>3, <1>5, <1>6, <1>7, <1>8, <1>9 DEF SearchInv

\* Both arrays are there when they are correlated.
LEMMA CorrelateAction ==
    ASSUME SearchInv, Correlate
    PROVE  SearchInv'
<1>1. input' = input /\ a1' = a1 /\ a2' = a2 /\ max' = max /\ found' = found /\ second' = second
      /\ s' = PaddingSize /\ phase = "correlate" /\ phase' = "search"
  BY DEF Correlate, Step
<1>2. Shorts' = Shorts /\ PaddingSize' = PaddingSize
      /\ \A pad : SecondHalf(pad)' = SecondHalf(pad) /\ FirstHalf(pad)' = FirstHalf(pad)
  BY <1>1, SameInput
<1>3. input \in Inputs /\ Shorts \in Nat /\ PaddingSize \in Nat /\ PaddingSize <= Shorts
  BY Halved DEF SearchInv
<1>4. ~(PaddingSize < PaddingSize) /\ PaddingSize <= PaddingSize /\ PaddingSize - PaddingSize = 0
  BY <1>3
<1>5. max = <<0, 1>>
  BY <1>1 DEF SearchInv, EarlyInv
<1>6. EarlyInv'
  BY <1>1 DEF EarlyInv
<1>7. ArraysInv'
  <2>1. (\E pad \in Pads : a1 = SecondHalf(pad)) /\ (\E pad \in Pads : a2 = FirstHalf(pad))
    BY <1>1 DEF SearchInv, ArraysInv
  <2> QED BY <1>1, <1>2, <2>1 DEF ArraysInv
<1>8. PlaceOfSearch'
  BY <1>1, <1>2, <1>3, <1>4 DEF PlaceOfSearch
<1>9. CrossInv'
  BY <1>1, <1>2, <1>4, Zenon DEF CrossInv
<1>10. BestInv'
  <2>1. 0 .. 0 - 1 = {}
    OBVIOUS
  <2>2. Best(0, <<0, 1>>, found', second')
    BY <2>1 DEF Best
  <2>3. Best(s' - PaddingSize, max', found', second')
    BY <1>1, <1>4, <1>5, <2>2, Zenon
  <2>4. Best(s - PaddingSize, max, found, second)'
    BY <1>1, <2>3, BestKept
  <2> QED BY <2>4 DEF BestInv
<1> QED BY <1>1, <1>3, <1>6, <1>7, <1>8, <1>9, <1>10 DEF SearchInv

LEMMA ReadAction ==
    ASSUME SearchInv, Read
    PROVE  SearchInv'
<1>1. input' = input /\ s' = s /\ max' = max /\ phase = "read" /\ phase' = "correlate"
  BY DEF Read, Step
<1>2. \A pad : SecondHalf(pad)' = SecondHalf(pad) /\ FirstHalf(pad)' = FirstHalf(pad)
  BY <1>1, SameInput
<1>3. s = 0 /\ max = <<0, 1>> /\ input \in Inputs
  BY <1>1 DEF SearchInv, EarlyInv
<1>4. EarlyInv'
  BY <1>1, <1>3 DEF EarlyInv
<1>5. ArraysInv'
  <2>1. (\E pad \in Pads : a1' = SecondHalf(pad)) /\ (\E pad \in Pads : a2' = FirstHalf(pad))
    BY DEF Read
  <2> QED BY <1>2, <2>1 DEF ArraysInv
<1>6. PlaceOfSearch' /\ CrossInv' /\ BestInv'
  BY <1>1, <1>3 DEF PlaceOfSearch, CrossInv, BestInv
<1> QED BY <1>1, <1>3, <1>4, <1>5, <1>6 DEF SearchInv

LEMMA SearchStep ==
    SearchInv /\ TransformsAgree /\ [OverlapNext]_<<logVars, overlapVars>> => SearchInv'
<1> SUFFICES ASSUME SearchInv, TransformsAgree, [OverlapNext]_<<logVars, overlapVars>>
             PROVE  SearchInv'
  OBVIOUS
<1> DEFINE Same == UNCHANGED <<input, a1, a2, cross, s, max, found, second>>
<1>1. CASE Arguments \/ LevelOption \/ Headers \/ Rates
  <2>1. Same
    BY <1>1 DEF Arguments, LevelOption, Headers, Rates
  <2>2. phase \in {"arguments", "level", "headers", "rates"}
    BY <1>1, Zenon DEF Arguments, LevelOption, Headers, Rates, Step
  <2>3. s = 0 /\ max = <<0, 1>>
    BY <2>2, Zenon DEF SearchInv, EarlyInv
  <2>4. phase' \in {"level", "headers", "rates", "read", "exit 0", "exit 1"}
    BY <1>1, Zenon DEF Arguments, LevelOption, Headers, Rates, Step
  <2>5. Apart
    BY <2>3, <2>4, Zenon DEF Apart
  <2> QED BY <2>1, <2>5, SearchIdle
<1>2. CASE Read
  BY <1>2, ReadAction
<1>3. CASE Correlate
  BY <1>3, CorrelateAction
<1>4. CASE Search
  BY <1>4, SearchAction
<1>5. CASE Report
  <2>1. Same /\ phase' = "exit 0" /\ phase = "search" /\ s >= Shorts
    BY <1>5, Zenon DEF Report, Step
  <2> QED BY <2>1, Zenon, SearchIdle DEF Apart
<1>6. CASE Exit
  <2>1. Same /\ ((phase' = "ended 0" /\ phase = "exit 0") \/ phase' = "ended 1")
    BY <1>6, Zenon DEF Exit, Step
  <2> QED BY <2>1, Zenon, SearchIdle DEF Apart
<1>7. CASE Log \/ UNCHANGED <<logVars, overlapVars>>
  <2>1. Same /\ phase' = phase
    BY <1>7 DEF Log, overlapVars
  <2> QED BY <2>1, Zenon, SearchIdle DEF Apart
<1>8. CASE Kill
  <2>1. Same /\ phase' = "killed"
    BY <1>8 DEF Kill
  <2> QED BY <2>1, Zenon, SearchIdle DEF Apart
<1> QED BY <1>1, <1>2, <1>3, <1>4, <1>5, <1>6, <1>7, <1>8 DEF OverlapNext

\* The search looks at each place of the part that is used and keeps the best
\* of them: as long as the correlation is the rotated sum of products.
THEOREM SearchInvariance == OverlapSpec /\ []TransformsAgree => []SearchInv
<1> QED BY SearchStart, SearchStep, PTL DEF OverlapSpec

\* What the search has found at its end
LEMMA BestMeans ==
    ASSUME input \in Inputs, Silence, s = Shorts, Best(s - PaddingSize, max, found, second)
    PROVE  LET places == ToAdd .. Frames(input.file1) - 1
           IN  IF max[1] = 0 THEN \A p \in places : Common(p) = 0
               ELSE /\ second \in places /\ found = second - ToAdd
                    /\ \A p \in places : Abs(Common(p)) <= Abs(Common(second))
                    /\ max = <<2 * Abs(Common(second)), Energy>>
<1> DEFINE H == PaddingSize
           A == ToAdd
           E == Energy
<1>6. H \in Nat \ {0} /\ A \in Nat /\ s = 2 * H /\ Frames(input.file1) = A + H
  BY HalfLengths DEF Silence
<1>7. \A e \in 0 .. H - 1 : Common(A + e) \in Int
  BY CommonBounded DEF Silence
<1>8. \/ /\ max = <<0, 1>>
         /\ \A e \in 0 .. (s - H) - 1 : Common(A + e) = 0
      \/ /\ found \in 0 .. (s - H) - 1 /\ second = A + found
         /\ Common(second) # 0 /\ max = <<2 * Abs(Common(second)), E>>
         /\ \A e \in 0 .. (s - H) - 1 : Abs(Common(A + e)) <= Abs(Common(second))
  BY DEF Best
<1> SUFFICES IF max[1] = 0 THEN \A p \in A .. (A + H) - 1 : Common(p) = 0
             ELSE /\ second \in A .. (A + H) - 1 /\ found = second - A
                  /\ \A p \in A .. (A + H) - 1 : Abs(Common(p)) <= Abs(Common(second))
                  /\ max = <<2 * Abs(Common(second)), E>>
  BY <1>6
<1> HIDE DEF H, A, E
<1>9. s - H = H
  BY <1>6
<1>10. \A p \in A .. (A + H) - 1 : p - A \in 0 .. H - 1 /\ A + (p - A) = p
  BY <1>6
<1>11. CASE max = <<0, 1>> /\ \A e \in 0 .. H - 1 : Common(A + e) = 0
  <2>1. \A p \in A .. (A + H) - 1 : Common(p) = 0
    BY <1>10, <1>11
  <2>2. max[1] = 0
    BY <1>11
  <2> QED BY <2>1, <2>2
<1>12. CASE /\ found \in 0 .. H - 1 /\ second = A + found
            /\ Common(second) # 0 /\ max = <<2 * Abs(Common(second)), E>>
            /\ \A e \in 0 .. H - 1 : Abs(Common(A + e)) <= Abs(Common(second))
  <2>1. \A p \in A .. (A + H) - 1 : Abs(Common(p)) <= Abs(Common(second))
    <3> SUFFICES ASSUME NEW p \in A .. (A + H) - 1 PROVE Abs(Common(p)) <= Abs(Common(second))
      OBVIOUS
    <3>1. p - A \in 0 .. H - 1 /\ A + (p - A) = p
      BY <1>10
    <3>2. Abs(Common(A + (p - A))) <= Abs(Common(second))
      BY <1>12, <3>1
    <3> QED BY <3>1, <3>2
  <2>2. second \in A .. (A + H) - 1 /\ found = second - A
    BY <1>6, <1>12
  <2>3. max[1] # 0
    <3>1. Common(second) \in Int /\ Common(second) # 0
      BY <1>7, <1>12
    <3>2. 2 * Abs(Common(second)) # 0
      BY <3>1 DEF Abs
    <3> QED BY <1>12, <3>2
  <2> QED BY <1>12, <2>1, <2>2, <2>3
<1> QED BY <1>8, <1>9, <1>11, <1>12

\* doWork reports the place with the largest sum of products, and the quotient
\* of that place, if xcorr_new computes what it is to compute and the memory of
\* the halves that are not written is zero.
THEOREM OverlapIsBest == OverlapSpec /\ []TransformsAgree => []BestOverlap
<1>1. SearchInv => BestOverlap
  <2> SUFFICES ASSUME SearchInv,
                      phase = "ended 0", s > 0, Len(input.file1) % 2 = 0, Len(input.file2) % 2 = 0,
                      a1[0] = 0, a2[Shorts - 1] = 0
               PROVE  LET places == ToAdd .. Frames(input.file1) - 1
                      IN  IF max[1] = 0 THEN \A p \in places : Common(p) = 0
                          ELSE /\ second \in places /\ found = second - ToAdd
                               /\ \A p \in places : Abs(Common(p)) <= Abs(Common(second))
                               /\ max = <<2 * Abs(Common(second)), Energy>>
    BY DEF BestOverlap
  <2>1. WholeFrames /\ input \in Inputs /\ ArraysInv /\ s \in Nat
    BY DEF WholeFrames, SearchInv, PlaceOfSearch
  <2>2. s = Shorts
    BY Zenon DEF SearchInv, PlaceOfSearch
  <2>3. Shorts > 0
    BY <2>2
  <2>4. Silence
    BY <2>1, <2>3, SilenceIs
  <2>5. Best(s - PaddingSize, max, found, second)
    BY <2>4, Zenon DEF SearchInv, BestInv
  <2> QED BY <2>1, <2>2, <2>4, <2>5, BestMeans
<1> QED BY <1>1, SearchInvariance, PTL
=============================================================================
