-------------------------- MODULE CompareMainProofs --------------------------
(***************************************************************************)
(* Proofs about waveform-compare, for files of any length, any block size, *)
(* threshold and accepted shift: first of its loop (WaveformCompare), then *)
(* of the program with its options (CompareMain).                          *)
(*                                                                         *)
(* The verdict is about blocks seen at different turns of the loop, so the *)
(* invariant IInv relates success, failure and firstOffset to the whole    *)
(* history of compared blocks after each turn. What has been looked at is  *)
(* known at every turn as well (LookInv), except for a block size of 0,    *)
(* when the loop is left at once.                                          *)
(***************************************************************************)
EXTENDS CompareMain, SequenceTheorems, TLAPS

Compared == [block : Nat, val : 0..One, off : Int, sizes : Int \X Int]

FirstInv ==
    /\ compared \in Seq(Compared)
    /\ first <=> compared = << >>
    /\ ~first => firstOffset = compared[1].off

VerdictInv ==
    /\ success <=> \A k \in DOMAIN compared : Accepted(k)
    /\ pc = "return 0" => success
    /\ pc = "return 1" => ~success

FailureInv ==
    ~success =>
        \E k \in DOMAIN compared :
            /\ ~Accepted(k)
            /\ \A n \in k + 1 .. Len(compared) : Accepted(n)
            /\ failure = [block |-> compared[k].block, val |-> compared[k].val,
                          off |-> compared[k].off]

IInv == TypeOK /\ FirstInv /\ VerdictInv /\ FailureInv

-----------------------------------------------------------------------------
Outcome == [val : 0..One, off : Int]

\* What the stream delivers is never more than is left of the file.
LEMMA GotBounds ==
    ASSUME TypeOK
    PROVE  /\ GotA \in Nat /\ readA + GotA \in 0..lenA
           /\ GotB \in Nat /\ readB + GotB \in 0..lenB
           /\ SizeA \in Nat /\ SizeB \in Nat
<1> USE SpbAssumption DEF SpbAssumption
<1>a. lenA \in Nat /\ lenB \in Nat /\ readA \in 0..lenA /\ readB \in 0..lenB
  BY DEF TypeOK
<1>1. lenA - readA \in Nat /\ lenB - readB \in Nat
  BY <1>a
<1>2. GotA \in Nat /\ readA + GotA \in 0..lenA
  BY <1>a, <1>1 DEF GotA, AtMost
<1>3. GotB \in Nat /\ readB + GotB \in 0..lenB
  BY <1>a, <1>1 DEF GotB, AtMost
<1>4. SizeA \in Nat /\ SizeB \in Nat
  BY <1>2, <1>3 DEF SizeA, SizeB
<1> QED  BY <1>2, <1>3, <1>4

LEMMA BestIsOutcome ==
    ASSUME NEW m \in Nat, NEW n \in Nat, NEW fwd \in Peaks(m), NEW bwd \in Peaks(n)
    PROVE  Best(fwd, bwd) \in Outcome
<1> USE ValueAssumption, ShiftAssumption DEF ValueAssumption, ShiftAssumption
<1>1. \A k \in Nat : \A p \in Peaks(k) : p.val \in 0..One /\ p.idx \in Int
  BY DEF Peaks
<1>2. fwd.val \in 0..One /\ fwd.idx \in Int /\ bwd.val \in 0..One /\ bwd.idx \in Int
  BY <1>1
<1> QED  BY <1>2 DEF Best, Outcome

\* A turn of the loop is one of four.
LEMMA NextCases ==
    ASSUME TypeOK, Next
    PROVE  Stop \/ Silence \/ Report \/ \E r \in Outcome : CompareBlocks(r)
<1>1. CASE Correlate
  <2>1. PICK fwd \in Peaks(SizeB), bwd \in Peaks(SizeA) : CompareBlocks(Best(fwd, bwd))
    BY <1>1 DEF Correlate
  <2>2. Best(fwd, bwd) \in Outcome
    BY GotBounds, BestIsOutcome
  <2> QED  BY <2>1, <2>2
<1> QED  BY <1>1 DEF Next

LEMMA InitInv == Init => IInv
<1> SUFFICES ASSUME Init PROVE IInv
  OBVIOUS
<1> USE SpbAssumption, ValueAssumption, ShiftAssumption
    DEF SpbAssumption, ValueAssumption, ShiftAssumption, Init
<1>1. TypeOK
  BY DEF TypeOK, Results, NoFailure, Two
<1>2. FirstInv
  BY EmptySeq DEF FirstInv
<1>3. VerdictInv /\ FailureInv
  BY EmptySeq DEF VerdictInv, FailureInv
<1> QED  BY <1>1, <1>2, <1>3 DEF IInv

\* The streams and the counter keep their types at every turn of the loop.
LEMMA ConsumeTypes ==
    ASSUME TypeOK, Consume
    PROVE  /\ padShortBlock' \in BOOLEAN /\ lenA' \in Nat /\ lenB' \in Nat
           /\ readA' \in 0..lenA' /\ readB' \in 0..lenB' /\ block' \in Nat
<1>1. /\ padShortBlock' = padShortBlock /\ lenA' = lenA /\ lenB' = lenB
      /\ readA' = readA + GotA /\ readB' = readB + GotB
      /\ block' = block + 1
  BY DEF Consume
<1>2. /\ readA + GotA \in 0..lenA /\ readB + GotB \in 0..lenB
  BY GotBounds
<1>3. padShortBlock \in BOOLEAN /\ lenA \in Nat /\ lenB \in Nat /\ block \in Nat
  BY DEF TypeOK
<1>4. block + 1 \in Nat
  BY <1>3
<1> QED  BY <1>1, <1>2, <1>3, <1>4, Zenon

LEMMA TypeStep == IInv /\ [Next]_vars => TypeOK'
<1> SUFFICES ASSUME TypeOK, [Next]_vars PROVE TypeOK'
  BY DEF IInv
<1>1. /\ pc \in {"loop", "report", "return 0", "return 1"}
      /\ first \in BOOLEAN /\ success \in BOOLEAN /\ firstOffset \in Int
      /\ minimumVal \in 0..One \union {Two} /\ failure \in Results
      /\ block \in Nat
  BY DEF TypeOK
<1>2. CASE Stop
  BY <1>1, <1>2, ConsumeTypes DEF Stop, TypeOK
<1>3. CASE Silence
  BY <1>1, <1>3, ConsumeTypes DEF Silence, Proceed, TypeOK
<1>4. ASSUME NEW r \in Outcome, CompareBlocks(r) PROVE TypeOK'
  <2>1. r.val \in 0..One /\ r.off \in Int
    BY DEF Outcome
  <2>2. [block |-> block, val |-> r.val, off |-> r.off] \in Results
    BY <1>1, <2>1 DEF Results
  <2>3. /\ first' \in BOOLEAN /\ firstOffset' \in Int
        /\ minimumVal' \in 0..One \union {Two}
    BY <1>1, <1>4, <2>1 DEF CompareBlocks, Lowest
  <2>4. failure' \in Results
    BY <1>1, <1>4, <2>2 DEF CompareBlocks, Record
  <2>5. pc' \in {"loop", "report"} /\ Consume
    BY <1>4 DEF CompareBlocks, Proceed
  <2>6. success' \in BOOLEAN
    BY <1>1, <1>4 DEF CompareBlocks, Fails
  <2> QED  BY <2>3, <2>4, <2>5, <2>6, ConsumeTypes DEF TypeOK
<1>5. CASE Report
  BY <1>1, <1>5 DEF Report, TypeOK
<1>6. CASE UNCHANGED vars
  BY <1>6 DEF vars, TypeOK
<1> QED  BY <1>2, <1>3, <1>4, <1>5, <1>6, NextCases

\* The block compared last extends the history and leaves the verdict on the
\* blocks before it alone.
LEMMA History ==
    ASSUME IInv, NEW r \in Outcome, CompareBlocks(r)
    PROVE  /\ compared' \in Seq(Compared) /\ Len(compared') = Len(compared) + 1
           /\ Len(compared) \in Nat
           /\ \A k \in 1..Len(compared) : compared'[k] = compared[k]
           /\ \A k \in 1..Len(compared) : Accepted(k)' <=> Accepted(k)
           /\ compared'[Len(compared) + 1].block = block
           /\ compared'[Len(compared) + 1].val = r.val
           /\ compared'[Len(compared) + 1].off = r.off
           /\ Accepted(Len(compared))' <=> ~Fails(r)
           /\ first' = FALSE /\ firstOffset' = compared'[1].off
<1> USE DEF IInv, FirstInv
<1> DEFINE e == [block |-> block, val |-> r.val, off |-> r.off, sizes |-> <<SizeA, SizeB>>]
           n == Len(compared)
<1>1. r.val \in 0..One /\ r.off \in Int /\ block \in Nat /\ firstOffset \in Int
  BY DEF Outcome, TypeOK
<1>2. e \in Compared
  BY <1>1, GotBounds DEF Compared
<1>3. compared' = Append(compared, e)
  BY DEF CompareBlocks
<1>4. n \in Nat /\ compared' \in Seq(Compared) /\ Len(compared') = n + 1
  BY <1>2, <1>3, LenProperties, AppendProperties
<1>5. \A k \in 1..n : compared'[k] = compared[k]
  BY <1>2, <1>3, AppendProperties
<1>6. compared'[n + 1] = e
  BY <1>2, <1>3, AppendProperties
<1>7. \A k \in 1..n : compared'[1] = compared[1]
  BY <1>4, <1>5
<1>8. \A k \in 1..n : Accepted(k)' <=> Accepted(k)
  BY <1>5, <1>7 DEF Accepted, Distance
<1>9. first' = FALSE /\ firstOffset' = IF first THEN r.off ELSE firstOffset
  BY DEF CompareBlocks
<1>10. CASE first
  <2>1. n = 0
    BY <1>10, EmptySeq
  <2>2. compared'[1] = e /\ compared'[n + 1] = e
    BY <1>6, <2>1
  <2>3. firstOffset' = compared'[1].off
    BY <1>9, <1>10, <2>2
  <2>4. Accepted(Len(compared))' <=> ~Fails(r)
    <3>1. Accepted(Len(compared))' <=> e.val >= Threshold /\ Distance(e.off, e.off) <= MaxShift
      BY <1>4, <2>2 DEF Accepted, Distance
    <3>2. Distance(e.off, e.off) = 0
      BY <1>1 DEF Distance
    <3> QED  BY <1>1, <1>10, <3>1, <3>2, ValueAssumption, ShiftAssumption
             DEF Fails, ValueAssumption, ShiftAssumption
  <2> QED  BY <1>4, <1>5, <1>6, <1>8, <1>9, <2>3, <2>4
<1>11. CASE ~first
  <2>1. n # 0 /\ compared'[1] = compared[1]
    BY <1>4, <1>7, <1>11, EmptySeq
  <2>2. firstOffset' = compared'[1].off /\ firstOffset = compared[1].off
    BY <1>9, <1>11, <2>1
  <2>3. Accepted(Len(compared))' <=> r.val >= Threshold /\ Distance(r.off, firstOffset) <= MaxShift
    <3>1. /\ compared'[Len(compared')].val = r.val /\ compared'[Len(compared')].off = r.off
          /\ compared'[1].off = firstOffset
      BY <1>4, <1>6, <2>1, <2>2
    <3>2. Accepted(Len(compared))' <=>
             /\ compared'[Len(compared')].val >= Threshold
             /\ Distance(compared'[Len(compared')].off, compared'[1].off) <= MaxShift
      BY DEF Accepted, Distance
    <3> QED  BY <3>1, <3>2, Zenon
  <2>4. Distance(r.off, firstOffset) \in Int
    BY <1>1 DEF Distance
  <2>5. Accepted(Len(compared))' <=> ~Fails(r)
    BY <1>1, <1>11, <2>3, <2>4, ValueAssumption, ShiftAssumption
       DEF Fails, ValueAssumption, ShiftAssumption
  <2> QED  BY <1>4, <1>5, <1>6, <1>8, <1>9, <2>2, <2>5
<1> QED  BY <1>10, <1>11, <1>1 DEF TypeOK

\* What the other steps of the loop leave alone
LEMMA OtherSteps ==
    ASSUME IInv, Stop \/ Silence \/ Report \/ UNCHANGED vars
    PROVE  FirstInv' /\ VerdictInv' /\ FailureInv'
<1>1. UNCHANGED <<first, success, firstOffset, failure, compared>>
  BY DEF Stop, Silence, Report, vars
<1>2. pc' = "return 0" => success'
  BY <1>1 DEF IInv, VerdictInv, Stop, Silence, Proceed, Report, vars
<1>3. pc' = "return 1" => ~success'
  BY <1>1 DEF IInv, VerdictInv, Stop, Silence, Proceed, Report, vars
<1>4. FirstInv'
  BY <1>1 DEF IInv, FirstInv
<1>5. \A k : Accepted(k)' <=> Accepted(k)
  BY <1>1 DEF Accepted, Distance
<1>6. VerdictInv'
  BY <1>1, <1>2, <1>3, <1>5 DEF IInv, VerdictInv
<1>7. FailureInv'
  BY <1>1, <1>5 DEF IInv, FailureInv
<1> QED  BY <1>4, <1>6, <1>7

LEMMA CompareStep ==
    ASSUME IInv, NEW r \in Outcome, CompareBlocks(r)
    PROVE  FirstInv' /\ VerdictInv' /\ FailureInv'
<1> DEFINE n == Len(compared)
<1>1. /\ compared' \in Seq(Compared) /\ Len(compared') = n + 1 /\ n \in Nat
      /\ \A k \in 1..n : compared'[k] = compared[k]
      /\ \A k \in 1..n : Accepted(k)' <=> Accepted(k)
      /\ compared'[n + 1].block = block
      /\ compared'[n + 1].val = r.val /\ compared'[n + 1].off = r.off
      /\ \A k : k = n + 1 => (Accepted(k)' <=> ~Fails(r))
      /\ first' = FALSE /\ firstOffset' = compared'[1].off
  <2>1. \A k : k = Len(compared') => (Accepted(k)' <=> Accepted(Len(compared))')
    BY DEF Accepted, Distance
  <2> QED  BY <2>1, History
<1>2. DOMAIN compared = 1..n /\ DOMAIN compared' = 1..(n + 1)
  BY <1>1, LenProperties DEF IInv, FirstInv
<1>3. success' = (success /\ ~Fails(r)) /\ failure' = Record(r) /\ pc' \in {"loop", "report"}
  BY DEF CompareBlocks, Proceed
<1> HIDE DEF n
<1>4. FirstInv'
  <2>1. compared' # << >>
    BY <1>1, EmptySeq
  <2> QED  BY <1>1, <2>1 DEF FirstInv
<1>5. success' <=> \A k \in 1..(n + 1) : Accepted(k)'
  <2>1. success <=> \A k \in 1..n : Accepted(k)
    BY <1>2 DEF IInv, VerdictInv
  <2>2. (\A k \in 1..(n + 1) : Accepted(k)') <=> (\A k \in 1..n : Accepted(k)') /\ ~Fails(r)
    <3>1. 1..(n + 1) = (1..n) \union {n + 1}
      BY <1>1
    <3> HIDE DEF Accepted, Fails
    <3> QED  BY <1>1, <3>1
  <2>3. (\A k \in 1..n : Accepted(k)') <=> (\A k \in 1..n : Accepted(k))
    BY <1>1
  <2> QED  BY <1>3, <2>1, <2>2, <2>3
<1>6. VerdictInv'
  BY <1>2, <1>3, <1>5 DEF VerdictInv
<1>7. FailureInv'
  <2>1. CASE Fails(r)
    <3>1. failure' = [block |-> compared'[n + 1].block, val |-> compared'[n + 1].val,
                      off |-> compared'[n + 1].off]
      BY <1>1, <1>3, <2>1 DEF Record
    <3>2. n + 1 \in 1..(n + 1) /\ \A k \in (n + 1) + 1 .. n + 1 : FALSE
      BY <1>1
    <3>3. \A k : k = n + 1 => ~Accepted(k)'
      BY <1>1, <2>1
    <3>4. \E k \in DOMAIN compared' :
            /\ ~Accepted(k)'
            /\ \A m \in k + 1 .. Len(compared') : Accepted(m)'
            /\ failure' = [block |-> compared'[k].block, val |-> compared'[k].val,
                           off |-> compared'[k].off]
      BY <1>1, <1>2, <3>1, <3>2, <3>3
    <3> QED  BY <3>4 DEF FailureInv
  <2>2. CASE ~Fails(r) /\ ~success'
    <3>1. ~success /\ failure' = failure
      BY <1>3, <2>2 DEF Record
    <3>2. PICK k \in 1..n :
            /\ ~Accepted(k)
            /\ \A m \in k + 1 .. n : Accepted(m)
            /\ failure = [block |-> compared[k].block, val |-> compared[k].val,
                          off |-> compared[k].off]
      BY <1>2, <3>1 DEF IInv, FailureInv, n
    <3>3. ~Accepted(k)' /\ compared'[k] = compared[k] /\ k \in 1..(n + 1)
      BY <1>1, <3>2
    <3>4. \A m \in k + 1 .. n + 1 : Accepted(m)'
      <4> SUFFICES ASSUME NEW m \in k + 1 .. n + 1 PROVE Accepted(m)'
        OBVIOUS
      <4>1. CASE m = n + 1
        BY <1>1, <2>2, <4>1
      <4>2. CASE m # n + 1
        <5>1. m \in k + 1 .. n /\ m \in 1..n
          BY <1>1, <4>2
        <5> QED  BY <1>1, <3>2, <5>1
      <4> QED  BY <4>1, <4>2
    <3>5. failure' = [block |-> compared'[k].block, val |-> compared'[k].val,
                      off |-> compared'[k].off]
      BY <3>1, <3>2, <3>3
    <3> QED  BY <1>1, <1>2, <3>3, <3>4, <3>5 DEF FailureInv
  <2> QED  BY <2>1, <2>2 DEF FailureInv
<1> QED  BY <1>4, <1>6, <1>7

-----------------------------------------------------------------------------
LEMMA StepInv == IInv /\ [Next]_vars => IInv'
<1> SUFFICES ASSUME IInv, [Next]_vars PROVE IInv'
  OBVIOUS
<1>1. TypeOK'
  BY TypeStep
<1>2. FirstInv' /\ VerdictInv' /\ FailureInv'
  BY NextCases, OtherSteps, CompareStep DEF IInv
<1> QED  BY <1>1, <1>2 DEF IInv

\* The parts of IInv hold at every turn of waveform-compare's loop.
THEOREM Invariance == Spec => []IInv
BY InitInv, StepInv, PTL DEF Spec

\* The variables of the loop keep their types.
THEOREM TypeCorrect == Spec => []TypeOK
BY Invariance, PTL DEF IInv

\* The exit code of waveform-compare is 0 if and only if every compared block
\* is accepted, however many blocks there are and whichever are silent.
THEOREM VerdictIsExact == Spec => []VerdictExact
<1>1. IInv => VerdictExact
  BY DEF IInv, VerdictInv, VerdictExact, Finished
<1> QED  BY Invariance, <1>1, PTL

\* A Failure names the last block that was not accepted.
THEOREM FailureNamesLast == Spec => []FailureIsLast
<1>1. IInv => FailureIsLast
  BY DEF IInv, VerdictInv, FailureInv, FailureIsLast
<1> QED  BY Invariance, <1>1, PTL

-----------------------------------------------------------------------------
\* In the loop the blocks looked at are those read; after it nothing is left
\* but a piece of less than half a block.
LookInv ==
    /\ pc = "loop" => looked = <<readA, readB>>
    /\ pc # "loop" =>
          /\ padShortBlock => looked = <<lenA, lenB>>
          /\ lenA = lenB => /\ looked[1] = looked[2]
                            /\ looked[1] = lenA \/ lenA - looked[1] < Spb \div 2

\* Files of the same length are read in step.
InStep == lenA = lenB => readA = readB

MainTypeOK ==
    /\ args.blockSize \in {0, 1} /\ args.channel \in Int
    /\ has[1] \in Int /\ has[2] \in Int

StageInv ==
    /\ stage \in {"main", "exit 0"} /\ args.flags = {} =>
          args.channel < has[1] /\ args.channel < has[2]
    /\ stage = "exit 0" /\ args.flags = {} => pc = "return 0"
    /\ IF args.blockSize = 0 THEN minimumVal = Two ELSE LookInv

MainInv == IInv /\ MainTypeOK /\ StageInv /\ InStep /\ BlocksComparable

-----------------------------------------------------------------------------
\* The streams of files of the same length deliver as much for each block.
LEMMA GotInStep ==
    ASSUME TypeOK, InStep
    PROVE  lenA = lenB => GotA = GotB /\ SizeA = SizeB
BY DEF InStep, GotA, GotB, SizeA, SizeB

LEMMA InStepKept == TypeOK /\ InStep /\ [Next]_vars => InStep'
<1> SUFFICES ASSUME TypeOK, InStep, [Next]_vars PROVE InStep'
  OBVIOUS
<1>1. CASE Consume
  BY <1>1, GotInStep DEF Consume, InStep
<1>2. CASE UNCHANGED <<lenA, lenB, readA, readB>>
  BY <1>2 DEF InStep
<1> QED  BY <1>1, <1>2, NextCases DEF Stop, Silence, Report, CompareBlocks, vars

\* A block that is taken apart from the last is whole; the last one reaches to
\* the end of both files, unless it was too short to be looked at.
LEMMA LookKept == TypeOK /\ InStep /\ LookInv /\ [Next]_vars => LookInv'
<1> SUFFICES ASSUME TypeOK, InStep, LookInv, [Next]_vars PROVE LookInv'
  OBVIOUS
<1> USE SpbAssumption DEF SpbAssumption
<1>1. /\ lenA \in Nat /\ lenB \in Nat /\ readA \in 0..lenA /\ readB \in 0..lenB
      /\ padShortBlock \in BOOLEAN
  BY DEF TypeOK
<1>2. Spb \div 2 \in Nat /\ Spb \div 2 <= Spb
  OBVIOUS
<1>3. CASE Stop
  <2>1. /\ looked' = <<readA, readB>> /\ pc' = "report"
        /\ lenA' = lenA /\ lenB' = lenB /\ padShortBlock' = padShortBlock
    BY <1>3 DEF Stop, Consume, LookInv
  <2>2. AtEnd => readA = lenA /\ readB = lenB
    BY <1>1 DEF AtEnd, GotA, GotB, AtMost
  <2>3. padShortBlock => AtEnd
    BY <1>2, <1>3 DEF Stop, TooShort, SizeA, SizeB
  <2>4. lenA = lenB => readA = readB
    BY DEF InStep
  <2>5. ~AtEnd /\ lenA = lenB => lenA - readA < Spb \div 2
    BY <1>1, <1>2, <1>3, <2>3, <2>4 DEF Stop, TooShort, SizeA, SizeB, GotA, GotB, AtMost
  <2> QED  BY <2>1, <2>2, <2>3, <2>4, <2>5 DEF LookInv
<1>4. CASE pc = "loop" /\ Consume /\ Proceed
  <2>1. /\ looked' = <<readA', readB'>>
        /\ readA' = readA + GotA /\ readB' = readB + GotB
        /\ lenA' = lenA /\ lenB' = lenB /\ padShortBlock' = padShortBlock
    BY <1>4 DEF Consume, Proceed, LookInv
  <2>2. pc' # "loop" => ~padShortBlock /\ (GotA < Spb \/ GotB < Spb)
    BY <1>4 DEF Proceed, SizeA, SizeB
  <2>3. /\ GotA < Spb => readA + GotA = lenA
        /\ GotB < Spb => readB + GotB = lenB
    BY <1>1 DEF GotA, GotB, AtMost
  <2>4. lenA = lenB => GotA = GotB /\ readA = readB
    BY GotInStep DEF InStep
  <2> QED  BY <2>1, <2>2, <2>3, <2>4 DEF LookInv
<1>5. CASE Report \/ UNCHANGED vars
  <2>1. /\ UNCHANGED <<looked, readA, readB, lenA, lenB, padShortBlock>>
        /\ pc' = "loop" <=> pc = "loop"
    BY <1>5 DEF Report, vars
  <2> QED  BY <2>1 DEF LookInv
<1> QED  BY <1>3, <1>4, <1>5, NextCases DEF Silence, CompareBlocks

LEMMA ComparableKept ==
    TypeOK /\ FirstInv /\ InStep /\ BlocksComparable /\ [Next]_vars => BlocksComparable'
<1> SUFFICES ASSUME TypeOK, FirstInv, InStep, BlocksComparable, [Next]_vars
             PROVE  BlocksComparable'
  OBVIOUS
<1>1. ASSUME NEW r \in Outcome, CompareBlocks(r) PROVE BlocksComparable'
  <2> DEFINE rec == [block |-> block, val |-> r.val, off |-> r.off, sizes |-> <<SizeA, SizeB>>]
  <2>1. /\ compared' = Append(compared, rec) /\ ~TooShort
        /\ lenA' = lenA /\ lenB' = lenB /\ padShortBlock' = padShortBlock
    BY <1>1 DEF CompareBlocks, Consume
  <2>2. rec.sizes[1] = SizeA /\ rec.sizes[2] = SizeB
    OBVIOUS
  <2>3. compared \in Seq(Compared)
    BY DEF FirstInv
  <2> HIDE DEF rec
  <2>4. \A k \in DOMAIN compared' : \/ k \in DOMAIN compared /\ compared'[k] = compared[k]
                                    \/ compared'[k] = rec
    BY <2>1, <2>3, AppendProperties, LenProperties
  <2>5. padShortBlock \/ lenA = lenB => SizeA = SizeB
    BY GotInStep DEF SizeA, SizeB
  <2>6. Spb >= 2 * MinOverlap => SizeA >= MinOverlap
    <3> USE SpbAssumption, ShiftAssumption DEF SpbAssumption, ShiftAssumption
    <3>1. SizeA \in Nat
      BY GotBounds DEF SizeA
    <3>2. SizeA >= Spb \div 2
      BY <2>1, <3>1 DEF TooShort
    <3>3. Spb >= 2 * MinOverlap => Spb \div 2 >= MinOverlap
      OBVIOUS
    <3> QED  BY <3>1, <3>2, <3>3
  <2> QED  BY <2>1, <2>2, <2>4, <2>5, <2>6 DEF BlocksComparable
<1>2. CASE UNCHANGED <<compared, lenA, lenB, padShortBlock>>
  BY <1>2 DEF BlocksComparable
<1> QED  BY <1>1, <1>2, NextCases DEF Stop, Silence, Report, Consume, vars

-----------------------------------------------------------------------------
(* The program                                                             *)

LEMMA MainInitInv == MainInit => MainInv
<1> SUFFICES ASSUME MainInit PROVE MainInv
  OBVIOUS
<1>1. Init /\ stage = "init"
  BY DEF MainInit
<1>2. IInv
  BY <1>1, InitInv
<1>3. MainTypeOK
  BY DEF MainInit, MainTypeOK
<1>4. StageInv /\ InStep /\ BlocksComparable
  BY <1>1, EmptySeq DEF Init, StageInv, LookInv, InStep, BlocksComparable
<1> QED  BY <1>2, <1>3, <1>4 DEF MainInv

\* The steps of the loop, taken by the program
LEMMA LoopStep == MainInv /\ Loop => MainInv'
<1> SUFFICES ASSUME MainInv, Loop PROVE MainInv'
  OBVIOUS
<1>1. /\ IInv /\ TypeOK /\ FirstInv /\ InStep /\ BlocksComparable /\ StageInv /\ MainTypeOK
      /\ Next /\ stage = "main" /\ (args.blockSize > 0 \/ pc = "report")
      /\ UNCHANGED <<args, has, stage>>
  BY DEF MainInv, IInv, Loop, Keep, mainVars
<1>2. IInv' /\ InStep' /\ BlocksComparable'
  BY <1>1, StepInv, InStepKept, ComparableKept
<1>3. MainTypeOK'
  BY <1>1 DEF MainTypeOK
<1>4. args.blockSize = 0 => minimumVal' = Two
  <2>1. SUFFICES ASSUME args.blockSize = 0 PROVE minimumVal' = Two
    OBVIOUS
  <2>2. pc = "report" /\ minimumVal = Two
    BY <1>1, <2>1 DEF StageInv
  <2>3. Report
    BY <1>1, <2>2 DEF Next, Stop, Silence, Correlate, CompareBlocks
  <2> QED  BY <2>2, <2>3 DEF Report
<1>5. args.blockSize # 0 => LookInv'
  BY <1>1, LookKept DEF StageInv
<1>6. StageInv'
  BY <1>1, <1>4, <1>5 DEF StageInv, Two
<1> QED  BY <1>2, <1>3, <1>6 DEF MainInv

\* A block size of 0 leaves the loop with nothing compared.
LEMMA EmptyBlockStep == MainInv /\ EmptyBlock => MainInv'
<1> SUFFICES ASSUME MainInv, EmptyBlock PROVE MainInv'
  OBVIOUS
<1>1. /\ UNCHANGED <<padShortBlock, lenA, lenB, readA, readB, first, success, firstOffset,
                     minimumVal, failure, compared, looked, args, has, stage>>
      /\ pc' = "report" /\ block' = block + 1 /\ stage = "main" /\ args.blockSize = 0
  BY DEF EmptyBlock, Keep, mainVars
<1>2. TypeOK'
  <2>0. TypeOK
    BY DEF MainInv, IInv
  <2>a. block \in Nat
    BY <2>0 DEF TypeOK
  <2>1. block + 1 \in Nat
    BY <2>a
  <2>2. /\ minimumVal' \in 0..One \union {Two}
        /\ failure' \in Results /\ firstOffset' \in Int
        /\ first' \in BOOLEAN /\ success' \in BOOLEAN
    BY <1>1, <2>0, <2>1 DEF TypeOK
  <2>3. /\ padShortBlock' \in BOOLEAN /\ lenA' \in Nat /\ lenB' \in Nat
        /\ readA' \in 0..lenA' /\ readB' \in 0..lenB' /\ block' \in Nat
    BY <1>1, <2>0, <2>1 DEF TypeOK
  <2> QED  BY <1>1, <2>2, <2>3 DEF TypeOK
<1>3. FirstInv' /\ VerdictInv' /\ FailureInv'
  BY <1>1 DEF MainInv, IInv, FirstInv, VerdictInv, FailureInv, Accepted, Distance
<1>4. MainTypeOK' /\ InStep' /\ BlocksComparable'
  BY <1>1 DEF MainInv, MainTypeOK, InStep, BlocksComparable
<1>5. StageInv'
  BY <1>1 DEF MainInv, StageInv, Two
<1> QED  BY <1>2, <1>3, <1>4, <1>5 DEF MainInv, IInv

\* Before and after the loop only the stage changes.
LEMMA StageStep == MainInv /\ (Options \/ Open \/ Return) => MainInv'
<1> SUFFICES ASSUME MainInv, Options \/ Open \/ Return PROVE MainInv'
  OBVIOUS
<1>1. UNCHANGED vars /\ UNCHANGED <<args, has>>
  BY DEF Options, Open, Return
<1>2. IInv'
  BY <1>1, StepInv DEF MainInv
<1>3. MainTypeOK' /\ InStep' /\ BlocksComparable'
  BY <1>1 DEF MainInv, MainTypeOK, InStep, BlocksComparable, vars
<1>4. /\ stage' \in {"main", "exit 0"} /\ args.flags = {} =>
            args.channel < has[1] /\ args.channel < has[2]
      /\ stage' = "exit 0" /\ args.flags = {} => pc = "return 0"
  <2>1. MainTypeOK /\ StageInv
    BY DEF MainInv
  <2>2. CASE Options
    BY <2>2 DEF Options
  <2>3. CASE Open
    <3>1. args.channel \in Int /\ has[1] \in Int /\ has[2] \in Int
      BY <2>1 DEF MainTypeOK
    <3>2. ~(args.channel >= has[1]) /\ ~(args.channel >= has[2])
             => args.channel < has[1] /\ args.channel < has[2]
      BY <3>1
    <3>3. stage' \in {"main", "exit 1"} /\ stage' # "exit 0"
      BY <2>3 DEF Open
    <3>4. stage' = "main" => ~(args.channel >= has[1]) /\ ~(args.channel >= has[2])
      BY <2>3, Zenon DEF Open
    <3> QED  BY <3>2, <3>3, <3>4
  <2>4. CASE Return
    BY <2>1, <2>4 DEF Return, StageInv
  <2> QED  BY <2>2, <2>3, <2>4
<1>5. (LookInv' <=> LookInv) /\ minimumVal' = minimumVal /\ pc' = pc
  BY <1>1 DEF LookInv, vars
<1>6. StageInv'
  BY <1>1, <1>4, <1>5 DEF MainInv, StageInv, Two
<1> QED  BY <1>2, <1>3, <1>6 DEF MainInv

\* MainInv holds in every run of waveform-compare, whatever its options.
THEOREM MainInvariance == MainSpec => []MainInv
<1>1. MainInv /\ UNCHANGED <<vars, mainVars>> => MainInv'
  <2> SUFFICES ASSUME MainInv, UNCHANGED <<vars, mainVars>> PROVE MainInv'
    OBVIOUS
  <2>1. IInv'
    BY StepInv DEF MainInv
  <2>2. MainTypeOK' /\ StageInv' /\ InStep' /\ BlocksComparable'
    BY DEF MainInv, MainTypeOK, StageInv, LookInv, Two, InStep, BlocksComparable, vars, mainVars
  <2> QED  BY <2>1, <2>2 DEF MainInv
<1>2. MainInv /\ [MainNext]_<<vars, mainVars>> => MainInv'
  BY <1>1, LoopStep, EmptyBlockStep, StageStep DEF MainNext
<1> QED  BY MainInitInv, <1>2, PTL DEF MainSpec

\* The exit code is 0 exactly if every compared block is accepted, for every
\* choice of options.
THEOREM MainVerdict == MainSpec => []VerdictExact
<1>1. MainInv => VerdictExact
  BY DEF MainInv, IInv, VerdictInv, VerdictExact, Finished
<1> QED  BY MainInvariance, <1>1, PTL

\* A program that ends with 0 found the channel in both files and every block it
\* compared acceptable.  How much it has looked at is said only of padded blocks and
\* of files of the same length: all of it, or all but less than half a block.
THEOREM SuccessHasLooked == MainSpec => []SuccessLooked
<1>1. MainInv => SuccessLooked
  BY DEF MainInv, MainTypeOK, IInv, VerdictInv, StageInv, LookInv, SuccessLooked, AllLookedAt
<1> QED  BY MainInvariance, <1>1, PTL

\* Blocks of the same size, of at least the least overlap, are correlated.
THEOREM BlocksFit == MainSpec => []BlocksComparable
<1>1. MainInv => BlocksComparable
  BY DEF MainInv
<1> QED  BY MainInvariance, <1>1, PTL
=============================================================================
