----------------------------- MODULE FoldLemmas -----------------------------
(***************************************************************************)
(* Lemmas that several proofs need: least and greatest elements, sequences *)
(* that are made longer, the recursive functions behind FlattenSeq,        *)
(* FoldLeft and MapThenSumSet, and sums of integers.                       *)
(*                                                                         *)
(* A recursive function is a CHOOSE: that there is one is shown by the     *)
(* least number for which there would be none.                             *)
(***************************************************************************)
EXTENDS Integers, SequencesExt, SequenceTheorems, FiniteSetTheorems, NaturalsInduction,
        WellFoundedInduction, TLAPS

-----------------------------------------------------------------------------
(* Least and greatest elements                                             *)

LEMMA Least ==
    ASSUME NEW S \in SUBSET Nat, S # {}
    PROVE  Min(S) \in S /\ \A k \in S : Min(S) <= k
<1> DEFINE Less == OpToRel(<, Nat)
<1>1. IsWellFoundedOn(Less, Nat)
  BY NatLessThanWellFounded
<1>2. \A j, k \in Nat : j < k => <<j, k>> \in Less
  BY DEF OpToRel
<1> HIDE DEF Less
<1>3. PICK m \in S : \A k \in S : ~(<<k, m>> \in Less)
  BY <1>1, WFMin
<1>4. \A k \in S : ~(k < m)
  BY <1>2, <1>3
<1>5. \E x \in S : \A y \in S : x <= y
  BY <1>4
<1> QED BY <1>5 DEF Min

LEMMA Greatest ==
    ASSUME NEW S \in SUBSET Nat, S # {}, NEW n \in Nat, \A k \in S : k <= n
    PROVE  Max(S) \in S /\ \A k \in S : k <= Max(S)
<1> DEFINE T == {n - k : k \in S}
<1>0. \A k \in S : k \in Nat /\ n - k \in Nat
  OBVIOUS
<1>1. T \in SUBSET Nat /\ T # {}
  BY <1>0
<1>2. PICK m \in T : \A k \in T : m <= k
  <2> HIDE DEF T
  <2> QED BY <1>1, Least
<1>3. PICK x \in S : m = n - x
  BY <1>2
<1>4. \A y \in S : x >= y
  <2>1. \A y \in S : n - x <= n - y
    BY <1>2, <1>3
  <2> QED BY <1>0, <2>1
<1>5. \E z \in S : \A y \in S : z >= y
  BY <1>4
<1>6. Max(S) \in S /\ \A y \in S : Max(S) >= y
  BY <1>5 DEF Max
<1> QED BY <1>6

-----------------------------------------------------------------------------
(* Sequences that are made longer                                          *)

LEMMA AppendFacts ==
    ASSUME NEW S, NEW s \in Seq(S), NEW e \in S
    PROVE  /\ Append(s, e) \in Seq(S) /\ Len(s) \in Nat /\ Len(Append(s, e)) = Len(s) + 1
           /\ DOMAIN s = 1..Len(s) /\ DOMAIN Append(s, e) = 1 .. Len(s) + 1
           /\ Append(s, e)[Len(s) + 1] = e /\ \A k \in 1..Len(s) : Append(s, e)[k] = s[k]
OBVIOUS

\* Values of a function that are appended one by one
LEMMA OneMore ==
    ASSUME NEW f, NEW n \in Nat, NEW s, s = [j \in 1..n |-> f[j]]
    PROVE  Append(s, f[n + 1]) = [j \in 1 .. n + 1 |-> f[j]]
<1> DEFINE S == {f[j] : j \in 1 .. n + 1}
           t == Append(s, f[n + 1])
<1>1. s \in Seq(S) /\ Len(s) = n /\ f[n + 1] \in S /\ \A k \in 1..n : s[k] = f[k]
  OBVIOUS
<1> HIDE DEF S
<1>2. /\ t \in Seq(S) /\ DOMAIN t = 1 .. n + 1 /\ t[n + 1] = f[n + 1]
      /\ \A k \in 1..n : t[k] = s[k]
  BY <1>1, AppendFacts
<1> HIDE DEF t
<1>3. t = [k \in 1 .. n + 1 |-> t[k]]
  BY <1>2
<1>4. \A k \in 1 .. n + 1 : t[k] = f[k]
  BY <1>1, <1>2
<1> QED BY <1>3, <1>4 DEF t

-----------------------------------------------------------------------------
(* FlattenSeq.  Its recursive function exists and is unique, by the least  *)
(* number for which it is not so.                                          *)

IsFlatten(s, n, g) == g = [k \in 1..n |-> IF k = 1 THEN s[k] ELSE g[k - 1] \o s[k]]

LEMMA FlattenUnique ==
    ASSUME NEW s, NEW n \in Nat, NEW m \in Nat, n <= m, NEW g, NEW h,
           IsFlatten(s, n, g), IsFlatten(s, m, h)
    PROVE  \A k \in 1..n : g[k] = h[k]
<1> DEFINE D == {k \in 1..n : g[k] # h[k]}
<1>1. SUFFICES ASSUME D # {} PROVE FALSE
  OBVIOUS
<1>2. PICK k \in D : \A j \in D : k <= j
  <2>1. D \in SUBSET Nat
    OBVIOUS
  <2> HIDE DEF D
  <2> QED BY <1>1, <2>1, Least
<1>3. k \in 1..n /\ k \in 1..m /\ g[k] # h[k]
  BY <1>2
<1>4. /\ g[k] = IF k = 1 THEN s[k] ELSE g[k - 1] \o s[k]
      /\ h[k] = IF k = 1 THEN s[k] ELSE h[k - 1] \o s[k]
  BY <1>3 DEF IsFlatten
<1>5. k # 1 => g[k - 1] = h[k - 1]
  BY <1>2, <1>3
<1> QED BY <1>3, <1>4, <1>5

LEMMA FlattenExtends ==
    ASSUME NEW s, NEW n \in Nat, NEW g, IsFlatten(s, n, g)
    PROVE  LET v == IF n = 0 THEN s[1] ELSE g[n] \o s[n + 1]
               h == [k \in 1 .. n + 1 |-> IF k = n + 1 THEN v ELSE g[k]]
           IN  IsFlatten(s, n + 1, h) /\ h[n + 1] = v
<1> DEFINE v == IF n = 0 THEN s[1] ELSE g[n] \o s[n + 1]
           h == [k \in 1 .. n + 1 |-> IF k = n + 1 THEN v ELSE g[k]]
<1>1. n + 1 \in 1 .. n + 1 /\ (n + 1) - 1 = n
  OBVIOUS
<1>2. h[n + 1] = v
  BY <1>1
<1>3. \A k \in 1..n : k \in 1 .. n + 1 /\ k # n + 1 /\ h[k] = g[k]
  <2>1. \A k \in 1..n : k \in 1 .. n + 1 /\ k # n + 1
    OBVIOUS
  <2> QED BY <2>1
<1>4. ASSUME NEW k \in 1 .. n + 1
      PROVE  h[k] = IF k = 1 THEN s[k] ELSE h[k - 1] \o s[k]
  <2>1. CASE k = n + 1
    <3>1. n # 0 => n \in 1..n /\ h[n] = g[n] /\ k - 1 = n /\ k # 1
      BY <1>3, <2>1
    <3>2. n = 0 => k = 1
      BY <2>1
    <3> HIDE DEF h
    <3> QED BY <1>2, <2>1, <3>1, <3>2
  <2>2. CASE k # n + 1
    <3>1. k \in 1..n /\ (k # 1 => k - 1 \in 1..n)
      BY <2>2
    <3>2. g[k] = IF k = 1 THEN s[k] ELSE g[k - 1] \o s[k]
      BY <3>1 DEF IsFlatten
    <3>3. h[k] = g[k] /\ (k # 1 => h[k - 1] = g[k - 1])
      BY <1>3, <3>1
    <3> HIDE DEF h
    <3> QED BY <3>2, <3>3
  <2> QED BY <2>1, <2>2
<1>5. h = [k \in 1 .. n + 1 |-> h[k]]
  OBVIOUS
<1> HIDE DEF h
<1>6. h = [k \in 1 .. n + 1 |-> IF k = 1 THEN s[k] ELSE h[k - 1] \o s[k]]
  BY <1>4, <1>5
<1>7. IsFlatten(s, n + 1, h)
  BY <1>6 DEF IsFlatten
<1> QED BY <1>2, <1>7 DEF h

LEMMA FlattenExists ==
    ASSUME NEW s
    PROVE  \A n \in Nat : \E g : IsFlatten(s, n, g)
<1> DEFINE D == {n \in Nat : ~\E g : IsFlatten(s, n, g)}
<1>1. SUFFICES ASSUME D # {} PROVE FALSE
  OBVIOUS
<1>2. PICK n \in D : \A j \in D : n <= j
  <2>1. D \in SUBSET Nat
    OBVIOUS
  <2> HIDE DEF D
  <2> QED BY <1>1, <2>1, Least
<1>3. n \in Nat /\ ~\E g : IsFlatten(s, n, g)
  BY <1>2
<1>4. CASE n = 0
  <2> DEFINE g == [k \in 1..0 |-> s[k]]
  <2>1. g = [k \in 1..0 |-> IF k = 1 THEN s[k] ELSE g[k - 1] \o s[k]]
    OBVIOUS
  <2>2. IsFlatten(s, 0, g)
    <3> HIDE DEF g
    <3> QED BY <2>1 DEF IsFlatten
  <2> QED BY <1>3, <1>4, <2>2
<1>5. CASE n # 0
  <2>1. n - 1 \in Nat /\ n - 1 \notin D /\ (n - 1) + 1 = n
    BY <1>2, <1>3, <1>5
  <2>2. PICK g : IsFlatten(s, n - 1, g)
    BY <2>1
  <2>3. \E h : IsFlatten(s, (n - 1) + 1, h)
    BY <2>1, <2>2, FlattenExtends
  <2> QED BY <1>3, <2>1, <2>3
<1> QED BY <1>4, <1>5

LEMMA FlattenIs ==
    ASSUME NEW s, Len(s) \in Nat \ {0}, NEW g, IsFlatten(s, Len(s), g)
    PROVE  FlattenSeq(s) = g[Len(s)]
<1> DEFINE c == CHOOSE x : IsFlatten(s, Len(s), x)
<1>1. IsFlatten(s, Len(s), c)
  OBVIOUS
<1>2. FlattenSeq(s) = c[Len(s)]
  BY DEF FlattenSeq, IsFlatten
<1> HIDE DEF c
<1>3. \A k \in 1..Len(s) : c[k] = g[k]
  BY <1>1, FlattenUnique
<1> QED BY <1>2, <1>3

\* A sequence that is added is appended to what the others make.
LEMMA FlattenAppend ==
    ASSUME NEW T, NEW s \in Seq(Seq(T)), NEW e \in Seq(T)
    PROVE  FlattenSeq(Append(s, e)) = FlattenSeq(s) \o e
<1> DEFINE t == Append(s, e)
           n == Len(s)
<1>1. /\ n \in Nat /\ Len(t) = n + 1 /\ t[n + 1] = e /\ \A k \in 1..n : t[k] = s[k]
  BY AppendFacts
<1>2. PICK g : IsFlatten(t, n, g)
  BY <1>1, FlattenExists
<1> HIDE DEF t, n
<1> DEFINE v == IF n = 0 THEN t[1] ELSE g[n] \o t[n + 1]
<1>3. FlattenSeq(t) = v
  <2>1. PICK h : IsFlatten(t, n + 1, h) /\ h[n + 1] = v
    BY <1>1, <1>2, FlattenExtends
  <2> HIDE DEF v
  <2>2. Len(t) \in Nat \ {0} /\ IsFlatten(t, Len(t), h)
    BY <1>1, <2>1
  <2> QED BY <1>1, <2>1, <2>2, FlattenIs
<1>4. CASE n = 0
  <2>1. FlattenSeq(s) = s /\ s = << >>
    BY <1>4 DEF FlattenSeq, n
  <2>2. << >> \o e = e
    OBVIOUS
  <2> QED BY <1>1, <1>3, <1>4, <2>1, <2>2 DEF t
<1>5. CASE n # 0
  <2>1. IsFlatten(s, n, g)
    <3>1. [k \in 1..n |-> IF k = 1 THEN t[k] ELSE g[k - 1] \o t[k]]
            = [k \in 1..n |-> IF k = 1 THEN s[k] ELSE g[k - 1] \o s[k]]
      BY <1>1
    <3> QED BY <1>2, <3>1 DEF IsFlatten
  <2>2. FlattenSeq(s) = g[n]
    BY <1>1, <1>5, <2>1, FlattenIs DEF n
  <2> QED BY <1>1, <1>3, <1>5, <2>2 DEF t
<1> QED BY <1>4, <1>5

-----------------------------------------------------------------------------
(* Folds.  A fold takes from each set the element that f gives.            *)

Picks(f, S) == \A s \in SUBSET S : s # {} => f[s] \in s

IsFold(S, f, base, op, h) ==
    \A s \in SUBSET S : h[s] = IF s = {} THEN base ELSE op[h[s \ {f[s]}]][f[s]]

\* A typed step makes a fold of any finite set, and its values keep the type.
LEMMA FoldExists ==
    ASSUME NEW S, IsFiniteSet(S), NEW f, Picks(f, S),
           NEW A, NEW base \in A, NEW op \in [A -> [S -> A]]
    PROVE  \E h \in [SUBSET S -> A] : IsFold(S, f, base, op, h)
<1> DEFINE C(n) == {s \in SUBSET S : Cardinality(s) <= n}
           Ok(n, h) == h \in [C(n) -> A] /\
                       \A s \in C(n) : h[s] = IF s = {} THEN base ELSE op[h[s \ {f[s]}]][f[s]]
           D == {n \in Nat : ~\E h : Ok(n, h)}
<1>1. \A s \in SUBSET S : IsFiniteSet(s) /\ Cardinality(s) \in Nat /\ (Cardinality(s) = 0 <=> s = {})
  BY FS_Subset, FS_CardinalityType, FS_EmptySet
<1>2. ASSUME NEW s \in SUBSET S, s # {}
      PROVE  s \ {f[s]} \in SUBSET S /\ Cardinality(s \ {f[s]}) = Cardinality(s) - 1 /\ f[s] \in S
  <2>1. f[s] \in s /\ IsFiniteSet(s)
    BY <1>1, <1>2 DEF Picks
  <2> QED BY <2>1, FS_RemoveElement
<1>3. ASSUME NEW n \in Nat, NEW s \in C(n), s # {}
      PROVE  n - 1 \in Nat /\ s \ {f[s]} \in C(n - 1) /\ s \ {f[s]} \in C(n) /\ f[s] \in S
  <2>1. s \in SUBSET S /\ Cardinality(s) <= n /\ Cardinality(s) \in Nat /\ Cardinality(s) # 0
    BY <1>1, <1>3
  <2> DEFINE r == s \ {f[s]}
  <2>2. r \in SUBSET S /\ Cardinality(r) = Cardinality(s) - 1 /\ f[s] \in S
    BY <1>2, <1>3, <2>1
  <2> HIDE DEF r
  <2>3. r \in C(n - 1) /\ r \in C(n) /\ n - 1 \in Nat
    BY <2>1, <2>2
  <2> QED BY <2>2, <2>3 DEF r
<1>4. D = {}
  <2> SUFFICES ASSUME D # {} PROVE FALSE
    OBVIOUS
  <2>1. PICK n \in D : \A j \in D : n <= j
    <3>1. D \in SUBSET Nat
      OBVIOUS
    <3> HIDE DEF D
    <3> QED BY <3>1, Least
  <2>2. n \in Nat /\ ~\E h : Ok(n, h)
    OBVIOUS
  <2>3. CASE n = 0
    <3> DEFINE h == [s \in C(n) |-> base]
    <3>1. ASSUME NEW s \in C(n) PROVE s = {}
      <4>1. s # {} => n - 1 \in Nat
        BY <1>3, <2>2
      <4>2. ~(n - 1 \in Nat)
        BY <2>3
      <4> QED BY <4>1, <4>2
    <3>2. Ok(n, h)
      BY <3>1
    <3> QED BY <2>2, <3>2
  <2>4. CASE n # 0
    <3>1. n - 1 \in Nat /\ n - 1 \notin D
      <4> HIDE DEF D
      <4> QED BY <2>1, <2>2, <2>4
    <3>2. PICK g : Ok(n - 1, g)
      BY <3>1
    <3> DEFINE h == [s \in C(n) |-> IF s = {} THEN base ELSE op[g[s \ {f[s]}]][f[s]]]
    <3>3. ASSUME NEW s \in C(n - 1) PROVE s \in C(n) /\ h[s] = g[s]
      <4>1. Cardinality(s) \in Nat /\ s \in SUBSET S /\ Cardinality(s) <= n - 1
        BY <1>1
      <4>2. s \in C(n)
        BY <2>2, <4>1
      <4>3. g[s] = IF s = {} THEN base ELSE op[g[s \ {f[s]}]][f[s]]
        BY <3>2
      <4> QED BY <4>2, <4>3
    <3>4. ASSUME NEW s \in C(n)
          PROVE  h[s] \in A /\ h[s] = IF s = {} THEN base ELSE op[h[s \ {f[s]}]][f[s]]
      <4>1. CASE s = {}
        BY <4>1
      <4>2. CASE s # {}
        <5> DEFINE r == s \ {f[s]}
        <5>1. r \in C(n - 1) /\ f[s] \in S
          BY <1>3, <2>2, <4>2
        <5>2. h[s] = op[g[r]][f[s]] /\ g[r] \in A
          BY <3>2, <4>2, <5>1
        <5>3. h[r] = g[r]
          BY <3>3, <5>1
        <5>4. op[g[r]][f[s]] \in A
          <6>1. op[g[r]] \in [S -> A]
            BY <5>2
          <6> QED BY <5>1, <6>1
        <5> HIDE DEF h, r
        <5>5. h[s] \in A /\ h[s] = op[h[r]][f[s]]
          BY <5>2, <5>3, <5>4
        <5> QED BY <4>2, <5>5 DEF r
      <4> QED BY <4>1, <4>2
    <3>5. h \in [C(n) -> A]
      BY <3>4
    <3> HIDE DEF h
    <3>6. Ok(n, h)
      BY <3>4, <3>5
    <3> QED BY <2>2, <3>6
  <2> QED BY <2>3, <2>4
<1> DEFINE m == Cardinality(S)
<1>5. m \in Nat /\ C(m) = SUBSET S
  <2>1. m \in Nat
    BY FS_CardinalityType
  <2>2. \A s \in SUBSET S : Cardinality(s) <= m
    BY FS_Subset
  <2> QED BY <2>1, <2>2
<1> HIDE DEF C, m
<1>6. \E h : Ok(m, h)
  BY <1>4, <1>5
<1> QED BY <1>5, <1>6 DEF IsFold

-----------------------------------------------------------------------------
(* Sums over a set, and folds over a sequence                              *)

One(s) == CHOOSE x \in s : TRUE

LEMMA OneIs == \A s : s # {} => One(s) \in s
BY DEF One

IsSum(g, S, c) ==
    c = [s \in SUBSET S |-> IF s = {} THEN 0 ELSE g[One(s)] + c[s \ {One(s)}]]

LEMMA SumExists ==
    ASSUME NEW S, IsFiniteSet(S), NEW g \in [S -> Int]
    PROVE  \E c : IsSum(g, S, c)
<1> DEFINE f  == [s \in SUBSET S |-> One(s)]
           op == [n \in Int |-> [x \in S |-> g[x] + n]]
<1>1. Picks(f, S)
  BY OneIs DEF Picks
<1>2. op \in [Int -> [S -> Int]]
  <2>1. \A n \in Nat : [x \in S |-> g[x] + n] \in [S -> Int]
    OBVIOUS
  <2> QED BY <2>1
<1> HIDE DEF f, op
<1>3. PICK h \in [SUBSET S -> Int] : IsFold(S, f, 0, op, h)
  <2>1. 0 \in Int
    OBVIOUS
  <2> QED BY <1>1, <1>2, <2>1, FoldExists
<1>4. ASSUME NEW s \in SUBSET S
      PROVE  h[s] = IF s = {} THEN 0 ELSE g[One(s)] + h[s \ {One(s)}]
  <2>1. CASE s # {}
    <3>1. f[s] = One(s) /\ f[s] \in S /\ s \ {f[s]} \in SUBSET S
      BY <1>1, <2>1 DEF f, Picks
    <3>2. h[s \ {f[s]}] \in Int
      BY <3>1
    <3>3. op[h[s \ {f[s]}]][f[s]] = g[f[s]] + h[s \ {f[s]}]
      BY <3>1, <3>2 DEF op
    <3> QED BY <1>3, <2>1, <3>1, <3>3 DEF IsFold
  <2> QED BY <1>3, <2>1 DEF IsFold
<1>5. h = [s \in SUBSET S |-> h[s]]
  OBVIOUS
<1>6. h = [s \in SUBSET S |-> IF s = {} THEN 0 ELSE g[One(s)] + h[s \ {One(s)}]]
  BY <1>4, <1>5, Zenon
<1> QED BY <1>6 DEF IsSum

\* A sum of numbers is a number, 0 if they all are.
LEMMA SumFacts ==
    ASSUME NEW S, IsFiniteSet(S), NEW g \in [S -> Nat], NEW c, IsSum(g, S, c)
    PROVE  c[S] \in Nat /\ ((\A x \in S : g[x] = 0) => c[S] = 0)
<1> DEFINE P(s) == c[s] \in Nat /\ ((\A x \in S : g[x] = 0) => c[s] = 0)
           D == {Cardinality(s) : s \in {z \in SUBSET S : ~P(z)}}
<1>1. \A s \in SUBSET S : IsFiniteSet(s) /\ Cardinality(s) \in Nat
  BY FS_Subset, FS_CardinalityType
<1>2. \A s \in SUBSET S : P(s)
  <2> SUFFICES ASSUME D # {} PROVE FALSE
    OBVIOUS
  <2>1. PICK n \in D : \A j \in D : n <= j
    <3>1. D \in SUBSET Nat
      BY <1>1
    <3> HIDE DEF D
    <3> QED BY <3>1, Least
  <2>2. PICK s \in SUBSET S : ~P(s) /\ n = Cardinality(s)
    OBVIOUS
  <2>3. c[s] = IF s = {} THEN 0 ELSE g[One(s)] + c[s \ {One(s)}]
    BY DEF IsSum
  <2>4. s # {}
    BY <2>2, <2>3
  <2> DEFINE r == s \ {One(s)}
  <2>5. One(s) \in S /\ r \in SUBSET S /\ Cardinality(r) = Cardinality(s) - 1
    BY <1>1, <2>4, OneIs, FS_RemoveElement
  <2>6. P(r)
    <3> HIDE DEF r
    <3>1. Cardinality(r) < n /\ Cardinality(r) \in Nat
      BY <1>1, <2>2, <2>5
    <3>2. Cardinality(r) \notin D
      <4> HIDE DEF D
      <4> QED BY <1>1, <2>1, <2>2, <3>1
    <3> HIDE DEF P
    <3> QED BY <2>5, <3>2
  <2>7. g[One(s)] \in Nat /\ c[s] = g[One(s)] + c[r]
    BY <2>3, <2>4, <2>5
  <2> HIDE DEF r
  <2> QED BY <2>2, <2>5, <2>6, <2>7
<1> QED BY <1>2

\* The first numbers, from which a fold takes the greatest
LEMMA FirstNumbers ==
    ASSUME NEW n \in Nat
    PROVE  /\ \A s \in SUBSET (1..n) : s # {} => Max(s) \in s
           /\ \A k \in 1..n : 1..k \in SUBSET (1..n) /\ 1..k # {} /\ Max(1..k) = k
                              /\ (1..k) \ {k} = 1 .. k - 1
<1>1. ASSUME NEW s \in SUBSET (1..n), s # {} PROVE Max(s) \in s
  <2>1. s \in SUBSET Nat /\ \A k \in s : k <= n
    OBVIOUS
  <2> QED BY <1>1, <2>1, Greatest
<1>2. ASSUME NEW k \in 1..n
      PROVE  1..k \in SUBSET (1..n) /\ 1..k # {} /\ Max(1..k) = k /\ (1..k) \ {k} = 1 .. k - 1
  <2>1. k \in 1..k /\ 1..k \in SUBSET (1..n) /\ k \in Nat
    OBVIOUS
  <2>2. 1..k \in SUBSET Nat /\ 1..k # {} /\ \A j \in 1..k : j <= k
    BY <2>1
  <2>3. Max(1..k) \in 1..k /\ \A j \in 1..k : j <= Max(1..k)
    BY <2>1, <2>2, Greatest
  <2>4. Max(1..k) = k
    BY <2>1, <2>3
  <2>5. (1..k) \ {k} = 1 .. k - 1
    OBVIOUS
  <2> QED BY <2>1, <2>4, <2>5
<1> QED BY <1>1, <1>2

\* What is built up from the empty set, one element after the other, are all
\* subsets of a finite set.
LEMMA BuiltUp ==
    ASSUME NEW S, IsFiniteSet(S), NEW f, Picks(f, S),
           NEW G, {} \in G, \A s \in SUBSET S : s # {} /\ s \ {f[s]} \in G => s \in G
    PROVE  \A s \in SUBSET S : s \in G
<1> DEFINE D == {Cardinality(s) : s \in {z \in SUBSET S : z \notin G}}
<1>1. \A s \in SUBSET S : IsFiniteSet(s) /\ Cardinality(s) \in Nat
  BY FS_Subset, FS_CardinalityType
<1>2. SUFFICES ASSUME D # {} PROVE FALSE
  OBVIOUS
<1>3. PICK n \in D : \A j \in D : n <= j
  <2>1. D \in SUBSET Nat
    BY <1>1
  <2> HIDE DEF D
  <2> QED BY <1>2, <2>1, Least
<1>4. PICK s \in SUBSET S : s \notin G /\ n = Cardinality(s)
  OBVIOUS
<1> DEFINE r == s \ {f[s]}
<1>5. s # {} /\ r \in SUBSET S /\ r \notin G
  BY <1>4
<1>6. Cardinality(r) = Cardinality(s) - 1
  BY <1>1, <1>5, FS_RemoveElement DEF Picks
<1>7. Cardinality(r) \in D
  BY <1>5
<1> HIDE DEF r, D
<1> QED BY <1>1, <1>3, <1>4, <1>5, <1>6, <1>7

LEMMA GreatestOfFinite ==
    ASSUME NEW S \in SUBSET Int, IsFiniteSet(S), S # {}
    PROVE  Max(S) \in S /\ \A k \in S : k <= Max(S)
<1> DEFINE f == [s \in SUBSET S |-> One(s)]
           G == {s \in SUBSET S : s # {} => \E x \in s : \A y \in s : x >= y}
<1>1. Picks(f, S)
  BY OneIs DEF Picks
<1>2. {} \in G
  OBVIOUS
<1>3. ASSUME NEW s \in SUBSET S, s # {}, s \ {f[s]} \in G PROVE s \in G
  <2> DEFINE e == f[s]
             r == s \ {e}
  <2>1. e \in s /\ e \in Int
    BY <1>1, <1>3 DEF Picks
  <2> HIDE DEF e
  <2>2. CASE r = {}
    <3>1. \A y \in s : e >= y
      BY <2>1, <2>2
    <3> QED BY <2>1, <3>1
  <2>3. CASE r # {}
    <3>1. PICK x \in r : \A y \in r : x >= y
      BY <1>3, <2>3 DEF e
    <3>2. CASE e >= x
      <4>1. \A y \in s : e >= y
        BY <2>1, <3>1, <3>2
      <4> QED BY <2>1, <4>1
    <3>3. CASE ~(e >= x)
      <4>1. \A y \in s : x >= y
        BY <2>1, <3>1, <3>3
      <4> QED BY <3>1, <4>1
    <3> QED BY <3>2, <3>3
  <2> QED BY <2>2, <2>3
<1> HIDE DEF G, f
<1>4. S \in G
  BY <1>1, <1>2, <1>3, BuiltUp
<1>5. \E x \in S : \A y \in S : x >= y
  BY <1>4 DEF G
<1>6. Max(S) \in S /\ \A y \in S : Max(S) >= y
  BY <1>5 DEF Max
<1> QED BY <1>6

\* A fold over the first numbers, and its values after each of them.  The second
\* lemma is about any function that is such a fold as long as its values have
\* the type.
FoldsNumbers(n, A, base, op, h) ==
    \A z \in SUBSET (1..n) :
        /\ h[z] = IF z = {} THEN base ELSE op[h[z \ {Max(z)}]][Max(z)]
        /\ z # {} => Max(z) \in 1..n /\ h[z \ {Max(z)}] \in A

FoldsTyped(n, A, base, op, c) ==
    /\ c[{}] = base
    /\ \A z \in SUBSET (1..n) :
          z # {} /\ c[z \ {Max(z)}] \in A => c[z] = op[c[z \ {Max(z)}]][Max(z)]

Steps(n, base, op, v, end) == v[0] = base /\ v[n] = end /\ \A k \in 1..n : v[k] = op[v[k - 1]][k]

LEMMA NumbersFold ==
    ASSUME NEW n \in Nat, NEW A, NEW base \in A, NEW op \in [A -> [1..n -> A]]
    PROVE  \E h \in [SUBSET (1..n) -> A] : FoldsNumbers(n, A, base, op, h)
<1> DEFINE S == 1..n
           f == [z \in SUBSET S |-> Max(z)]
<1>1. \A z \in SUBSET S : f[z] = Max(z) /\ (z # {} => Max(z) \in z /\ Max(z) \in S /\ z \ {Max(z)} \in SUBSET S)
  <2>1. \A z \in SUBSET S : z # {} => Max(z) \in z
    BY FirstNumbers
  <2> QED BY <2>1
<1>2. Picks(f, S)
  BY <1>1 DEF Picks
<1>3. IsFiniteSet(S)
  BY FS_Interval
<1> HIDE DEF S, f
<1>4. op \in [A -> [S -> A]]
  BY DEF S
<1>5. PICK h \in [SUBSET S -> A] : IsFold(S, f, base, op, h)
  BY <1>2, <1>3, <1>4, FoldExists
<1>6. ASSUME NEW z \in SUBSET S
      PROVE  /\ h[z] = IF z = {} THEN base ELSE op[h[z \ {Max(z)}]][Max(z)]
             /\ z # {} => Max(z) \in S /\ h[z \ {Max(z)}] \in A
  <2>1. h[z] = IF z = {} THEN base ELSE op[h[z \ {f[z]}]][f[z]]
    BY <1>5 DEF IsFold
  <2> QED BY <1>1, <2>1
<1> QED BY <1>6 DEF S, FoldsNumbers

LEMMA FoldSteps ==
    ASSUME NEW n \in Nat, NEW A, NEW base \in A, NEW op \in [A -> [1..n -> A]], NEW c,
           FoldsTyped(n, A, base, op, c)
    PROVE  \E v \in [0..n -> A] : Steps(n, base, op, v, c[1..n])
<1> DEFINE D == {k \in 0..n : c[1..k] \notin A}
<1>1. ASSUME NEW k \in 1..n, c[1 .. k - 1] \in A
      PROVE  c[1..k] = op[c[1 .. k - 1]][k] /\ c[1..k] \in A
  <2>1. /\ 1..k \in SUBSET (1..n) /\ 1..k # {} /\ Max(1..k) = k /\ (1..k) \ {k} = 1 .. k - 1
    BY FirstNumbers
  <2>2. c[1..k] = op[c[1 .. k - 1]][k]
    BY <1>1, <2>1 DEF FoldsTyped
  <2>3. op[c[1 .. k - 1]] \in [1..n -> A]
    BY <1>1
  <2> QED BY <2>2, <2>3
<1>2. c[1..0] = base
  <2>1. 1..0 = {}
    OBVIOUS
  <2> QED BY <2>1 DEF FoldsTyped
<1>3. D = {}
  <2> SUFFICES ASSUME D # {} PROVE FALSE
    OBVIOUS
  <2>1. PICK k \in D : \A j \in D : k <= j
    <3>1. D \in SUBSET Nat
      OBVIOUS
    <3> HIDE DEF D
    <3> QED BY <3>1, Least
  <2>2. k \in 0..n /\ c[1..k] \notin A
    OBVIOUS
  <2>3. k \in 1..n
    BY <1>2, <2>2
  <2>4. c[1 .. k - 1] \in A
    <3>1. k - 1 \in 0..n /\ ~(k <= k - 1)
      BY <2>3
    <3>2. k - 1 \notin D
      <4> HIDE DEF D
      <4> QED BY <2>1, <3>1
    <3> QED BY <3>1, <3>2
  <2> QED BY <1>1, <2>2, <2>3, <2>4
<1> DEFINE v == [k \in 0..n |-> c[1..k]]
<1>4. v \in [0..n -> A]
  BY <1>3
<1>5. v[0] = base /\ v[n] = c[1..n]
  BY <1>2
<1>6. ASSUME NEW k \in 1..n PROVE v[k] = op[v[k - 1]][k]
  <2>1. k \in 0..n /\ k - 1 \in 0..n
    OBVIOUS
  <2>2. c[1 .. k - 1] \in A
    BY <1>3, <2>1
  <2>3. c[1..k] = op[c[1 .. k - 1]][k]
    BY <1>1, <2>2
  <2> QED BY <2>1, <2>3
<1> HIDE DEF v
<1> QED BY <1>4, <1>5, <1>6 DEF Steps

-----------------------------------------------------------------------------
(* Sums of integers                                                        *)

\* What holds for 0 and for the next number holds for all of them.
LEMMA CountedUp ==
    ASSUME NEW n \in Nat, NEW G, 0 \in G, \A k \in 0 .. n - 1 : k \in G => k + 1 \in G
    PROVE  \A k \in 0..n : k \in G
<1> DEFINE D == {k \in 0..n : k \notin G}
<1>1. SUFFICES ASSUME D # {} PROVE FALSE
  OBVIOUS
<1>2. PICK m \in D : \A k \in D : m <= k
  <2>1. D \in SUBSET Nat
    OBVIOUS
  <2> HIDE DEF D
  <2> QED BY <1>1, <2>1, Least
<1>3. m \in 1..n /\ m - 1 \in 0 .. n - 1 /\ m - 1 \notin D
  <2>1. m \in 1..n
    OBVIOUS
  <2>2. m - 1 \in 0 .. n - 1 /\ ~(m <= m - 1)
    BY <2>1
  <2> HIDE DEF D
  <2> QED BY <1>2, <2>1, <2>2
<1>4. (m - 1) + 1 \in G
  BY <1>3
<1> QED BY <1>3, <1>4

LEMMA AnySumTyped ==
    ASSUME NEW S, IsFiniteSet(S), NEW g \in [S -> Int], NEW c, IsSum(g, S, c)
    PROVE  \A r \in SUBSET S : c[r] \in Int
<1> DEFINE f == [r \in SUBSET S |-> One(r)]
           G == {r \in SUBSET S : c[r] \in Int}
<1>1. Picks(f, S) /\ \A r \in SUBSET S : r # {} => f[r] = One(r) /\ One(r) \in S
  BY OneIs DEF Picks
<1>2. \A r \in SUBSET S : c[r] = IF r = {} THEN 0 ELSE g[One(r)] + c[r \ {One(r)}]
  BY DEF IsSum
<1>3. {} \in G
  BY <1>2
<1>4. ASSUME NEW r \in SUBSET S, r # {}, r \ {f[r]} \in G PROVE r \in G
  <2>1. c[r] = g[One(r)] + c[r \ {One(r)}] /\ g[One(r)] \in Int /\ c[r \ {One(r)}] \in Int
    BY <1>1, <1>2, <1>4
  <2> QED BY <2>1
<1> HIDE DEF f, G
<1>5. \A r \in SUBSET S : r \in G
  BY <1>1, <1>3, <1>4, BuiltUp
<1> QED BY <1>5 DEF G

\* The elements may be added in any order.
InAnyOrder(g, S, c) == \A r \in SUBSET S : \A x \in r : c[r] = g[x] + c[r \ {x}]

LEMMA AnyOrder ==
    ASSUME NEW S, IsFiniteSet(S), NEW g \in [S -> Int], NEW c, IsSum(g, S, c)
    PROVE  InAnyOrder(g, S, c)
<1> DEFINE Ok(r) == \A x \in r : c[r] = g[x] + c[r \ {x}]
           D == {Cardinality(r) : r \in {z \in SUBSET S : ~Ok(z)}}
<1>1. \A r \in SUBSET S : IsFiniteSet(r) /\ Cardinality(r) \in Nat
  BY FS_Subset, FS_CardinalityType
<1>2. SUFFICES ASSUME D # {} PROVE FALSE
  BY DEF InAnyOrder
<1>3. PICK n \in D : \A k \in D : n <= k
  <2>1. D \in SUBSET Nat
    BY <1>1
  <2> HIDE DEF D
  <2> QED BY <1>2, <2>1, Least
<1>4. PICK r \in SUBSET S : ~Ok(r) /\ n = Cardinality(r)
  OBVIOUS
<1>5. PICK x \in r : c[r] # g[x] + c[r \ {x}]
  BY <1>4
<1> DEFINE y == One(r)
<1>6. y \in r /\ c[r] = g[y] + c[r \ {y}]
  BY <1>5, OneIs DEF IsSum
<1> HIDE DEF y
<1>7. x # y
  BY <1>5, <1>6
<1>8. ASSUME NEW e \in r PROVE Ok(r \ {e})
  <2> DEFINE t == r \ {e}
  <2>1. t \in SUBSET S /\ Cardinality(t) = Cardinality(r) - 1
    BY <1>1, FS_RemoveElement
  <2>2. Cardinality(t) \notin D
    <3>1. Cardinality(t) \in Nat /\ Cardinality(r) \in Nat
      BY <1>1, <2>1
    <3>2. ~(n <= Cardinality(t))
      BY <1>4, <2>1, <3>1
    <3> HIDE DEF D, t
    <3> QED BY <1>3, <3>2
  <2> HIDE DEF Ok
  <2> QED BY <2>1, <2>2
<1>9. c[r \ {y}] = g[x] + c[(r \ {y}) \ {x}]
  BY <1>6, <1>7, <1>8
<1>10. c[r \ {x}] = g[y] + c[(r \ {x}) \ {y}]
  BY <1>6, <1>7, <1>8
<1>11. (r \ {y}) \ {x} = (r \ {x}) \ {y} /\ (r \ {x}) \ {y} \in SUBSET S
  OBVIOUS
<1>12. g[x] \in Int /\ g[y] \in Int /\ c[(r \ {x}) \ {y}] \in Int
  BY <1>6, <1>11, AnySumTyped
<1>13. c[r] = g[y] + (g[x] + c[(r \ {x}) \ {y}])
  BY <1>6, <1>9, <1>11
<1>14. g[x] + c[r \ {x}] = g[x] + (g[y] + c[(r \ {x}) \ {y}])
  BY <1>10
<1>15. \A a, b, e \in Int : a + (b + e) = b + (a + e)
  OBVIOUS
<1> QED BY <1>5, <1>12, <1>13, <1>14, <1>15

\* The sums of the first numbers of an array
Running(n, f, v) ==
    /\ v \in [0..n -> Int] /\ v[0] = 0
    /\ \A k \in 0 .. n - 1 : f[k] \in Int /\ v[k + 1] = v[k] + f[k]

\* g is the part of f from h on.
PartFrom(g, f, h, m) == \A k \in 0 .. m - 1 : g[k] = f[h + k]

\* A part of an array has the sums of the whole, from those before it on.
LEMMA RunningPart ==
    ASSUME NEW n \in Nat, NEW h \in Nat, NEW m \in Nat, h + m <= n, NEW f, NEW g, NEW v, NEW u,
           Running(n, f, v), Running(m, g, u), PartFrom(g, f, h, m)
    PROVE  \A k \in 0..m : v[h + k] = v[h] + u[k]
<1> DEFINE G == {k \in 0..m : v[h + k] = v[h] + u[k]}
<1>1. \A k \in 0..n : v[k] \in Int
  BY DEF Running
<1>2. \A k \in 0..m : u[k] \in Int /\ h + k \in 0..n
  BY DEF Running
<1>3. 0 \in G
  <2>1. h + 0 = h /\ h \in 0..n /\ u[0] = 0 /\ v[h] \in Int
    BY <1>1 DEF Running
  <2> QED BY <2>1
<1>4. ASSUME NEW k \in 0 .. m - 1, k \in G PROVE k + 1 \in G
  <2>1. h + k \in 0 .. n - 1 /\ k + 1 \in 0..m /\ k \in 0..m
    OBVIOUS
  <2>2. v[(h + k) + 1] = v[h + k] + f[h + k]
    BY <2>1 DEF Running
  <2>3. u[k + 1] = u[k] + g[k] /\ g[k] \in Int /\ g[k] = f[h + k]
    BY DEF Running, PartFrom
  <2>4. (h + k) + 1 = h + (k + 1)
    OBVIOUS
  <2>5. v[h + k] = v[h] + u[k] /\ v[h] \in Int /\ u[k] \in Int
    <3>1. h \in 0..n
      OBVIOUS
    <3> QED BY <1>1, <1>2, <1>4, <2>1, <3>1
  <2>6. v[h + (k + 1)] = v[h] + u[k + 1]
    <3>1. v[h + (k + 1)] = (v[h] + u[k]) + g[k]
      BY <2>2, <2>3, <2>4, <2>5
    <3> QED BY <2>3, <2>5, <3>1
  <2> QED BY <2>1, <2>6
<1> HIDE DEF G
<1>5. \A k \in 0..m : k \in G
  BY <1>3, <1>4, CountedUp
<1> QED BY <1>5 DEF G

\* Where an array has no negative elements, its sums grow; where it is zero they
\* stay as they are.
LEMMA RunningUp ==
    ASSUME NEW n \in Nat, NEW h \in Nat, NEW m \in Nat, h + m <= n, NEW f, NEW v, Running(n, f, v),
           \A k \in 0 .. m - 1 : f[h + k] >= 0
    PROVE  v[h] <= v[h + m] /\ v[h] \in Int /\ v[h + m] \in Int
<1> DEFINE G == {k \in 0..m : v[h] <= v[h + k]}
<1>1. \A k \in 0..n : v[k] \in Int
  BY DEF Running
<1>2. h \in 0..n /\ h + m \in 0..n /\ h + 0 = h
  OBVIOUS
<1>3. 0 \in G
  BY <1>1, <1>2
<1>4. ASSUME NEW k \in 0 .. m - 1, k \in G PROVE k + 1 \in G
  <2>1. h + k \in 0 .. n - 1 /\ k + 1 \in 0..m /\ h + k \in 0..n /\ (h + k) + 1 = h + (k + 1)
    OBVIOUS
  <2>2. v[(h + k) + 1] = v[h + k] + f[h + k] /\ f[h + k] \in Int
    BY <2>1 DEF Running
  <2>3. v[h] <= v[h + k] /\ v[h + k] \in Int /\ v[h] \in Int
    BY <1>1, <1>2, <1>4, <2>1
  <2>4. v[h] <= v[h + k] + f[h + k]
    BY <2>2, <2>3
  <2> QED BY <2>1, <2>2, <2>4
<1> HIDE DEF G
<1>5. \A k \in 0..m : k \in G
  BY <1>3, <1>4, CountedUp
<1>6. m \in G
  BY <1>5
<1> QED BY <1>1, <1>2, <1>6 DEF G

ZeroFrom(f, h, m) == \A k \in 0 .. m - 1 : f[h + k] = 0

LEMMA RunningZero ==
    ASSUME NEW n \in Nat, NEW h \in Nat, NEW m \in Nat, h + m <= n, NEW f, NEW v, Running(n, f, v),
           ZeroFrom(f, h, m)
    PROVE  v[h + m] = v[h] /\ v[h] \in Int
<1> DEFINE z == [k \in 0 .. m - 1 |-> 0]
           u == [k \in 0..m |-> 0]
<1>1. Running(m, z, u)
  BY DEF Running
<1>2. PartFrom(z, f, h, m)
  BY DEF ZeroFrom, PartFrom
<1>3. u[m] = 0 /\ m \in 0..m
  OBVIOUS
<1> HIDE DEF z, u
<1>4. v[h + m] = v[h] + u[m]
  BY <1>1, <1>2, <1>3, RunningPart
<1>5. v[h] \in Int
  <2>1. h \in 0..n
    OBVIOUS
  <2> QED BY <2>1 DEF Running
<1> QED BY <1>3, <1>4, <1>5

\* Sums of elements that lie between those of two others
LEMMA RunningBetween ==
    ASSUME NEW m \in Nat, NEW e, NEW p, NEW q, NEW v, NEW x, NEW y,
           Running(m, e, v), Running(m, p, x), Running(m, q, y),
           \A k \in 0 .. m - 1 : 2 * e[k] <= p[k] + q[k] /\ -(p[k] + q[k]) <= 2 * e[k]
    PROVE  /\ v[m] \in Int /\ x[m] \in Int /\ y[m] \in Int
           /\ 2 * v[m] <= x[m] + y[m] /\ -(x[m] + y[m]) <= 2 * v[m]
<1> DEFINE G == {k \in 0..m : 2 * v[k] <= x[k] + y[k] /\ -(x[k] + y[k]) <= 2 * v[k]}
<1>1. \A k \in 0..m : v[k] \in Int /\ x[k] \in Int /\ y[k] \in Int
  BY DEF Running
<1>2. 0 \in G
  <2>1. v[0] = 0 /\ x[0] = 0 /\ y[0] = 0
    BY DEF Running
  <2> QED BY <2>1
<1>3. ASSUME NEW k \in 0 .. m - 1, k \in G PROVE k + 1 \in G
  <2>1. k \in 0..m /\ k + 1 \in 0..m
    OBVIOUS
  <2>2. /\ v[k + 1] = v[k] + e[k] /\ x[k + 1] = x[k] + p[k] /\ y[k + 1] = y[k] + q[k]
        /\ e[k] \in Int /\ p[k] \in Int /\ q[k] \in Int
    BY DEF Running
  <2>3. v[k] \in Int /\ x[k] \in Int /\ y[k] \in Int
    BY <1>1, <2>1
  <2>4. 2 * v[k] <= x[k] + y[k] /\ -(x[k] + y[k]) <= 2 * v[k]
    BY <1>3
  <2>5. 2 * v[k + 1] <= x[k + 1] + y[k + 1] /\ -(x[k + 1] + y[k + 1]) <= 2 * v[k + 1]
    BY <2>2, <2>3, <2>4
  <2> QED BY <2>1, <2>5
<1> HIDE DEF G
<1>4. \A k \in 0..m : k \in G
  BY <1>2, <1>3, CountedUp
<1>5. m \in G /\ m \in 0..m
  BY <1>4
<1> QED BY <1>1, <1>5 DEF G

\* Twice a product is no more than the squares.
LEMMA TwiceProduct ==
    ASSUME NEW b \in Int, NEW d \in Int
    PROVE  /\ b * d \in Int /\ b * b \in Nat /\ d * d \in Nat
           /\ 2 * (b * d) <= b * b + d * d /\ -(b * b + d * d) <= 2 * (b * d)
<1>1. \A k \in Int : k * k >= 0 /\ k * k \in Int
  OBVIOUS
<1>2. (b - d) * (b - d) = b * b + d * d - 2 * (b * d)
  OBVIOUS
<1>3. (b + d) * (b + d) = b * b + d * d + 2 * (b * d)
  OBVIOUS
<1>4. (b - d) * (b - d) >= 0 /\ (b + d) * (b + d) >= 0
  BY <1>1
<1>5. b * b \in Nat /\ d * d \in Nat /\ b * d \in Int
  BY <1>1
<1> QED BY <1>2, <1>3, <1>4, <1>5

-----------------------------------------------------------------------------
(* Where the parts of a FlattenSeq are, and the sequence of a finite set   *)

LEMMA ConcatFacts ==
    ASSUME NEW S, NEW s \in Seq(S), NEW t \in Seq(S)
    PROVE  /\ s \o t \in Seq(S) /\ Len(s) \in Nat /\ Len(t) \in Nat
           /\ DOMAIN s = 1..Len(s) /\ DOMAIN t = 1..Len(t)
           /\ Len(s \o t) = Len(s) + Len(t) /\ DOMAIN (s \o t) = 1 .. Len(s) + Len(t)
           /\ \A k \in 1..Len(s) : (s \o t)[k] = s[k]
           /\ \A k \in 1..Len(t) : (s \o t)[Len(s) + k] = t[k]
OBVIOUS

LEMMA MoveHead ==
    ASSUME NEW S, NEW s \in Seq(S), NEW t \in Seq(S), t # << >>
    PROVE  /\ Head(t) \in S /\ Tail(t) \in Seq(S) /\ Append(s, Head(t)) \in Seq(S)
           /\ Append(s, Head(t)) \o Tail(t) = s \o t
<1> DEFINE e == Head(t)
           u == Tail(t)
           a == Append(s, e)
<1>1. /\ e \in S /\ u \in Seq(S) /\ Len(u) = Len(t) - 1 /\ e = t[1]
      /\ \A k \in 1..Len(u) : u[k] = t[k + 1]
  BY EmptySeq, HeadTailProperties
<1>2. Len(t) \in Nat \ {0} /\ Len(s) \in Nat
  BY EmptySeq
<1>3. a \in Seq(S) /\ Len(a) = Len(s) + 1 /\ a[Len(s) + 1] = e /\ \A k \in 1..Len(s) : a[k] = s[k]
  BY <1>1, AppendFacts
<1> HIDE DEF e, u, a
<1>7. /\ a \o u \in Seq(S) /\ Len(a \o u) = Len(a) + Len(u)
      /\ \A k \in 1..Len(a) : (a \o u)[k] = a[k]
      /\ \A k \in 1..Len(u) : (a \o u)[Len(a) + k] = u[k]
  <2>1. a \in Seq(S) /\ u \in Seq(S)
    BY <1>1, <1>3
  <2> QED BY <2>1, ConcatFacts
<1>4. /\ s \o t \in Seq(S) /\ Len(s \o t) = Len(s) + Len(t)
      /\ \A k \in 1..Len(s) : (s \o t)[k] = s[k]
      /\ \A k \in 1..Len(t) : (s \o t)[Len(s) + k] = t[k]
  BY ConcatFacts
<1>5. ASSUME NEW k \in 1 .. Len(s) + Len(t) PROVE (a \o u)[k] = (s \o t)[k]
  <2>1. CASE k <= Len(s)
    BY <1>2, <1>3, <1>4, <1>7, <2>1
  <2>2. CASE k = Len(s) + 1
    <3>1. k \in 1..Len(a) /\ 1 \in 1..Len(t)
      BY <1>2, <1>3, <2>2
    <3> QED BY <1>1, <1>3, <1>4, <1>7, <2>2, <3>1
  <2>3. CASE k > Len(s) + 1
    <3>1. /\ k - Len(a) \in 1..Len(u) /\ k - Len(s) \in 1..Len(t) /\ (k - Len(a)) + 1 = k - Len(s)
          /\ Len(a) + (k - Len(a)) = k /\ Len(s) + (k - Len(s)) = k
      BY <1>1, <1>2, <1>3, <2>3
    <3>2. (a \o u)[k] = u[k - Len(a)] /\ (s \o t)[k] = t[k - Len(s)]
      BY <1>4, <1>7, <3>1
    <3> QED BY <1>1, <3>1, <3>2
  <2>4. k \in Nat /\ Len(s) + 1 \in Nat
    BY <1>2
  <2>5. k <= Len(s) \/ k = Len(s) + 1 \/ k > Len(s) + 1
    BY <1>2, <2>4
  <2> QED BY <2>1, <2>2, <2>3, <2>5, Zenon
<1>6. a \o u = s \o t
  <2>1. Len(a \o u) = Len(s) + Len(t)
    BY <1>1, <1>2, <1>3, <1>7
  <2> QED BY <1>4, <1>5, <1>7, <2>1, SeqEqual
<1> QED BY <1>1, <1>3, <1>6 DEF a, e, u

InPlaces(s, F, b) ==
    /\ b \in [DOMAIN s -> Nat]
    /\ \A k \in DOMAIN s : \A n \in DOMAIN s[k] : b[k] + n \in DOMAIN F /\ F[b[k] + n] = s[k][n]
    /\ \A j \in DOMAIN F : \E k \in DOMAIN s : \E n \in DOMAIN s[k] : j = b[k] + n

LEMMA PlacesExtend ==
    ASSUME NEW T, NEW s \in Seq(Seq(T)), NEW e \in Seq(T), NEW F \in Seq(T), NEW b, InPlaces(s, F, b)
    PROVE  \E c : InPlaces(Append(s, e), F \o e, c)
<1> DEFINE t == Append(s, e)
           l == Len(s) + 1
           G == F \o e
           c == [k \in 1..l |-> IF k = l THEN Len(F) ELSE b[k]]
<1>1. /\ Len(s) \in Nat /\ DOMAIN s = 1..Len(s) /\ DOMAIN t = 1..l
      /\ t[l] = e /\ \A k \in 1..Len(s) : t[k] = s[k]
  BY AppendFacts
<1>2. /\ Len(F) \in Nat /\ Len(e) \in Nat /\ DOMAIN F = 1..Len(F) /\ DOMAIN e = 1..Len(e)
      /\ DOMAIN G = 1 .. Len(F) + Len(e)
      /\ \A j \in 1..Len(F) : G[j] = F[j]
      /\ \A n \in 1..Len(e) : G[Len(F) + n] = e[n]
  OBVIOUS
<1> HIDE DEF t, G
<1>3. /\ \A k \in 1..l : k = l \/ k \in 1..Len(s)
      /\ \A k \in 1..Len(s) : k \in 1..l /\ k # l
      /\ l \in 1..l
  BY <1>1
<1>4. c \in [1..l -> Nat] /\ c[l] = Len(F) /\ \A k \in 1..Len(s) : c[k] = b[k]
  <2> HIDE DEF l
  <2> QED BY <1>1, <1>2, <1>3 DEF InPlaces
<1> HIDE DEF c, l
<1>5. ASSUME NEW k \in 1..l, NEW n \in DOMAIN t[k]
      PROVE  c[k] + n \in DOMAIN G /\ G[c[k] + n] = t[k][n]
  <2>1. CASE k = l
    <3>1. n \in 1..Len(e) /\ Len(F) + n \in 1 .. Len(F) + Len(e)
      BY <1>1, <1>2, <1>5, <2>1
    <3> QED BY <1>1, <1>2, <1>4, <2>1, <3>1
  <2>2. CASE k \in 1..Len(s)
    <3>3. k \in DOMAIN s /\ n \in DOMAIN s[k]
      BY <1>1, <2>2
    <3>1. b[k] + n \in 1..Len(F) /\ F[b[k] + n] = s[k][n]
      BY <1>2, <3>3 DEF InPlaces
    <3>2. b[k] + n \in 1 .. Len(F) + Len(e)
      BY <1>2, <3>1
    <3> QED BY <1>1, <1>2, <1>4, <2>2, <3>1, <3>2
  <2> QED BY <1>3, <2>1, <2>2
<1>6. ASSUME NEW j \in DOMAIN G PROVE \E k \in 1..l : \E n \in DOMAIN t[k] : j = c[k] + n
  <2>1. CASE j \in 1..Len(F)
    <3>1. PICK k \in DOMAIN s : \E n \in DOMAIN s[k] : j = b[k] + n
      BY <1>2, <2>1 DEF InPlaces
    <3> QED BY <1>1, <1>3, <1>4, <3>1
  <2>2. CASE j \notin 1..Len(F)
    <3>1. j - Len(F) \in 1..Len(e) /\ j = Len(F) + (j - Len(F))
      BY <1>2, <2>2
    <3> QED BY <1>1, <1>2, <1>3, <1>4, <3>1
  <2> QED BY <2>1, <2>2
<1>7. InPlaces(t, G, c)
  <2>1. c \in [DOMAIN t -> Nat]
    BY <1>1, <1>4
  <2>2. \A k \in DOMAIN t : \A n \in DOMAIN t[k] : c[k] + n \in DOMAIN G /\ G[c[k] + n] = t[k][n]
    BY <1>1, <1>5
  <2>3. \A j \in DOMAIN G : \E k \in DOMAIN t : \E n \in DOMAIN t[k] : j = c[k] + n
    BY <1>1, <1>6
  <2> QED BY <2>1, <2>2, <2>3, Zenon DEF InPlaces
<1> QED BY <1>7 DEF t, G

LEMMA FlattenPlaces ==
    ASSUME NEW T
    PROVE  \A s \in Seq(Seq(T)) : FlattenSeq(s) \in Seq(T) /\ \E b : InPlaces(s, FlattenSeq(s), b)
<1> DEFINE P(s) == FlattenSeq(s) \in Seq(T) /\ \E b : InPlaces(s, FlattenSeq(s), b)
           D == {Len(s) : s \in {q \in Seq(Seq(T)) : ~P(q)}}
<1>1. SUFFICES ASSUME D # {} PROVE FALSE
  OBVIOUS
<1>2. PICK n \in D : \A j \in D : n <= j
  <2>1. D \in SUBSET Nat
    <3> HIDE DEF P
    <3> QED OBVIOUS
  <2> HIDE DEF D
  <2> QED BY <1>1, <2>1, Least
<1>3. PICK s \in Seq(Seq(T)) : ~P(s) /\ n = Len(s)
  OBVIOUS
<1>4. CASE n = 0
  <2>0. s = << >>
    <3> HIDE DEF P
    <3> QED BY <1>3, <1>4, EmptySeq
  <2>1. FlattenSeq(s) = s
    <3>1. Len(s) = 0
      BY <1>3, <1>4
    <3> HIDE DEF P
    <3> QED BY <3>1, Zenon DEF FlattenSeq
  <2>2. InPlaces(<< >>, << >>, << >>)
    BY DEF InPlaces
  <2>3. << >> \in Seq(T)
    OBVIOUS
  <2> QED BY <1>3, <2>0, <2>1, <2>2, <2>3
<1>5. CASE n # 0
  <2> DEFINE r == [k \in 1 .. n - 1 |-> s[k]]
  <2>1. n \in Nat /\ n - 1 \in Nat /\ s[n] \in Seq(T) /\ s = [k \in 1..n |-> s[k]]
    BY <1>3, <1>5
  <2>2. r \in Seq(Seq(T)) /\ Len(r) = n - 1
    <3>1. \A k \in 1 .. n - 1 : s[k] \in Seq(T)
      <4> HIDE DEF P
      <4> QED BY <1>3, <2>1
    <3>2. r \in [1 .. n - 1 -> Seq(T)]
      BY <3>1
    <3>3. \A m \in Nat : \A q \in [1..m -> Seq(T)] : q \in Seq(Seq(T)) /\ Len(q) = m
      OBVIOUS
    <3> HIDE DEF P, r, D
    <3> QED BY <2>1, <3>2, <3>3
  <2>3. s = Append(r, s[n])
    <3>1. r = [k \in 1 .. n - 1 |-> s[k]] /\ (n - 1) + 1 = n
      BY <2>1
    <3> HIDE DEF r
    <3> QED BY <2>1, <3>1, OneMore
  <2>4. P(r)
    <3>1. n - 1 \notin D
      <4> HIDE DEF D
      <4> QED BY <1>2, <2>1
    <3> HIDE DEF P, r
    <3> QED BY <2>2, <3>1
  <2> HIDE DEF r
  <2>5. FlattenSeq(s) = FlattenSeq(r) \o s[n]
    BY <2>1, <2>2, <2>3, FlattenAppend
  <2>6. PICK b : InPlaces(r, FlattenSeq(r), b)
    BY <2>4
  <2>7. FlattenSeq(r) \in Seq(T)
    BY <2>4
  <2>8. \E c : InPlaces(Append(r, s[n]), FlattenSeq(r) \o s[n], c)
    BY <2>1, <2>2, <2>6, <2>7, PlacesExtend
  <2>9. FlattenSeq(s) \in Seq(T)
    <3>1. FlattenSeq(r) \in Seq(T) /\ s[n] \in Seq(T)
      BY <2>1, <2>7
    <3>2. FlattenSeq(r) \o s[n] \in Seq(T)
      BY <3>1, ConcatFacts
    <3> QED BY <2>5, <3>2
  <2> QED BY <1>3, <2>3, <2>5, <2>8, <2>9, Zenon
<1> QED BY <1>4, <1>5

\* SetToSeq has each element once.
LEMMA SetToSeqFacts ==
    ASSUME NEW S, IsFiniteSet(S)
    PROVE  /\ Cardinality(S) \in Nat
           /\ SetToSeq(S) \in [1..Cardinality(S) -> S]
           /\ IsInjective(SetToSeq(S))
           /\ \A x \in S : \E k \in 1..Cardinality(S) : SetToSeq(S)[k] = x
<1> DEFINE n == Cardinality(S)
           q == SetToSeq(S)
<1>1. n \in Nat /\ ExistsBijection(1..n, S)
  BY FS_CardinalityType
<1>2. \E f \in [1..n -> S] : IsInjective(f)
  BY <1>1 DEF ExistsBijection, Bijection, Injection
<1>3. q \in [1..n -> S] /\ IsInjective(q)
  BY <1>2 DEF SetToSeq
<1> HIDE DEF q
<1>4. q \in Injection(1..n, S)
  BY <1>3 DEF Injection
<1>5. Cardinality(1..n) = n
  BY <1>1, FS_Interval
<1>6. q \in Surjection(1..n, S)
  BY <1>4, <1>5, FS_Injection
<1>7. \A x \in S : \E k \in 1..n : q[k] = x
  BY <1>6 DEF Surjection
<1> QED BY <1>1, <1>3, <1>7 DEF q
=============================================================================
