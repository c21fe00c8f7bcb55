--------------------------- MODULE PrototypeProofs ---------------------------
(***************************************************************************)
(* Proofs about ismir_impl and test_my_fingerprint, for any files, calls   *)
(* and bounds.                                                             *)
(*                                                                         *)
(* ismir_impl: what its vector and the map of ends say of each other       *)
(* (Layout), and what its two files say (Chain), is kept by insertion,     *)
(* writing and reading; the printed places and the refinement of the       *)
(* abstract index follow from it.                                          *)
(*                                                                         *)
(* test_my_fingerprint: the slices of the database's files, and no others, *)
(* are indexed (Indexes); the file and what is still to be written are     *)
(* what was to be stored, and what has been read of it is in the maps      *)
(* (Contents, Upto); and the matches of a query are what its comparisons   *)
(* so far have come to (Compared).                                         *)
(***************************************************************************)
EXTENDS PrototypeMain, FoldLemmas

-----------------------------------------------------------------------------
\* b is the greatest of a set of numbers, or 0 if there is none.
Top(S, b) == b \in Nat /\ (b = 0 \/ b \in S) /\ \A x \in S : x <= b

LEMMA TopIs ==
    ASSUME NEW S \in SUBSET Nat, NEW n \in Nat, \A k \in S : k <= n
    PROVE  Top(S, Max({0} \union S))
<1> DEFINE Z == {0} \union S
<1>1. Z \in SUBSET Nat /\ Z # {} /\ \A k \in Z : k <= n
  OBVIOUS
<1>2. Max(Z) \in Z /\ \A k \in Z : k <= Max(Z)
  <2> HIDE DEF Z
  <2> QED BY <1>1, Greatest
<1>3. Max(Z) \in Nat /\ (Max(Z) = 0 \/ Max(Z) \in S) /\ \A k \in S : k <= Max(Z)
  <2>1. Max(Z) \in Z /\ \A k \in S : k <= Max(Z)
    BY <1>2
  <2>2. \A z \in Z : z \in Nat /\ (z = 0 \/ z \in S)
    OBVIOUS
  <2> HIDE DEF Z
  <2> QED BY <2>1, <2>2
<1> QED BY <1>3 DEF Top

LEMMA TopUnique ==
    ASSUME NEW S \in SUBSET Nat, NEW a, NEW b, Top(S, a), Top(S, b)
    PROVE  a = b
BY DEF Top

-----------------------------------------------------------------------------
(* The vector and the map of ends                                          *)

Prints == Tracks \X Nat

\* The fingerprints of a track, which lie behind the b-th
TrackAt(v, b, t) == \A n \in 1..FpCount[t] : v[b + n] = <<t, n>>

\* Where the track begins that an entry gives the end of
Ends(m, e)    == {x \in DOMAIN m : x < e}
Begin(m, e)   == Max({0} \union Ends(m, e))

\* Each entry is the end of a track in the vector that begins at the entry before
\* it; the last one is the end of the vector.
Layout(m, v) ==
    /\ v \in Seq(Prints)
    /\ DOMAIN m \subseteq 0..Len(v)
    /\ \A e \in DOMAIN m : \A b \in Nat :
          Top(Ends(m, e), b) =>
              m[e] \in Tracks /\ e = b + FpCount[m[e]] /\ TrackAt(v, b, m[e])
    /\ v # << >> => Len(v) \in DOMAIN m

LEMMA EmptyLayout == Layout(NoEnds, << >>)
BY DEF Layout, NoEnds

LEMMA LayoutTop ==
    ASSUME NEW m, NEW v, Layout(m, v), NEW e \in DOMAIN m
    PROVE  /\ e \in Nat /\ Ends(m, e) \in SUBSET Nat
           /\ Top(Ends(m, e), Begin(m, e))
           /\ m[e] \in Tracks /\ e = Begin(m, e) + FpCount[m[e]]
           /\ TrackAt(v, Begin(m, e), m[e])
<1>1. Len(v) \in Nat /\ DOMAIN m \in SUBSET Nat /\ e \in Nat /\ \A k \in DOMAIN m : k <= Len(v)
  BY DEF Layout
<1>2. Ends(m, e) \in SUBSET Nat /\ \A k \in Ends(m, e) : k <= e
  BY <1>1 DEF Ends
<1>3. Top(Ends(m, e), Begin(m, e))
  BY <1>1, <1>2, TopIs DEF Begin
<1>4. Begin(m, e) \in Nat
  BY <1>3 DEF Top
<1> QED BY <1>1, <1>2, <1>3, <1>4 DEF Layout

\* insert_file keeps it.
LEMMA InsertLayout ==
    ASSUME NEW m, NEW v, Layout(m, v), NEW t \in Tracks
    PROVE  LET w == v \o [k \in 1..FpCount[t] |-> <<t, k>>]
           IN  Layout(With(m, Len(w), t), w)
<1> DEFINE c == FpCount[t]
           p == [k \in 1..c |-> <<t, k>>]
           w == v \o p
           l == Len(v)
           h == With(m, Len(w), t)
<1>1. c \in Nat
  BY ImplAssumption DEF ImplAssumption
<1>2. p \in Seq(Prints) /\ Len(p) = c
  BY <1>1 DEF Prints
<1>3. v \in Seq(Prints) /\ l \in Nat
  BY DEF Layout
<1>4. /\ w \in Seq(Prints) /\ Len(w) = l + c
      /\ \A k \in 1..l : w[k] = v[k]
      /\ \A n \in 1..c : w[l + n] = <<t, n>>
  <2>1. \A n \in 1..c : p[n] = <<t, n>>
    OBVIOUS
  <2> HIDE DEF p, c
  <2>2. w \in Seq(Prints) /\ Len(w) = l + c /\ \A k \in 1..l : w[k] = v[k]
    BY <1>1, <1>2, <1>3
  <2>3. \A n \in 1..c : w[l + n] = p[n]
    BY <1>1, <1>2, <1>3
  <2> QED BY <2>1, <2>2, <2>3
<1> HIDE DEF w, p
<1>5. DOMAIN m \subseteq 0..l /\ (l # 0 => l \in DOMAIN m)
  <2>1. v = << >> <=> l = 0
    BY <1>3
  <2> QED BY <2>1 DEF Layout
<1>6. DOMAIN h = DOMAIN m \union {l + c} /\ \A x \in DOMAIN h : h[x] = IF x \in DOMAIN m THEN m[x] ELSE t
  BY <1>4 DEF With
<1> HIDE DEF h
<1>7. w # << >> => Len(w) \in DOMAIN h
  BY <1>4, <1>6
<1>8. DOMAIN h \subseteq 0..Len(w)
  BY <1>1, <1>3, <1>4, <1>5, <1>6
<1>9. ASSUME NEW e \in DOMAIN h, NEW b \in Nat, Top(Ends(h, e), b)
      PROVE  h[e] \in Tracks /\ e = b + FpCount[h[e]] /\ TrackAt(w, b, h[e])
  <2>0. e \in Nat
    BY <1>8
  <2>1. CASE e \in DOMAIN m
    <3>1. e <= l
      BY <1>3, <1>5, <2>1
    <3>2. Ends(h, e) = Ends(m, e)
      BY <1>1, <1>3, <1>6, <2>0, <3>1 DEF Ends
    <3>3. m[e] \in Tracks /\ e = b + FpCount[m[e]] /\ TrackAt(v, b, m[e])
      BY <1>9, <2>1, <3>2 DEF Layout
    <3>4. FpCount[m[e]] \in Nat
      BY <3>3, ImplAssumption DEF ImplAssumption
    <3>5. TrackAt(w, b, m[e])
      <4>1. \A n \in 1..FpCount[m[e]] : b + n \in 1..l
        BY <1>3, <3>1, <3>3, <3>4
      <4> QED BY <1>4, <3>3, <4>1 DEF TrackAt
    <3> QED BY <1>6, <2>1, <3>3, <3>5
  <2>2. CASE e \notin DOMAIN m
    <3>1. e = l + c /\ h[e] = t
      BY <1>6, <2>2
    <3>2. Ends(h, e) = DOMAIN m
      <4>1. \A x \in DOMAIN m : x \in Nat /\ x <= l /\ x # e
        BY <1>3, <1>5, <2>2
      <4>2. \A x \in DOMAIN m : x < e
        BY <1>1, <1>3, <3>1, <4>1
      <4>3. ~(e < e)
        BY <2>0
      <4> QED BY <1>6, <3>1, <4>2, <4>3 DEF Ends
    <3>3. b = l
      BY <1>3, <1>5, <1>9, <3>2 DEF Top
    <3> QED BY <1>4, <3>1, <3>3 DEF TrackAt
  <2> QED BY <2>1, <2>2
<1>10. Layout(h, w)
  BY <1>4, <1>7, <1>8, <1>9 DEF Layout
<1> QED BY <1>10 DEF h, w, p

\* What is printed of a place: the track that its fingerprint belongs to and its
\* number in it, or the track that ends there and that one's length
Place(v, t) ==
    /\ t.name \in Tracks
    /\ \/ t.at < Len(v) /\ v[t.at + 1] = <<t.name, t.sample + 1>>
       \/ t.sample = FpCount[t.name] /\ (t.sample = 0 \/ v[t.at] = <<t.name, t.sample>>)

LEMMA TellRight ==
    ASSUME Layout(ends, vec), NEW at \in 0..Len(vec), NEW dist,
           {e \in DOMAIN ends : e >= at} # {}
    PROVE  Place(vec, Tell(at, dist)) /\ Tell(at, dist).at = at /\ Tell(at, dist).dist = dist
<1> DEFINE E == {x \in DOMAIN ends : x >= at}
           e == Min(E)
           b == Begin(ends, e)
           t == Tell(at, dist)
           c == FpCount[ends[e]]
<1>1. Len(vec) \in Nat /\ at \in Nat /\ DOMAIN ends \in SUBSET Nat /\ DOMAIN ends \subseteq 0..Len(vec)
  BY DEF Layout
<1>2. e \in E /\ \A x \in E : e <= x
  <2>1. E \in SUBSET Nat /\ E # {}
    BY <1>1
  <2> HIDE DEF E
  <2> QED BY <2>1, Least
<1>3. e \in DOMAIN ends /\ e \in Nat /\ at <= e /\ e <= Len(vec)
  BY <1>1, <1>2
<1>4. /\ Top(Ends(ends, e), b) /\ ends[e] \in Tracks /\ e = b + c /\ TrackAt(vec, b, ends[e])
  BY <1>3, LayoutTop
<1>5. t = [name |-> ends[e], sample |-> at - b, dist |-> dist, at |-> at]
  BY DEF Tell, Begin, Ends
<1> HIDE DEF t
<1>6. t.name = ends[e] /\ t.sample = at - b /\ t.at = at /\ t.dist = dist
  BY <1>5
<1>7. b \in Nat /\ b <= at
  <2>1. b = 0 \/ (b \in DOMAIN ends /\ b < e)
    BY <1>4 DEF Top, Ends
  <2>2. b \in Nat
    BY <1>4 DEF Top
  <2>3. b \in DOMAIN ends /\ b < e => b \notin E
    <3> HIDE DEF b, e, E
    <3>1. ASSUME b \in E PROVE e <= b
      BY <1>2, <3>1
    <3> QED BY <1>3, <2>2, <3>1
  <2> HIDE DEF b, e
  <2>4. b \in DOMAIN ends => (b \in E <=> b >= at)
    OBVIOUS
  <2> HIDE DEF E
  <2> QED BY <1>1, <2>1, <2>2, <2>3, <2>4
<1> HIDE DEF b, e, E
<1>8. c \in Nat
  BY <1>4, ImplAssumption DEF ImplAssumption
<1> HIDE DEF c
<1>9. \A n \in 1..c : vec[b + n] = <<ends[e], n>>
  BY <1>4 DEF TrackAt, c
<1>10. CASE at < e
  <2>1. (at - b) + 1 \in 1..c /\ b + ((at - b) + 1) = at + 1
    BY <1>1, <1>3, <1>4, <1>7, <1>8, <1>10
  <2>2. vec[at + 1] = <<ends[e], (at - b) + 1>>
    BY <1>9, <2>1
  <2>3. at < Len(vec)
    BY <1>1, <1>3, <1>10
  <2> QED BY <1>4, <1>6, <2>2, <2>3 DEF Place, t
<1>11. CASE at = e
  <2>1. at - b = c
    BY <1>1, <1>3, <1>4, <1>7, <1>8, <1>11
  <2>2. c # 0 => vec[at] = <<ends[e], c>>
    <3>1. c # 0 => c \in 1..c /\ b + c = at
      BY <1>4, <1>8, <1>11
    <3> QED BY <1>9, <3>1
  <2> QED BY <1>4, <1>6, <2>1, <2>2 DEF Place, c, t
<1> QED BY <1>1, <1>3, <1>6, <1>10, <1>11

-----------------------------------------------------------------------------
(* The file of fingerprints and its catalogue                              *)

Lines == [end : Nat, name : Tracks]

Before(c, k) == IF k = 1 THEN 0 ELSE c[k - 1].end
EndOf(c)     == IF c = << >> THEN 0 ELSE Last(c).end

\* Each line gives the end of a track in the file that begins where the line before
\* it ends.
Chain(c, v) ==
    /\ v \in Seq(Prints) /\ c \in Seq(Lines)
    /\ \A k \in DOMAIN c :
          /\ c[k].end = Before(c, k) + FpCount[c[k].name]
          /\ c[k].end <= Len(v)
          /\ TrackAt(v, Before(c, k), c[k].name)

LEMMA ChainFacts ==
    ASSUME NEW c, NEW v, Chain(c, v), NEW k \in DOMAIN c
    PROVE  /\ Len(c) \in Nat /\ k \in 1..Len(c) /\ Len(v) \in Nat
           /\ c[k] \in Lines /\ c[k].end \in Nat /\ c[k].name \in Tracks
           /\ FpCount[c[k].name] \in Nat
           /\ Before(c, k) \in Nat /\ Before(c, k) <= c[k].end
<1>1. Len(c) \in Nat /\ DOMAIN c = 1..Len(c) /\ Len(v) \in Nat
  BY DEF Chain
<1>2. \A n \in 1..Len(c) : c[n] \in Lines
  BY <1>1 DEF Chain
<1>3. \A n \in 1..Len(c) : c[n].end \in Nat /\ c[n].name \in Tracks
  BY <1>2 DEF Lines
<1>4. FpCount[c[k].name] \in Nat
  BY <1>1, <1>3, ImplAssumption DEF ImplAssumption
<1>5. Before(c, k) \in Nat
  <2>1. k # 1 => k - 1 \in 1..Len(c)
    BY <1>1
  <2> QED BY <1>3, <2>1 DEF Before
<1>6. c[k].end = Before(c, k) + FpCount[c[k].name]
  BY DEF Chain
<1> QED BY <1>1, <1>2, <1>3, <1>4, <1>5, <1>6

\* The ends do not decrease.
LEMMA ChainAscends ==
    ASSUME NEW c, NEW v, Chain(c, v), NEW j \in DOMAIN c, NEW k \in DOMAIN c, j <= k
    PROVE  c[j].end <= c[k].end
<1> DEFINE D == {n \in j..Len(c) : ~(c[j].end <= c[n].end)}
<1>1. SUFFICES ASSUME D # {} PROVE FALSE
  BY ChainFacts
<1>2. j \in Nat /\ j \in 1..Len(c) /\ Len(c) \in Nat /\ DOMAIN c = 1..Len(c)
  BY ChainFacts DEF Chain
<1>3. PICK n \in D : \A x \in D : n <= x
  <2>1. D \in SUBSET Nat
    BY <1>2
  <2> HIDE DEF D
  <2> QED BY <1>1, <2>1, Least
<1>4. n \in j..Len(c) /\ ~(c[j].end <= c[n].end) /\ n \in DOMAIN c
  BY <1>2, <1>3
<1>5. c[j].end \in Nat /\ c[n].end \in Nat /\ Before(c, n) <= c[n].end
  BY <1>4, ChainFacts
<1>6. n # j
  BY <1>4, <1>5
<1>7. n - 1 \in j..Len(c) /\ n - 1 \notin D /\ n # 1 /\ n - 1 \in DOMAIN c
  <2>1. n - 1 \in j..Len(c) /\ n # 1 /\ ~(n <= n - 1)
    BY <1>2, <1>4, <1>6
  <2> QED BY <1>2, <1>3, <2>1
<1>8. c[j].end <= c[n - 1].end /\ c[n - 1].end \in Nat
  BY <1>7, ChainFacts
<1>9. Before(c, n) = c[n - 1].end
  BY <1>7 DEF Before
<1> QED BY <1>4, <1>5, <1>8, <1>9

LEMMA EndOfFacts ==
    ASSUME NEW c, NEW v, Chain(c, v)
    PROVE  /\ EndOf(c) \in Nat /\ EndOf(c) <= Len(v) /\ Len(v) \in Nat
           /\ \A k \in DOMAIN c : c[k].end <= EndOf(c)
           /\ c # << >> => Len(c) \in DOMAIN c /\ EndOf(c) = c[Len(c)].end
<1>1. Len(c) \in Nat /\ DOMAIN c = 1..Len(c) /\ Len(v) \in Nat
  BY DEF Chain
<1>2. CASE c = << >>
  <2>1. DOMAIN c = {}
    BY <1>2
  <2> QED BY <1>1, <1>2, <2>1 DEF EndOf
<1>3. CASE c # << >>
  <2>1. Len(c) \in DOMAIN c
    <3>1. c \in Seq(Lines)
      BY DEF Chain
    <3> QED BY <1>1, <1>3, <3>1
  <2>2. EndOf(c) = c[Len(c)].end
    BY <1>3 DEF EndOf, Last
  <2>3. EndOf(c) <= Len(v) /\ EndOf(c) \in Nat
    BY <2>1, <2>2, ChainFacts DEF Chain
  <2>4. \A k \in DOMAIN c : c[k].end <= EndOf(c)
    BY <1>1, <2>1, <2>2, ChainAscends
  <2> QED BY <1>1, <2>1, <2>2, <2>3, <2>4
<1> QED BY <1>2, <1>3

\* A line more
LEMMA ChainGrows ==
    ASSUME NEW c, NEW v, Chain(c, v), NEW t \in Tracks, NEW e, e = EndOf(c) + FpCount[t],
           e <= Len(v), TrackAt(v, EndOf(c), t)
    PROVE  LET d == Append(c, [end |-> e, name |-> t])
           IN  Chain(d, v) /\ EndOf(d) = e /\ d # << >>
<1> DEFINE line == [end |-> e, name |-> t]
           d == Append(c, line)
           l == Len(c)
<1>1. /\ EndOf(c) \in Nat /\ Len(v) \in Nat /\ e \in Nat /\ FpCount[t] \in Nat
      /\ v \in Seq(Prints) /\ c \in Seq(Lines) /\ l \in Nat
  BY EndOfFacts, ImplAssumption DEF ImplAssumption, Chain
<1>2. line \in Lines /\ line.end = e /\ line.name = t
  BY <1>1 DEF Lines
<1> HIDE DEF line
<1>3. /\ d \in Seq(Lines) /\ Len(d) = l + 1 /\ DOMAIN d = 1 .. l + 1 /\ DOMAIN c = 1..l
      /\ d[l + 1] = line /\ \A k \in 1..l : d[k] = c[k]
  BY <1>1, <1>2
<1> HIDE DEF d
<1>4. \A k \in 1..l : Before(d, k) = Before(c, k)
  <2>1. \A k \in 1..l : k # 1 => k - 1 \in 1..l
    BY <1>1
  <2> QED BY <1>3, <2>1 DEF Before
<1>5. Before(d, l + 1) = EndOf(c)
  <2>1. CASE l = 0
    BY <1>1, <2>1 DEF Before, EndOf
  <2>2. CASE l # 0
    <3>1. c # << >> /\ l \in 1..l /\ l + 1 # 1 /\ (l + 1) - 1 = l
      BY <1>1, <2>2
    <3> QED BY <1>3, <3>1 DEF Before, EndOf, Last
  <2> QED BY <2>1, <2>2
<1>6. ASSUME NEW k \in DOMAIN d
      PROVE  /\ d[k].end = Before(d, k) + FpCount[d[k].name]
             /\ d[k].end <= Len(v)
             /\ TrackAt(v, Before(d, k), d[k].name)
  <2>1. k \in 1..l \/ k = l + 1
    BY <1>1, <1>3
  <2>2. CASE k = l + 1
    BY <1>2, <1>3, <1>5, <2>2
  <2>3. CASE k \in 1..l
    BY <1>3, <1>4, <2>3 DEF Chain
  <2> QED BY <2>1, <2>2, <2>3
<1>7. Chain(d, v)
  BY <1>1, <1>3, <1>6 DEF Chain
<1>8. d # << >> /\ EndOf(d) = e
  BY <1>1, <1>2, <1>3 DEF EndOf, Last
<1> QED BY <1>7, <1>8 DEF d, line

\* More fingerprints
LEMMA ChainLonger ==
    ASSUME NEW c, NEW v, Chain(c, v), NEW w \in Seq(Prints)
    PROVE  Chain(c, v \o w)
<1> DEFINE u == v \o w
<1>1. v \in Seq(Prints) /\ c \in Seq(Lines)
  BY DEF Chain
<1>2. /\ u \in Seq(Prints) /\ Len(v) \in Nat /\ Len(u) \in Nat /\ Len(v) <= Len(u)
      /\ \A k \in 1..Len(v) : u[k] = v[k]
  BY <1>1
<1> HIDE DEF u
<1>3. ASSUME NEW k \in DOMAIN c
      PROVE  c[k].end <= Len(u) /\ TrackAt(u, Before(c, k), c[k].name)
  <2>1. /\ c[k].end \in Nat /\ FpCount[c[k].name] \in Nat /\ Before(c, k) \in Nat
        /\ c[k].end = Before(c, k) + FpCount[c[k].name] /\ c[k].end <= Len(v)
    BY ChainFacts DEF Chain
  <2>2. \A n \in 1..FpCount[c[k].name] : Before(c, k) + n \in 1..Len(v)
    BY <1>2, <2>1
  <2>3. TrackAt(v, Before(c, k), c[k].name)
    BY DEF Chain
  <2>4. TrackAt(u, Before(c, k), c[k].name)
    BY <1>2, <2>2, <2>3 DEF TrackAt
  <2> QED BY <1>2, <2>1, <2>4
<1>4. Chain(c, u)
  BY <1>1, <1>2, <1>3 DEF Chain
<1> QED BY <1>4 DEF u

\* The entries that readDBFromDisk makes of the lines
LEMMA ChainLayout ==
    ASSUME NEW c, NEW v, Chain(c, v), EndOf(c) = Len(v),
           NEW m, DOMAIN m = {c[k].end : k \in DOMAIN c},
           \A e \in DOMAIN m : m[e] = c[Min({k \in DOMAIN c : c[k].end = e})].name
    PROVE  Layout(m, v)
<1>1. v \in Seq(Prints) /\ c \in Seq(Lines) /\ Len(v) \in Nat /\ Len(c) \in Nat /\ DOMAIN c = 1..Len(c)
  BY DEF Chain
<1>2. DOMAIN m \subseteq 0..Len(v)
  <2>1. \A k \in DOMAIN c : c[k].end \in 0..Len(v)
    <3>1. \A k \in DOMAIN c : c[k].end \in Nat /\ c[k].end <= Len(v)
      BY ChainFacts DEF Chain
    <3> QED BY <1>1, <3>1
  <2> QED BY <2>1
<1>3. ASSUME v # << >> PROVE Len(v) \in DOMAIN m
  <2>1. Len(v) # 0
    BY <1>1, <1>3
  <2>2. c # << >>
    BY <2>1 DEF EndOf
  <2> QED BY <2>2, EndOfFacts
<1>4. ASSUME NEW e \in DOMAIN m, NEW b \in Nat, Top(Ends(m, e), b)
      PROVE  m[e] \in Tracks /\ e = b + FpCount[m[e]] /\ TrackAt(v, b, m[e])
  <2> DEFINE K == {n \in DOMAIN c : c[n].end = e}
             k == Min(K)
  <2>1. k \in K /\ \A n \in K : k <= n
    <3>1. K \in SUBSET Nat /\ K # {}
      BY <1>1
    <3> HIDE DEF K
    <3> QED BY <3>1, Least
  <2>2. k \in DOMAIN c /\ c[k].end = e /\ m[e] = c[k].name
    BY <2>1
  <2>3. \A n \in DOMAIN c : n < k => c[n].end # e
    <3>1. \A n \in DOMAIN c : n < k => ~(k <= n)
      BY <1>1, <2>2
    <3> QED BY <2>1, <3>1
  <2> HIDE DEF K, k
  <2>4. /\ c[k].name \in Tracks /\ e = Before(c, k) + FpCount[c[k].name] /\ e \in Nat
        /\ TrackAt(v, Before(c, k), c[k].name) /\ Before(c, k) \in Nat /\ k \in 1..Len(c)
    BY <2>2, ChainFacts DEF Chain
  <2>5. Top(Ends(m, e), Before(c, k))
    <3>1. ASSUME NEW x \in Ends(m, e) PROVE k # 1 /\ x <= c[k - 1].end
      <4>1. x \in DOMAIN m /\ x < e
        BY <3>1 DEF Ends
      <4>2. PICK n \in DOMAIN c : x = c[n].end
        BY <4>1
      <4>3. n < k
        <5>1. ~(k <= n)
          <6>1. ASSUME k <= n PROVE FALSE
            <7>1. e <= x /\ x \in Nat
              BY <2>2, <4>2, <6>1, ChainAscends, ChainFacts
            <7> QED BY <2>4, <4>1, <7>1
          <6> QED BY <6>1
        <5> QED BY <1>1, <2>4, <5>1
      <4>4. k - 1 \in DOMAIN c /\ n <= k - 1 /\ k # 1
        BY <1>1, <2>4, <4>3
      <4> QED BY <4>2, <4>4, ChainAscends
    <3>2. CASE k = 1
      BY <3>1, <3>2 DEF Top, Before
    <3>3. CASE k # 1
      <4>1. k - 1 \in DOMAIN c /\ k - 1 < k /\ k - 1 <= k
        BY <1>1, <2>4, <3>3
      <4>2. c[k - 1].end # e /\ c[k - 1].end <= e /\ c[k - 1].end \in Nat
        BY <2>2, <2>3, <4>1, ChainAscends, ChainFacts
      <4>3. c[k - 1].end \in Ends(m, e)
        BY <2>4, <4>1, <4>2 DEF Ends
      <4> QED BY <3>1, <3>3, <4>2, <4>3 DEF Top, Before
    <3> QED BY <3>2, <3>3
  <2>6. b = Before(c, k)
    <3>1. Ends(m, e) \in SUBSET Nat
      BY <1>1, <1>2 DEF Ends
    <3> QED BY <1>4, <2>5, <3>1, TopUnique
  <2> QED BY <2>2, <2>4, <2>6
<1> QED BY <1>1, <1>2, <1>3, <1>4 DEF Layout

-----------------------------------------------------------------------------
(* ismir_impl                                                              *)

Writing == Impl /\ stage = "write"

\* The files agree unless they are just being written.
FileInv ==
    /\ Chain(map, string)
    /\ ~Writing => EndOf(map) = Len(string) /\ (exists => map # << >>)

\* While the catalogue is written, the vector is the end of the file, and the lines
\* of all entries before those that are left have been written.
WritingInv ==
    Writing =>
        /\ init \in Nat /\ Len(string) = init + Len(vec)
        /\ \A x \in 1..Len(vec) : string[init + x] = vec[x]
        /\ lines \subseteq DOMAIN ends /\ DOMAIN ends # {}
        /\ \A e \in lines : \A x \in DOMAIN ends \ lines : x < e
        /\ \E w \in Nat : Top(DOMAIN ends \ lines, w) /\ EndOf(map) = init + w
        /\ lines # DOMAIN ends => map # << >>

\* There is an entry when something has been inserted, and none when the files are
\* read.
EntriesInv ==
    /\ Layout(ends, vec)
    /\ Impl /\ stage = "insert" =>
          IF call.db = << >> THEN todo = << >> /\ ends = NoEnds
                             ELSE todo = << >> => DOMAIN ends # {}
    /\ Impl /\ stage = "read" => ends = NoEnds

CallInv == Impl => left \in Seq(Nat) /\ stage \notin {"load", "loaded"}

ScanInv ==
    /\ size \in Nat /\ i \in Nat
    /\ Impl /\ stage = "scan" =>
          /\ best.at \in 0..Len(vec) /\ best.dist \in Nat /\ best.dist <= size
          /\ best.at = Len(vec) \/ best.dist < size

ToldInv ==
    told # Untold =>
        /\ Impl /\ stage \in {"query", "scan", "stopped", "crash"}
        /\ Place(vec, told)
        /\ stage = "query" => told.at = Len(vec) \/ told.dist < size

ImplInv == FileInv /\ WritingInv /\ EntriesInv /\ CallInv /\ ScanInv /\ ToldInv

LEMMA ImplStart == Init => ImplInv
<1> SUFFICES ASSUME Init PROVE ImplInv
  OBVIOUS
<1> USE DEF Init, ImplInit
<1>1. ~Impl
  BY DEF Impl, NoCall
<1>2. Chain(map, string) /\ EndOf(map) = Len(string) /\ ~exists
  <2>1. << >> \in Seq(Prints) /\ << >> \in Seq(Lines) /\ DOMAIN << >> = {} /\ Len(<< >>) = 0
    OBVIOUS
  <2> QED BY <2>1 DEF Chain, EndOf
<1>3. Layout(ends, vec)
  BY EmptyLayout
<1> QED BY <1>1, <1>2, <1>3
        DEF ImplInv, FileInv, WritingInv, Writing, EntriesInv, CallInv, ScanInv, ToldInv

\* The next call begins with nothing but the files.
LEMMA StartKeeps == ImplInv /\ Start => ImplInv'
<1> SUFFICES ASSUME ImplInv, Start PROVE ImplInv'
  OBVIOUS
<1>1. /\ stage \in Ended /\ call' \in Calls /\ todo' = call'.db /\ left' = call'.queries
      /\ stage' = IF call'.load THEN "load" ELSE "insert"
      /\ vec' = << >> /\ ends' = NoEnds /\ size' = 0 /\ i' = 0 /\ told' = Untold
      /\ UNCHANGED <<string, map, exists>>
  BY DEF Start, Go, ImplLost
<1>2. ~Writing /\ ~Writing'
  BY <1>1 DEF Writing, Ended
<1>3. FileInv' /\ WritingInv'
  BY <1>1, <1>2 DEF ImplInv, FileInv, WritingInv
<1>4. Impl' => ~call'.load /\ left' \in Seq(Nat)
  BY <1>1, CallsAssumption DEF CallsAssumption, Impl
<1>5. Layout(ends, vec)'
  BY <1>1, EmptyLayout
<1>6. EntriesInv' /\ CallInv' /\ ScanInv' /\ ToldInv'
  BY <1>1, <1>4, <1>5 DEF EntriesInv, CallInv, ScanInv, ToldInv, Impl
<1> QED BY <1>3, <1>6 DEF ImplInv

\* Steps of the other program, and those in which only the stage is another one
LEMMA OtherKeeps ==
    ASSUME ImplInv, ~Impl, UNCHANGED <<call, implVars>>
    PROVE  ImplInv'
<1>1. ~Impl' /\ ~Writing /\ ~Writing'
  BY DEF Impl, Writing
<1> QED BY <1>1 DEF ImplInv, FileInv, WritingInv, EntriesInv, CallInv, ScanInv, ToldInv, implVars

LEMMA StageKeeps ==
    ASSUME ImplInv, ~Writing, UNCHANGED <<call, left, implVars>>,
           \/ stage' \in {"stopped", "crash"}
           \/ stage \in {"insert"} /\ stage' = "read" /\ ends = NoEnds
    PROVE  ImplInv'
<1>1. Impl' = Impl /\ ~Writing' /\ stage' \notin {"insert", "load", "loaded", "scan", "query"}
  BY DEF Impl, Writing
<1>2. FileInv' /\ WritingInv'
  BY <1>1 DEF ImplInv, FileInv, WritingInv, implVars
<1>3. EntriesInv' /\ CallInv' /\ ScanInv' /\ ToldInv'
  BY <1>1 DEF ImplInv, EntriesInv, CallInv, ScanInv, ToldInv, implVars
<1> QED BY <1>2, <1>3 DEF ImplInv

LEMMA ImplInsertKeeps == ImplInv /\ ImplInsert => ImplInv'
<1> SUFFICES ASSUME ImplInv, ImplInsert PROVE ImplInv'
  OBVIOUS
<1> DEFINE t == Head(todo)
<1>1. /\ Impl /\ stage = "insert" /\ t \in Tracks /\ todo # << >>
      /\ vec' = vec \o [k \in 1..FpCount[t] |-> <<t, k>>] /\ ends' = With(ends, Len(vec'), t)
      /\ UNCHANGED <<call, stage, left, string, map, exists, lines, init, size, i, best, told>>
  BY DEF ImplInsert, ImplInsertFile
<1> HIDE DEF t
<1>2. Impl' /\ ~Writing /\ ~Writing' /\ told = Untold
  BY <1>1 DEF Writing, Impl, ImplInv, ToldInv
<1>3. FileInv' /\ WritingInv' /\ CallInv' /\ ScanInv' /\ ToldInv'
  BY <1>1, <1>2 DEF ImplInv, FileInv, WritingInv, CallInv, ScanInv, ToldInv
<1>4. Layout(ends', vec')
  BY <1>1, InsertLayout DEF ImplInv, EntriesInv
<1>5. call.db # << >> /\ DOMAIN ends' # {}
  <2>1. Len(vec') \in DOMAIN ends'
    BY <1>1 DEF With
  <2> QED BY <1>1, <2>1 DEF ImplInv, EntriesInv
<1>6. EntriesInv'
  BY <1>1, <1>4, <1>5 DEF EntriesInv
<1> QED BY <1>3, <1>6 DEF ImplInv

LEMMA ImplStoreKeeps == ImplInv /\ ImplStore => ImplInv'
<1> SUFFICES ASSUME ImplInv, ImplStore PROVE ImplInv'
  OBVIOUS
<1>1. /\ Impl /\ stage = "insert" /\ todo = << >> /\ ~Writing
      /\ UNCHANGED <<call, todo, left>>
  BY DEF ImplStore, Writing
<1>2. CASE call.db = << >>
  BY <1>1, <1>2, StageKeeps DEF ImplStore, Go, ImplInv, EntriesInv
<1>3. CASE call.db # << >>
  <2>1. /\ stage' = "write" /\ init' = Len(string) /\ string' = string \o vec /\ lines' = DOMAIN ends
        /\ UNCHANGED <<map, vec, ends, size, i, best, told>>
    BY <1>3 DEF ImplStore, Go, WriteVector
  <2>2. Impl' /\ Writing' /\ told = Untold /\ DOMAIN ends # {}
    BY <1>1, <1>3, <2>1 DEF Writing, Impl, ImplInv, ToldInv, EntriesInv
  <2>3. vec \in Seq(Prints) /\ string \in Seq(Prints)
    BY DEF ImplInv, EntriesInv, Layout, FileInv, Chain
  <2>4. FileInv'
    BY <2>1, <2>2, <2>3, ChainLonger DEF ImplInv, FileInv
  <2>5. WritingInv'
    <3>1. /\ init' \in Nat /\ Len(string') = init' + Len(vec)
          /\ \A x \in 1..Len(vec) : string'[init' + x] = vec[x]
      BY <2>1, <2>3
    <3>2. EndOf(map') = init' + 0 /\ Top(DOMAIN ends \ lines', 0)
      BY <1>1, <2>1, <3>1 DEF ImplInv, FileInv, Top
    <3> QED BY <2>1, <2>2, <3>1, <3>2 DEF WritingInv
  <2>6. EntriesInv' /\ CallInv' /\ ScanInv' /\ ToldInv'
    BY <1>1, <2>1, <2>2 DEF ImplInv, EntriesInv, CallInv, ScanInv, ToldInv
  <2> QED BY <2>4, <2>5, <2>6 DEF ImplInv
<1> QED BY <1>2, <1>3

\* A line gives the end of a whole track behind those that have lines.
LEMMA LineWritten ==
    ASSUME ImplInv, Writing, WriteLine
    PROVE  LET e == Min(lines) IN
           /\ e \in lines /\ \A x \in lines : e <= x
           /\ e \in DOMAIN ends /\ e \in Nat /\ ends[e] \in Tracks
           /\ map' = Append(map, [end |-> e + init, name |-> ends[e]]) /\ lines' = lines \ {e}
           /\ e + init = EndOf(map) + FpCount[ends[e]]
           /\ e + init <= Len(string)
           /\ TrackAt(string, EndOf(map), ends[e])
<1> DEFINE e == Min(lines)
<1>1. lines # {} /\ map' = Append(map, [end |-> e + init, name |-> ends[e]]) /\ lines' = lines \ {e}
  BY DEF WriteLine
<1>2. /\ init \in Nat /\ Len(string) = init + Len(vec) /\ lines \subseteq DOMAIN ends
      /\ \A x \in 1..Len(vec) : string[init + x] = vec[x]
      /\ \A x \in lines : \A y \in DOMAIN ends \ lines : y < x
  BY DEF ImplInv, WritingInv
<1>3. Layout(ends, vec)
  BY DEF ImplInv, EntriesInv
<1>4. Len(vec) \in Nat /\ DOMAIN ends \in SUBSET Nat /\ \A x \in DOMAIN ends : x <= Len(vec)
  BY <1>3 DEF Layout
<1>5. e \in lines /\ \A x \in lines : e <= x
  BY <1>1, <1>2, <1>4, Least
<1>6. e \in DOMAIN ends /\ e \in Nat /\ e <= Len(vec)
  BY <1>2, <1>4, <1>5
<1>7. PICK w \in Nat : Top(DOMAIN ends \ lines, w) /\ EndOf(map) = init + w
  BY DEF ImplInv, WritingInv
<1> HIDE DEF e
<1>8. Ends(ends, e) = DOMAIN ends \ lines
  <2>1. \A x \in DOMAIN ends : x \in lines => ~(x < e)
    BY <1>4, <1>5, <1>6
  <2> QED BY <1>2, <1>5, <2>1 DEF Ends
<1>9. ends[e] \in Tracks /\ e = w + FpCount[ends[e]] /\ TrackAt(vec, w, ends[e])
  BY <1>3, <1>6, <1>7, <1>8 DEF Layout
<1>10. FpCount[ends[e]] \in Nat
  BY <1>9, ImplAssumption DEF ImplAssumption
<1>11. e + init = EndOf(map) + FpCount[ends[e]]
  BY <1>2, <1>7, <1>9, <1>10
<1>12. e + init <= Len(string)
  BY <1>2, <1>4, <1>6
<1>13. TrackAt(string, EndOf(map), ends[e])
  <2>1. ASSUME NEW n \in 1..FpCount[ends[e]]
        PROVE  string[EndOf(map) + n] = <<ends[e], n>>
    <3>1. w + n \in 1..Len(vec) /\ EndOf(map) + n = init + (w + n)
      BY <1>2, <1>4, <1>6, <1>7, <1>9, <1>10
    <3>2. vec[w + n] = <<ends[e], n>>
      BY <1>9 DEF TrackAt
    <3> QED BY <1>2, <3>1, <3>2
  <2> QED BY <2>1 DEF TrackAt
<1> QED BY <1>1, <1>5, <1>6, <1>9, <1>11, <1>12, <1>13 DEF e

LEMMA LineKeeps == ImplInv /\ ImplWrite /\ WriteLine /\ UNCHANGED stage => ImplInv'
<1> SUFFICES ASSUME ImplInv, ImplWrite, WriteLine, UNCHANGED stage PROVE ImplInv'
  OBVIOUS
<1> DEFINE e == Min(lines)
<1>1. /\ Writing /\ Impl /\ stage = "write"
      /\ UNCHANGED <<call, todo, left, stage, string, exists, vec, ends, init, size, i, best, told>>
  BY DEF ImplWrite, WriteLine, Writing
<1>2. Writing' /\ Impl' /\ told = Untold
  BY <1>1 DEF Writing, Impl, ImplInv, ToldInv
<1>3. /\ e \in lines /\ \A x \in lines : e <= x
      /\ e \in DOMAIN ends /\ e \in Nat /\ ends[e] \in Tracks
      /\ map' = Append(map, [end |-> e + init, name |-> ends[e]]) /\ lines' = lines \ {e}
      /\ e + init = EndOf(map) + FpCount[ends[e]]
      /\ e + init <= Len(string)
      /\ TrackAt(string, EndOf(map), ends[e])
  BY <1>1, LineWritten
<1> HIDE DEF e
<1>4. Chain(map', string) /\ EndOf(map') = e + init /\ map' # << >>
  BY <1>3, ChainGrows DEF ImplInv, FileInv
<1>5. FileInv'
  BY <1>1, <1>2, <1>4 DEF FileInv
<1>6. WritingInv'
  <2>1. /\ init \in Nat /\ Len(string) = init + Len(vec) /\ lines \subseteq DOMAIN ends
        /\ \A x \in 1..Len(vec) : string[init + x] = vec[x]
        /\ \A x \in lines : \A y \in DOMAIN ends \ lines : y < x
    BY <1>1 DEF ImplInv, WritingInv
  <2>2. lines \in SUBSET Nat /\ DOMAIN ends \in SUBSET Nat
    BY <2>1 DEF ImplInv, EntriesInv, Layout
  <2>3. \A x \in lines' : \A y \in DOMAIN ends \ lines' : y < x
    <3>1. ASSUME NEW x \in lines', NEW y \in DOMAIN ends \ lines' PROVE y < x
      <4>1. x \in lines /\ x # e /\ e <= x /\ x \in Nat /\ (y = e \/ y \in DOMAIN ends \ lines)
        BY <1>3, <2>2, <3>1
      <4> QED BY <1>3, <2>1, <4>1
    <3> QED BY <3>1
  <2>4. Top(DOMAIN ends \ lines', e)
    <3>1. DOMAIN ends \ lines' = (DOMAIN ends \ lines) \union {e}
      BY <1>3
    <3>2. \A y \in DOMAIN ends \ lines : y <= e
      BY <1>3, <2>1, <2>2
    <3>3. \A y \in DOMAIN ends \ lines' : y <= e
      BY <1>3, <3>1, <3>2
    <3> QED BY <1>3, <3>1, <3>3 DEF Top
  <2>5. EndOf(map') = init + e
    BY <1>3, <1>4, <2>1
  <2>6. lines' \subseteq DOMAIN ends /\ DOMAIN ends # {}
    BY <1>3, <2>1
  <2> QED BY <1>1, <1>3, <1>4, <2>1, <2>3, <2>4, <2>5, <2>6 DEF WritingInv
<1>7. EntriesInv' /\ CallInv' /\ ScanInv' /\ ToldInv'
  BY <1>1, <1>2 DEF ImplInv, EntriesInv, CallInv, ScanInv, ToldInv
<1> QED BY <1>5, <1>6, <1>7 DEF ImplInv

\* After the last line the catalogue ends where the file ends.
LEMMA WrittenKeeps == ImplInv /\ ImplWrite /\ lines = {} /\ stage' = "query" /\ UNCHANGED implVars => ImplInv'
<1> SUFFICES ASSUME ImplInv, ImplWrite, lines = {}, stage' = "query", UNCHANGED implVars PROVE ImplInv'
  OBVIOUS
<1>1. /\ Writing /\ Impl /\ stage = "write" /\ UNCHANGED <<call, todo, left>>
  BY DEF ImplWrite, Writing
<1>2. ~Writing' /\ Impl' /\ told = Untold
  BY <1>1 DEF Writing, Impl, ImplInv, ToldInv
<1>3. /\ init \in Nat /\ Len(string) = init + Len(vec) /\ DOMAIN ends # {}
      /\ \E w \in Nat : Top(DOMAIN ends \ lines, w) /\ EndOf(map) = init + w
      /\ map # << >>
  BY <1>1 DEF ImplInv, WritingInv
<1>4. EndOf(map) = Len(string)
  <2>1. Layout(ends, vec)
    BY DEF ImplInv, EntriesInv
  <2>2. PICK w \in Nat : Top(DOMAIN ends, w) /\ EndOf(map) = init + w
    BY <1>3
  <2>3. w = Len(vec)
    <3>1. DOMAIN ends \subseteq 0..Len(vec) /\ Len(vec) \in Nat /\ (Len(vec) # 0 => Len(vec) \in DOMAIN ends)
      <4>1. vec \in Seq(Prints)
        BY <2>1 DEF Layout
      <4>2. Len(vec) # 0 => vec # << >>
        OBVIOUS
      <4> QED BY <2>1, <4>1, <4>2 DEF Layout
    <3> QED BY <2>2, <3>1 DEF Top
  <2> QED BY <1>3, <2>2, <2>3
<1>5. FileInv' /\ WritingInv'
  BY <1>1, <1>2, <1>3, <1>4 DEF ImplInv, FileInv, WritingInv, implVars
<1>6. EntriesInv' /\ CallInv' /\ ScanInv' /\ ToldInv'
  BY <1>1, <1>2 DEF ImplInv, EntriesInv, CallInv, ScanInv, ToldInv, implVars
<1> QED BY <1>5, <1>6 DEF ImplInv

LEMMA ImplReadKeeps == ImplInv /\ ImplRead => ImplInv'
<1> SUFFICES ASSUME ImplInv, ImplRead PROVE ImplInv'
  OBVIOUS
<1>1. /\ Impl /\ stage = "read" /\ stage' = "query" /\ ~NeverEof /\ vec' = string
      /\ UNCHANGED <<call, todo, left, string, map, exists, lines, init, size, i, best, told>>
  BY DEF ImplRead, ReadDB, Go
<1>2. ~Writing /\ ~Writing' /\ Impl' /\ told = Untold
  BY <1>1 DEF Writing, Impl, ImplInv, ToldInv
<1>3. Chain(map, string) /\ EndOf(map) = Len(string) /\ map # << >> /\ ends = NoEnds
  BY <1>1, <1>2 DEF ImplInv, FileInv, EntriesInv, NeverEof
<1>4. ends' = Catalogue
  <2>1. ends' = With(Catalogue, Last(map).end, "")
    BY <1>1, <1>3 DEF ImplRead, ReadDB
  <2>2. Len(map) \in DOMAIN map
    BY <1>3, EndOfFacts
  <2>3. Last(map).end \in DOMAIN Catalogue
    BY <2>2 DEF Last, Catalogue
  <2>4. DOMAIN Catalogue \union {Last(map).end} = DOMAIN Catalogue /\ Catalogue = [x \in DOMAIN Catalogue |-> Catalogue[x]]
    BY <2>3 DEF Catalogue
  <2>5. With(Catalogue, Last(map).end, "") = [x \in DOMAIN Catalogue |-> Catalogue[x]]
    <3> HIDE DEF Catalogue
    <3> QED BY <2>4 DEF With
  <2> QED BY <2>1, <2>4, <2>5
<1>5. /\ DOMAIN ends' = {map[k].end : k \in DOMAIN map}
      /\ \A e \in DOMAIN ends' : ends'[e] = map[Min({k \in DOMAIN map : map[k].end = e})].name
  BY <1>3, <1>4 DEF Catalogue, LinesOf, NoEnds
<1>6. Layout(ends', vec')
  BY <1>1, <1>3, <1>5, ChainLayout
<1>7. FileInv' /\ WritingInv'
  BY <1>1, <1>2, <1>3 DEF ImplInv, FileInv, WritingInv
<1>8. EntriesInv' /\ CallInv' /\ ScanInv' /\ ToldInv'
  BY <1>1, <1>2, <1>6 DEF ImplInv, EntriesInv, CallInv, ScanInv, ToldInv
<1> QED BY <1>7, <1>8 DEF ImplInv

LEMMA ImplQueryKeeps == ImplInv /\ ImplQuery => ImplInv'
<1> SUFFICES ASSUME ImplInv, ImplQuery PROVE ImplInv'
  OBVIOUS
<1>1. /\ Impl /\ stage = "query" /\ stage' = "scan" /\ left # << >> /\ left' = Tail(left)
      /\ size' = Head(left) /\ i' = 0 /\ best' = [at |-> Len(vec), dist |-> Head(left)] /\ told' = Untold
      /\ UNCHANGED <<call, todo, string, map, exists, vec, ends, lines, init>>
  BY DEF ImplQuery, QueryStart, Go
<1>2. ~Writing /\ ~Writing' /\ Impl'
  BY <1>1 DEF Writing, Impl
<1>3. Head(left) \in Nat /\ left' \in Seq(Nat)
  BY <1>1 DEF ImplInv, CallInv
<1>4. Len(vec) \in Nat
  BY DEF ImplInv, EntriesInv, Layout
<1>5. FileInv' /\ WritingInv' /\ EntriesInv'
  BY <1>1, <1>2 DEF ImplInv, FileInv, WritingInv, EntriesInv
<1>6. CallInv' /\ ScanInv' /\ ToldInv'
  BY <1>1, <1>3, <1>4 DEF CallInv, ScanInv, ToldInv
<1> QED BY <1>5, <1>6 DEF ImplInv

LEMMA PlaceKeeps ==
    ASSUME ImplInv, ImplScan, NEW dist \in Nat, QueryPlace(dist), UNCHANGED stage
    PROVE  ImplInv'
<1>1. /\ Impl /\ stage = "scan" /\ ~QueryFatal /\ i < Len(vec) - size /\ i' = i + 1
      /\ best' = IF dist < best.dist THEN [at |-> i, dist |-> dist] ELSE best
      /\ told' = IF dist <= Limit THEN Tell(i, dist) ELSE told
      /\ UNCHANGED <<call, todo, left, stage, string, map, exists, vec, ends, lines, init, size>>
  BY DEF ImplScan, QueryPlace
<1>2. ~Writing /\ ~Writing' /\ Impl'
  BY <1>1 DEF Writing, Impl
<1>3. /\ Layout(ends, vec) /\ Len(vec) \in Nat /\ size \in Nat /\ i \in Nat
      /\ best.at \in 0..Len(vec) /\ best.dist \in Nat /\ best.dist <= size
      /\ best.at = Len(vec) \/ best.dist < size
  BY <1>1 DEF ImplInv, EntriesInv, Layout, ScanInv
<1>4. i \in 0..Len(vec) /\ i < Len(vec)
  BY <1>1, <1>3
<1>5. Place(vec, Tell(i, dist))
  <2>1. vec # << >>
    BY <1>3, <1>4
  <2>2. Len(vec) \in {e \in DOMAIN ends : e >= i}
    BY <1>3, <1>4, <2>1 DEF Layout
  <2> QED BY <1>3, <1>4, <2>2, TellRight
<1>6. FileInv' /\ WritingInv' /\ EntriesInv' /\ CallInv'
  BY <1>1, <1>2 DEF ImplInv, FileInv, WritingInv, EntriesInv, CallInv
<1>7. ScanInv'
  <2>1. CASE dist < best.dist
    <3>1. best'.at = i /\ best'.dist = dist
      BY <1>1, <2>1
    <3> QED BY <1>1, <1>3, <1>4, <2>1, <3>1 DEF ScanInv
  <2>2. CASE ~(dist < best.dist)
    BY <1>1, <1>3, <2>2 DEF ScanInv
  <2> QED BY <2>1, <2>2
<1>8. ToldInv'
  BY <1>1, <1>2, <1>5 DEF ImplInv, ToldInv
<1> QED BY <1>6, <1>7, <1>8 DEF ImplInv

LEMMA BestKeeps == ImplInv /\ ImplScan /\ QueryBest /\ stage' = "query" => ImplInv'
<1> SUFFICES ASSUME ImplInv, ImplScan, QueryBest, stage' = "query" PROVE ImplInv'
  OBVIOUS
<1>1. /\ Impl /\ stage = "scan" /\ ~QueryFatal /\ i >= Len(vec) - size
      /\ told' = Tell(best.at, best.dist)
      /\ UNCHANGED <<call, todo, left, string, map, exists, vec, ends, lines, init, size, i, best>>
  BY DEF ImplScan, QueryBest
<1>2. ~Writing /\ ~Writing' /\ Impl'
  BY <1>1 DEF Writing, Impl
<1>3. /\ Layout(ends, vec) /\ best.at \in 0..Len(vec) /\ (best.at = Len(vec) \/ best.dist < size)
  BY <1>1 DEF ImplInv, EntriesInv, ScanInv
<1>4. {e \in DOMAIN ends : e >= best.at} # {}
  BY <1>1 DEF QueryFatal
<1>5. Place(vec, told') /\ told'.at = best.at /\ told'.dist = best.dist
  BY <1>1, <1>3, <1>4, TellRight
<1>6. FileInv' /\ WritingInv' /\ EntriesInv' /\ CallInv' /\ ScanInv'
  BY <1>1, <1>2 DEF ImplInv, FileInv, WritingInv, EntriesInv, CallInv, ScanInv
<1>7. ToldInv'
  BY <1>1, <1>2, <1>3, <1>5 DEF ToldInv
<1> QED BY <1>6, <1>7 DEF ImplInv

LEMMA ImplNext == ImplInv /\ [Next]_vars => ImplInv'
<1> SUFFICES ASSUME ImplInv, [Next]_vars PROVE ImplInv'
  OBVIOUS
<1>1. CASE Start
  BY <1>1, StartKeeps
<1>2. CASE ImplInsert
  BY <1>2, ImplInsertKeeps
<1>3. CASE ImplStore
  BY <1>3, ImplStoreKeeps
<1>4. CASE ImplWrite
  BY <1>4, LineKeeps, WrittenKeeps DEF ImplWrite, Go
<1>5. CASE ImplRead
  BY <1>5, ImplReadKeeps
<1>6. CASE ImplQuery
  BY <1>6, ImplQueryKeeps
<1>7. CASE ImplScan
  <2>1. Distances \subseteq Nat
    BY ImplAssumption DEF ImplAssumption
  <2>2. ASSUME NEW dist \in Distances, QueryPlace(dist), UNCHANGED stage
        PROVE  ImplInv'
    BY <1>7, <2>1, <2>2, PlaceKeeps
  <2>3. CASE QueryBest /\ Go("query")
    BY <1>7, <2>3, BestKeeps DEF Go
  <2>4. CASE QueryFatal /\ Go("crash") /\ UNCHANGED implVars
    <3>1. ~Writing /\ UNCHANGED <<call, left>>
      BY <1>7 DEF ImplScan, Writing
    <3> QED BY <2>4, <3>1, StageKeeps DEF Go
  <2> QED BY <1>7, <2>2, <2>3, <2>4 DEF ImplScan
<1>8. CASE TestInsert \/ TestStore \/ TestWrite \/ TestLoad \/ TestQuery \/ TestCompare
  <2>1. Test /\ UNCHANGED <<call, implVars>>
    BY <1>8 DEF TestInsert, TestStore, TestWrite, TestLoad, TestQuery, TestCompare
  <2>2. ~Impl
    BY <2>1 DEF Test, Impl
  <2> QED BY <2>1, <2>2, OtherKeeps
<1>9. CASE Missing \/ Return
  <2>1. ~Writing /\ UNCHANGED <<call, left, implVars>> /\ stage' \in {"stopped", "crash"}
    BY <1>9 DEF Missing, Return, Go, Writing
  <2> QED BY <2>1, StageKeeps
<1>10. CASE UNCHANGED vars
  <2>1. UNCHANGED <<call, todo, left, stage>> /\ UNCHANGED implVars /\ Impl' = Impl /\ Writing' = Writing
    BY <1>10 DEF vars, mainVars, Impl, Writing
  <2> QED BY <2>1 DEF ImplInv, FileInv, WritingInv, EntriesInv, CallInv, ScanInv, ToldInv, implVars
<1> QED BY <1>1, <1>2, <1>3, <1>4, <1>5, <1>6, <1>7, <1>8, <1>9, <1>10 DEF Next, Step

\* What ismir_impl has in memory and in its two files agrees, at every step of
\* any calls: vector and map of ends, file and catalogue, what is still to be
\* written, and what was printed.
THEOREM ImplInvariance == Spec => []ImplInv
BY ImplStart, ImplNext, PTL DEF Spec

\* Whatever several calls of ismir_impl have inserted, written and read, a place
\* it prints is in the track that it names, at the number it gives.
THEOREM PlacesAreTold == Spec => []PlaceTold
<1>1. ImplInv => PlaceTold
  BY DEF ImplInv, ToldInv, Place, PlaceTold
<1> QED BY <1>1, ImplInvariance, PTL

-----------------------------------------------------------------------------
(* The abstract index that the files are                                   *)

Named(c)   == [k \in DOMAIN c |-> c[k].name]
Indexed(c, v) == SubSeq(v, 1, EndOf(c))

LEMMA GrownIs ==
    /\ [k \in DOMAIN map |-> map[k].name] = Named(map)
    /\ SubSeq(string, 1, IF map = << >> THEN 0 ELSE Last(map).end) = Indexed(map, string)
BY DEF Named, Indexed, EndOf

LEMMA GrownStart == Init => Grown!Init
<1> SUFFICES ASSUME Init PROVE Grown!Init
  OBVIOUS
<1>1. map = << >> /\ string = << >>
  BY DEF Init, ImplInit
<1>2. [k \in DOMAIN map |-> map[k].name] = << >> /\ SubSeq(string, 1, IF map = << >> THEN 0 ELSE Last(map).end) = << >>
  BY <1>1
<1> QED BY <1>2 DEF Grown!Init

\* Fingerprints that are appended are behind what the catalogue accounts for.
LEMMA IndexedStays ==
    ASSUME NEW c, NEW v, Chain(c, v), NEW w \in Seq(Prints)
    PROVE  Indexed(c, v \o w) = Indexed(c, v)
<1>1. v \in Seq(Prints) /\ EndOf(c) \in Nat /\ EndOf(c) <= Len(v)
  BY EndOfFacts DEF Chain
<1> QED BY <1>1 DEF Indexed

LineAdded(c, e, t)  == Append(c, [end |-> e, name |-> t])
TrackAdded(c, d, v, t) ==
    /\ Named(d) = Append(Named(c), t)
    /\ Indexed(d, v) = Indexed(c, v) \o [k \in 1..FpCount[t] |-> <<t, k>>]

\* A line makes the index longer by one whole track.
LEMMA IndexedGrows ==
    ASSUME NEW c, NEW v, Chain(c, v), NEW t \in Tracks, NEW e, e = EndOf(c) + FpCount[t],
           e <= Len(v), TrackAt(v, EndOf(c), t),
           NEW d, d = LineAdded(c, e, t)
    PROVE  TrackAdded(c, d, v, t)
<1> DEFINE line == [end |-> e, name |-> t]
           b == EndOf(c)
           n == FpCount[t]
           p == [k \in 1..n |-> <<t, k>>]
<1>1. /\ b \in Nat /\ n \in Nat /\ e \in Nat /\ e = b + n /\ e <= Len(v) /\ Len(v) \in Nat
      /\ v \in Seq(Prints) /\ c \in Seq(Lines) /\ EndOf(d) = e
  BY EndOfFacts, ChainGrows, ImplAssumption DEF ImplAssumption, Chain, LineAdded
<1>2. Named(d) = Append(Named(c), t)
  <2>1. line \in Lines /\ line.name = t
    BY <1>1 DEF Lines
  <2>2. c \in Seq(Lines) /\ \A k \in 1..Len(c) : c[k].name \in Tracks
    <3>1. \A k \in 1..Len(c) : c[k] \in Lines
      BY <1>1
    <3> QED BY <1>1, <3>1 DEF Lines
  <2>8. d = Append(c, line)
    BY DEF LineAdded
  <2> HIDE DEF line
  <2>3. Len(c) \in Nat /\ DOMAIN d = 1 .. Len(c) + 1 /\ d[Len(c) + 1] = line /\ \A k \in 1..Len(c) : d[k] = c[k]
    BY <2>1, <2>2, <2>8
  <2>4. Named(c) \in Seq(Tracks) /\ Len(Named(c)) = Len(c) /\ \A k \in 1..Len(c) : Named(c)[k] = c[k].name
    BY <2>2 DEF Named
  <2> DEFINE a == Append(Named(c), t)
  <2>5. a \in Seq(Tracks) /\ DOMAIN a = 1 .. Len(c) + 1 /\ a[Len(c) + 1] = t /\ \A k \in 1..Len(c) : a[k] = c[k].name
    BY <2>3, <2>4
  <2> HIDE DEF a
  <2>6. \A k \in 1 .. Len(c) + 1 : a[k] = d[k].name
    BY <2>1, <2>3, <2>5
  <2>7. a = [k \in DOMAIN a |-> a[k]]
    BY <2>5
  <2> QED BY <2>3, <2>5, <2>6, <2>7 DEF a, Named
<1>3. \A k \in 1..n : v[b + k] = p[k]
  BY DEF TrackAt
<1> HIDE DEF b, n
<1>4. p \in Seq(Prints) /\ Len(p) = n
  <2>1. \A k \in 1..n : <<t, k>> \in Prints
    BY <1>1 DEF Prints
  <2> QED BY <1>1, <2>1
<1> HIDE DEF p
<1>5. SubSeq(v, 1, e) = SubSeq(v, 1, b) \o p
  <2> DEFINE l == SubSeq(v, 1, e)
             r == SubSeq(v, 1, b) \o p
  <2>1. l \in Seq(Prints) /\ Len(l) = e /\ \A k \in 1..e : l[k] = v[k]
    BY <1>1
  <2>2. SubSeq(v, 1, b) \in Seq(Prints) /\ Len(SubSeq(v, 1, b)) = b /\ \A k \in 1..b : SubSeq(v, 1, b)[k] = v[k]
    BY <1>1
  <2>3. r \in Seq(Prints) /\ Len(r) = b + n /\ \A k \in 1..b : r[k] = v[k]
    BY <1>1, <1>4, <2>2
  <2>4. \A k \in 1..n : r[b + k] = p[k]
    <3> DEFINE q == SubSeq(v, 1, b)
    <3>1. q \in Seq(Prints) /\ Len(q) = b /\ p \in Seq(Prints) /\ Len(p) = n /\ b \in Nat /\ n \in Nat
      BY <1>1, <1>4, <2>2
    <3> HIDE DEF q
    <3>2. \A k \in 1..n : (q \o p)[b + k] = p[k]
      BY <3>1
    <3> QED BY <3>2 DEF q
  <2> HIDE DEF l, r
  <2>5. \A k \in 1..e : l[k] = r[k]
    <3>1. ASSUME NEW k \in 1..e, ~(k \in 1..b) PROVE l[k] = r[k]
      <4>1. k - b \in 1..n /\ b + (k - b) = k
        BY <1>1, <3>1
      <4> QED BY <1>3, <2>1, <2>4, <4>1
    <3> QED BY <2>1, <2>3, <3>1
  <2> QED BY <1>1, <2>1, <2>3, <2>5, SeqEqual DEF l, r
<1> QED BY <1>1, <1>2, <1>5 DEF Indexed, TrackAdded, p, b, n

LEMMA GrownStep ==
    ASSUME ImplInv, [Next]_vars
    PROVE  \/ Grown!Next
           \/ UNCHANGED << [d \in {"string_ismir"} |-> [k \in DOMAIN map |-> map[k].name]],
                           [d \in {"string_ismir"} |->
                               SubSeq(string, 1, IF map = << >> THEN 0 ELSE Last(map).end)] >>
<1>1. CASE UNCHANGED <<map, string>>
  BY <1>1
<1>2. CASE map' = map /\ string' = string \o vec
  <2>1. Chain(map, string) /\ vec \in Seq(Prints)
    BY DEF ImplInv, FileInv, EntriesInv, Layout
  <2>2. Indexed(map', string') = Indexed(map, string)
    BY <1>2, <2>1, IndexedStays
  <2> QED BY <1>2, <2>2 DEF Indexed, EndOf
<1>3. CASE ImplWrite /\ WriteLine
  <2> DEFINE e == Min(lines)
             t == ends[e]
  <2>1. Writing /\ string' = string
    BY <1>3 DEF ImplWrite, Writing, WriteLine
  <2>2. /\ t \in Tracks /\ map' = Append(map, [end |-> e + init, name |-> t])
        /\ e + init = EndOf(map) + FpCount[t] /\ e + init <= Len(string)
        /\ TrackAt(string, EndOf(map), t)
    BY <1>3, <2>1, LineWritten
  <2> HIDE DEF e, t
  <2>6. Chain(map, string)
    BY DEF ImplInv, FileInv
  <2> DEFINE f == e + init
  <2>7. f = EndOf(map) + FpCount[t] /\ f <= Len(string) /\ map' = Append(map, [end |-> f, name |-> t])
    BY <2>2
  <2> HIDE DEF f
  <2>3. /\ Named(map') = Append(Named(map), t)
        /\ Indexed(map', string') = Indexed(map, string) \o [k \in 1..FpCount[t] |-> <<t, k>>]
    <3> DEFINE d == map'
    <3>1. TrackAt(string, EndOf(map), t) /\ t \in Tracks
      BY <2>2
    <3>3. d = LineAdded(map, f, t) /\ string' = string
      BY <2>1, <2>7 DEF LineAdded
    <3> HIDE DEF d
    <3>4. f = EndOf(map) + FpCount[t] /\ f <= Len(string)
      BY <2>7
    <3>2. TrackAdded(map, d, string, t)
      BY <2>6, <3>1, <3>3, <3>4, IndexedGrows
    <3> QED BY <3>2, <3>3 DEF d, TrackAdded
  <2> DEFINE D == {"string_ismir"}
             T == [d \in D |-> Named(map)]
             S == [d \in D |-> Indexed(map, string)]
             Tn == [d \in D |-> Named(map')]
             Sn == [d \in D |-> Indexed(map', string')]
  <2>4. /\ "string_ismir" \in D
        /\ Tn = [T EXCEPT !["string_ismir"] = Append(T["string_ismir"], t)]
        /\ Sn = [S EXCEPT !["string_ismir"] = S["string_ismir"] \o [k \in 1..FpCount[t] |-> <<t, k>>]]
    BY <2>3
  <2>5. Grown!Add("string_ismir", t)
    BY <2>4 DEF Grown!Add, Named, Indexed, EndOf
  <2> QED
    <3>1. t \in Tracks /\ "string_ismir" \in {"string_ismir"}
      BY <2>2
    <3>2. Grown!Next
      BY <2>5, <3>1, Zenon DEF Grown!Next, Grown!Add
    <3> QED BY <3>2
<1>4. UNCHANGED <<map, string>> \/ (map' = map /\ string' = string \o vec) \/ (ImplWrite /\ WriteLine)
  BY DEF Next, Step, vars, implVars, Start, ImplLost, ImplInsert, ImplInsertFile, TestInsert, Missing,
         ImplStore, WriteVector, ImplWrite, ImplRead, ReadDB, TestStore, TestWrite, TestLoad,
         ImplQuery, QueryStart, ImplScan, QueryPlace, QueryBest, TestQuery, TestCompare, Return
<1> QED BY <1>1, <1>2, <1>3, <1>4

\* The two files of ismir_impl are what IndexSpec promises: a line of the
\* catalogue adds one whole track, also where several calls have appended, and
\* no other step changes what they hold.
THEOREM ImplGrows == Spec => ImplAddsWholeTracks
<1>1. Init => Grown!Init
  BY GrownStart
<1>2. ImplInv /\ [Next]_vars =>
        [Grown!Next]_<< [d \in {"string_ismir"} |-> [k \in DOMAIN map |-> map[k].name]],
                        [d \in {"string_ismir"} |->
                            SubSeq(string, 1, IF map = << >> THEN 0 ELSE Last(map).end)] >>
  BY GrownStep
<1> QED BY <1>1, <1>2, ImplInvariance, PTL DEF Spec, ImplAddsWholeTracks, Grown!Spec

-----------------------------------------------------------------------------
(* test_my_fingerprint: sums of sizes, and many insertions                 *)

\* The sums of the first ones
Sums(s, v) ==
    v \in [0..Len(s) -> Nat] /\ v[0] = 0 /\ \A k \in 1..Len(s) : v[k] = v[k - 1] + s[k]

LEMMA TotalIs ==
    ASSUME NEW s \in Seq(Nat)
    PROVE  \E v : Sums(s, v) /\ Total(s) = v[Len(s)]
<1> DEFINE n == Len(s)
           op == [m \in Nat |-> [k \in 1..n |-> m + s[k]]]
           Is(h) == h = [z \in SUBSET (1..n) |-> IF z = {} THEN 0 ELSE h[z \ {Max(z)}] + s[Max(z)]]
           c == CHOOSE h : Is(h)
<1>1. n \in Nat /\ DOMAIN s = 1..n /\ \A k \in 1..n : s[k] \in Nat
  OBVIOUS
<1>2. Total(s) = c[1..n]
  BY <1>1, Zenon DEF Total, FoldLeft, MapThenFoldSet
<1> HIDE DEF n
<1>3. op \in [Nat -> [1..n -> Nat]] /\ 0 \in Nat
  <2>1. \A m \in Nat : [k \in 1..n |-> m + s[k]] \in [1..n -> Nat]
    BY <1>1
  <2> QED BY <2>1
<1>4. \A m \in Nat : \A k \in 1..n : op[m][k] = m + s[k]
  OBVIOUS
<1> HIDE DEF op
<1>5a. PICK h \in [SUBSET (1..n) -> Nat] : FoldsNumbers(n, Nat, 0, op, h)
  BY <1>1, <1>3, NumbersFold
<1>5. \A z \in SUBSET (1..n) :
            /\ h[z] = IF z = {} THEN 0 ELSE op[h[z \ {Max(z)}]][Max(z)]
            /\ z # {} => Max(z) \in 1..n /\ h[z \ {Max(z)}] \in Nat
  BY <1>5a DEF FoldsNumbers
<1>6. \A z \in SUBSET (1..n) : z # {} => Max(z) \in 1..n
  BY <1>5
<1>7. Is(h)
  <2>1. \A z \in SUBSET (1..n) : h[z] = IF z = {} THEN 0 ELSE h[z \ {Max(z)}] + s[Max(z)]
    BY <1>4, <1>5
  <2>2. h = [z \in SUBSET (1..n) |-> h[z]]
    OBVIOUS
  <2> QED BY <2>1, <2>2, Zenon
<1>8. Is(c)
  <2> HIDE DEF Is
  <2> QED BY <1>7
<1> HIDE DEF c
<1>9. FoldsTyped(n, Nat, 0, op, c)
  <2>1. \A z \in SUBSET (1..n) : c[z] = IF z = {} THEN 0 ELSE c[z \ {Max(z)}] + s[Max(z)]
    BY <1>8
  <2> HIDE DEF Is
  <2>2. {} \in SUBSET (1..n)
    OBVIOUS
  <2> QED BY <1>4, <1>6, <2>1, <2>2 DEF FoldsTyped
<1>10. PICK v \in [0..n -> Nat] : Steps(n, 0, op, v, c[1..n])
  BY <1>1, <1>3, <1>9, FoldSteps
<1>11. \A k \in 1..n : v[k] = v[k - 1] + s[k]
  <2>1. \A k \in 1..n : v[k - 1] \in Nat
    BY <1>1, <1>10
  <2> QED BY <1>4, <1>10, <2>1 DEF Steps
<1>12. Sums(s, v) /\ Total(s) = v[n]
  BY <1>2, <1>10, <1>11 DEF Sums, Steps, n
<1> QED BY <1>12 DEF n

\* The database: a bucket, never empty, for each of finitely many fingerprints
Keys    == SUBSET Int
Buckets == Seq(Nat) \ {<< >>}
Tables  == UNION {[F -> Buckets] : F \in {G \in SUBSET Keys : IsFiniteSet(G)}}
Entry   == Keys \X Nat

LEMMA TableFacts ==
    ASSUME NEW t \in Tables
    PROVE  /\ DOMAIN t \in SUBSET Keys /\ IsFiniteSet(DOMAIN t)
           /\ t = [p \in DOMAIN t |-> t[p]]
           /\ \A p \in DOMAIN t : t[p] \in Seq(Nat) /\ Len(t[p]) \in Nat \ {0}
                                  /\ DOMAIN t[p] = 1..Len(t[p])
<1>1. PICK F \in SUBSET Keys : IsFiniteSet(F) /\ t \in [F -> Buckets]
  BY DEF Tables
<1>2. DOMAIN t = F /\ t = [p \in DOMAIN t |-> t[p]] /\ \A p \in F : t[p] \in Buckets
  BY <1>1
<1>3. \A q \in Buckets : q \in Seq(Nat) /\ Len(q) \in Nat \ {0} /\ DOMAIN q = 1..Len(q)
  BY EmptySeq DEF Buckets
<1> QED BY <1>1, <1>2, <1>3

InsertIs(t, f, x, u) ==
    /\ u \in Tables
    /\ DOMAIN u = DOMAIN t \union {f}
    /\ u[f] = (IF f \in DOMAIN t THEN Append(t[f], x) ELSE <<x>>)
    /\ \A p \in DOMAIN t : p # f => u[p] = t[p]

LEMMA InsertFacts ==
    ASSUME NEW t \in Tables, NEW f \in Keys, NEW x \in Nat
    PROVE  InsertIs(t, f, x, Insert(t, f, x))
<1> DEFINE u == Insert(t, f, x)
           D == DOMAIN t \union {f}
<1>1. /\ DOMAIN t \in SUBSET Keys /\ IsFiniteSet(DOMAIN t)
      /\ \A p \in DOMAIN t : t[p] \in Seq(Nat) /\ Len(t[p]) \in Nat \ {0}
  BY TableFacts
<1>2. u = [p \in D |-> (IF p \in DOMAIN t THEN t[p] ELSE << >>) \o (IF p = f THEN <<x>> ELSE << >>)]
  BY DEF Insert
<1> HIDE DEF u
<1>3. D \in SUBSET Keys /\ IsFiniteSet(D)
  BY <1>1, FS_AddElement
<1>4. /\ \A q \in Seq(Nat) : q \o << >> = q /\ q \o <<x>> = Append(q, x)
      /\ << >> \o <<x>> = <<x>>
  <2>1. ASSUME NEW q \in Seq(Nat) PROVE q \o <<x>> = Append(q, x)
    <3>1. <<x>> \in Seq(Nat) /\ Len(<<x>>) = 1 /\ <<x>>[1] = x
      OBVIOUS
    <3>2. /\ q \o <<x>> \in Seq(Nat) /\ Len(q) \in Nat /\ Len(q \o <<x>>) = Len(q) + 1
          /\ \A k \in 1..Len(q) : (q \o <<x>>)[k] = q[k]
          /\ \A k \in 1..1 : (q \o <<x>>)[Len(q) + k] = <<x>>[k]
      BY <3>1, ConcatFacts
    <3>3. /\ Append(q, x) \in Seq(Nat) /\ Len(Append(q, x)) = Len(q) + 1
          /\ Append(q, x)[Len(q) + 1] = x /\ \A k \in 1..Len(q) : Append(q, x)[k] = q[k]
      BY AppendFacts
    <3>4. \A k \in 1 .. Len(q) + 1 : (q \o <<x>>)[k] = Append(q, x)[k]
      <4>1. \A k \in 1 .. Len(q) + 1 : k \in 1..Len(q) \/ k = Len(q) + 1
        BY <3>2
      <4>2. (q \o <<x>>)[Len(q) + 1] = x
        <5>1. 1 \in 1..1
          OBVIOUS
        <5> QED BY <3>1, <3>2, <5>1
      <4> QED BY <3>2, <3>3, <4>1, <4>2, Zenon
    <3> QED BY <3>2, <3>3, <3>4, SeqEqual
  <2>2. \A q \in Seq(Nat) : q \o << >> = q
    OBVIOUS
  <2>3. << >> \o <<x>> = <<x>>
    OBVIOUS
  <2> QED BY <2>1, <2>2, <2>3
<1>5. DOMAIN u = D /\ u = [p \in D |-> u[p]]
  BY <1>2
<1>6. u[f] = IF f \in DOMAIN t THEN Append(t[f], x) ELSE <<x>>
  <2>1. u[f] = (IF f \in DOMAIN t THEN t[f] ELSE << >>) \o <<x>>
    BY <1>2
  <2> QED BY <1>1, <1>4, <2>1
<1>7. ASSUME NEW p \in DOMAIN t, p # f PROVE u[p] = t[p]
  <2>1. u[p] = t[p] \o << >>
    BY <1>2, <1>7
  <2> QED BY <1>1, <1>4, <2>1
<1>8. ASSUME NEW p \in D PROVE u[p] \in Buckets
  <2>1. ASSUME NEW q \in Seq(Nat), Len(q) # 0 PROVE q \in Buckets
    BY <2>1, EmptySeq DEF Buckets
  <2>2. CASE p = f /\ f \in DOMAIN t
    <3>1. Append(t[f], x) \in Seq(Nat) /\ Len(Append(t[f], x)) # 0
      BY <1>1, <2>2, AppendFacts
    <3> QED BY <1>6, <2>1, <2>2, <3>1
  <2>3. CASE p = f /\ f \notin DOMAIN t
    <3>1. <<x>> \in Seq(Nat) /\ Len(<<x>>) # 0
      OBVIOUS
    <3> QED BY <1>6, <2>1, <2>3, <3>1
  <2>4. CASE p # f
    <3>1. p \in DOMAIN t /\ u[p] = t[p]
      BY <1>7, <2>4
    <3>2. t[p] \in Seq(Nat) /\ Len(t[p]) # 0
      BY <1>1, <3>1
    <3> QED BY <2>1, <3>1, <3>2
  <2> QED BY <2>2, <2>3, <2>4
<1>9. u \in Tables
  <2>1. u \in [D -> Buckets]
    BY <1>5, <1>8
  <2> HIDE DEF D
  <2> QED BY <1>3, <2>1 DEF Tables
<1> QED BY <1>5, <1>6, <1>7, <1>9 DEF u, InsertIs

\* What each insertion leads to from what the one before led to
Leads(es, G) ==
    \A k \in 1..Len(es) : \A u \in Tables : u \in G[k - 1] => Insert(u, es[k][1], es[k][2]) \in G[k]

LEMMA InsertAllReaches ==
    ASSUME NEW es \in Seq(Entry), NEW t \in Tables, NEW G, t \in G[0], Leads(es, G)
    PROVE  InsertAll(t, es) \in Tables /\ InsertAll(t, es) \in G[Len(es)]
<1> DEFINE n == Len(es)
           op == [u \in Tables |-> [k \in 1..n |-> Insert(u, es[k][1], es[k][2])]]
           Is(h) == h = [z \in SUBSET (1..n) |-> IF z = {} THEN t
                           ELSE Insert(h[z \ {Max(z)}], es[Max(z)][1], es[Max(z)][2])]
           c == CHOOSE h : Is(h)
<1>1. n \in Nat /\ DOMAIN es = 1..n /\ \A k \in 1..n : es[k][1] \in Keys /\ es[k][2] \in Nat
  <2>1. \A k \in 1..n : es[k] \in Entry
    OBVIOUS
  <2> QED BY <2>1 DEF Entry
<1>2. InsertAll(t, es) = c[1..n]
  BY <1>1, Zenon DEF InsertAll, FoldLeft, MapThenFoldSet
<1> HIDE DEF n
<1>3. op \in [Tables -> [1..n -> Tables]]
  <2>1. \A u \in Tables : \A k \in 1..n : Insert(u, es[k][1], es[k][2]) \in Tables
    BY <1>1, InsertFacts DEF InsertIs
  <2>2. \A u \in Tables : [k \in 1..n |-> Insert(u, es[k][1], es[k][2])] \in [1..n -> Tables]
    BY <2>1
  <2> QED BY <2>2
<1>4. \A u \in Tables : \A k \in 1..n : op[u][k] = Insert(u, es[k][1], es[k][2])
  OBVIOUS
<1> HIDE DEF op
<1>5. PICK h \in [SUBSET (1..n) -> Tables] : FoldsNumbers(n, Tables, t, op, h)
  BY <1>1, <1>3, NumbersFold
<1>6. \A z \in SUBSET (1..n) :
         /\ h[z] = IF z = {} THEN t ELSE op[h[z \ {Max(z)}]][Max(z)]
         /\ z # {} => Max(z) \in 1..n /\ h[z \ {Max(z)}] \in Tables
  BY <1>5 DEF FoldsNumbers
<1>7. Is(h)
  <2>1. \A z \in SUBSET (1..n) :
           h[z] = IF z = {} THEN t ELSE Insert(h[z \ {Max(z)}], es[Max(z)][1], es[Max(z)][2])
    BY <1>4, <1>6
  <2>2. h = [z \in SUBSET (1..n) |-> h[z]]
    OBVIOUS
  <2> QED BY <2>1, <2>2, Zenon
<1>8. Is(c)
  <2> HIDE DEF Is
  <2> QED BY <1>7
<1> HIDE DEF c
<1>9. FoldsTyped(n, Tables, t, op, c)
  <2>1. \A z \in SUBSET (1..n) :
           c[z] = IF z = {} THEN t ELSE Insert(c[z \ {Max(z)}], es[Max(z)][1], es[Max(z)][2])
    BY <1>8
  <2> HIDE DEF Is
  <2>2. {} \in SUBSET (1..n)
    OBVIOUS
  <2>3. \A z \in SUBSET (1..n) : z # {} => Max(z) \in 1..n
    BY <1>6
  <2> QED BY <1>4, <2>1, <2>2, <2>3 DEF FoldsTyped
<1>10. PICK v \in [0..n -> Tables] : Steps(n, t, op, v, c[1..n])
  BY <1>1, <1>3, <1>9, FoldSteps
<1> DEFINE D == {k \in 0..n : v[k] \notin G[k]}
<1>11. D = {}
  <2> SUFFICES ASSUME D # {} PROVE FALSE
    OBVIOUS
  <2>1. PICK k \in D : \A j \in D : k <= j
    <3>1. D \in SUBSET Nat
      OBVIOUS
    <3> HIDE DEF D
    <3> QED BY <3>1, Least
  <2>2. k \in 0..n /\ v[k] \notin G[k]
    OBVIOUS
  <2>3. k \in 1..n /\ k - 1 \in 0..n /\ ~(k <= k - 1)
    <3>1. v[0] = t
      BY <1>10 DEF Steps
    <3>2. k # 0
      BY <2>2, <3>1
    <3> QED BY <1>1, <2>2, <3>2
  <2>4. v[k - 1] \in G[k - 1] /\ v[k - 1] \in Tables
    <3>1. k - 1 \notin D
      <4> HIDE DEF D
      <4> QED BY <2>1, <2>3
    <3> QED BY <2>3, <3>1
  <2>5. v[k] = Insert(v[k - 1], es[k][1], es[k][2])
    BY <1>4, <1>10, <2>3, <2>4 DEF Steps
  <2> QED BY <2>2, <2>3, <2>4, <2>5 DEF Leads, n
<1>12. v[n] = InsertAll(t, es) /\ n \in 0..n
  BY <1>1, <1>2, <1>10 DEF Steps
<1>13. v[n] \in G[n] /\ v[n] \in Tables
  BY <1>11, <1>12
<1> QED BY <1>12, <1>13 DEF n

-----------------------------------------------------------------------------
(* test_my_fingerprint: the entries of a database, and what the first ones *)
(* of them give when they are inserted                                     *)

\* Where the entries of each bucket begin
Placing(t, es, b) ==
    /\ b \in [DOMAIN t -> Nat]
    /\ \A p \in DOMAIN t : \A k \in DOMAIN t[p] :
          b[p] + k \in DOMAIN es /\ es[b[p] + k] = <<p, t[p][k]>>
    /\ \A j \in DOMAIN es : \E p \in DOMAIN t : \E k \in DOMAIN t[p] : j = b[p] + k

LEMMA EntriesPlaced ==
    ASSUME NEW t \in Tables
    PROVE  Entries(t) \in Seq(Entry) /\ \E b : Placing(t, Entries(t), b)
<1> DEFINE keys == SetToSeq(DOMAIN t)
           n    == Cardinality(DOMAIN t)
           of(f) == [k \in DOMAIN t[f] |-> <<f, t[f][k]>>]
           q    == [m \in DOMAIN keys |-> of(keys[m])]
           es   == FlattenSeq(q)
<1>1. /\ DOMAIN t \in SUBSET Keys /\ IsFiniteSet(DOMAIN t)
      /\ \A p \in DOMAIN t : t[p] \in Seq(Nat) /\ DOMAIN t[p] = 1..Len(t[p])
  BY TableFacts
<1>2. /\ n \in Nat /\ keys \in [1..n -> DOMAIN t] /\ IsInjective(keys)
      /\ \A p \in DOMAIN t : \E k \in 1..n : keys[k] = p
  BY <1>1, SetToSeqFacts
<1>3. Entries(t) = es
  BY DEF Entries
<1> HIDE DEF keys, n
<1>4. ASSUME NEW p \in DOMAIN t PROVE of(p) \in Seq(Entry) /\ DOMAIN of(p) = DOMAIN t[p]
  <2>1. p \in Keys /\ Len(t[p]) \in Nat /\ DOMAIN t[p] = 1..Len(t[p]) /\ \A k \in 1..Len(t[p]) : t[p][k] \in Nat
    BY <1>1
  <2>2. \A k \in DOMAIN t[p] : <<p, t[p][k]>> \in Entry
    BY <2>1 DEF Entry
  <2>3. of(p) \in [1..Len(t[p]) -> Entry]
    BY <2>1, <2>2
  <2>4. \A m \in Nat : \A s \in [1..m -> Entry] : s \in Seq(Entry)
    OBVIOUS
  <2> QED BY <2>1, <2>3, <2>4
<1> DEFINE ofs == [p \in DOMAIN t |-> of(p)]
<1>5. q \in Seq(Seq(Entry)) /\ DOMAIN q = 1..n /\ \A m \in 1..n : q[m] = ofs[keys[m]]
  <2>1. DOMAIN q = 1..n /\ \A m \in 1..n : keys[m] \in DOMAIN t /\ q[m] = of(keys[m])
    BY <1>2
  <2>2. \A m \in 1..n : q[m] \in Seq(Entry)
    BY <1>4, <2>1
  <2>3. q \in [1..n -> Seq(Entry)]
    BY <2>1, <2>2
  <2>4. \A S : \A m \in Nat : \A s \in [1..m -> S] : s \in Seq(S)
    OBVIOUS
  <2>5. q \in Seq(Seq(Entry))
    <3> HIDE DEF q
    <3> QED BY <1>2, <2>3, <2>4
  <2> QED BY <2>1, <2>5
<1>6. /\ \A p \in DOMAIN t : ofs[p] \in Seq(Entry) /\ DOMAIN ofs[p] = DOMAIN t[p]
      /\ \A p \in DOMAIN t : \A k \in DOMAIN t[p] : ofs[p][k] = <<p, t[p][k]>>
  BY <1>4
<1> HIDE DEF q, ofs
<1>7. PICK c : es \in Seq(Entry) /\ InPlaces(q, es, c)
  BY <1>5, FlattenPlaces
<1> HIDE DEF es
<1>8. PICK m \in [DOMAIN t -> 1..n] : \A p \in DOMAIN t : keys[m[p]] = p
  <2>1. [p \in DOMAIN t |-> CHOOSE k \in 1..n : keys[k] = p] \in [DOMAIN t -> 1..n]
    BY <1>2
  <2>2. \A p \in DOMAIN t : keys[CHOOSE k \in 1..n : keys[k] = p] = p
    BY <1>2
  <2> QED BY <2>1, <2>2
<1> DEFINE b == [p \in DOMAIN t |-> c[m[p]]]
<1>9. b \in [DOMAIN t -> Nat]
  BY <1>5, <1>7, <1>8 DEF InPlaces
<1>10. ASSUME NEW p \in DOMAIN t, NEW k \in DOMAIN t[p]
       PROVE  b[p] + k \in DOMAIN es /\ es[b[p] + k] = <<p, t[p][k]>>
  <2>1. m[p] \in 1..n /\ keys[m[p]] = p /\ b[p] = c[m[p]]
    BY <1>8
  <2>2. m[p] \in DOMAIN q /\ q[m[p]] = ofs[p] /\ k \in DOMAIN q[m[p]]
    BY <1>5, <1>6, <2>1
  <2>3. c[m[p]] + k \in DOMAIN es /\ es[c[m[p]] + k] = q[m[p]][k]
    BY <1>7, <2>2 DEF InPlaces
  <2> QED BY <1>6, <2>1, <2>2, <2>3
<1>11. ASSUME NEW j \in DOMAIN es
       PROVE  \E p \in DOMAIN t : \E k \in DOMAIN t[p] : j = b[p] + k
  <2>1. PICK x \in DOMAIN q : \E k \in DOMAIN q[x] : j = c[x] + k
    BY <1>7 DEF InPlaces
  <2>2. PICK k \in DOMAIN q[x] : j = c[x] + k
    BY <2>1
  <2>3. x \in 1..n /\ keys[x] \in DOMAIN t /\ q[x] = ofs[keys[x]]
    BY <1>2, <1>5
  <2>4. m[keys[x]] = x
    <3>1. m[keys[x]] \in 1..n /\ keys[m[keys[x]]] = keys[x]
      BY <1>8, <2>3
    <3> QED BY <1>2, <2>3, <3>1 DEF IsInjective
  <2>5. k \in DOMAIN t[keys[x]] /\ b[keys[x]] = c[x]
    BY <1>6, <2>2, <2>3, <2>4
  <2> QED BY <2>2, <2>3, <2>5
<1>12. Placing(t, es, b)
  <2> HIDE DEF b
  <2> QED BY <1>9, <1>10, <1>11 DEF Placing
<1> QED BY <1>3, <1>7, <1>12

\* What the first m entries give: so many of the entries of each bucket, of those
\* that begin among them
Begun(t, b, m, p) == IF b[p] + Len(t[p]) <= m THEN Len(t[p]) ELSE m - b[p]

Upto(t, b, m) ==
    [p \in {x \in DOMAIN t : b[x] < m} |-> [k \in 1..Begun(t, b, m, p) |-> t[p][k]]]

UptoIs(t, b, m, u) ==
    /\ u \in Tables
    /\ DOMAIN u = {x \in DOMAIN t : b[x] < m}
    /\ \A p \in DOMAIN u :
          /\ p \in DOMAIN t /\ Begun(t, b, m, p) \in 1..Len(t[p])
          /\ u[p] = [k \in 1..Begun(t, b, m, p) |-> t[p][k]]
          /\ u[p] \in Seq(Nat) /\ Len(u[p]) = Begun(t, b, m, p)

LEMMA UptoTyped ==
    ASSUME NEW t \in Tables, NEW b \in [DOMAIN t -> Nat], NEW m \in Nat
    PROVE  UptoIs(t, b, m, Upto(t, b, m))
<1> DEFINE D == {x \in DOMAIN t : b[x] < m}
           u == Upto(t, b, m)
<1>1. /\ DOMAIN t \in SUBSET Keys /\ IsFiniteSet(DOMAIN t)
      /\ \A p \in DOMAIN t : t[p] \in Seq(Nat) /\ Len(t[p]) \in Nat \ {0} /\ DOMAIN t[p] = 1..Len(t[p])
  BY TableFacts
<1>2. u = [p \in D |-> [k \in 1..Begun(t, b, m, p) |-> t[p][k]]]
  BY DEF Upto
<1> HIDE DEF u
<1>3. ASSUME NEW p \in D
      PROVE  /\ Begun(t, b, m, p) \in 1..Len(t[p])
             /\ u[p] = [k \in 1..Begun(t, b, m, p) |-> t[p][k]]
             /\ u[p] \in Seq(Nat) /\ Len(u[p]) = Begun(t, b, m, p)
  <2>1. Begun(t, b, m, p) \in 1..Len(t[p])
    <3>1. b[p] \in Nat /\ b[p] < m /\ Len(t[p]) \in Nat \ {0}
      BY <1>1
    <3> QED BY <3>1 DEF Begun
  <2>2. u[p] = [k \in 1..Begun(t, b, m, p) |-> t[p][k]]
    BY <1>2
  <2>3. \A k \in 1..Begun(t, b, m, p) : t[p][k] \in Nat
    <3>1. \A k \in 1..Begun(t, b, m, p) : k \in 1..Len(t[p])
      BY <1>1, <2>1
    <3> QED BY <1>1, <3>1
  <2>4. Begun(t, b, m, p) \in Nat /\ u[p] \in [1..Begun(t, b, m, p) -> Nat]
    BY <1>1, <2>1, <2>2, <2>3
  <2>5. \A l \in Nat : \A s \in [1..l -> Nat] : s \in Seq(Nat) /\ Len(s) = l
    OBVIOUS
  <2> QED BY <2>1, <2>2, <2>4, <2>5
<1>4. u \in Tables
  <2>1. \A p \in D : u[p] \in Buckets
    <3>1. \A s \in Seq(Nat) : Len(s) # 0 => s \in Buckets
      BY EmptySeq DEF Buckets
    <3>2. ASSUME NEW p \in D PROVE u[p] \in Seq(Nat) /\ Len(u[p]) # 0
      <4>1. \A n \in 1..Len(t[p]) : n # 0
        BY <1>1
      <4> HIDE DEF D
      <4> QED BY <1>3, <4>1
    <3> QED BY <3>1, <3>2
  <2>2. u \in [D -> Buckets]
    BY <1>2, <2>1
  <2>3. D \in SUBSET Keys /\ IsFiniteSet(D)
    <3>1. D \subseteq DOMAIN t
      OBVIOUS
    <3> HIDE DEF D
    <3> QED BY <1>1, <3>1, FS_Subset
  <2> HIDE DEF D
  <2> QED BY <2>2, <2>3 DEF Tables
<1>5. DOMAIN u = D
  BY <1>2
<1> QED BY <1>3, <1>4, <1>5 DEF u, UptoIs

LEMMA UptoNext ==
    ASSUME NEW t \in Tables, NEW es \in Seq(Entry), NEW b, Placing(t, es, b),
           NEW m \in Nat, m < Len(es)
    PROVE  Insert(Upto(t, b, m), es[m + 1][1], es[m + 1][2]) = Upto(t, b, m + 1)
<1> DEFINE n == m + 1
           u == Upto(t, b, m)
           w == Upto(t, b, n)
<1>1. /\ DOMAIN t \in SUBSET Keys
      /\ \A p \in DOMAIN t : t[p] \in Seq(Nat) /\ Len(t[p]) \in Nat \ {0} /\ DOMAIN t[p] = 1..Len(t[p])
  BY TableFacts
<1>2. b \in [DOMAIN t -> Nat] /\ Len(es) \in Nat /\ n \in DOMAIN es
  BY DEF Placing
<1>3. PICK p \in DOMAIN t : \E k \in DOMAIN t[p] : n = b[p] + k
  BY <1>2 DEF Placing
<1>4. PICK k \in DOMAIN t[p] : n = b[p] + k
  BY <1>3
<1> DEFINE x == t[p][k]
           v == Insert(u, p, x)
<1>5. es[n] = <<p, x>>
  BY <1>4 DEF Placing
<1>6. p \in Keys /\ x \in Nat /\ k \in 1..Len(t[p]) /\ b[p] \in Nat /\ Len(t[p]) \in Nat
  BY <1>1, <1>2, <1>4
<1>7. \A y \in DOMAIN t : \A j \in DOMAIN t[y] : n = b[y] + j => y = p
  <2>1. ASSUME NEW y \in DOMAIN t, NEW j \in DOMAIN t[y], n = b[y] + j PROVE y = p
    <3>1. es[n] = <<y, t[y][j]>>
      BY <2>1 DEF Placing
    <3> QED BY <1>5, <3>1
  <2> QED BY <2>1
<1>8a. UptoIs(t, b, m, u)
  BY <1>2, UptoTyped
<1>8. /\ u \in Tables /\ DOMAIN u = {y \in DOMAIN t : b[y] < m}
      /\ \A y \in DOMAIN u : /\ y \in DOMAIN t
                             /\ u[y] = [j \in 1..Begun(t, b, m, y) |-> t[y][j]]
                             /\ u[y] \in Seq(Nat) /\ Len(u[y]) = Begun(t, b, m, y)
  BY <1>8a DEF UptoIs
<1>9a. UptoIs(t, b, n, w)
  <2>1. n \in Nat
    OBVIOUS
  <2> HIDE DEF n
  <2> QED BY <1>2, <2>1, UptoTyped
<1>9. /\ w \in Tables /\ DOMAIN w = {y \in DOMAIN t : b[y] < n}
      /\ \A y \in DOMAIN w : /\ y \in DOMAIN t
                             /\ w[y] = [j \in 1..Begun(t, b, n, y) |-> t[y][j]]
                             /\ w[y] \in Seq(Nat) /\ Len(w[y]) = Begun(t, b, n, y)
  BY <1>9a DEF UptoIs
<1>9b. x = t[p][k]
  OBVIOUS
<1> HIDE DEF u, w, x
<1>10a. InsertIs(u, p, x, v)
  BY <1>6, <1>8, InsertFacts
<1>10. /\ v \in Tables /\ DOMAIN v = DOMAIN u \union {p}
       /\ v[p] = (IF p \in DOMAIN u THEN Append(u[p], x) ELSE <<x>>)
       /\ \A y \in DOMAIN u : y # p => v[y] = u[y]
  BY <1>10a DEF InsertIs
<1> HIDE DEF v
<1>11. \A y \in DOMAIN t : y # p =>
          (b[y] < m <=> b[y] < n) /\ (b[y] < m => Begun(t, b, m, y) = Begun(t, b, n, y))
  <2> SUFFICES ASSUME NEW y \in DOMAIN t, y # p
               PROVE  (b[y] < m <=> b[y] < n) /\ (b[y] < m => Begun(t, b, m, y) = Begun(t, b, n, y))
    OBVIOUS
  <2>1. b[y] \in Nat /\ Len(t[y]) \in Nat \ {0} /\ DOMAIN t[y] = 1..Len(t[y])
    BY <1>1, <1>2
  <2>2. n - b[y] \notin 1..Len(t[y])
    <3>1. b[y] + (n - b[y]) = n
      BY <2>1
    <3> QED BY <1>7, <2>1, <3>1
  <2> QED BY <2>1, <2>2 DEF Begun
<1>12. DOMAIN v = DOMAIN w
  <2>1. b[p] < n
    BY <1>4, <1>6
  <2>2. DOMAIN v \subseteq DOMAIN w
    <3>1. \A y \in DOMAIN t : b[y] < m => b[y] < n
      BY <1>2
    <3> QED BY <1>8, <1>9, <1>10, <2>1, <3>1
  <2>3. DOMAIN w \subseteq DOMAIN v
    BY <1>8, <1>9, <1>10, <1>11
  <2> QED BY <2>2, <2>3
<1>13. v[p] = w[p]
  <2>1. Begun(t, b, n, p) = k /\ (k > 1 => Begun(t, b, m, p) = k - 1)
    BY <1>4, <1>6 DEF Begun
  <2>2. p \in DOMAIN w /\ w[p] \in Seq(Nat) /\ Len(w[p]) = k /\ \A j \in 1..k : w[p][j] = t[p][j]
    <3>1. p \in DOMAIN w
      BY <1>10, <1>12
    <3> QED BY <1>9, <2>1, <3>1
  <2>3. p \in DOMAIN u <=> k > 1
    BY <1>4, <1>6, <1>8
  <2>4. CASE k = 1
    <3>1. v[p] = <<x>>
      BY <1>10, <2>3, <2>4
    <3>2. v[p] \in Seq(Nat) /\ Len(v[p]) = 1 /\ v[p][1] = x
      BY <1>6, <3>1
    <3>3. \A j \in 1..k : v[p][j] = w[p][j]
      BY <1>9b, <2>2, <2>4, <3>2
    <3> QED BY <2>2, <2>4, <3>2, <3>3, SeqEqual
  <2>5. CASE k # 1
    <3>1. k > 1 /\ k - 1 \in Nat
      BY <1>6, <2>5
    <3>2. p \in DOMAIN u /\ u[p] \in Seq(Nat) /\ Len(u[p]) = k - 1 /\ \A j \in 1 .. k - 1 : u[p][j] = t[p][j]
      <4>1. p \in DOMAIN u /\ Begun(t, b, m, p) = k - 1
        BY <2>1, <2>3, <3>1
      <4>2. u[p] = [j \in 1 .. k - 1 |-> t[p][j]] /\ u[p] \in Seq(Nat) /\ Len(u[p]) = k - 1
        BY <1>8, <4>1
      <4> QED BY <4>1, <4>2
    <3>3. v[p] = Append(u[p], x)
      BY <1>10, <3>2
    <3>4. /\ v[p] \in Seq(Nat) /\ Len(v[p]) = k /\ v[p][k] = x
          /\ \A j \in 1 .. k - 1 : v[p][j] = u[p][j]
      <4>1. (k - 1) + 1 = k
        BY <1>6
      <4> QED BY <1>6, <3>2, <3>3, <4>1, AppendFacts
    <3>5. \A j \in 1..k : v[p][j] = w[p][j]
      <4>1. \A j \in 1..k : j = k \/ j \in 1 .. k - 1
        BY <1>6
      <4>2. k \in 1..k
        BY <1>6
      <4> QED BY <1>9b, <2>2, <3>2, <3>4, <4>1, <4>2
    <3> QED BY <2>2, <3>4, <3>5, SeqEqual
  <2> QED BY <2>4, <2>5
<1>14. ASSUME NEW y \in DOMAIN w, y # p PROVE v[y] = w[y]
  <2>1. y \in DOMAIN u /\ y \in DOMAIN t
    BY <1>9, <1>10, <1>12, <1>14
  <2>2. b[y] < m
    BY <1>8, <2>1
  <2>3. Begun(t, b, m, y) = Begun(t, b, n, y)
    BY <1>11, <1>14, <2>1, <2>2
  <2>4. u[y] = [j \in 1..Begun(t, b, m, y) |-> t[y][j]]
    BY <1>8, <2>1
  <2>5. w[y] = [j \in 1..Begun(t, b, n, y) |-> t[y][j]]
    BY <1>9
  <2>6. v[y] = u[y]
    BY <1>10, <1>14, <2>1
  <2> QED BY <2>3, <2>4, <2>5, <2>6
<1>15. v = w
  <2>1. v = [y \in DOMAIN v |-> v[y]] /\ w = [y \in DOMAIN w |-> w[y]]
    BY <1>9, <1>10, TableFacts
  <2>2. \A y \in DOMAIN w : v[y] = w[y]
    BY <1>13, <1>14
  <2> QED BY <1>12, <2>1, <2>2
<1>16. es[n][1] = p /\ es[n][2] = x
  BY <1>5
<1> QED BY <1>15, <1>16 DEF u, v, w, x

LEMMA UptoEnds ==
    ASSUME NEW t \in Tables, NEW es \in Seq(Entry), NEW b, Placing(t, es, b)
    PROVE  Upto(t, b, 0) = NoTable /\ Upto(t, b, Len(es)) = t
<1> DEFINE n == Len(es)
<1>1. /\ t = [p \in DOMAIN t |-> t[p]]
      /\ \A p \in DOMAIN t : t[p] \in Seq(Nat) /\ Len(t[p]) \in Nat \ {0} /\ DOMAIN t[p] = 1..Len(t[p])
  BY TableFacts
<1>2. b \in [DOMAIN t -> Nat] /\ n \in Nat /\ DOMAIN es = 1..n
  BY DEF Placing
<1>3. Upto(t, b, 0) = NoTable
  <2>1. {x \in DOMAIN t : b[x] < 0} = {}
    BY <1>2
  <2>2. Upto(t, b, 0) = [p \in {} |-> [k \in 1..Begun(t, b, 0, p) |-> t[p][k]]]
    BY <2>1 DEF Upto
  <2>3. \A f, g : DOMAIN f = {} /\ DOMAIN g = {} /\ f = [p \in {} |-> f[p]] /\ g = [p \in {} |-> g[p]] => f = g
    OBVIOUS
  <2> QED BY <2>2 DEF NoTable
<1>4. \A p \in DOMAIN t : b[p] + Len(t[p]) \in 1..n
  <2>1. \A p \in DOMAIN t : Len(t[p]) \in DOMAIN t[p]
    BY <1>1
  <2> QED BY <1>2, <2>1 DEF Placing
<1>5. \A p \in DOMAIN t : b[p] < n /\ Begun(t, b, n, p) = Len(t[p])
  BY <1>1, <1>2, <1>4 DEF Begun
<1> DEFINE w == Upto(t, b, n)
<1>6a. UptoIs(t, b, n, w)
  BY <1>2, UptoTyped
<1>6. /\ w \in Tables /\ DOMAIN w = {x \in DOMAIN t : b[x] < n}
      /\ \A p \in DOMAIN w : w[p] = [k \in 1..Begun(t, b, n, p) |-> t[p][k]]
  BY <1>6a DEF UptoIs
<1>7. w = [p \in DOMAIN w |-> w[p]]
  BY <1>6, TableFacts
<1> HIDE DEF w, n
<1>8. DOMAIN w = DOMAIN t
  BY <1>5, <1>6
<1>9. \A p \in DOMAIN t : w[p] = t[p]
  <2>1. ASSUME NEW p \in DOMAIN t PROVE w[p] = t[p]
    <3>1. w[p] = [k \in DOMAIN t[p] |-> t[p][k]]
      <4>1. Begun(t, b, n, p) = Len(t[p]) /\ DOMAIN t[p] = 1..Len(t[p])
        BY <1>1, <1>5
      <4>2. w[p] = [k \in 1..Begun(t, b, n, p) |-> t[p][k]]
        BY <1>6, <1>8
      <4> QED BY <4>1, <4>2
    <3>2. t[p] = [k \in DOMAIN t[p] |-> t[p][k]]
      <4>1. \A s \in Seq(Nat) : s = [k \in DOMAIN s |-> s[k]]
        OBVIOUS
      <4> QED BY <1>1, <4>1
    <3> QED BY <3>1, <3>2
  <2> QED BY <2>1
<1>10. w = t
  BY <1>1, <1>7, <1>8, <1>9
<1> QED BY <1>3, <1>10 DEF w, n

\* A block of entries
LEMMA UptoBlock ==
    ASSUME NEW t \in Tables, NEW es \in Seq(Entry), NEW b, Placing(t, es, b),
           NEW m \in Nat, NEW r \in Nat, m + r <= Len(es)
    PROVE  InsertAll(Upto(t, b, m), [k \in 1..r |-> es[m + k]]) = Upto(t, b, m + r)
<1> DEFINE part == [k \in 1..r |-> es[m + k]]
           G == [k \in 0..r |-> {Upto(t, b, m + k)}]
<1>1. b \in [DOMAIN t -> Nat] /\ Len(es) \in Nat /\ \A k \in 1..r : m + k \in 1..Len(es) /\ es[m + k] \in Entry
  BY DEF Placing
<1>2. part \in Seq(Entry) /\ Len(part) = r /\ \A k \in 1..r : part[k] = es[m + k]
  <2>1. part \in [1..r -> Entry]
    BY <1>1
  <2>2. \A l \in Nat : \A s \in [1..l -> Entry] : s \in Seq(Entry) /\ Len(s) = l
    OBVIOUS
  <2> QED BY <2>1, <2>2
<1>3. \A k \in 0..r : G[k] = {Upto(t, b, m + k)}
  OBVIOUS
<1>4. 0 \in 0..r /\ r \in 0..r /\ m + 0 = m
  OBVIOUS
<1> HIDE DEF part, G
<1>5. Upto(t, b, m) \in Tables /\ Upto(t, b, m) \in G[0]
  BY <1>1, <1>3, <1>4, UptoTyped DEF UptoIs
<1>6. ASSUME NEW k \in 1..r
      PROVE  \A u \in Tables : u \in G[k - 1] => Insert(u, part[k][1], part[k][2]) \in G[k]
  <2>1. k - 1 \in 0..r /\ k \in 0..r /\ m + (k - 1) \in Nat /\ (m + (k - 1)) + 1 = m + k /\ m + (k - 1) < Len(es)
    BY <1>1
  <2>2. Insert(Upto(t, b, m + (k - 1)), es[m + k][1], es[m + k][2]) = Upto(t, b, m + k)
    <3> DEFINE l == m + (k - 1)
    <3>1. l \in Nat /\ l < Len(es) /\ l + 1 = m + k
      BY <2>1
    <3> HIDE DEF l
    <3>2. Insert(Upto(t, b, l), es[l + 1][1], es[l + 1][2]) = Upto(t, b, l + 1)
      BY <3>1, UptoNext
    <3>3. Insert(Upto(t, b, l), es[m + k][1], es[m + k][2]) = Upto(t, b, m + k)
      BY <3>1, <3>2, Zenon
    <3> QED BY <3>3 DEF l
  <2>3. G[k - 1] = {Upto(t, b, m + (k - 1))} /\ G[k] = {Upto(t, b, m + k)} /\ part[k] = es[m + k]
    BY <1>2, <1>3, <2>1
  <2> QED BY <2>2, <2>3, Zenon
<1>7. Leads(part, G)
  BY <1>2, <1>6 DEF Leads
<1>8. InsertAll(Upto(t, b, m), part) \in G[r]
  BY <1>2, <1>5, <1>7, InsertAllReaches
<1>9. InsertAll(Upto(t, b, m), part) = Upto(t, b, m + r)
  BY <1>3, <1>4, <1>8
<1> QED BY <1>9 DEF part

-----------------------------------------------------------------------------
(* test_my_fingerprint: where the header of the file ends                  *)

LEMMA SumsTyped ==
    ASSUME NEW s \in Seq(Nat), NEW v, Sums(s, v)
    PROVE  /\ Len(s) \in Nat /\ v[0] = 0
           /\ \A k \in 0..Len(s) : v[k] \in Nat
           /\ \A k \in 1..Len(s) : s[k] \in Nat /\ v[k - 1] \in Nat /\ v[k] = v[k - 1] + s[k]
<1>1. Len(s) \in Nat /\ DOMAIN s = 1..Len(s) /\ \A k \in 1..Len(s) : s[k] \in Nat
  OBVIOUS
<1>2. \A k \in 1..Len(s) : k - 1 \in 0..Len(s)
  BY <1>1
<1> QED BY <1>1, <1>2 DEF Sums

\* Where two sequences agree, so do the differences of their sums.
LEMMA SumsShift ==
    ASSUME NEW s \in Seq(Nat), NEW v, Sums(s, v), NEW z \in Seq(Nat), NEW w, Sums(z, w),
           NEW d \in Nat, NEW n \in Nat, n <= Len(s), d + n <= Len(z),
           \A k \in 1..n : z[d + k] = s[k]
    PROVE  w[d + n] = w[d] + v[n]
<1> DEFINE D == {k \in 0..n : w[d + k] # w[d] + v[k]}
<1>1. Len(s) \in Nat /\ Len(z) \in Nat /\ v[0] = 0
      /\ (\A k \in 0..Len(s) : v[k] \in Nat) /\ (\A k \in 0..Len(z) : w[k] \in Nat)
  BY SumsTyped
<1>2. D = {}
  <2> SUFFICES ASSUME D # {} PROVE FALSE
    OBVIOUS
  <2>1. PICK k \in D : \A j \in D : k <= j
    <3>1. D \in SUBSET Nat
      OBVIOUS
    <3> HIDE DEF D
    <3> QED BY <3>1, Least
  <2>2. k \in 0..n /\ w[d + k] # w[d] + v[k]
    OBVIOUS
  <2>3. k # 0
    <3>1. d + 0 = d /\ d \in 0..Len(z)
      BY <1>1
    <3>2. w[d + 0] = w[d] + v[0]
      BY <1>1, <3>1
    <3> QED BY <2>2, <3>2
  <2>4. k \in 1..n /\ k - 1 \in 0..n /\ ~(k <= k - 1)
    BY <2>2, <2>3
  <2>5. w[d + (k - 1)] = w[d] + v[k - 1]
    <3>1. k - 1 \notin D
      <4> HIDE DEF D
      <4> QED BY <2>1, <2>4
    <3> QED BY <2>4, <3>1
  <2>6. k \in 1..Len(s) /\ d + k \in 1..Len(z) /\ (d + k) - 1 = d + (k - 1)
    <3>1. k \in Nat /\ 1 <= k /\ k <= n /\ d \in Nat /\ n \in Nat
      BY <2>4
    <3> HIDE DEF D
    <3>2. k \in 1..Len(s)
      BY <1>1, <3>1
    <3>3. d + k \in 1..Len(z)
      BY <1>1, <3>1
    <3>4. (d + k) - 1 = d + (k - 1)
      BY <3>1
    <3> QED BY <3>2, <3>3, <3>4
  <2>7. v[k] = v[k - 1] + s[k] /\ v[k - 1] \in Nat /\ s[k] \in Nat
    BY <2>6, SumsTyped
  <2>8. w[d + k] = w[d + (k - 1)] + z[d + k]
    <3> DEFINE l == d + k
    <3>1. l \in 1..Len(z) /\ l - 1 = d + (k - 1)
      BY <2>6
    <3> HIDE DEF l
    <3>2. w[l] = w[l - 1] + z[l]
      BY <3>1, SumsTyped
    <3> QED BY <3>1, <3>2 DEF l
  <2>9. z[d + k] = s[k] /\ w[d] \in Nat
    BY <1>1, <2>4
  <2> HIDE DEF D
  <2>10. w[d + k] = (w[d] + v[k - 1]) + s[k]
    BY <2>5, <2>8, <2>9
  <2>11. \A a, b, e \in Nat : (a + b) + e = a + (b + e)
    OBVIOUS
  <2>12. w[d + k] = w[d] + (v[k - 1] + s[k])
    BY <2>7, <2>9, <2>10, <2>11
  <2> QED BY <2>2, <2>7, <2>12
<1>3. n \in 0..n
  OBVIOUS
<1> QED BY <1>2, <1>3

LEMMA SumsAscend ==
    ASSUME NEW s \in Seq(Nat), NEW v, Sums(s, v), \A k \in 1..Len(s) : s[k] # 0,
           NEW m \in 0..Len(s), NEW n \in 0..Len(s), m < n
    PROVE  v[m] < v[n]
<1> DEFINE D == {k \in (m + 1)..n : ~(v[m] < v[k])}
<1>1. Len(s) \in Nat /\ m \in Nat /\ n \in Nat /\ n <= Len(s) /\ \A k \in 0..Len(s) : v[k] \in Nat
  BY SumsTyped
<1>2. D = {}
  <2> SUFFICES ASSUME D # {} PROVE FALSE
    OBVIOUS
  <2>1. PICK k \in D : \A j \in D : k <= j
    <3>1. D \in SUBSET Nat
      BY <1>1
    <3> HIDE DEF D
    <3> QED BY <3>1, Least
  <2>2. k \in (m + 1)..n /\ ~(v[m] < v[k])
    OBVIOUS
  <2>3. k \in 1..Len(s) /\ k - 1 \in 0..Len(s) /\ ~(k <= k - 1) /\ (k - 1 = m \/ k - 1 \in (m + 1)..n)
    BY <1>1, <2>2
  <2>4. v[k] = v[k - 1] + s[k] /\ v[k - 1] \in Nat /\ s[k] \in Nat /\ s[k] # 0
    BY <2>3, SumsTyped
  <2>5. v[m] = v[k - 1] \/ v[m] < v[k - 1]
    <3>1. k - 1 \notin D
      <4> HIDE DEF D
      <4> QED BY <1>1, <2>1, <2>2, <2>3
    <3>2. k - 1 = m \/ v[m] < v[k - 1]
      BY <2>3, <3>1
    <3> QED BY <3>2
  <2>6. v[m] \in Nat /\ v[k] \in Nat
    BY <1>1, <2>3
  <2> HIDE DEF D
  <2>7. v[k - 1] < v[k]
    BY <2>4, <2>6
  <2> QED BY <2>2, <2>4, <2>5, <2>6, <2>7
<1>3. n \in (m + 1)..n
  BY <1>1
<1> QED BY <1>2, <1>3

\* Names a file may be called, and the groups that are written
Called == DOMAIN Slices \union {Garbled}

HeaderGroup(x) == [kind |-> "header", size |-> 8, is |-> x]
NameGroup(x)   == [kind |-> "name", size |-> 4 + NameLength[x], is |-> x]
EntryGroup(x)  == [kind |-> "entry", size |-> 16, is |-> x]

Group == {HeaderGroup(x) : x \in Nat \X Nat} \union {NameGroup(x) : x \in Called}
         \union {EntryGroup(x) : x \in Entry}

ContentsIs(t, names, c) ==
    /\ c \in Seq(Group)
    /\ Len(c) = (1 + Len(names)) + Len(Entries(t))
    /\ c[1] = HeaderGroup(<<HeaderLength(names), Len(names)>>)
    /\ \A k \in 1..Len(names) : c[1 + k] = NameGroup(names[k])
    /\ \A k \in 1..Len(Entries(t)) : c[(1 + Len(names)) + k] = EntryGroup(Entries(t)[k])

\* The sizes of the names, as the header's length is computed from them
NameSizes(names) == [k \in DOMAIN names |-> NameLength[names[k]] + 4]

LEMMA NameSizesTyped ==
    ASSUME NEW names \in Seq(Called)
    PROVE  /\ NameSizes(names) \in Seq(Nat) /\ Len(NameSizes(names)) = Len(names)
           /\ \A k \in 1..Len(names) : NameSizes(names)[k] = NameLength[names[k]] + 4
           /\ \E v : Sums(NameSizes(names), v) /\ HeaderLength(names) = 4 + v[Len(names)]
           /\ HeaderLength(names) \in Nat
<1> DEFINE q == NameSizes(names)
<1>1. Len(names) \in Nat /\ DOMAIN names = 1..Len(names) /\ \A k \in 1..Len(names) : names[k] \in Called
  OBVIOUS
<1>2. \A k \in 1..Len(names) : NameLength[names[k]] + 4 \in Nat
  BY <1>1, NamesAssumption DEF NamesAssumption, Called
<1>3. q = [k \in 1..Len(names) |-> NameLength[names[k]] + 4]
  BY <1>1 DEF NameSizes
<1>4. q \in Seq(Nat) /\ Len(q) = Len(names)
  <2>1. q \in [1..Len(names) -> Nat]
    BY <1>2, <1>3
  <2>2. \A m \in Nat : \A f \in [1..m -> Nat] : f \in Seq(Nat) /\ Len(f) = m
    OBVIOUS
  <2> QED BY <1>1, <2>1, <2>2
<1>5. \A k \in 1..Len(names) : q[k] = NameLength[names[k]] + 4
  BY <1>3
<1>6. HeaderLength(names) = 4 + Total(q)
  BY DEF HeaderLength, NameSizes
<1> HIDE DEF q
<1>7. PICK v : Sums(q, v) /\ Total(q) = v[Len(q)]
  BY <1>4, TotalIs
<1>8. v[Len(q)] \in Nat
  <2>1. Len(q) \in 0..Len(q)
    BY <1>1, <1>4
  <2> QED BY <1>4, <1>7, <2>1, SumsTyped
<1> QED BY <1>4, <1>5, <1>6, <1>7, <1>8 DEF q

LEMMA ContentsTyped ==
    ASSUME NEW t \in Tables, NEW names \in Seq(Called)
    PROVE  ContentsIs(t, names, Contents(t, names))
<1> DEFINE h == << HeaderGroup(<<HeaderLength(names), Len(names)>>) >>
           p == [k \in DOMAIN names |-> NameGroup(names[k])]
           es == Entries(t)
           e == [k \in DOMAIN es |-> EntryGroup(es[k])]
<1>1. Contents(t, names) = (h \o p) \o e
  BY Zenon DEF Contents, HeaderGroup, NameGroup, EntryGroup
<1>2. HeaderLength(names) \in Nat /\ Len(names) \in Nat /\ DOMAIN names = 1..Len(names)
      /\ \A k \in 1..Len(names) : names[k] \in Called
  BY NameSizesTyped
<1>3. es \in Seq(Entry) /\ Len(es) \in Nat /\ DOMAIN es = 1..Len(es) /\ \A k \in 1..Len(es) : es[k] \in Entry
  BY EntriesPlaced
<1> HIDE DEF es
<1>4. h \in Seq(Group) /\ Len(h) = 1 /\ h[1] = HeaderGroup(<<HeaderLength(names), Len(names)>>)
  <2> DEFINE g == HeaderGroup(<<HeaderLength(names), Len(names)>>)
  <2>1. g \in Group
    BY <1>2 DEF Group
  <2> HIDE DEF g
  <2>2. <<g>> \in Seq(Group) /\ Len(<<g>>) = 1 /\ <<g>>[1] = g
    BY <2>1
  <2> QED BY <2>2 DEF g
<1>5. \A m \in Nat : \A f \in [1..m -> Group] : f \in Seq(Group) /\ Len(f) = m
  OBVIOUS
<1>6. p \in Seq(Group) /\ Len(p) = Len(names) /\ \A k \in 1..Len(names) : p[k] = NameGroup(names[k])
  <2>1. \A k \in 1..Len(names) : NameGroup(names[k]) \in Group
    BY <1>2 DEF Group
  <2>2. p \in [1..Len(names) -> Group]
    BY <1>2, <2>1
  <2> QED BY <1>2, <1>5, <2>2
<1>7. e \in Seq(Group) /\ Len(e) = Len(es) /\ \A k \in 1..Len(es) : e[k] = EntryGroup(es[k])
  <2>1. \A k \in 1..Len(es) : EntryGroup(es[k]) \in Group
    BY <1>3 DEF Group
  <2>2. e \in [1..Len(es) -> Group]
    BY <1>3, <2>1
  <2> QED BY <1>3, <1>5, <2>2
<1> DEFINE hp == h \o p
<1> HIDE DEF h, p, e
<1>8. /\ hp \in Seq(Group) /\ Len(hp) = 1 + Len(names)
      /\ hp[1] = h[1] /\ \A k \in 1..Len(names) : hp[1 + k] = p[k]
  <2>1. /\ h \o p \in Seq(Group) /\ Len(h \o p) = Len(h) + Len(p)
        /\ \A k \in 1..Len(h) : (h \o p)[k] = h[k]
        /\ \A k \in 1..Len(p) : (h \o p)[Len(h) + k] = p[k]
    <3>1. h \in Seq(Group) /\ p \in Seq(Group)
      BY <1>4, <1>6
    <3> QED BY <3>1, ConcatFacts
  <2>2. 1 \in 1..1
    OBVIOUS
  <2> QED BY <1>4, <1>6, <2>1, <2>2
<1> HIDE DEF hp
<1>9. /\ hp \o e \in Seq(Group) /\ Len(hp \o e) = Len(hp) + Len(e)
      /\ \A k \in 1..Len(hp) : (hp \o e)[k] = hp[k]
      /\ \A k \in 1..Len(e) : (hp \o e)[Len(hp) + k] = e[k]
  <2>1. hp \in Seq(Group) /\ e \in Seq(Group)
    BY <1>7, <1>8
  <2> QED BY <2>1, ConcatFacts
<1>10. 1 \in 1 .. 1 + Len(names) /\ \A k \in 1..Len(names) : 1 + k \in 1 .. 1 + Len(names)
  BY <1>2
<1>11. ContentsIs(t, names, hp \o e)
  <2>1. (hp \o e)[1] = HeaderGroup(<<HeaderLength(names), Len(names)>>)
    BY <1>4, <1>8, <1>9, <1>10
  <2>2. \A k \in 1..Len(names) : (hp \o e)[1 + k] = NameGroup(names[k])
    BY <1>6, <1>8, <1>9, <1>10
  <2>3. \A k \in 1..Len(es) : (hp \o e)[(1 + Len(names)) + k] = EntryGroup(es[k])
    BY <1>7, <1>8, <1>9
  <2> QED BY <1>7, <1>8, <1>9, <2>1, <2>2, <2>3 DEF ContentsIs, es
<1> QED BY <1>1, <1>11 DEF hp

LEMMA GroupFacts ==
    /\ \A g \in Group : g.size \in Nat /\ g.size # 0
    /\ \A x : /\ HeaderGroup(x).size = 8 /\ HeaderGroup(x).is = x
              /\ NameGroup(x).size = 4 + NameLength[x] /\ NameGroup(x).is = x
              /\ EntryGroup(x).size = 16 /\ EntryGroup(x).is = x
<1>1. \A x : /\ HeaderGroup(x).size = 8 /\ HeaderGroup(x).is = x
             /\ NameGroup(x).size = 4 + NameLength[x] /\ NameGroup(x).is = x
             /\ EntryGroup(x).size = 16 /\ EntryGroup(x).is = x
  BY DEF HeaderGroup, NameGroup, EntryGroup
<1>2. ASSUME NEW x \in Called PROVE 4 + NameLength[x] \in Nat /\ 4 + NameLength[x] # 0
  BY NamesAssumption DEF NamesAssumption, Called
<1>3. ASSUME NEW g \in Group PROVE g.size \in Nat /\ g.size # 0
  <2>1. CASE \E x : g = HeaderGroup(x)
    BY <1>1, <2>1
  <2>2. CASE \E x \in Called : g = NameGroup(x)
    BY <1>1, <1>2, <2>2
  <2>3. CASE \E x : g = EntryGroup(x)
    BY <1>1, <2>3
  <2> QED BY <2>1, <2>2, <2>3 DEF Group
<1> QED BY <1>1, <1>3

LEMMA SizesTyped ==
    ASSUME NEW c \in Seq(Group)
    PROVE  /\ [k \in DOMAIN c |-> c[k].size] \in Seq(Nat)
           /\ Len([k \in DOMAIN c |-> c[k].size]) = Len(c)
           /\ \A k \in 1..Len(c) : [j \in DOMAIN c |-> c[j].size][k] = c[k].size /\ c[k].size # 0
<1>1. Len(c) \in Nat /\ DOMAIN c = 1..Len(c) /\ \A k \in 1..Len(c) : c[k] \in Group
  OBVIOUS
<1>2. \A k \in 1..Len(c) : c[k].size \in Nat /\ c[k].size # 0
  BY <1>1, GroupFacts
<1>3. [k \in DOMAIN c |-> c[k].size] \in [1..Len(c) -> Nat]
  BY <1>1, <1>2
<1>4. \A m \in Nat : \A f \in [1..m -> Nat] : f \in Seq(Nat) /\ Len(f) = m
  OBVIOUS
<1> QED BY <1>1, <1>2, <1>3, <1>4

\* Of the beginnings of the file, the header is the only one of its length.
LEMMA HeaderFound ==
    ASSUME NEW t, NEW names \in Seq(Called), NEW c, ContentsIs(t, names, c)
    PROVE  {n \in DOMAIN c : Size(SubSeq(c, 1, n)) = 4 + c[1].is[1]} = {1 + Len(names)}
<1> DEFINE l == Len(names)
           z == [k \in DOMAIN c |-> c[k].size]
<1>1. /\ c \in Seq(Group) /\ Len(c) \in Nat /\ DOMAIN c = 1..Len(c) /\ l \in Nat /\ Len(c) >= 1 + l
      /\ c[1].size = 8 /\ c[1].is[1] = HeaderLength(names)
      /\ \A k \in 1..l : c[1 + k].size = 4 + NameLength[names[k]]
  <2>1. c \in Seq(Group)
    BY DEF ContentsIs
  <2>2. Len(c) \in Nat /\ DOMAIN c = 1..Len(c) /\ l \in Nat
    BY <2>1
  <2>3. Len(c) >= 1 + l
    <3>1. Len(Entries(t)) = Len(c) - (1 + l) \/ Len(Entries(t)) \notin Int
      BY <2>2 DEF ContentsIs
    <3> QED BY <2>2, <3>1 DEF ContentsIs
  <2>4. c[1].size = 8 /\ c[1].is[1] = HeaderLength(names)
    <3>1. c[1] = HeaderGroup(<<HeaderLength(names), Len(names)>>)
      BY DEF ContentsIs
    <3> QED BY <3>1, GroupFacts
  <2>5. \A k \in 1..l : c[1 + k].size = 4 + NameLength[names[k]]
    BY GroupFacts DEF ContentsIs
  <2> QED BY <2>1, <2>2, <2>3, <2>4, <2>5
<1>2. z \in Seq(Nat) /\ Len(z) = Len(c) /\ \A k \in 1..Len(c) : z[k] = c[k].size /\ c[k].size # 0
  BY <1>1, SizesTyped
<1> HIDE DEF z, l
<1>3. PICK w : Sums(z, w)
  BY <1>2, TotalIs
<1>4. ASSUME NEW n \in 1..Len(c) PROVE Size(SubSeq(c, 1, n)) = w[n]
  <2> DEFINE p == SubSeq(c, 1, n)
             q == [k \in DOMAIN p |-> p[k].size]
  <2>1. p \in Seq(Group) /\ Len(p) = n /\ \A k \in 1..n : p[k] = c[k]
    BY <1>1
  <2> HIDE DEF p
  <2>2. q \in Seq(Nat) /\ Len(q) = Len(p) /\ \A k \in 1..Len(p) : q[k] = p[k].size
    BY <2>1, SizesTyped
  <2>3. Size(p) = Total(q)
    BY DEF Size
  <2> HIDE DEF q
  <2>4. PICK v : Sums(q, v) /\ Total(q) = v[Len(q)]
    BY <2>2, TotalIs
  <2>5. \A k \in 1..n : z[0 + k] = q[k]
    <3>1. \A k \in 1..n : 0 + k = k /\ k \in 1..Len(c) /\ k \in 1..Len(p)
      BY <1>1, <2>1
    <3> QED BY <1>2, <2>1, <2>2, <3>1
  <2>6. 0 \in Nat /\ n \in Nat /\ n <= Len(q) /\ 0 + n <= Len(z)
    BY <1>1, <1>2, <2>1, <2>2
  <2>7. w[0 + n] = w[0] + v[n]
    <3>1. q \in Seq(Nat) /\ z \in Seq(Nat) /\ Sums(q, v) /\ Sums(z, w)
      BY <1>2, <1>3, <2>2, <2>4
    <3> QED BY <2>5, <2>6, <3>1, SumsShift
  <2>8. w[0] = 0 /\ v[n] \in Nat /\ 0 + n = n
    BY <1>2, <1>3, <2>1, <2>2, <2>4, <2>6, SumsTyped
  <2>9. w[n] = v[n]
    BY <2>7, <2>8
  <2> QED BY <2>1, <2>2, <2>3, <2>4, <2>9 DEF p
<1>5. w[1 + l] = 4 + HeaderLength(names)
  <2> DEFINE q == NameSizes(names)
  <2>1. q \in Seq(Nat) /\ Len(q) = l /\ \A k \in 1..l : q[k] = NameLength[names[k]] + 4
    BY NameSizesTyped DEF l
  <2>2. PICK v : Sums(q, v) /\ HeaderLength(names) = 4 + v[l]
    BY NameSizesTyped DEF l
  <2> HIDE DEF q
  <2>3. \A k \in 1..l : z[1 + k] = q[k]
    <3>1. \A k \in 1..l : 1 + k \in 1..Len(c) /\ c[1 + k].size = 4 + NameLength[names[k]]
      <4>1. \A k \in 1..l : 1 + k \in 1..Len(c)
        BY <1>1
      <4> QED BY <1>1, <4>1
    <3>2. \A k \in 1..l : 4 + NameLength[names[k]] = NameLength[names[k]] + 4
      <4>1. \A k \in 1..l : names[k] \in Called
        BY DEF l
      <4>2. \A k \in 1..l : NameLength[names[k]] \in Nat
        BY <4>1, NamesAssumption DEF NamesAssumption, Called
      <4> QED BY <4>2
    <3> QED BY <1>2, <2>1, <3>1, <3>2
  <2>4. 1 \in Nat /\ l \in Nat /\ l <= Len(q) /\ 1 + l <= Len(z)
    BY <1>1, <1>2, <2>1
  <2>5. w[1 + l] = w[1] + v[l]
    <3>1. q \in Seq(Nat) /\ z \in Seq(Nat) /\ Sums(q, v) /\ Sums(z, w)
      BY <1>2, <1>3, <2>1, <2>2
    <3> QED BY <2>3, <2>4, <3>1, SumsShift
  <2>6. w[1] = 8
    <3>1. 1 \in 1..Len(z) /\ z[1] = 8 /\ 1 - 1 = 0
      BY <1>1, <1>2
    <3>2. w[1] = w[1 - 1] + z[1] /\ w[0] = 0
      BY <1>2, <1>3, <3>1, SumsTyped
    <3> QED BY <3>1, <3>2
  <2>7. v[l] \in Nat
    <3>1. l \in 0..Len(q)
      BY <2>1, <2>4
    <3> QED BY <2>1, <2>2, <3>1, SumsTyped
  <2> QED BY <2>2, <2>5, <2>6, <2>7
<1>6. ASSUME NEW n \in 1..Len(c), w[n] = w[1 + l] PROVE n = 1 + l
  <2>1. n \in 0..Len(z) /\ 1 + l \in 0..Len(z) /\ \A k \in 1..Len(z) : z[k] # 0
    <3>1. n \in 0..Len(z) /\ 1 + l \in 0..Len(z)
      BY <1>1, <1>2
    <3>2. \A k \in 1..Len(z) : z[k] # 0
      BY <1>2
    <3> QED BY <3>1, <3>2
  <2>2. n < 1 + l => w[n] < w[1 + l]
    BY <1>2, <1>3, <2>1, SumsAscend
  <2>3. 1 + l < n => w[1 + l] < w[n]
    BY <1>2, <1>3, <2>1, SumsAscend
  <2>4. w[n] \in Nat /\ w[1 + l] \in Nat
    BY <1>2, <1>3, <2>1, SumsTyped
  <2> QED BY <1>1, <1>6, <2>2, <2>3, <2>4
<1>7. 1 + l \in 1..Len(c)
  BY <1>1
<1>8. ASSUME NEW n \in 1..Len(c) PROVE Size(SubSeq(c, 1, n)) = 4 + c[1].is[1] <=> n = 1 + l
  BY <1>1, <1>4, <1>5, <1>6, <1>7
<1>9. {n \in DOMAIN c : Size(SubSeq(c, 1, n)) = 4 + c[1].is[1]} = {1 + l}
  BY <1>1, <1>7, <1>8
<1> QED BY <1>9 DEF l

-----------------------------------------------------------------------------
(* test_my_fingerprint: the index of a slice, and the insertion of a file  *)

\* Index of the k-th slice of the f-th file
Spot(f, k) == Shift * (f - 1) + Jump * (k - 1)

\* Divisions by any number
LEMMA Division ==
    ASSUME NEW a \in Nat, NEW b \in Nat \ {0}, NEW r \in Nat, r < b
    PROVE  /\ b * a \in Nat /\ b * a + r \in Nat
           /\ (b * a + r) \div b = a /\ (b * a + r) % b = r
<1>1. b * a \in Nat
  OBVIOUS
<1>2. (b * a + r) \div b = a
  <2> DEFINE x == b * a
             q == (x + r) \div b
  <2>1. x \in Nat /\ q \in Nat /\ b * q <= x + r /\ x + r < b * q + b
    BY <1>1
  <2> HIDE DEF q
  <2>2. q <= a
    <3> SUFFICES ASSUME a + 1 <= q PROVE FALSE
      BY <2>1
    <3>1. b * (a + 1) <= b * q
      BY <2>1
    <3>2. b * (a + 1) = x + b
      OBVIOUS
    <3>3. b * q \in Nat
      BY <2>1
    <3> HIDE DEF x
    <3> QED BY <2>1, <3>1, <3>2, <3>3
  <2>3. a <= q
    <3> SUFFICES ASSUME q + 1 <= a PROVE FALSE
      BY <2>1
    <3>1. b * (q + 1) <= b * a
      BY <2>1
    <3>2. b * (q + 1) = b * q + b
      BY <2>1
    <3>3. b * q \in Nat
      BY <2>1
    <3> QED BY <2>1, <3>1, <3>2, <3>3
  <2> QED BY <2>1, <2>2, <2>3 DEF q
<1>3. (b * a + r) % b = r
  <2> DEFINE x == b * a
  <2>1. x + r = b * ((x + r) \div b) + ((x + r) % b)
    BY <1>1
  <2>2. (x + r) % b \in Nat
    BY <1>1
  <2> QED BY <1>1, <1>2, <2>1, <2>2
<1> QED BY <1>1, <1>2, <1>3

LEMMA SpotFacts ==
    ASSUME NEW f \in Nat \ {0}, NEW k \in Nat \ {0}, Jump * (k - 1) < Mask
    PROVE  /\ Spot(f, k) \in Nat /\ FileOf(Spot(f, k)) = f - 1
           /\ SampleOf(Spot(f, k)) = Jump * (k - 1)
           /\ Spot(f, k) % Mask = Jump * (k - 1)
           /\ SampleOf(Spot(f, k)) \div Jump + 1 = k
<1> DEFINE a == f - 1
           r == Jump * (k - 1)
           x == Spot(f, k)
<1>1. Jump \in Nat \ {0} /\ Shift \in Nat \ {0} /\ Mask \in Nat \ {0} /\ Shift % Mask = 0
  BY MemoryAssumption DEF MemoryAssumption
<1>2. a \in Nat /\ k - 1 \in Nat /\ r \in Nat /\ r < Mask
  BY <1>1
<1>3. Mask <= Shift
  <2>1. Shift < Mask => Shift % Mask = Shift
    BY <1>1
  <2> QED BY <1>1, <2>1
<1>4. x = Shift * a + r
  BY DEF Spot
<1>5. r \div Jump = k - 1
  <2> DEFINE c == k - 1
  <2>1. c \in Nat
    BY <1>2
  <2> HIDE DEF c
  <2>2. (Jump * c + 0) \div Jump = c /\ Jump * c \in Nat
    BY <1>1, <2>1, Division
  <2>3. (Jump * c) \div Jump = c
    BY <2>2
  <2> QED BY <2>3 DEF c
<1> HIDE DEF a, r, x
<1>6. x \in Nat /\ x \div Shift = a /\ Shift * a \in Nat
  BY <1>1, <1>2, <1>3, <1>4, Division
<1>7. x % Mask = r
  <2> DEFINE q == Shift \div Mask
  <2>1. q \in Nat /\ Shift = Mask * q
    BY <1>1
  <2>2. Shift * a = Mask * (q * a) /\ q * a \in Nat
    BY <1>1, <1>2, <2>1
  <2> HIDE DEF q
  <2> DEFINE y == q * a
  <2>3. y \in Nat /\ Shift * a = Mask * y
    BY <2>2
  <2> HIDE DEF y
  <2>4. (Mask * y + r) % Mask = r
    BY <1>1, <1>2, <2>3, Division
  <2> QED BY <1>4, <2>3, <2>4
<1>8. FileOf(x) = a /\ SampleOf(x) = r
  <2>1. FileOf(x) = a
    BY <1>6 DEF FileOf
  <2>2. SampleOf(x) = x - Shift * a
    BY <2>1 DEF SampleOf
  <2> QED BY <1>2, <1>4, <1>6, <2>1, <2>2
<1>9. (k - 1) + 1 = k
  OBVIOUS
<1>10. SampleOf(x) \div Jump + 1 = k
  BY <1>5, <1>8, <1>9
<1> QED BY <1>6, <1>7, <1>8, <1>10 DEF a, r, x

LEMMA SpotAscends ==
    ASSUME NEW f \in Nat \ {0}, NEW j \in Nat \ {0}, Jump * (j - 1) < Mask,
           NEW g \in Nat \ {0}, NEW k \in Nat \ {0}, Jump * (k - 1) < Mask,
           f < g \/ (f = g /\ j < k)
    PROVE  Spot(f, j) < Spot(g, k)
<1>1. Jump \in Nat \ {0} /\ Shift \in Nat \ {0} /\ Mask \in Nat \ {0} /\ Shift % Mask = 0
  BY MemoryAssumption DEF MemoryAssumption
<1>2. Mask <= Shift
  <2>1. Shift < Mask => Shift % Mask = Shift
    BY <1>1
  <2> QED BY <1>1, <2>1
<1> DEFINE r == Jump * (j - 1)
           q == Jump * (k - 1)
           x == Shift * (f - 1)
           y == Shift * (g - 1)
<1>3. r \in Nat /\ q \in Nat /\ x \in Nat /\ y \in Nat /\ r < Mask
  <2>1. \A a, b \in Nat : a * b \in Nat
    OBVIOUS
  <2> QED BY <1>1, <2>1
<1>4. CASE f < g
  <2>1. x + Shift <= y
    <3>1. \A a, b, c \in Nat : b + 1 <= c => a * b + a <= a * c
      <4> SUFFICES ASSUME NEW a \in Nat, NEW b \in Nat, NEW c \in Nat, b + 1 <= c
                   PROVE  a * b + a <= a * c
        OBVIOUS
      <4>1. a * (b + 1) <= a * c
        OBVIOUS
      <4> QED BY <4>1
    <3>2. f - 1 \in Nat /\ g - 1 \in Nat /\ (f - 1) + 1 <= g - 1
      BY <1>4
    <3> QED BY <1>1, <3>1, <3>2
  <2> HIDE DEF r, q, x, y
  <2>2. x + r < y + q
    BY <1>1, <1>2, <1>3, <2>1
  <2> QED BY <2>2 DEF Spot, r, q, x, y
<1>5. CASE f = g /\ j < k
  <2>1. r < q
    <3>1. \A a \in Nat \ {0} : \A b, c \in Nat : b < c => a * b < a * c
      <4> SUFFICES ASSUME NEW a \in Nat \ {0}, NEW b \in Nat, NEW c \in Nat, b + 1 <= c
                   PROVE  a * b < a * c
        OBVIOUS
      <4>1. a * (b + 1) <= a * c
        OBVIOUS
      <4>2. a * (b + 1) = a * b + a /\ a * b \in Nat /\ a * c \in Nat
        OBVIOUS
      <4> QED BY <4>1, <4>2
    <3>2. j - 1 \in Nat /\ k - 1 \in Nat /\ j - 1 < k - 1
      BY <1>5
    <3> QED BY <1>1, <3>1, <3>2
  <2>2. x = y
    BY <1>5
  <2> HIDE DEF r, q, x, y
  <2>3. x + r < y + q
    BY <1>3, <2>1, <2>2
  <2> QED BY <2>3 DEF Spot, r, q, x, y
<1> QED BY <1>4, <1>5

\* The names of the files that the slices of a database are of, whether or not
\* they have been read back as they were
Originals(names, orig) ==
    /\ names \in Seq(Called) /\ orig \in Seq(DOMAIN Slices) /\ Len(orig) = Len(names)
    /\ \A f \in 1..Len(names) : names[f] \in {orig[f], Garbled}

\* A slice: its file, and its number in it
Places(orig) == {x \in Nat \X Nat : x[1] \in DOMAIN orig /\ x[2] \in DOMAIN Slices[orig[x[1]]]}

PrintAt(orig, x) == Fingerprint(Slices[orig[x[1]]][x[2]])
SpotOf(x) == Spot(x[1], x[2])

Ascends(q) == \A j, k \in DOMAIN q : j < k => q[j] < q[k]

\* The slices P, and no others, are indexed, each bucket in their order.
Indexes(t, orig, P) ==
    /\ t \in Tables
    /\ \A p \in DOMAIN t : Ascends(t[p])
    /\ \A p \in DOMAIN t : \A j \in DOMAIN t[p] : \E x \in P : t[p][j] = SpotOf(x) /\ PrintAt(orig, x) = p
    /\ \A x \in P : /\ PrintAt(orig, x) \in DOMAIN t
                    /\ \E j \in DOMAIN t[PrintAt(orig, x)] : t[PrintAt(orig, x)][j] = SpotOf(x)

LEMMA FingerprintTyped == \A slice : Fingerprint(slice) \in Keys
<1>1. ASSUME NEW n \in Bands, NEW bucket PROVE Bits(n, bucket) \subseteq Int
  <2>1. Slab(n) \in Int
    BY DEF Slab, Bands
  <2> QED BY <2>1 DEF Bits
<1> QED BY <1>1 DEF Fingerprint, Keys

\* One slice more, behind all others
LEMMA IndexedMore ==
    ASSUME NEW t, NEW orig, NEW P, Indexes(t, orig, P), NEW x, SpotOf(x) \in Nat,
           \A y \in P : SpotOf(y) < SpotOf(x)
    PROVE  Indexes(Insert(t, PrintAt(orig, x), SpotOf(x)), orig, P \union {x})
<1> DEFINE f == PrintAt(orig, x)
           e == SpotOf(x)
           u == Insert(t, f, e)
           Q == P \union {x}
<1>1. f \in Keys
  BY FingerprintTyped DEF PrintAt
<1>2. /\ t \in Tables
      /\ \A p \in DOMAIN t : t[p] \in Seq(Nat) /\ Len(t[p]) \in Nat /\ DOMAIN t[p] = 1..Len(t[p])
  BY TableFacts DEF Indexes
<1>3. e \in Nat
  OBVIOUS
<1>4. ASSUME NEW p \in DOMAIN t, NEW j \in DOMAIN t[p] PROVE t[p][j] < e
  BY <1>4 DEF Indexes
<1> HIDE DEF f, e
<1>5. InsertIs(t, f, e, u)
  BY <1>1, <1>2, <1>3, InsertFacts
<1> HIDE DEF u
<1>6. u \in Tables /\ DOMAIN u = DOMAIN t \union {f} /\ \A p \in DOMAIN t : p # f => u[p] = t[p]
  BY <1>5 DEF InsertIs
<1>7. CASE f \in DOMAIN t
  <2> DEFINE q == t[f]
             n == Len(q)
  <2>1. u[f] = Append(q, e)
    BY <1>5, <1>7 DEF InsertIs
  <2>2. q \in Seq(Nat) /\ n \in Nat /\ DOMAIN q = 1..n
    BY <1>2, <1>7
  <2> HIDE DEF q
  <2>3. /\ u[f] \in Seq(Nat) /\ Len(u[f]) = n + 1 /\ u[f][n + 1] = e
        /\ \A k \in 1..n : u[f][k] = q[k]
    BY <1>3, <2>1, <2>2, AppendFacts
  <2>4. DOMAIN u[f] = 1 .. n + 1 /\ \A k \in 1 .. n + 1 : k \in 1..n \/ k = n + 1
    BY <2>2, <2>3
  <2>5. \A j \in 1..n : q[j] < e
    BY <1>4, <1>7, <2>2 DEF q
  <2>6. Ascends(q)
    BY <1>7 DEF Indexes, q
  <2>7. Ascends(u[f])
    <3> SUFFICES ASSUME NEW j \in 1 .. n + 1, NEW k \in 1 .. n + 1, j < k PROVE u[f][j] < u[f][k]
      BY <2>4 DEF Ascends
    <3>1. j \in 1..n
      BY <2>2, <2>4
    <3>2. CASE k \in 1..n
      BY <2>2, <2>3, <2>6, <3>1, <3>2 DEF Ascends
    <3>3. CASE k = n + 1
      BY <2>3, <2>5, <3>1, <3>3
    <3> QED BY <2>4, <3>2, <3>3
  <2>8. ASSUME NEW p \in DOMAIN u PROVE Ascends(u[p])
    <3>1. CASE p = f
      BY <2>7, <3>1
    <3>2. CASE p # f
      <4>1. p \in DOMAIN t /\ u[p] = t[p]
        BY <1>6, <3>2
      <4> QED BY <4>1 DEF Indexes
    <3> QED BY <3>1, <3>2
  <2>9. ASSUME NEW p \in DOMAIN u, NEW j \in DOMAIN u[p]
        PROVE  \E y \in Q : u[p][j] = SpotOf(y) /\ PrintAt(orig, y) = p
    <3>1. CASE p = f /\ j = n + 1
      <4>1. u[p][j] = SpotOf(x) /\ PrintAt(orig, x) = p
        BY <2>3, <3>1 DEF e, f
      <4> QED BY <4>1
    <3>2. CASE p = f /\ j \in 1..n
      <4>1. u[p][j] = t[f][j] /\ j \in DOMAIN t[f]
        BY <2>2, <2>3, <3>2 DEF q
      <4> QED BY <1>7, <3>2, <4>1 DEF Indexes
    <3>3. CASE p # f
      <4>1. p \in DOMAIN t /\ u[p] = t[p]
        BY <1>6, <3>3
      <4> QED BY <4>1 DEF Indexes
    <3> QED BY <2>4, <3>1, <3>2, <3>3
  <2>10. ASSUME NEW y \in Q
         PROVE  /\ PrintAt(orig, y) \in DOMAIN u
                /\ \E j \in DOMAIN u[PrintAt(orig, y)] : u[PrintAt(orig, y)][j] = SpotOf(y)
    <3>1. CASE y = x
      <4>1. n + 1 \in DOMAIN u[f]
        BY <2>2, <2>4
      <4> QED BY <1>6, <2>3, <3>1, <4>1 DEF e, f
    <3>2. CASE y \in P
      <4> DEFINE p == PrintAt(orig, y)
      <4>1. p \in DOMAIN t /\ \E j \in DOMAIN t[p] : t[p][j] = SpotOf(y)
        BY <3>2 DEF Indexes
      <4>2. PICK j \in DOMAIN t[p] : t[p][j] = SpotOf(y)
        BY <4>1
      <4> HIDE DEF p
      <4>3. j \in DOMAIN u[p] /\ u[p][j] = t[p][j]
        <5>1. CASE p = f
          <6>1. j \in 1..n /\ j \in 1 .. n + 1
            BY <2>2, <5>1 DEF q
          <6> QED BY <2>3, <2>4, <5>1, <6>1 DEF q
        <5>2. CASE p # f
          BY <1>6, <4>1, <5>2
        <5> QED BY <5>1, <5>2
      <4>4. p \in DOMAIN u
        BY <1>6, <4>1
      <4> QED BY <4>2, <4>3, <4>4 DEF p
    <3> QED BY <3>1, <3>2
  <2>11. Indexes(u, orig, Q)
    BY <1>6, <2>8, <2>9, <2>10 DEF Indexes
  <2> QED BY <2>11 DEF u, f, e, Q
<1>8. CASE f \notin DOMAIN t
  <2>1. u[f] = <<e>>
    BY <1>5, <1>8 DEF InsertIs
  <2>2. DOMAIN u[f] = 1..1 /\ u[f][1] = e /\ \A j \in 1..1 : j = 1
    BY <2>1
  <2>3. \A p \in DOMAIN u : p = f \/ (p \in DOMAIN t /\ p # f /\ u[p] = t[p])
    BY <1>6
  <2>4. ASSUME NEW p \in DOMAIN u PROVE Ascends(u[p])
    <3>1. CASE p = f
      BY <2>2, <3>1 DEF Ascends
    <3>2. CASE p \in DOMAIN t /\ u[p] = t[p]
      BY <3>2 DEF Indexes
    <3> QED BY <2>3, <3>1, <3>2
  <2>5. ASSUME NEW p \in DOMAIN u, NEW j \in DOMAIN u[p]
        PROVE  \E y \in Q : u[p][j] = SpotOf(y) /\ PrintAt(orig, y) = p
    <3>1. CASE p = f
      <4>1. u[p][j] = SpotOf(x) /\ PrintAt(orig, x) = p
        BY <2>2, <3>1 DEF e, f
      <4> QED BY <4>1
    <3>2. CASE p \in DOMAIN t /\ u[p] = t[p]
      BY <3>2 DEF Indexes
    <3> QED BY <2>3, <3>1, <3>2
  <2>6. ASSUME NEW y \in Q
        PROVE  /\ PrintAt(orig, y) \in DOMAIN u
               /\ \E j \in DOMAIN u[PrintAt(orig, y)] : u[PrintAt(orig, y)][j] = SpotOf(y)
    <3>1. CASE y = x
      <4>1. 1 \in DOMAIN u[f] /\ f \in DOMAIN u
        BY <1>6, <2>2
      <4> QED BY <2>2, <3>1, <4>1 DEF e, f
    <3>2. CASE y \in P
      <4> DEFINE p == PrintAt(orig, y)
      <4>1. p \in DOMAIN t /\ \E j \in DOMAIN t[p] : t[p][j] = SpotOf(y)
        BY <3>2 DEF Indexes
      <4> HIDE DEF p
      <4>2. p \in DOMAIN u /\ u[p] = t[p]
        BY <1>6, <1>8, <4>1
      <4>3. p \in DOMAIN u /\ \E j \in DOMAIN u[p] : u[p][j] = SpotOf(y)
        BY <4>1, <4>2
      <4> QED BY <4>3 DEF p
    <3> QED BY <3>1, <3>2
  <2>7. Indexes(u, orig, Q)
    BY <1>6, <2>4, <2>5, <2>6 DEF Indexes
  <2> QED BY <2>7 DEF u, f, e, Q
<1> QED BY <1>7, <1>8

LEMMA SliceFacts ==
    ASSUME NEW name \in DOMAIN Slices
    PROVE  /\ Len(Slices[name]) \in Nat /\ DOMAIN Slices[name] = 1..Len(Slices[name])
           /\ \A k \in DOMAIN Slices[name] : k \in Nat \ {0} /\ Jump * (k - 1) < Mask
<1>1. Len(Slices[name]) \in Nat /\ DOMAIN Slices[name] = 1..Len(Slices[name])
  <2>1. Slices[name] \in Seq(Range(Slices[name]))
    BY SlicesAssumption DEF SlicesAssumption
  <2>2. \A S : \A s \in Seq(S) : Len(s) \in Nat /\ DOMAIN s = 1..Len(s)
    OBVIOUS
  <2> QED BY <2>1, <2>2
<1>2. \A k \in DOMAIN Slices[name] : Jump * (k - 1) < Mask
  BY SlicesAssumption DEF SlicesAssumption
<1> QED BY <1>1, <1>2

LEMMA OriginalsAppend ==
    ASSUME NEW names, NEW orig, Originals(names, orig), NEW name \in DOMAIN Slices
    PROVE  /\ Originals(Append(names, name), Append(orig, name))
           /\ Len(Append(orig, name)) = Len(orig) + 1 /\ Append(orig, name)[Len(orig) + 1] = name
           /\ \A f \in 1..Len(orig) : Append(orig, name)[f] = orig[f]
           /\ DOMAIN orig = 1..Len(orig) /\ Len(orig) \in Nat /\ Len(names) = Len(orig)
           /\ DOMAIN Append(orig, name) = 1 .. Len(orig) + 1
<1> DEFINE n == Append(names, name)
           o == Append(orig, name)
           l == Len(orig)
<1>1. names \in Seq(Called) /\ orig \in Seq(DOMAIN Slices) /\ Len(names) = l /\ l \in Nat
      /\ DOMAIN orig = 1..l /\ \A f \in 1..l : names[f] \in {orig[f], Garbled}
  BY DEF Originals
<1>2. name \in Called
  BY DEF Called
<1>3. n \in Seq(Called) /\ Len(n) = l + 1 /\ n[l + 1] = name /\ \A f \in 1..l : n[f] = names[f]
  BY <1>1, <1>2, AppendFacts
<1>4. o \in Seq(DOMAIN Slices) /\ Len(o) = l + 1 /\ o[l + 1] = name /\ \A f \in 1..l : o[f] = orig[f]
  BY <1>1, AppendFacts
<1>5. DOMAIN o = 1 .. l + 1
  BY <1>4
<1> HIDE DEF n, o
<1>6. \A f \in 1 .. l + 1 : f \in 1..l \/ f = l + 1
  BY <1>1
<1>7. \A f \in 1 .. l + 1 : n[f] \in {o[f], Garbled}
  BY <1>1, <1>3, <1>4, <1>6
<1>8. Originals(n, o)
  BY <1>3, <1>4, <1>7 DEF Originals
<1> QED BY <1>1, <1>4, <1>5, <1>8 DEF n, o

\* insert_file, of a file that is the f-th
LEMMA FileInserted ==
    ASSUME NEW t, NEW names, NEW orig, Originals(names, orig), Indexes(t, orig, Places(orig)),
           NEW name \in DOMAIN Slices
    PROVE  Indexes(InsertAll(t, [k \in DOMAIN Slices[name] |->
                                    <<Fingerprint(Slices[name][k]), Shift * Len(names) + Jump * (k - 1)>>]),
                   Append(orig, name), Places(Append(orig, name)))
<1> DEFINE o == Append(orig, name)
           f == Len(orig) + 1
           n == Len(Slices[name])
           es == [k \in DOMAIN Slices[name] |->
                    <<Fingerprint(Slices[name][k]), Shift * Len(names) + Jump * (k - 1)>>]
           P(m) == Places(orig) \union {<<f, k>> : k \in 1..m}
           G == [m \in 0..n |-> {u \in Tables : Indexes(u, o, P(m))}]
<1>1. n \in Nat /\ DOMAIN Slices[name] = 1..n /\ \A k \in 1..n : k \in Nat \ {0} /\ Jump * (k - 1) < Mask
  BY SliceFacts
<1>2. /\ DOMAIN o = 1..f /\ o[f] = name /\ (\A g \in 1..Len(orig) : o[g] = orig[g])
      /\ DOMAIN orig = 1..Len(orig) /\ Len(orig) \in Nat /\ Len(names) = Len(orig)
  BY OriginalsAppend
<1>3. f \in Nat \ {0} /\ f - 1 = Len(orig)
  BY <1>2
<1>4. /\ \A g \in 1..Len(orig) : orig[g] \in DOMAIN Slices
  BY DEF Originals
<1> HIDE DEF o, n, f
<1>5. \A k \in 1..n : es[k] = <<PrintAt(o, <<f, k>>), SpotOf(<<f, k>>)>>
  <2>1. \A k \in 1..n : PrintAt(o, <<f, k>>) = Fingerprint(Slices[name][k])
    BY <1>2 DEF PrintAt
  <2>2. \A k : SpotOf(<<f, k>>) = Shift * Len(names) + Jump * (k - 1)
    BY <1>2, <1>3 DEF SpotOf, Spot
  <2> QED BY <1>1, <2>1, <2>2
<1>6. \A k \in 1..n : SpotOf(<<f, k>>) \in Nat
  <2>1. \A k : SpotOf(<<f, k>>) = Spot(f, k)
    BY DEF SpotOf
  <2> QED BY <1>1, <1>3, <2>1, SpotFacts
<1>7. es \in Seq(Entry) /\ Len(es) = n
  <2>1. \A k \in 1..n : es[k] \in Entry
    <3>1. \A k : PrintAt(o, <<f, k>>) \in Keys
      BY FingerprintTyped DEF PrintAt
    <3>2. \A a \in Keys : \A b \in Nat : <<a, b>> \in Entry
      BY DEF Entry
    <3> HIDE DEF es, P
    <3> QED BY <1>5, <1>6, <3>1, <3>2, Zenon
  <2>2. DOMAIN es = 1..n
    BY <1>1
  <2>3. es = [k \in 1..n |-> es[k]]
    BY <1>1
  <2> HIDE DEF es
  <2>4. es \in [1..n -> Entry]
    BY <2>1, <2>3
  <2>5. \A m \in Nat : \A s \in [1..m -> Entry] : s \in Seq(Entry) /\ Len(s) = m
    OBVIOUS
  <2> QED BY <1>1, <2>4, <2>5
<1> HIDE DEF es
<1>8. /\ \A y \in Places(orig) : y[1] \in 1..Len(orig) /\ orig[y[1]] \in DOMAIN Slices
                                 /\ o[y[1]] = orig[y[1]] /\ y[2] \in DOMAIN Slices[orig[y[1]]] /\ y = <<y[1], y[2]>>
  <2>1. ASSUME NEW y \in Places(orig)
        PROVE  /\ y[1] \in 1..Len(orig) /\ orig[y[1]] \in DOMAIN Slices
               /\ o[y[1]] = orig[y[1]] /\ y[2] \in DOMAIN Slices[orig[y[1]]] /\ y = <<y[1], y[2]>>
    <3>1. y \in Nat \X Nat /\ y[1] \in DOMAIN orig /\ y[2] \in DOMAIN Slices[orig[y[1]]]
      BY DEF Places
    <3>2. y = <<y[1], y[2]>>
      BY <3>1
    <3> QED BY <1>2, <1>4, <3>1, <3>2
  <2> QED BY <2>1
<1>9. \A y \in Places(orig) : PrintAt(o, y) = PrintAt(orig, y)
  BY <1>8 DEF PrintAt
<1>10. \A k \in 1..n : \A y \in P(k - 1) : SpotOf(y) < SpotOf(<<f, k>>)
  <2> SUFFICES ASSUME NEW k \in 1..n, NEW y \in P(k - 1) PROVE SpotOf(y) < SpotOf(<<f, k>>)
    OBVIOUS
  <2>1. SpotOf(<<f, k>>) = Spot(f, k) /\ SpotOf(y) = Spot(y[1], y[2])
    BY DEF SpotOf
  <2>2. CASE y \in Places(orig)
    <3>1. y[1] \in Nat \ {0} /\ y[2] \in Nat \ {0} /\ Jump * (y[2] - 1) < Mask
      BY <1>2, <1>8, <2>2, SliceFacts
    <3>2. y[1] < f
      BY <1>2, <1>3, <1>8, <2>2
    <3>3. k \in Nat \ {0} /\ Jump * (k - 1) < Mask
      BY <1>1
    <3>4. Spot(y[1], y[2]) < Spot(f, k)
      <4> DEFINE a == y[1]
                 b == y[2]
      <4>1. a \in Nat \ {0} /\ b \in Nat \ {0} /\ Jump * (b - 1) < Mask /\ a < f
        BY <3>1, <3>2
      <4> HIDE DEF a, b
      <4>2. Spot(a, b) < Spot(f, k)
        BY <1>3, <3>3, <4>1, SpotAscends
      <4> QED BY <4>2 DEF a, b
    <3> QED BY <2>1, <3>4
  <2>3. CASE \E j \in 1 .. k - 1 : y = <<f, j>>
    <3>1. PICK j \in 1 .. k - 1 : y = <<f, j>>
      BY <2>3
    <3>2. j \in 1..n /\ j < k
      BY <1>1
    <3>3. j \in Nat \ {0} /\ Jump * (j - 1) < Mask /\ k \in Nat \ {0} /\ Jump * (k - 1) < Mask
      BY <1>1, <3>2
    <3>4. Spot(f, j) < Spot(f, k)
      BY <1>3, <3>2, <3>3, SpotAscends
    <3> QED BY <2>1, <3>1, <3>4
  <2> QED BY <2>2, <2>3
<1>11. P(0) = Places(orig)
  OBVIOUS
<1>12. Indexes(t, o, Places(orig))
  BY <1>9 DEF Indexes
<1>13. \A k \in 1..n : P(k) = P(k - 1) \union {<<f, k>>}
  <2> SUFFICES ASSUME NEW k \in 1..n PROVE P(k) = P(k - 1) \union {<<f, k>>}
    OBVIOUS
  <2>1. \A j : j \in 1..k <=> (j \in 1 .. k - 1 \/ j = k)
    BY <1>1
  <2> QED BY <2>1
<1>14. \A m \in 0..n : G[m] = {u \in Tables : Indexes(u, o, P(m))}
  OBVIOUS
<1>15. P(n) = Places(o)
  <2>1. ASSUME NEW y \in P(n) PROVE y \in Places(o)
    <3>1. CASE y \in Places(orig)
      <4>1. y[1] \in DOMAIN o
        BY <1>2, <1>3, <1>8, <3>1
      <4> QED BY <1>8, <3>1, <4>1 DEF Places
    <3>2. CASE \E k \in 1..n : y = <<f, k>>
      <4>1. PICK k \in 1..n : y = <<f, k>>
        BY <3>2
      <4>2. y \in Nat \X Nat /\ y[1] = f /\ y[2] = k
        BY <1>1, <1>3, <4>1
      <4> QED BY <1>1, <1>2, <1>3, <4>2 DEF Places
    <3> QED BY <3>1, <3>2
  <2>2. ASSUME NEW y \in Places(o) PROVE y \in P(n)
    <3>1. y \in Nat \X Nat /\ y[1] \in 1..f /\ y[2] \in DOMAIN Slices[o[y[1]]] /\ y = <<y[1], y[2]>>
      BY <1>2 DEF Places
    <3>2. CASE y[1] = f
      BY <1>1, <1>2, <3>1, <3>2
    <3>3. CASE y[1] # f
      <4>1. y[1] \in 1..Len(orig)
        BY <1>2, <1>3, <3>1, <3>3
      <4>2. y[1] \in DOMAIN orig /\ y[2] \in DOMAIN Slices[orig[y[1]]]
        BY <1>2, <3>1, <4>1
      <4>3. y \in Places(orig)
        BY <3>1, <4>2 DEF Places
      <4> QED BY <4>3
    <3> QED BY <3>2, <3>3
  <2> HIDE DEF P
  <2> QED BY <2>1, <2>2
<1> HIDE DEF P, G
<1>16. t \in Tables /\ t \in G[0]
  <2>1. t \in Tables
    BY <1>12 DEF Indexes
  <2>2. 0 \in 0..n
    BY <1>1
  <2> QED BY <1>11, <1>12, <1>14, <2>1, <2>2
<1>17. ASSUME NEW k \in 1..n, NEW u \in Tables, u \in G[k - 1]
       PROVE  Insert(u, es[k][1], es[k][2]) \in G[k]
  <2> DEFINE x == <<f, k>>
  <2>1. k - 1 \in 0..n /\ k \in 0..n
    BY <1>1
  <2>2. Indexes(u, o, P(k - 1)) /\ SpotOf(x) \in Nat /\ \A y \in P(k - 1) : SpotOf(y) < SpotOf(x)
    BY <1>6, <1>10, <1>14, <1>17, <2>1
  <2>3. es[k][1] = PrintAt(o, x) /\ es[k][2] = SpotOf(x) /\ P(k) = P(k - 1) \union {x}
    BY <1>5, <1>13
  <2> HIDE DEF x
  <2>4. Indexes(Insert(u, PrintAt(o, x), SpotOf(x)), o, P(k - 1) \union {x})
    BY <2>2, IndexedMore
  <2>5. Indexes(Insert(u, es[k][1], es[k][2]), o, P(k))
    BY <2>3, <2>4, Zenon
  <2>6. Insert(u, es[k][1], es[k][2]) \in Tables
    BY <2>5 DEF Indexes
  <2> QED BY <1>14, <2>1, <2>5, <2>6
<1>18. Leads(es, G)
  BY <1>7, <1>17 DEF Leads
<1>19. InsertAll(t, es) \in G[n]
  BY <1>7, <1>16, <1>18, InsertAllReaches
<1>20. Indexes(InsertAll(t, es), o, P(n))
  <2>1. n \in 0..n
    BY <1>1
  <2> QED BY <1>14, <1>19, <2>1
<1>21. Indexes(InsertAll(t, es), o, Places(o))
  BY <1>15, <1>20
<1> QED BY <1>21 DEF es, o

-----------------------------------------------------------------------------
(* test_my_fingerprint: the inductive invariant                            *)

DbOk(t, names) == \E orig : Originals(names, orig) /\ Indexes(t, orig, Places(orig))

\* Names that may be longer than they were
Renamed(names, old) ==
    names \in Seq(Called) /\ Len(names) = Len(old) /\ \A k \in 1..Len(old) : names[k] \in {old[k], Garbled}

\* The first m entries have been inserted, the others are still to be read.
LeftToRead(es, m, gs) == gs = [k \in 1 .. Len(es) - m |-> EntryGroup(es[m + k])]

HalfRead(t, u, gs) ==
    \E b : Placing(t, Entries(t), b) /\
        \E m \in 0..Len(Entries(t)) : u = Upto(t, b, m) /\ LeftToRead(Entries(t), m, gs)

Bucket(t, p) == IF p \in DOMAIN t THEN t[p] ELSE << >>

\* The file of an index can be opened, and the slice there
Reads(names, x) == names[FileOf(x) + 1] \in DOMAIN Slices
Heard(names, x) == Slices[names[FileOf(x) + 1]][SampleOf(x) \div Jump + 1]

\* Of the candidates q of a slice a, the first n have been compared, and cs are
\* left: ms are some of the compared ones that may correlate, more than two
\* seconds apart, and each of the compared ones is near one of ms or may not
\* correlate.
Compared(q, n, names, a, cs, ms) ==
    /\ cs \in Seq(Nat) /\ Len(cs) = Len(q) - n /\ \A k \in 1..Len(cs) : cs[k] = q[n + k]
    /\ ms \in Seq(Nat)
    /\ \A m \in 1..Len(ms) : /\ \E j \in 1..n : ms[m] = q[j]
                             /\ Reads(names, ms[m]) /\ "high" \in Compare(Heard(names, ms[m]), a)
    /\ \A m \in 1..Len(ms) : \A k \in 1 .. m - 1 : ms[m] - ms[k] > TwoSeconds
    /\ \A j \in 1..n : \/ \E m \in 1..Len(ms) : Distance(ms[m], q[j]) <= TwoSeconds
                       \/ "low" \in Compare(Heard(names, q[j]), a)

Answering(q, names, a, cs, ms) == \E n \in 0..Len(q) : Compared(q, n, names, a, cs, ms)

KeptInv   == /\ kept = [table |-> kept.table, files |-> kept.files]
             /\ DbOk(kept.table, kept.files)
DiskInv   == (Test /\ stage = "write") \/ disk = NoDisk \/ disk = Contents(kept.table, kept.files)
BufferInv == Test /\ stage = "write" =>
                /\ kept.table = table /\ kept.files = files
                /\ disk \in Seq(Group) /\ buffer \in Seq(Group) /\ groups \in Seq(Group)
                /\ (disk \o buffer) \o groups = Contents(kept.table, kept.files)
DbInv     == stage \notin {"load", "blocks"} => DbOk(table, files)
LoadInv   == stage = "load" => table = NoTable /\ files = << >>
BlocksInv == stage = "blocks" => Renamed(files, kept.files) /\ HalfRead(kept.table, table, groups)
StoredInv == stage = "loaded" => Renamed(files, kept.files) /\ table = kept.table
TodoInv   == Test => /\ todo \in Seq(STRING)
                     /\ ~call.load => stage \notin {"load", "blocks"} /\ files \o todo = call.db
                     /\ stage \in {"write", "query", "compare", "answered"} => todo = << >>
MatchInv  == stage \in {"compare", "answered"} =>
                Test /\ Answering(Bucket(table, Fingerprint(asked)), files, asked, cands, matches)
DoneInv   == stage = "answered" => cands = << >>

MemInv == /\ KeptInv /\ DiskInv /\ BufferInv /\ DbInv /\ LoadInv /\ BlocksInv /\ StoredInv
          /\ TodoInv /\ MatchInv /\ DoneInv

LEMMA EmptyDb == DbOk(NoTable, << >>)
<1>1. << >> \in Seq(Called) /\ Len(<< >>) = 0
  BY EmptySeq
<1>2. << >> \in Seq(DOMAIN Slices)
  BY EmptySeq
<1>3. Originals(<< >>, << >>)
  BY <1>1, <1>2 DEF Originals
<1>4. DOMAIN NoTable = {} /\ NoTable \in Tables
  <2>1. DOMAIN NoTable = {} /\ NoTable \in [{} -> Buckets]
    BY DEF NoTable
  <2>2. {} \in SUBSET Keys /\ IsFiniteSet({})
    BY FS_EmptySet
  <2> QED BY <2>1, <2>2 DEF Tables
<1>5. Places(<< >>) = {}
  BY DEF Places
<1>6. Indexes(NoTable, << >>, Places(<< >>))
  BY <1>4, <1>5 DEF Indexes
<1> QED BY <1>3, <1>6 DEF DbOk

LEMMA MemStart == Init => MemInv
<1> SUFFICES ASSUME Init PROVE MemInv
  OBVIOUS
<1>1. /\ table = NoTable /\ files = << >> /\ disk = NoDisk /\ stage = "stopped"
      /\ kept = [table |-> NoTable, files |-> << >>]
      /\ ~Test
  BY DEF Init, MemoryInit, Empty, Test, NoCall
<1>2. kept.table = NoTable /\ kept.files = << >>
  BY <1>1
<1>3. KeptInv
  BY <1>1, <1>2, EmptyDb DEF KeptInv
<1>4. DbInv
  BY <1>1, EmptyDb DEF DbInv
<1>5. DiskInv /\ BufferInv /\ LoadInv /\ BlocksInv /\ StoredInv /\ TodoInv /\ MatchInv /\ DoneInv
  BY <1>1 DEF DiskInv, BufferInv, LoadInv, BlocksInv, StoredInv, TodoInv, MatchInv, DoneInv
<1> QED BY <1>3, <1>4, <1>5 DEF MemInv

\* Steps that leave the maps and the file alone, and do not come from or lead to a
\* stage that says more about them
LEMMA MemOther ==
    ASSUME MemInv, UNCHANGED <<call, memoryVars>>,
           stage \notin {"load", "blocks"},
           stage' \notin {"load", "blocks", "loaded", "compare", "answered"},
           ~Test \/ (todo' = todo /\ stage # "write" /\ stage' \in {"crash", "stopped", "insert", "query"}
                     /\ (stage' = "query" => todo = << >>))
    PROVE  MemInv'
<1>1. /\ call' = call /\ table' = table /\ files' = files /\ groups' = groups /\ buffer' = buffer
      /\ disk' = disk /\ asked' = asked /\ cands' = cands /\ matches' = matches /\ kept' = kept
      /\ Test' = Test
  BY DEF memoryVars, Test
<1>2. KeptInv'
  BY <1>1 DEF MemInv, KeptInv
<1>3. DiskInv'
  BY <1>1 DEF MemInv, DiskInv
<1>4. BufferInv'
  BY <1>1 DEF MemInv, BufferInv
<1>5. DbInv'
  BY <1>1 DEF MemInv, DbInv
<1>6. LoadInv' /\ BlocksInv' /\ StoredInv' /\ MatchInv' /\ DoneInv'
  BY DEF LoadInv, BlocksInv, StoredInv, MatchInv, DoneInv
<1>7. TodoInv'
  BY <1>1 DEF MemInv, TodoInv
<1> QED BY <1>2, <1>3, <1>4, <1>5, <1>6, <1>7 DEF MemInv

LEMMA MemStartKeeps == MemInv /\ Start => MemInv'
<1> SUFFICES ASSUME MemInv, Start PROVE MemInv'
  OBVIOUS
<1>1. /\ table' = NoTable /\ files' = << >> /\ disk' = disk /\ kept' = kept
      /\ call' \in Calls /\ todo' = call'.db /\ stage \in Ended
      /\ stage' = (IF call'.load THEN "load" ELSE "insert")
  BY DEF Start, MemoryLost, Go
<1>2. stage' \in {"load", "insert"} /\ (~call'.load => stage' = "insert") /\ stage # "write"
  BY <1>1 DEF Ended
<1>3. KeptInv'
  BY <1>1 DEF MemInv, KeptInv
<1>4. DiskInv'
  BY <1>1, <1>2 DEF MemInv, DiskInv
<1>5. DbInv'
  BY <1>1, EmptyDb DEF DbInv
<1>6. BufferInv' /\ LoadInv' /\ BlocksInv' /\ StoredInv' /\ MatchInv' /\ DoneInv'
  BY <1>1, <1>2 DEF BufferInv, LoadInv, BlocksInv, StoredInv, MatchInv, DoneInv
<1>7. TodoInv'
  <2>1. todo' \in Seq(STRING)
    BY <1>1, CallsAssumption DEF CallsAssumption
  <2>2. << >> \o todo' = todo'
    BY <2>1
  <2> QED BY <1>1, <1>2, <2>1, <2>2 DEF TodoInv
<1> QED BY <1>3, <1>4, <1>5, <1>6, <1>7 DEF MemInv

LEMMA MemInsertKeeps == MemInv /\ TestInsert => MemInv'
<1> SUFFICES ASSUME MemInv, TestInsert PROVE MemInv'
  OBVIOUS
<1> DEFINE name == Head(todo)
<1>1. /\ Test /\ Test' /\ stage = "insert" /\ stage' = "insert" /\ todo # << >> /\ name \in DOMAIN Slices
      /\ files' = Append(files, name) /\ todo' = Tail(todo) /\ call' = call
      /\ disk' = disk /\ kept' = kept
      /\ table' = InsertAll(table, [k \in DOMAIN Slices[name] |->
                    <<Fingerprint(Slices[name][k]), Shift * Len(files) + Jump * (k - 1)>>])
  BY DEF TestInsert, InsertFile, Index, Test
<1>2. PICK orig : Originals(files, orig) /\ Indexes(table, orig, Places(orig))
  BY <1>1 DEF MemInv, DbInv, DbOk
<1> HIDE DEF name
<1>3. DbOk(table', files')
  <2>1. Originals(files', Append(orig, name))
    BY <1>1, <1>2, OriginalsAppend
  <2>2. Indexes(table', Append(orig, name), Places(Append(orig, name)))
    BY <1>1, <1>2, FileInserted
  <2> QED BY <2>1, <2>2 DEF DbOk
<1>4. TodoInv'
  <2> DEFINE S == Called \union STRING
  <2>1. todo \in Seq(STRING) /\ files \in Seq(Called)
    BY <1>1, <1>2 DEF MemInv, TodoInv, Originals
  <2>2. todo \in Seq(S) /\ files \in Seq(S)
    BY <2>1, SeqMonotonic
  <2>3. Append(files, Head(todo)) \o Tail(todo) = files \o todo
    <3> HIDE DEF S
    <3> QED BY <1>1, <2>2, MoveHead
  <2>4. todo' \in Seq(STRING)
    BY <1>1, <2>1, MoveHead
  <2>5. files' \o todo' = files \o todo
    BY <1>1, <2>3 DEF name
  <2> QED BY <1>1, <2>4, <2>5 DEF MemInv, TodoInv
<1>5. KeptInv'
  BY <1>1 DEF MemInv, KeptInv
<1>6. DiskInv'
  BY <1>1 DEF MemInv, DiskInv
<1>7. BufferInv' /\ LoadInv' /\ BlocksInv' /\ StoredInv' /\ MatchInv' /\ DoneInv'
  BY <1>1 DEF BufferInv, LoadInv, BlocksInv, StoredInv, MatchInv, DoneInv
<1>8. DbInv'
  BY <1>3 DEF DbInv
<1> QED BY <1>4, <1>5, <1>6, <1>7, <1>8 DEF MemInv

LEMMA MemStoreKeeps == MemInv /\ TestStore => MemInv'
<1> SUFFICES ASSUME MemInv, TestStore PROVE MemInv'
  OBVIOUS
<1>1. /\ Test /\ Test' /\ stage \in {"insert", "loaded"} /\ stage' = "write" /\ todo = << >>
      /\ files' = files /\ table' = table /\ todo' = todo /\ call' = call
      /\ groups' = Contents(table, files) /\ buffer' = << >> /\ disk' = << >>
      /\ kept' = [table |-> table, files |-> files]
  BY DEF TestStore, WriteStart, Go, Test
<1>2. kept'.table = table /\ kept'.files = files
  BY <1>1
<1>3. DbOk(table, files)
  BY <1>1 DEF MemInv, DbInv
<1>4. Contents(table, files) \in Seq(Group)
  <2>1. table \in Tables /\ files \in Seq(Called)
    BY <1>3 DEF DbOk, Indexes, Originals
  <2> QED BY <2>1, ContentsTyped DEF ContentsIs
<1>5. KeptInv'
  BY <1>1, <1>2, <1>3 DEF KeptInv
<1>6. BufferInv'
  <2> DEFINE c == Contents(table, files)
  <2>1. << >> \in Seq(Group)
    BY EmptySeq
  <2> HIDE DEF c
  <2>2. c \in Seq(Group) => (<< >> \o << >>) \o c = c
    OBVIOUS
  <2>3. (<< >> \o << >>) \o c = c /\ c \in Seq(Group)
    BY <1>4, <2>2 DEF c
  <2>4. kept'.table = table' /\ kept'.files = files'
    BY <1>1, <1>2
  <2>5. groups' = c /\ Contents(kept'.table, kept'.files) = c
    BY <1>1, <1>2 DEF c
  <2> QED BY <1>1, <2>1, <2>3, <2>4, <2>5 DEF BufferInv
<1>7. DiskInv' /\ DbInv'
  BY <1>1, <1>3 DEF DiskInv, DbInv
<1>8. TodoInv'
  BY <1>1 DEF MemInv, TodoInv
<1>9. LoadInv' /\ BlocksInv' /\ StoredInv' /\ MatchInv' /\ DoneInv'
  BY <1>1 DEF LoadInv, BlocksInv, StoredInv, MatchInv, DoneInv
<1> QED BY <1>5, <1>6, <1>7, <1>8, <1>9 DEF MemInv

LEMMA GroupWritten ==
    ASSUME Test, stage = "write", BufferInv, WriteGroup
    PROVE  /\ disk' \in Seq(Group) /\ buffer' \in Seq(Group) /\ groups' \in Seq(Group)
           /\ (disk' \o buffer') \o groups' = (disk \o buffer) \o groups
<1> DEFINE h == Head(groups)
           r == Tail(groups)
<1>1. disk \in Seq(Group) /\ buffer \in Seq(Group) /\ groups \in Seq(Group) /\ groups # << >>
  BY DEF BufferInv, WriteGroup
<1>2. disk \o buffer \in Seq(Group)
  BY <1>1, ConcatProperties
<1>3. h \in Group /\ r \in Seq(Group) /\ groups' = r
  BY <1>1, HeadTailProperties DEF WriteGroup
<1>4. Append(disk \o buffer, h) \o r = (disk \o buffer) \o groups
  <2> DEFINE s == disk \o buffer
  <2>1. s \in Seq(Group)
    BY <1>2
  <2> HIDE DEF s
  <2>2. Append(s, Head(groups)) \o Tail(groups) = s \o groups
    BY <1>1, <2>1, MoveHead
  <2> QED BY <2>2 DEF s
<1>5. \A s \in Seq(Group) : Append(s, h) = s \o <<h>> /\ Append(s, h) \in Seq(Group) /\ <<h>> \in Seq(Group)
  <2> HIDE DEF h
  <2> QED BY <1>3, AppendIsConcat, AppendProperties
<1>6. CASE disk' = disk \o buffer /\ buffer' = <<h>>
  <2>1. (disk \o buffer) \o <<h>> = Append(disk \o buffer, h)
    BY <1>2, <1>5
  <2>2. disk' \in Seq(Group) /\ buffer' \in Seq(Group)
    BY <1>2, <1>5, <1>6
  <2> QED BY <1>3, <1>4, <1>6, <2>1, <2>2
<1>7. CASE disk' = disk /\ buffer' = Append(buffer, h)
  <2>1. disk \o (buffer \o <<h>>) = (disk \o buffer) \o <<h>>
    BY <1>1, <1>5, ConcatAssociative
  <2>2. disk \o Append(buffer, h) = Append(disk \o buffer, h)
    BY <1>1, <1>2, <1>5, <2>1
  <2>3. Append(buffer, h) \in Seq(Group)
    BY <1>1, <1>5
  <2> QED BY <1>1, <1>3, <1>4, <1>7, <2>2, <2>3
<1>8. \/ disk' = disk \o buffer /\ buffer' = <<h>>
      \/ disk' = disk /\ buffer' = Append(buffer, h)
  BY DEF WriteGroup
<1> QED BY <1>6, <1>7, <1>8

LEMMA MemWriteKeeps == MemInv /\ TestWrite => MemInv'
<1> SUFFICES ASSUME MemInv, TestWrite PROVE MemInv'
  OBVIOUS
<1>1. /\ Test /\ Test' /\ stage = "write" /\ call' = call /\ todo' = todo
      /\ table' = table /\ files' = files /\ kept' = kept
      /\ (WriteGroup /\ stage' = stage) \/ (WriteEnd /\ stage' = "query")
  BY DEF TestWrite, WriteGroup, WriteEnd, Go, Test
<1>2. KeptInv'
  BY <1>1 DEF MemInv, KeptInv
<1>3. DbInv'
  BY <1>1 DEF MemInv, DbInv
<1>4. TodoInv'
  BY <1>1 DEF MemInv, TodoInv
<1>5. LoadInv' /\ BlocksInv' /\ StoredInv' /\ MatchInv' /\ DoneInv'
  BY <1>1 DEF LoadInv, BlocksInv, StoredInv, MatchInv, DoneInv
<1>6. BufferInv
  BY DEF MemInv
<1>7. CASE WriteGroup /\ stage' = stage
  <2>1. BufferInv'
    BY <1>1, <1>6, <1>7, GroupWritten DEF BufferInv
  <2>2. DiskInv'
    BY <1>1, <1>7 DEF DiskInv
  <2> QED BY <1>2, <1>3, <1>4, <1>5, <2>1, <2>2 DEF MemInv
<1>8. CASE WriteEnd /\ stage' = "query"
  <2>1. disk' = disk \o buffer /\ groups = << >> /\ disk \o buffer \in Seq(Group)
        /\ (disk \o buffer) \o groups = Contents(kept.table, kept.files)
    BY <1>1, <1>6, <1>8, ConcatProperties DEF WriteEnd, BufferInv
  <2>2. (disk \o buffer) \o << >> = disk \o buffer
    BY <2>1, ConcatEmptySeq
  <2>3. disk' = Contents(kept'.table, kept'.files)
    BY <1>1, <2>1, <2>2
  <2>4. DiskInv' /\ BufferInv'
    BY <1>8, <2>3 DEF DiskInv, BufferInv
  <2> QED BY <1>2, <1>3, <1>4, <1>5, <2>4 DEF MemInv
<1> QED BY <1>1, <1>7, <1>8

LEMMA RenamedOk ==
    ASSUME NEW t, NEW old, DbOk(t, old), NEW names, Renamed(names, old)
    PROVE  DbOk(t, names)
<1>1. PICK orig : Originals(old, orig) /\ Indexes(t, orig, Places(orig))
  BY DEF DbOk
<1>2. Originals(names, orig)
  <2>1. /\ old \in Seq(Called) /\ orig \in Seq(DOMAIN Slices) /\ Len(orig) = Len(old)
        /\ \A f \in 1..Len(old) : old[f] \in {orig[f], Garbled}
    BY <1>1 DEF Originals
  <2>2. names \in Seq(Called) /\ Len(names) = Len(old) /\ \A k \in 1..Len(old) : names[k] \in {old[k], Garbled}
    BY DEF Renamed
  <2> QED BY <2>1, <2>2 DEF Originals
<1> QED BY <1>1, <1>2 DEF DbOk

\* loadFromDisk: the header
LEMMA HeaderLoaded ==
    ASSUME MemInv, stage = "load", LoadHeader
    PROVE  /\ Renamed(files', kept.files) /\ HalfRead(kept.table, table', groups')
<1> DEFINE old == kept.files
           t == kept.table
           es == Entries(t)
           l == Len(old)
<1>1. table = NoTable /\ files = << >> /\ disk = Contents(t, old) /\ DbOk(t, old)
  BY DEF MemInv, LoadInv, DiskInv, KeptInv, LoadHeader
<1>2. t \in Tables /\ old \in Seq(Called)
  BY <1>1 DEF DbOk, Indexes, Originals
<1> HIDE DEF old, t
<1>3. ContentsIs(t, old, disk)
  BY <1>1, <1>2, ContentsTyped
<1>4. HeaderGroups = {1 + l}
  BY <1>2, <1>3, HeaderFound DEF HeaderGroups
<1>5. es \in Seq(Entry) /\ (\E b : Placing(t, es, b)) /\ Len(es) \in Nat
  BY <1>2, EntriesPlaced
<1>6. l \in Nat /\ DOMAIN old = 1..l /\ \A k \in 1..l : old[k] \in Called
  BY <1>2
<1>7. /\ disk \in Seq(Group) /\ Len(disk) = (1 + l) + Len(es)
      /\ disk[1].is = <<HeaderLength(old), l>>
      /\ (\A k \in 1..l : disk[1 + k].is = old[k])
      /\ \A k \in 1..Len(es) : disk[(1 + l) + k] = EntryGroup(es[k])
  <2>1. disk[1] = HeaderGroup(<<HeaderLength(old), Len(old)>>)
    BY <1>3 DEF ContentsIs
  <2>2. disk[1].is = <<HeaderLength(old), l>>
    BY <2>1, GroupFacts
  <2>3. \A k \in 1..l : disk[1 + k].is = old[k]
    BY <1>3, GroupFacts DEF ContentsIs
  <2> QED BY <1>3, <2>2, <2>3 DEF ContentsIs
<1> HIDE DEF es, l
<1>8. disk[1].is[2] = l
  BY <1>7
<1>9. PICK n \in HeaderGroups :
         /\ \E clean \in SUBSET (1 .. disk[1].is[2]) :
                files' = files \o [k \in 1 .. disk[1].is[2] |->
                                      IF k \in clean THEN disk[k + 1].is ELSE Garbled]
         /\ groups' = SubSeq(disk, n + 1, Len(disk))
  BY DEF LoadHeader
<1>10. PICK clean \in SUBSET (1..l) :
          files' = files \o [k \in 1..l |-> IF k \in clean THEN disk[k + 1].is ELSE Garbled]
  BY <1>8, <1>9
<1> DEFINE q == [k \in 1..l |-> IF k \in clean THEN disk[k + 1].is ELSE Garbled]
<1>11. \A k \in 1..l : q[k] \in {old[k], Garbled} /\ q[k] \in Called
  <2>1. \A k \in 1..l : k + 1 = 1 + k
    BY <1>6
  <2>2. Garbled \in Called
    BY DEF Called
  <2> QED BY <1>6, <1>7, <2>1, <2>2
<1>12. q \in Seq(Called) /\ Len(q) = l
  <2>1. q \in [1..l -> Called]
    BY <1>11
  <2>2. \A m \in Nat : \A s \in [1..m -> Called] : s \in Seq(Called) /\ Len(s) = m
    OBVIOUS
  <2> HIDE DEF q
  <2> QED BY <1>6, <2>1, <2>2
<1>13. files' = q
  <2>1. files' = << >> \o q
    BY <1>1, <1>10
  <2> HIDE DEF q
  <2> QED BY <1>12, <2>1, ConcatEmptySeq
<1> HIDE DEF q
<1>14. Renamed(files', old)
  BY <1>11, <1>12, <1>13 DEF Renamed, l
<1>15. LeftToRead(es, 0, groups')
  <2> DEFINE g == SubSeq(disk, (1 + l) + 1, Len(disk))
             h == [k \in 1 .. Len(es) - 0 |-> EntryGroup(es[0 + k])]
  <2>1. groups' = g
    BY <1>4, <1>9
  <2>2. \A k \in (1 + l) + 1 .. Len(disk) : disk[k] \in Group
    <3>1. \A k \in (1 + l) + 1 .. Len(disk) : k \in 1..Len(disk)
      BY <1>5, <1>6, <1>7
    <3> QED BY <1>7, <3>1
  <2>3. /\ g \in Seq(Group)
        /\ Len(g) = IF (1 + l) + 1 <= Len(disk) THEN Len(disk) - ((1 + l) + 1) + 1 ELSE 0
        /\ \A k \in 1 .. Len(disk) - ((1 + l) + 1) + 1 : g[k] = disk[((1 + l) + 1) + k - 1]
    <3> DEFINE a == (1 + l) + 1
               b == Len(disk)
    <3>1. a \in Int /\ b \in Int /\ \A k \in a..b : disk[k] \in Group
      BY <1>5, <1>6, <1>7, <2>2
    <3> HIDE DEF a, b
    <3>2. /\ SubSeq(disk, a, b) \in Seq(Group)
          /\ Len(SubSeq(disk, a, b)) = IF a <= b THEN b - a + 1 ELSE 0
          /\ \A k \in 1 .. b - a + 1 : SubSeq(disk, a, b)[k] = disk[a + k - 1]
      BY <3>1, SubSeqProperties
    <3> QED BY <3>2 DEF a, b
  <2> HIDE DEF g
  <2>4. Len(g) = Len(es)
    BY <1>5, <1>6, <1>7, <2>3
  <2>5. \A k \in 1..Len(es) : g[k] = EntryGroup(es[k])
    <3>1. \A k \in 1..Len(es) : /\ k \in 1 .. Len(disk) - ((1 + l) + 1) + 1
                                /\ ((1 + l) + 1) + k - 1 = (1 + l) + k
      BY <1>5, <1>6, <1>7
    <3> QED BY <1>7, <2>3, <3>1
  <2>6. g = [k \in 1..Len(es) |-> g[k]]
    BY <2>3, <2>4
  <2>7. Len(es) - 0 = Len(es) /\ \A k \in 1..Len(es) : 0 + k = k
    BY <1>5
  <2>8. g = h
    BY <2>5, <2>6, <2>7
  <2> QED BY <2>1, <2>8 DEF LeftToRead
<1>16. HalfRead(t, table', groups')
  <2>1. PICK b : Placing(t, es, b)
    BY <1>5
  <2>2. table' = Upto(t, b, 0)
    BY <1>1, <1>2, <1>5, <2>1, UptoEnds DEF LoadHeader
  <2>3. 0 \in 0..Len(es)
    BY <1>5
  <2> QED BY <1>15, <2>1, <2>2, <2>3 DEF HalfRead, es
<1> QED BY <1>14, <1>16 DEF t, old

\* loadFromDisk: a block
LEMMA BlockLoaded ==
    ASSUME DbOk(kept.table, kept.files), HalfRead(kept.table, table, groups), LoadBlocks
    PROVE  /\ HalfRead(kept.table, table', groups')
           /\ Len(groups) < Blocks => table' = kept.table
<1> DEFINE t == kept.table
           es == Entries(t)
           read == IF Len(groups) < Blocks THEN Len(groups) ELSE Blocks
<1>1. t \in Tables /\ es \in Seq(Entry) /\ Len(es) \in Nat /\ Blocks \in Nat
  BY EntriesPlaced, MemoryAssumption DEF DbOk, Indexes, MemoryAssumption
<1>2. PICK b : Placing(t, es, b) /\
         \E m \in 0..Len(es) : table = Upto(t, b, m) /\ LeftToRead(es, m, groups)
  BY DEF HalfRead
<1>3. PICK m \in 0..Len(es) : table = Upto(t, b, m) /\ LeftToRead(es, m, groups)
  BY <1>2
<1>4. table' = InsertAll(table, [k \in 1..read |-> groups[k].is]) /\ groups' = SubSeq(groups, read + 1, Len(groups))
  BY DEF LoadBlocks
<1> DEFINE n == Len(es) - m
<1>5. n \in Nat /\ groups = [k \in 1..n |-> EntryGroup(es[m + k])]
  BY <1>1, <1>3 DEF LeftToRead
<1>6. groups \in Seq(Group) /\ Len(groups) = n
  <2>1. \A k \in 1..n : m + k \in 1..Len(es)
    BY <1>1
  <2>2. \A k \in 1..n : EntryGroup(es[m + k]) \in Group
    <3>1. \A k \in 1..n : es[m + k] \in Entry
      BY <1>1, <2>1
    <3> QED BY <3>1 DEF Group
  <2>3. groups \in [1..n -> Group]
    BY <1>5, <2>2
  <2>4. \A l \in Nat : \A s \in [1..l -> Group] : s \in Seq(Group) /\ Len(s) = l
    OBVIOUS
  <2> QED BY <1>5, <2>3, <2>4
<1>7. read \in 0..n /\ m + read \in 0..Len(es) /\ m \in Nat /\ read \in Nat /\ m + read <= Len(es)
      /\ (Len(groups) < Blocks => m + read = Len(es))
  BY <1>1, <1>5, <1>6
<1> HIDE DEF t, es, read, n
<1>8. table' = Upto(t, b, m + read)
  <2>1. \A k \in 1..read : groups[k].is = es[m + k]
    <3>1. \A k \in 1..read : k \in 1..n
      BY <1>5, <1>7
    <3>2. \A k \in 1..n : groups[k] = EntryGroup(es[m + k])
      BY <1>5
    <3> QED BY <3>1, <3>2, GroupFacts
  <2>2. [k \in 1..read |-> groups[k].is] = [k \in 1..read |-> es[m + k]]
    BY <2>1
  <2>3. InsertAll(Upto(t, b, m), [k \in 1..read |-> es[m + k]]) = Upto(t, b, m + read)
    <3>1. t \in Tables /\ es \in Seq(Entry) /\ Placing(t, es, b)
          /\ m \in Nat /\ read \in Nat /\ m + read <= Len(es)
      BY <1>1, <1>2, <1>7
    <3> QED BY <3>1, UptoBlock
  <2> QED BY <1>3, <1>4, <2>2, <2>3
<1>9. LeftToRead(es, m + read, groups')
  <2> DEFINE g == SubSeq(groups, read + 1, Len(groups))
             h == [k \in 1 .. Len(es) - (m + read) |-> EntryGroup(es[(m + read) + k])]
  <2>1. \A k \in read + 1 .. Len(groups) : groups[k] \in Group
    <3>1. \A k \in read + 1 .. Len(groups) : k \in 1..Len(groups)
      BY <1>5, <1>6, <1>7
    <3> QED BY <1>6, <3>1
  <2>2. /\ g \in Seq(Group)
        /\ Len(g) = IF read + 1 <= Len(groups) THEN Len(groups) - (read + 1) + 1 ELSE 0
        /\ \A k \in 1 .. Len(groups) - (read + 1) + 1 : g[k] = groups[(read + 1) + k - 1]
    <3> DEFINE a == read + 1
               c == Len(groups)
    <3>1. a \in Int /\ c \in Int /\ \A k \in a..c : groups[k] \in Group
      <4>1. a \in Int /\ c \in Int
        BY <1>5, <1>6, <1>7
      <4> QED BY <2>1, <4>1
    <3> HIDE DEF a, c
    <3>2. /\ SubSeq(groups, a, c) \in Seq(Group)
          /\ Len(SubSeq(groups, a, c)) = IF a <= c THEN c - a + 1 ELSE 0
          /\ \A k \in 1 .. c - a + 1 : SubSeq(groups, a, c)[k] = groups[a + k - 1]
      BY <3>1, SubSeqProperties
    <3> QED BY <3>2 DEF a, c
  <2> HIDE DEF g
  <2>3. Len(g) = n - read /\ n - read = Len(es) - (m + read)
    <3>1. n - read = Len(es) - (m + read)
      BY <1>1, <1>7 DEF n
    <3> QED BY <1>5, <1>6, <1>7, <2>2, <3>1
  <2>4. \A k \in 1 .. n - read : g[k] = EntryGroup(es[(m + read) + k])
    <3>1. \A k \in 1 .. n - read : /\ k \in 1 .. Len(groups) - (read + 1) + 1 /\ read + k \in 1..n
                                   /\ (read + 1) + k - 1 = read + k /\ m + (read + k) = (m + read) + k
      BY <1>5, <1>6, <1>7
    <3>2. \A k \in 1..n : groups[k] = EntryGroup(es[m + k])
      BY <1>5
    <3>3. ASSUME NEW k \in 1 .. n - read PROVE g[k] = EntryGroup(es[(m + read) + k])
      <4>1. g[k] = groups[read + k]
        BY <2>2, <3>1
      <4>2. groups[read + k] = EntryGroup(es[m + (read + k)])
        BY <3>1, <3>2
      <4> QED BY <3>1, <4>1, <4>2
    <3> QED BY <3>3
  <2>5. g = [k \in 1 .. n - read |-> g[k]]
    BY <1>5, <1>7, <2>2, <2>3
  <2>6. g = h
    BY <2>3, <2>4, <2>5
  <2> QED BY <1>4, <2>6 DEF LeftToRead, g
<1>10. HalfRead(t, table', groups')
  BY <1>2, <1>7, <1>8, <1>9 DEF HalfRead, es
<1>11. Len(groups) < Blocks => table' = t
  BY <1>1, <1>2, <1>7, <1>8, UptoEnds
<1> QED BY <1>10, <1>11 DEF t

LEMMA MemLoadKeeps == MemInv /\ TestLoad => MemInv'
<1> SUFFICES ASSUME MemInv, TestLoad PROVE MemInv'
  OBVIOUS
<1>1. /\ Test /\ Test' /\ call' = call /\ todo' = todo /\ disk' = disk /\ kept' = kept
      /\ stage \in {"load", "blocks", "loaded"}
      /\ stage' \in {"blocks", "crash", "loaded", "insert"}
  BY DEF TestLoad, LoadHeader, LoadBlocks, memoryVars, Go, Test
<1>2. KeptInv' /\ DbOk(kept.table, kept.files)
  BY <1>1 DEF MemInv, KeptInv
<1>3. DiskInv'
  BY <1>1 DEF MemInv, DiskInv
<1>4. BufferInv' /\ LoadInv' /\ MatchInv' /\ DoneInv'
  BY <1>1 DEF BufferInv, LoadInv, MatchInv, DoneInv
<1>5. CASE stage = "load" /\ LoadHeader /\ stage' = "blocks"
  <2>1. BlocksInv'
    BY <1>1, <1>5, HeaderLoaded DEF BlocksInv
  <2>2. DbInv' /\ StoredInv'
    BY <1>5 DEF DbInv, StoredInv
  <2>3. TodoInv'
    BY <1>1, <1>5 DEF MemInv, TodoInv
  <2> QED BY <1>2, <1>3, <1>4, <2>1, <2>2, <2>3 DEF MemInv
<1>6. CASE stage = "load" /\ stage' = "crash" /\ UNCHANGED memoryVars
  <2>1. table' = NoTable /\ files' = << >>
    BY <1>6 DEF MemInv, LoadInv, memoryVars
  <2>2. DbInv'
    BY <2>1, EmptyDb DEF DbInv
  <2>3. TodoInv'
    BY <1>1, <1>6 DEF MemInv, TodoInv
  <2>4. BlocksInv' /\ StoredInv'
    BY <1>6 DEF BlocksInv, StoredInv
  <2> QED BY <1>2, <1>3, <1>4, <2>2, <2>3, <2>4 DEF MemInv
<1>7. CASE stage = "blocks" /\ LoadBlocks /\ stage' = (IF Len(groups) < Blocks THEN "loaded" ELSE "blocks")
  <2>1. Renamed(files, kept.files) /\ HalfRead(kept.table, table, groups) /\ files' = files
    BY <1>7 DEF MemInv, BlocksInv, LoadBlocks
  <2>2. HalfRead(kept.table, table', groups') /\ (Len(groups) < Blocks => table' = kept.table)
    BY <1>2, <1>7, <2>1, BlockLoaded
  <2>3. BlocksInv'
    BY <1>1, <2>1, <2>2 DEF BlocksInv
  <2>4. StoredInv' /\ DbInv'
    <3>1. CASE Len(groups) < Blocks
      <4>1. table' = kept.table /\ stage' = "loaded"
        BY <1>7, <2>2, <3>1
      <4>2. DbOk(table', files')
        BY <1>2, <2>1, <4>1, RenamedOk
      <4> QED BY <1>1, <2>1, <4>1, <4>2 DEF StoredInv, DbInv
    <3>2. CASE ~(Len(groups) < Blocks)
      BY <1>7, <3>2 DEF StoredInv, DbInv
    <3> QED BY <3>1, <3>2
  <2>5. TodoInv'
    BY <1>1, <1>7 DEF MemInv, TodoInv
  <2> QED BY <1>2, <1>3, <1>4, <2>3, <2>4, <2>5 DEF MemInv
<1>8. CASE stage = "loaded" /\ todo # << >> /\ stage' = "insert" /\ UNCHANGED memoryVars
  <2>1. table' = table /\ files' = files
    BY <1>8 DEF memoryVars
  <2>2. DbInv'
    BY <1>8, <2>1 DEF MemInv, DbInv
  <2>3. TodoInv'
    BY <1>1, <1>8, <2>1 DEF MemInv, TodoInv
  <2>4. BlocksInv' /\ StoredInv'
    BY <1>8 DEF BlocksInv, StoredInv
  <2> QED BY <1>2, <1>3, <1>4, <2>2, <2>3, <2>4 DEF MemInv
<1>9. \/ stage = "load" /\ LoadHeader /\ stage' = "blocks"
      \/ stage = "load" /\ stage' = "crash" /\ UNCHANGED memoryVars
      \/ stage = "blocks" /\ LoadBlocks /\ stage' = (IF Len(groups) < Blocks THEN "loaded" ELSE "blocks")
      \/ stage = "loaded" /\ todo # << >> /\ stage' = "insert" /\ UNCHANGED memoryVars
  BY DEF TestLoad, Go
<1> QED BY <1>5, <1>6, <1>7, <1>8, <1>9

LEMMA BucketTyped ==
    ASSUME NEW t \in Tables, NEW p
    PROVE  Bucket(t, p) \in Seq(Nat) /\ Len(Bucket(t, p)) \in Nat
<1>1. << >> \in Seq(Nat) /\ Len(<< >>) = 0
  BY EmptySeq
<1> QED BY <1>1, TableFacts DEF Bucket

LEMMA MemQueryKeeps == MemInv /\ TestQuery => MemInv'
<1> SUFFICES ASSUME MemInv, TestQuery PROVE MemInv'
  OBVIOUS
<1>1. /\ Test /\ Test' /\ call' = call /\ todo' = todo /\ stage \in {"query", "answered"}
      /\ stage' \in {"compare", "crash"}
  BY DEF TestQuery, Go, Test
<1>2. /\ disk' = disk /\ kept' = kept /\ table' = table /\ files' = files
  BY DEF TestQuery, Retrieve, memoryVars
<1>3. stage' = "compare" => cands' = Bucket(table, Fingerprint(asked')) /\ matches' = << >>
  BY DEF TestQuery, Retrieve, RetrieveIndices, Bucket, Go
<1>4. KeptInv'
  BY <1>2 DEF MemInv, KeptInv
<1>5. DiskInv'
  BY <1>1, <1>2 DEF MemInv, DiskInv
<1>6. DbInv'
  BY <1>1, <1>2 DEF MemInv, DbInv
<1>7. TodoInv'
  BY <1>1, <1>2 DEF MemInv, TodoInv
<1>8. BufferInv' /\ LoadInv' /\ BlocksInv' /\ StoredInv' /\ DoneInv'
  BY <1>1 DEF BufferInv, LoadInv, BlocksInv, StoredInv, DoneInv
<1>9. MatchInv'
  <2> SUFFICES ASSUME stage' = "compare"
               PROVE  Answering(Bucket(table', Fingerprint(asked')), files', asked', cands', matches')
    BY <1>1 DEF MatchInv
  <2> DEFINE q == Bucket(table, Fingerprint(asked'))
  <2>1. table \in Tables
    BY <1>1 DEF MemInv, DbInv, DbOk, Indexes
  <2>2. q \in Seq(Nat) /\ Len(q) \in Nat
    BY <2>1, BucketTyped
  <2>3. cands' = q /\ matches' = << >>
    BY <1>3
  <2>4. Bucket(table', Fingerprint(asked')) = q
    BY <1>2
  <2> HIDE DEF q
  <2>5. Compared(q, 0, files', asked', cands', matches')
    <3>1. << >> \in Seq(Nat) /\ Len(<< >>) = 0
      BY EmptySeq
    <3>2. Len(q) = Len(q) - 0 /\ \A k \in 1..Len(q) : q[k] = q[0 + k]
      BY <2>2
    <3>3. 1..0 = {}
      OBVIOUS
    <3> QED BY <2>2, <2>3, <3>1, <3>2, <3>3 DEF Compared
  <2>6. 0 \in 0..Len(q)
    BY <2>2
  <2> QED BY <2>4, <2>5, <2>6 DEF Answering
<1> QED BY <1>4, <1>5, <1>6, <1>7, <1>8, <1>9 DEF MemInv

\* One candidate, of a bucket in ascending order
LEMMA CandidateCompared ==
    ASSUME NEW q \in Seq(Nat), Ascends(q), NEW n \in Nat, Compared(q, n, files, asked, cands, matches),
           Candidate
    PROVE  n + 1 \in 0..Len(q) /\ Compared(q, n + 1, files, asked, cands', matches')
<1> DEFINE x == Head(cands)
           N == n + 1
           ms == matches
           l == Len(ms)
<1>1. /\ cands \in Seq(Nat) /\ cands # << >> /\ Len(cands) = Len(q) - n /\ Len(q) \in Nat
      /\ DOMAIN q = 1..Len(q)
      /\ \A k \in 1..Len(cands) : cands[k] = q[n + k]
  BY DEF Compared, Candidate
<1>2. Len(cands) \in Nat \ {0} /\ x = cands[1] /\ Tail(cands) \in Seq(Nat) /\ Len(Tail(cands)) = Len(cands) - 1
      /\ \A k \in 1..Len(Tail(cands)) : Tail(cands)[k] = cands[k + 1]
  BY <1>1, EmptySeq, HeadTailProperties
<1>3. cands' = Tail(cands)
  BY DEF Candidate
<1>4. N \in 1..Len(q) /\ n \in Nat
  BY <1>1, <1>2
<1>5. x = q[N] /\ x \in Nat
  <2>1. 1 \in 1..Len(cands)
    BY <1>2
  <2> QED BY <1>1, <1>2, <1>4, <2>1
<1>6. cands' \in Seq(Nat) /\ Len(cands') = Len(q) - N /\ \A k \in 1..Len(cands') : cands'[k] = q[N + k]
  <2>1. Len(cands') = Len(q) - N
    BY <1>1, <1>2, <1>3
  <2>2. ASSUME NEW k \in 1..Len(cands') PROVE cands'[k] = q[N + k]
    <3>1. k + 1 \in 1..Len(cands) /\ n + (k + 1) = N + k
      BY <1>1, <1>2, <1>3
    <3> QED BY <1>1, <1>2, <1>3, <3>1
  <2> QED BY <1>2, <1>3, <2>1, <2>2
<1> HIDE DEF x, N
<1>7. /\ ms \in Seq(Nat) /\ l \in Nat /\ DOMAIN ms = 1..l /\ \A m \in 1..l : ms[m] \in Nat
      /\ \A m \in 1..l : /\ \E j \in 1..n : ms[m] = q[j]
                         /\ Reads(files, ms[m]) /\ "high" \in Compare(Heard(files, ms[m]), asked)
      /\ \A m \in 1..l : \A k \in 1 .. m - 1 : ms[m] - ms[k] > TwoSeconds
      /\ \A j \in 1..n : \/ \E m \in 1..l : Distance(ms[m], q[j]) <= TwoSeconds
                         \/ "low" \in Compare(Heard(files, q[j]), asked)
  <2>1. ms \in Seq(Nat)
    BY DEF Compared
  <2>2. l \in Nat /\ DOMAIN ms = 1..l /\ \A m \in 1..l : ms[m] \in Nat
    BY <2>1
  <2> QED BY <2>1, <2>2 DEF Compared
<1>8. \A j \in 1..N : j \in 1..n \/ j = N
  BY <1>4 DEF N
<1>9. \A j \in 1..n : j \in 1..N /\ q[j] \in Nat /\ q[j] < x
  <2>1. \A k \in 1..Len(q) : q[k] \in Nat
    OBVIOUS
  <2>2. \A a, c \in 1..Len(q) : a < c => q[a] < q[c]
    BY <1>1 DEF Ascends
  <2>3. \A j \in 1..n : j \in 1..N /\ j \in 1..Len(q) /\ j < N
    BY <1>1, <1>4 DEF N
  <2> QED BY <1>4, <1>5, <2>1, <2>2, <2>3
<1>10. \A m \in 1..l : ms[m] < x
  BY <1>7, <1>9
<1>11. TwoSeconds \in Nat
  BY MemoryAssumption DEF MemoryAssumption
<1>12. ms # << >> => l \in 1..l /\ Last(ms) = ms[l]
  BY <1>7, EmptySeq DEF Last
<1> HIDE DEF ms, l
<1>13. CASE Near(x) /\ matches' = matches
  <2>1. ms # << >> /\ Distance(Last(ms), x) <= TwoSeconds
    BY <1>13 DEF Near, ms
  <2>2. \E m \in 1..l : Distance(ms[m], q[N]) <= TwoSeconds
    BY <1>5, <1>12, <2>1
  <2>3. \A m \in 1..l : \E j \in 1..N : ms[m] = q[j]
    BY <1>7, <1>9
  <2>4. \A j \in 1..N : \/ \E m \in 1..l : Distance(ms[m], q[j]) <= TwoSeconds
                        \/ "low" \in Compare(Heard(files, q[j]), asked)
    BY <1>7, <1>8, <2>2
  <2>5. Compared(q, N, files, asked, cands', ms)
    BY <1>6, <1>7, <2>3, <2>4 DEF Compared, l
  <2> QED BY <1>4, <1>13, <2>5 DEF N, ms
<1>14. CASE Correlates(x, "low") /\ matches' = matches
  <2>1. "low" \in Compare(Heard(files, q[N]), asked)
    BY <1>5, <1>14 DEF Correlates, SliceAt, Heard
  <2>2. \A m \in 1..l : \E j \in 1..N : ms[m] = q[j]
    BY <1>7, <1>9
  <2>3. \A j \in 1..N : \/ \E m \in 1..l : Distance(ms[m], q[j]) <= TwoSeconds
                        \/ "low" \in Compare(Heard(files, q[j]), asked)
    BY <1>7, <1>8, <2>1
  <2>4. Compared(q, N, files, asked, cands', ms)
    BY <1>6, <1>7, <2>2, <2>3 DEF Compared, l
  <2> QED BY <1>4, <1>14, <2>4 DEF N, ms
<1>15. CASE ~Near(x) /\ Opens(x) /\ Correlates(x, "high") /\ matches' = Append(matches, x)
  <2> DEFINE ns == Append(ms, x)
             L == l + 1
  <2>1. /\ ns \in Seq(Nat) /\ Len(ns) = L /\ ns[L] = x /\ \A k \in 1..l : ns[k] = ms[k]
    BY <1>5, <1>7, AppendFacts DEF l
  <2>2. L \in Nat /\ L \in 1..L /\ (\A k \in 1..L : k \in 1..l \/ k = L) /\ \A k \in 1..l : k \in 1..L
    BY <1>7
  <2> HIDE DEF ns
  <2>3. Reads(files, x) /\ "high" \in Compare(Heard(files, x), asked)
    BY <1>15 DEF Opens, Reads, Correlates, SliceAt, Heard
  <2>4. \A m \in 1..L : /\ \E j \in 1..N : ns[m] = q[j]
                        /\ Reads(files, ns[m]) /\ "high" \in Compare(Heard(files, ns[m]), asked)
    <3>1. ASSUME NEW m \in 1..l
          PROVE  /\ \E j \in 1..N : ns[m] = q[j]
                 /\ Reads(files, ns[m]) /\ "high" \in Compare(Heard(files, ns[m]), asked)
      BY <1>7, <1>9, <2>1
    <3>2. /\ \E j \in 1..N : ns[L] = q[j]
          /\ Reads(files, ns[L]) /\ "high" \in Compare(Heard(files, ns[L]), asked)
      <4>1. N \in 1..N
        BY <1>4
      <4> QED BY <1>5, <2>1, <2>3, <4>1
    <3> QED BY <2>2, <3>1, <3>2
  <2>5. ASSUME NEW k \in 1..l PROVE x - ms[k] > TwoSeconds
    <3>1. ms # << >>
      BY <1>7, <2>5 DEF l
    <3>2. ms[l] \in Nat /\ ms[l] < x /\ l \in 1..l
      BY <1>7, <1>10, <1>12, <3>1
    <3>3. x - ms[l] > TwoSeconds
      <4>1. ~(Distance(ms[l], x) <= TwoSeconds)
        BY <1>12, <1>15, <3>1 DEF Near, ms
      <4>2. Distance(ms[l], x) = x - ms[l]
        BY <3>2 DEF Distance
      <4> QED BY <1>5, <1>11, <3>2, <4>1, <4>2
    <3>4. CASE k = l
      BY <3>3, <3>4
    <3>5. CASE k # l
      <4>1. k \in 1 .. l - 1
        BY <1>7, <3>5
      <4>2. ms[l] - ms[k] > TwoSeconds /\ ms[k] \in Nat
        BY <1>7, <3>2, <4>1
      <4> QED BY <1>5, <1>11, <3>2, <3>3, <4>2
    <3> QED BY <3>4, <3>5
  <2>6. ASSUME NEW m \in 1..L, NEW k \in 1 .. m - 1 PROVE ns[m] - ns[k] > TwoSeconds
    <3>1. k \in 1..l
      BY <1>7
    <3>2. CASE m = L
      BY <2>1, <2>5, <3>1, <3>2
    <3>3. CASE m \in 1..l
      BY <1>7, <2>1, <3>1, <3>3
    <3> QED BY <2>2, <3>2, <3>3
  <2>7. \A j \in 1..N : \/ \E m \in 1..L : Distance(ns[m], q[j]) <= TwoSeconds
                        \/ "low" \in Compare(Heard(files, q[j]), asked)
    <3>1. Distance(ns[L], q[N]) <= TwoSeconds
      <4>1. Distance(x, x) = 0
        BY <1>5 DEF Distance
      <4> QED BY <1>5, <1>11, <2>1, <4>1
    <3>2. ASSUME NEW j \in 1..n
          PROVE  \/ \E m \in 1..L : Distance(ns[m], q[j]) <= TwoSeconds
                 \/ "low" \in Compare(Heard(files, q[j]), asked)
      <4>1. CASE "low" \in Compare(Heard(files, q[j]), asked)
        BY <4>1
      <4>2. CASE \E m \in 1..l : Distance(ms[m], q[j]) <= TwoSeconds
        BY <2>1, <2>2, <4>2
      <4> QED BY <1>7, <4>1, <4>2
    <3> QED BY <1>8, <2>2, <3>1, <3>2
  <2>8. Compared(q, N, files, asked, cands', ns)
    BY <1>6, <2>1, <2>4, <2>6, <2>7 DEF Compared
  <2> QED BY <1>4, <1>15, <2>8 DEF N, ms, ns
<1>16. \/ Near(x) /\ matches' = matches
       \/ Correlates(x, "low") /\ matches' = matches
       \/ ~Near(x) /\ Opens(x) /\ Correlates(x, "high") /\ matches' = Append(matches, x)
  BY DEF Candidate, x
<1> QED BY <1>13, <1>14, <1>15, <1>16

LEMMA MemCompareKeeps == MemInv /\ TestCompare => MemInv'
<1> SUFFICES ASSUME MemInv, TestCompare PROVE MemInv'
  OBVIOUS
<1>1. /\ Test /\ Test' /\ stage = "compare" /\ call' = call /\ todo' = todo
      /\ \/ Candidate /\ stage' = stage
         \/ stage' = "crash" /\ UNCHANGED memoryVars
         \/ cands = << >> /\ stage' = "answered" /\ UNCHANGED memoryVars
  BY DEF TestCompare, Go, Test
<1>2. CASE stage' = "crash" /\ UNCHANGED memoryVars
  BY <1>1, <1>2, MemOther
<1>3. CASE \/ Candidate /\ stage' = stage
           \/ cands = << >> /\ stage' = "answered" /\ UNCHANGED memoryVars
  <2>1. /\ disk' = disk /\ kept' = kept /\ table' = table /\ files' = files /\ asked' = asked
        /\ stage' \in {"compare", "answered"}
    BY <1>1, <1>3 DEF Candidate, memoryVars
  <2>2. KeptInv'
    BY <2>1 DEF MemInv, KeptInv
  <2>3. DiskInv'
    BY <1>1, <2>1 DEF MemInv, DiskInv
  <2>4. DbInv'
    BY <1>1, <2>1 DEF MemInv, DbInv
  <2>5. TodoInv'
    BY <1>1, <2>1 DEF MemInv, TodoInv
  <2>6. BufferInv' /\ LoadInv' /\ BlocksInv' /\ StoredInv'
    BY <2>1 DEF BufferInv, LoadInv, BlocksInv, StoredInv
  <2> DEFINE q == Bucket(table, Fingerprint(asked))
  <2>7. q \in Seq(Nat) /\ Len(q) \in Nat /\ Ascends(q)
    <3>1. PICK orig : Indexes(table, orig, Places(orig))
      BY <1>1 DEF MemInv, DbInv, DbOk
    <3>2. table \in Tables /\ \A p \in DOMAIN table : Ascends(table[p])
      BY <3>1 DEF Indexes
    <3>3. Ascends(<< >>)
      BY DEF Ascends
    <3>4. Ascends(q)
      BY <3>2, <3>3 DEF Bucket
    <3> QED BY <3>2, <3>4, BucketTyped
  <2>8. Bucket(table', Fingerprint(asked')) = q
    BY <2>1
  <2>9. Answering(q, files, asked, cands, matches)
    BY <1>1 DEF MemInv, MatchInv
  <2>10. Answering(q, files, asked, cands', matches')
    <3> HIDE DEF q
    <3>1. CASE cands' = cands /\ matches' = matches
      BY <2>9, <3>1
    <3>2. CASE Candidate
      <4>1. PICK n \in 0..Len(q) : Compared(q, n, files, asked, cands, matches)
        BY <2>9 DEF Answering
      <4>2. n \in Nat
        BY <2>7, <4>1
      <4>3. n + 1 \in 0..Len(q) /\ Compared(q, n + 1, files, asked, cands', matches')
        BY <2>7, <3>2, <4>1, <4>2, CandidateCompared
      <4> QED BY <4>3 DEF Answering
    <3> QED BY <1>3, <3>1, <3>2 DEF memoryVars
  <2>11. MatchInv'
    BY <1>1, <2>1, <2>8, <2>10 DEF MatchInv
  <2>12. DoneInv'
    BY <1>1, <1>3 DEF DoneInv, memoryVars
  <2> QED BY <2>2, <2>3, <2>4, <2>5, <2>6, <2>11, <2>12 DEF MemInv
<1> QED BY <1>1, <1>2, <1>3

LEMMA MemImplKeeps ==
    MemInv /\ (ImplInsert \/ ImplStore \/ ImplWrite \/ ImplRead \/ ImplQuery \/ ImplScan) => MemInv'
<1> SUFFICES ASSUME MemInv, ImplInsert \/ ImplStore \/ ImplWrite \/ ImplRead \/ ImplQuery \/ ImplScan
             PROVE  MemInv'
  OBVIOUS
<1>1. Impl /\ ~Test
  BY DEF ImplInsert, ImplStore, ImplWrite, ImplRead, ImplQuery, ImplScan, Impl, Test
<1>2. UNCHANGED <<call, memoryVars>>
  BY DEF ImplInsert, ImplStore, ImplWrite, ImplRead, ImplQuery, ImplScan
<1>3. /\ stage \in {"insert", "write", "read", "query", "scan"}
      /\ stage' \in {"insert", "write", "read", "query", "scan", "crash"}
  BY DEF ImplInsert, ImplStore, ImplWrite, ImplRead, ImplQuery, ImplScan, Go
<1> QED BY <1>1, <1>2, <1>3, MemOther

LEMMA MemNext == MemInv /\ [Next]_vars => MemInv'
<1> SUFFICES ASSUME MemInv, [Next]_vars PROVE MemInv'
  OBVIOUS
<1>1. CASE Start
  BY <1>1, MemStartKeeps
<1>2. CASE ImplInsert \/ ImplStore \/ ImplWrite \/ ImplRead \/ ImplQuery \/ ImplScan
  BY <1>2, MemImplKeeps
<1>3. CASE TestInsert
  BY <1>3, MemInsertKeeps
<1>4. CASE TestStore
  BY <1>4, MemStoreKeeps
<1>5. CASE TestWrite
  BY <1>5, MemWriteKeeps
<1>6. CASE TestLoad
  BY <1>6, MemLoadKeeps
<1>7. CASE TestQuery
  BY <1>7, MemQueryKeeps
<1>8. CASE TestCompare
  BY <1>8, MemCompareKeeps
<1>9. CASE Missing
  <2>1. /\ stage = "insert" /\ stage' = "crash" /\ todo' = todo
        /\ UNCHANGED <<call, memoryVars>>
    BY <1>9 DEF Missing, Go
  <2> QED BY <2>1, MemOther
<1>10. CASE Return
  <2>1. /\ stage \in {"query", "answered"} /\ stage' = "stopped" /\ todo' = todo
        /\ UNCHANGED <<call, memoryVars>>
    BY <1>10 DEF Return, Go
  <2> QED BY <2>1, MemOther
<1>11. CASE UNCHANGED vars
  <2>1. /\ call' = call /\ stage' = stage /\ todo' = todo
        /\ table' = table /\ files' = files /\ groups' = groups /\ buffer' = buffer
        /\ disk' = disk /\ asked' = asked /\ cands' = cands /\ matches' = matches /\ kept' = kept
        /\ Test' = Test
    BY <1>11 DEF vars, mainVars, memoryVars, Test
  <2> QED BY <2>1 DEF MemInv, KeptInv, DiskInv, BufferInv, DbInv, LoadInv, BlocksInv, StoredInv,
                      TodoInv, MatchInv, DoneInv
<1> QED BY <1>1, <1>2, <1>3, <1>4, <1>5, <1>6, <1>7, <1>8, <1>9, <1>10, <1>11 DEF Next, Step

\* What test_my_fingerprint has in memory, in its buffer and in its file agrees, at
\* every step of any calls: the slices of its files, and no others, are indexed,
\* each bucket in order; the file and what is still to be written are the maps
\* that were to be stored; what has been read of them is in the maps; and the
\* matches of a query are what its comparisons so far have come to.
THEOREM MemoryInvariance == Spec => []MemInv
BY MemStart, MemNext, PTL DEF Spec

\* Whatever the sizes of the buffers of writeToDisk and loadFromDisk, what is
\* loaded has the buckets that were stored, each in its order, and the names of
\* the files, which may be longer than they were.
THEOREM LoadsWhatWasStored == Spec => []LoadedIsStored
<1>1. MemInv => LoadedIsStored
  <2> SUFFICES ASSUME MemInv, stage = "loaded"
               PROVE  /\ table = kept.table /\ Len(files) = Len(kept.files)
                      /\ \A k \in DOMAIN files : files[k] \in {kept.files[k], Garbled}
    BY DEF LoadedIsStored
  <2>1. Renamed(files, kept.files) /\ table = kept.table
    BY DEF MemInv, StoredInv
  <2>2. DOMAIN files = 1..Len(kept.files)
    BY <2>1 DEF Renamed
  <2> QED BY <2>1, <2>2 DEF Renamed
<1> QED BY <1>1, MemoryInvariance, PTL

\* The index of a slice leads back to it, unless its file's name has been lost.
LEMMA PlaceFound ==
    ASSUME NEW names, NEW orig, Originals(names, orig), NEW x \in Places(orig)
    PROVE  /\ SpotOf(x) \in Nat /\ FileOf(SpotOf(x)) + 1 = x[1]
           /\ SpotOf(x) % Mask = SampleOf(SpotOf(x))
           /\ x[1] \in DOMAIN names /\ x[2] \in DOMAIN Slices[orig[x[1]]]
           /\ Heard(names, SpotOf(x)) = Slices[names[x[1]]][x[2]]
           /\ Reads(names, SpotOf(x)) => names[x[1]] = orig[x[1]]
<1> DEFINE f == x[1]
           k == x[2]
<1>1. f \in DOMAIN orig /\ k \in DOMAIN Slices[orig[f]]
  BY DEF Places
<1>2. /\ DOMAIN orig = 1..Len(names) /\ DOMAIN names = 1..Len(names) /\ Len(names) \in Nat
      /\ \A n \in 1..Len(names) : names[n] \in {orig[n], Garbled}
  BY DEF Originals
<1>3. f \in Nat \ {0} /\ f \in DOMAIN names /\ names[f] \in {orig[f], Garbled}
  BY <1>1, <1>2
<1>4. orig[f] \in DOMAIN Slices
  BY <1>1 DEF Originals
<1>5. k \in Nat \ {0} /\ Jump * (k - 1) < Mask
  BY <1>1, <1>4, SliceFacts
<1> HIDE DEF f, k
<1>6. /\ Spot(f, k) \in Nat /\ FileOf(Spot(f, k)) = f - 1
      /\ SampleOf(Spot(f, k)) = Jump * (k - 1)
      /\ Spot(f, k) % Mask = Jump * (k - 1)
      /\ SampleOf(Spot(f, k)) \div Jump + 1 = k
  BY <1>3, <1>5, SpotFacts
<1>7. SpotOf(x) = Spot(f, k)
  BY DEF SpotOf, f, k
<1>8. FileOf(SpotOf(x)) + 1 = f
  BY <1>3, <1>6, <1>7
<1>9. Heard(names, SpotOf(x)) = Slices[names[f]][k]
  BY <1>6, <1>7, <1>8 DEF Heard
<1>10. Reads(names, SpotOf(x)) => names[f] = orig[f]
  BY <1>3, <1>8, NamesAssumption DEF Reads, NamesAssumption
<1> QED BY <1>1, <1>3, <1>6, <1>7, <1>8, <1>9, <1>10 DEF f, k

\* The places that have the fingerprint of the slice asked for are those of its
\* bucket whose files can be opened.
LEMMA AlikeHas ==
    ASSUME NEW orig, Originals(files, orig), NEW x \in Places(orig),
           PrintAt(orig, x) = Fingerprint(asked), Reads(files, SpotOf(x))
    PROVE  SpotOf(x) \in Alike
<1> DEFINE f == x[1]
           k == x[2]
<1>1. /\ FileOf(SpotOf(x)) + 1 = f /\ f \in DOMAIN files /\ k \in DOMAIN Slices[orig[f]]
      /\ files[f] = orig[f]
  BY PlaceFound
<1>2. f \in Readable
  BY <1>1 DEF Readable, Reads
<1>3. Fingerprint(Slices[files[f]][k]) = Fingerprint(asked)
  BY <1>1 DEF PrintAt
<1>4. k \in SlicesAlike(files[f])
  BY <1>1, <1>3 DEF SlicesAlike
<1>5. SpotOf(x) = Shift * (f - 1) + Jump * (k - 1)
  BY DEF SpotOf, Spot
<1> HIDE DEF f, k
<1> QED BY <1>2, <1>4, <1>5 DEF Alike

LEMMA AlikeOnly ==
    ASSUME NEW orig, Originals(files, orig), NEW index \in Alike
    PROVE  \E x \in Places(orig) : index = SpotOf(x) /\ PrintAt(orig, x) = Fingerprint(asked)
<1>1. PICK f \in Readable : index \in {Shift * (f - 1) + Jump * (k - 1) : k \in SlicesAlike(files[f])}
  BY DEF Alike
<1>2. PICK k \in SlicesAlike(files[f]) : index = Shift * (f - 1) + Jump * (k - 1)
  BY <1>1
<1>3. f \in DOMAIN files /\ files[f] \in DOMAIN Slices
  BY <1>1 DEF Readable
<1>4. k \in DOMAIN Slices[files[f]] /\ Fingerprint(Slices[files[f]][k]) = Fingerprint(asked)
  BY <1>2 DEF SlicesAlike
<1>5. /\ DOMAIN orig = DOMAIN files /\ f \in Nat /\ files[f] \in {orig[f], Garbled}
  BY <1>3 DEF Originals
<1>6. files[f] = orig[f]
  BY <1>3, <1>5, NamesAssumption DEF NamesAssumption
<1>7. k \in Nat
  BY <1>3, <1>4, SliceFacts
<1> DEFINE x == <<f, k>>
<1>8. x \in Nat \X Nat /\ x[1] = f /\ x[2] = k
  BY <1>5, <1>7
<1> HIDE DEF x
<1>9. x \in Places(orig)
  BY <1>3, <1>4, <1>5, <1>6, <1>8 DEF Places
<1>10. index = SpotOf(x) /\ PrintAt(orig, x) = Fingerprint(asked)
  BY <1>2, <1>4, <1>6, <1>8 DEF SpotOf, Spot, PrintAt
<1> QED BY <1>9, <1>10

LEMMA AnswerIs == MemInv => AnswerExact
<1> SUFFICES ASSUME MemInv, stage = "answered"
             PROVE  /\ \A m \in DOMAIN matches :
                          /\ matches[m] \in Alike /\ "high" \in Compare(SliceAt(matches[m]), asked)
                          /\ \A n \in 1 .. m - 1 : Distance(matches[n], matches[m]) > TwoSeconds
                          /\ ~call.load =>
                                Printed(call.db)[m] =
                                    [name |-> files[FileOf(matches[m]) + 1],
                                     sample |-> SampleOf(matches[m])]
                    /\ \A index \in Alike :
                          Compare(SliceAt(index), asked) = {"high"} =>
                              \E m \in DOMAIN matches : Distance(matches[m], index) <= TwoSeconds
  BY DEF AnswerExact
<1> DEFINE p == Fingerprint(asked)
           q == Bucket(table, p)
<1>1. PICK orig : Originals(files, orig) /\ Indexes(table, orig, Places(orig))
  BY DEF MemInv, DbInv, DbOk
<1>2. q \in Seq(Nat) /\ Len(q) \in Nat /\ DOMAIN q = 1..Len(q)
  <2>1. table \in Tables
    BY <1>1 DEF Indexes
  <2>2. q \in Seq(Nat)
    BY <2>1, BucketTyped
  <2> HIDE DEF q
  <2> QED BY <2>2
<1>3. Test /\ Answering(q, files, asked, cands, matches) /\ cands = << >>
  BY DEF MemInv, MatchInv, DoneInv
<1>4. \A j \in 1..Len(q) : \E x \in Places(orig) : q[j] = SpotOf(x) /\ PrintAt(orig, x) = p
  <2>1. p \in DOMAIN table => \A j \in DOMAIN table[p] : \E x \in Places(orig) :
                                  table[p][j] = SpotOf(x) /\ PrintAt(orig, x) = p
    BY <1>1 DEF Indexes
  <2>2. p \notin DOMAIN table => Len(q) = 0
    BY EmptySeq DEF Bucket
  <2> QED BY <1>2, <2>1, <2>2 DEF Bucket
<1>5. \A x \in Places(orig) : PrintAt(orig, x) = p => \E j \in 1..Len(q) : q[j] = SpotOf(x)
  <2>1. \A x \in Places(orig) : PrintAt(orig, x) = p =>
            p \in DOMAIN table /\ \E j \in DOMAIN table[p] : table[p][j] = SpotOf(x)
    BY <1>1 DEF Indexes
  <2> QED BY <1>2, <2>1 DEF Bucket
<1> HIDE DEF q
<1>6. Compared(q, Len(q), files, asked, cands, matches)
  <2>1. PICK n \in 0..Len(q) : Compared(q, n, files, asked, cands, matches)
    BY <1>3 DEF Answering
  <2>2. Len(cands) = Len(q) - n
    BY <2>1 DEF Compared
  <2>3. n = Len(q)
    <3>1. Len(cands) = 0
      BY <1>3, EmptySeq
    <3>2. Len(q) - n = 0
      BY <2>2, <3>1
    <3>3. Len(q) \in Nat /\ n \in 0..Len(q)
      BY <1>2, <2>1
    <3>4. \A a \in Nat : \A b \in 0..a : a - b = 0 => b = a
      OBVIOUS
    <3> QED BY <3>2, <3>3, <3>4
  <2> QED BY <2>1, <2>3
<1>7. /\ DOMAIN matches = 1..Len(matches) /\ \A m \in 1..Len(matches) : matches[m] \in Nat
      /\ \A m \in 1..Len(matches) :
            /\ \E j \in 1..Len(q) : matches[m] = q[j]
            /\ Reads(files, matches[m]) /\ "high" \in Compare(Heard(files, matches[m]), asked)
      /\ \A m \in 1..Len(matches) : \A k \in 1 .. m - 1 : matches[m] - matches[k] > TwoSeconds
      /\ \A j \in 1..Len(q) : \/ \E m \in 1..Len(matches) : Distance(matches[m], q[j]) <= TwoSeconds
                              \/ "low" \in Compare(Heard(files, q[j]), asked)
  <2>1. matches \in Seq(Nat)
    BY <1>6 DEF Compared
  <2>2. DOMAIN matches = 1..Len(matches) /\ \A m \in 1..Len(matches) : matches[m] \in Nat
    BY <2>1
  <2> QED BY <1>6, <2>2 DEF Compared
<1>8. ASSUME NEW m \in 1..Len(matches)
      PROVE  /\ matches[m] \in Alike /\ "high" \in Compare(SliceAt(matches[m]), asked)
             /\ \A n \in 1 .. m - 1 : Distance(matches[n], matches[m]) > TwoSeconds
             /\ ~call.load => Printed(call.db)[m] = [name |-> files[FileOf(matches[m]) + 1],
                                                     sample |-> SampleOf(matches[m])]
  <2>1. PICK x \in Places(orig) : matches[m] = SpotOf(x) /\ PrintAt(orig, x) = p
    BY <1>4, <1>7
  <2>2. matches[m] \in Alike
    BY <1>1, <1>7, <2>1, AlikeHas
  <2>3. "high" \in Compare(SliceAt(matches[m]), asked)
    BY <1>7 DEF SliceAt, Heard
  <2>4. ASSUME NEW n \in 1 .. m - 1 PROVE Distance(matches[n], matches[m]) > TwoSeconds
    <3>1. n \in 1..Len(matches) /\ matches[n] \in Nat /\ matches[m] \in Nat
      <4>1. n \in 1..Len(matches)
        OBVIOUS
      <4> QED BY <1>7, <4>1
    <3>2. matches[m] - matches[n] > TwoSeconds /\ TwoSeconds \in Nat
      BY <1>7, MemoryAssumption DEF MemoryAssumption
    <3> QED BY <3>1, <3>2 DEF Distance
  <2>5. ASSUME ~call.load
        PROVE  Printed(call.db)[m] = [name |-> files[FileOf(matches[m]) + 1],
                                      sample |-> SampleOf(matches[m])]
    <3>1. files \o todo = call.db /\ todo = << >>
      BY <1>3, <2>5 DEF MemInv, TodoInv
    <3>2. call.db = files
      <4>1. files \in Seq(Called)
        BY <1>1 DEF Originals
      <4> QED BY <3>1, <4>1, ConcatEmptySeq
    <3>3. matches[m] % Mask = SampleOf(matches[m])
      BY <1>1, <2>1, PlaceFound
    <3> QED BY <1>7, <3>2, <3>3 DEF Printed
  <2> QED BY <2>2, <2>3, <2>4, <2>5
<1>9. ASSUME NEW index \in Alike, Compare(SliceAt(index), asked) = {"high"}
      PROVE  \E m \in 1..Len(matches) : Distance(matches[m], index) <= TwoSeconds
  <2>1. PICK x \in Places(orig) : index = SpotOf(x) /\ PrintAt(orig, x) = p
    BY <1>1, AlikeOnly
  <2>2. PICK j \in 1..Len(q) : q[j] = index
    BY <1>5, <2>1
  <2>3. "low" \notin Compare(Heard(files, index), asked)
    BY <1>9 DEF SliceAt, Heard
  <2> QED BY <1>7, <2>2, <2>3
<1> QED BY <1>7, <1>8, <1>9

\* Whatever has been inserted, written and loaded by several calls, a query of
\* test_my_fingerprint is answered by places that sound alike, any two of them
\* more than two seconds apart; no place that certainly sounds alike is further
\* than that from all of them; and what is printed of a match is its file and
\* its sample, when all files were inserted by this call.
THEOREM AnswersAreExact == Spec => []AnswerExact
BY AnswerIs, MemoryInvariance, PTL
=============================================================================
