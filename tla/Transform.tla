----------------------------- MODULE Transform -----------------------------
(***************************************************************************)
(* The discrete Fourier transforms and the cross correlations built from   *)
(* them: FFTW as it is used by proxyFFT, cross_correlation and xcorr_new,  *)
(* and the recursive transform of FFT.cpp.                                 *)
(*                                                                         *)
(* The numbers are those of the field of the integers modulo P, which has  *)
(* roots of unity too: the identities between transforms hold in it        *)
(* exactly.  The complex conjugate of a coefficient of real input is the   *)
(* coefficient of the opposite index.  An array is a function on 0..n-1;   *)
(* results are read as the integers from -P/2 to P/2.                      *)
(***************************************************************************)
EXTENDS Integers, Sequences, FiniteSets, Folds

CONSTANT P   \* a prime with roots of unity of the orders that are used

Size(a) == Cardinality(DOMAIN a)

Mod(n) == n % P
SignedMod(n) == IF 2 * Mod(n) < P THEN Mod(n) ELSE Mod(n) - P

\* f[0] + ... + f[n-1]
SumTo(n, f) == MapThenFoldSet(LAMBDA x, y : x + y, 0, LAMBDA i : f[i], LAMBDA S : CHOOSE x \in S : TRUE,
                              0 .. n - 1)

Power(r, n) == MapThenFoldSet(LAMBDA x, y : Mod(x * y), 1, LAMBDA i : r, LAMBDA S : CHOOSE x \in S : TRUE, 1..n)

\* The powers of exp(-2 pi i / n): those of a root of unity of order n
Orders == {n \in 1..32 : (P - 1) % n = 0}
Roots == [n \in Orders |->
            LET r == CHOOSE x \in 1 .. P - 1 : /\ Power(x, n) = 1
                                              /\ \A m \in 1 .. n - 1 : Power(x, m) # 1
            IN  [k \in 0 .. n - 1 |-> Power(r, k)]]

Reciprocal(m) == CHOOSE x \in 1 .. P - 1 : Mod(m * x) = 1

\* fftw_plan_dft_1d with FFTW_FORWARD, and fftw_execute
Dft(a) ==
    LET n == Size(a)
        w == Roots[n]
    IN  [k \in 0 .. n - 1 |-> Mod(SumTo(n, [i \in 0 .. n - 1 |-> a[i] * w[(i * k) % n]]))]

Conjugate(A) == LET n == Size(A) IN [k \in 0 .. n - 1 |-> A[(n - k) % n]]

\* The array and as many zeros: transform of proxyFFT
Padded(a) == LET n == Size(a) IN [i \in 0 .. 2 * n - 1 |-> IF i < n THEN a[i] ELSE 0]
ProxyTransform(a) == Dft(Padded(a))

Product(A, B) == [k \in DOMAIN A |-> Mod(A[k] * B[k])]

\* Mutant: the other factor is conjugated.
ShiftProductSwapped(a, b) ==
    LET prod == Product(Conjugate(ProxyTransform(b)), ProxyTransform(a))
        out  == Dft(prod)
    IN  [i \in DOMAIN a |-> SignedMod(out[i] * Reciprocal(Size(out)))]

\* cross_correlation of two arrays of the same size
CrossCorrelation(a, b) ==
    LET prod == Product(ProxyTransform(b), Conjugate(ProxyTransform(a)))
        out  == Dft(prod)
    IN  [i \in DOMAIN a |-> SignedMod(out[i] * Reciprocal(Size(out)))]

\* xcorr_new: without the zeros, of as many coefficients as the arrays have
CircularCorrelation(a, b) ==
    LET prod == Product(Dft(b), Conjugate(Dft(a)))
        out  == Dft(prod)
    IN  [i \in DOMAIN a |-> SignedMod(out[i] * Reciprocal(Size(out)))]

-----------------------------------------------------------------------------
(* FFT.cpp                                                                 *)

PowersOfTwo == {1, 2, 4, 8, 16, 32}

\* isPowerOfTwo finds no second bit that is set; it takes 0 for one, too.
IsPowerOfTwo(n) == n \in PowersOfTwo \union {0}

\* getNextPowerOfTwo
NextPowerOfTwo(n) == IF n = 0 THEN 0 ELSE 2 * (CHOOSE p \in PowersOfTwo : p <= n /\ n < 2 * p)

\* FT pads its input to a power of two.
Extended(a) ==
    LET n == Size(a)
        m == IF IsPowerOfTwo(n) THEN n ELSE NextPowerOfTwo(n)
    IN  [i \in 0 .. m - 1 |-> IF i < n THEN a[i] ELSE 0]

\* FTrec: the transform of the input's entries first, first + jump, ...; N of
\* them.  w are the roots of unity of the whole.
FTrec(a, w) ==
    LET size == Size(a)
        X[N \in PowersOfTwo, first \in 0 .. size - 1] ==
            IF N = 1 THEN [k \in {0} |-> a[first]]
            ELSE LET jump == size \div N
                     even == X[N \div 2, first]
                     odd  == X[N \div 2, first + jump]
                     half == N \div 2
                 IN  [k \in 0 .. N - 1 |->
                        LET t == odd[k % half] * w[(jump * (k % half)) % size]
                        IN  Mod(IF k < half THEN even[k] + t ELSE even[k - half] - t)]
    IN  X[size, 0]

FT(a) == LET x == Extended(a) IN FTrec(x, Roots[Size(x)])

\* inverseFT: the conjugate roots, and a division
InverseFT(a) ==
    LET x == Extended(a)
        y == FTrec(x, Conjugate(Roots[Size(x)]))
    IN  [k \in DOMAIN y |-> SignedMod(y[k] * Reciprocal(Size(x)))]

-----------------------------------------------------------------------------
(* What they are to compute                                                *)

\* "b is 'shifted' along a": b[0] stands below a[s].
Shifted(a, b) ==
    LET n == Size(a) IN
    [s \in 0 .. n - 1 |-> SumTo(n - s, [i \in 0 .. n - s - 1 |-> a[i + s] * b[i]])]

\* The same around a circle
Rotated(a, b) ==
    LET n == Size(a) IN
    [s \in 0 .. n - 1 |-> SumTo(n, [i \in 0 .. n - 1 |-> a[(i + s) % n] * b[i]])]
=============================================================================
