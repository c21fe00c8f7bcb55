---------------------------- MODULE Fingerprints ----------------------------
(***************************************************************************)
(* generateFingerprintStream: from the samples of a track to its           *)
(* fingerprints, one for each frame of FrameLength samples, Advance apart. *)
(*                                                                         *)
(* The energies of a frame come from its spectrum; they are left open as a *)
(* function of the frame.  A fingerprint is the set of its bits that are 1.*)
(***************************************************************************)
EXTENDS Integers, Sequences

CONSTANTS
    FrameLength,  \* 2048
    Advance,      \* 64
    Bands,        \* 32: bits of a fingerprint
    Energy(_, _)  \* energy of a frame in one of its bands

ASSUME FrameAssumption ==
    FrameLength \in Nat \ {0} /\ Advance \in Nat \ {0} /\ Bands \in Nat

\* The loop's condition is frameEnd < input.size(): a frame that ends with the
\* last sample is not taken.
FrameEndsBefore(k, n) == Advance * (k - 1) + FrameLength < n

\* The k for which the loop's body is executed, for n samples
FrameNumbers(n) == {k \in 1..n : FrameEndsBefore(k, n)}

Frame(s, k) == SubSeq(s, Advance * (k - 1) + 1, Advance * (k - 1) + FrameLength)

Silent == [b \in 0..Bands |-> 0]

\* The energies of the k-th frame; those before the first are 0, and so is the
\* last entry of every vector, for which there is no band.
Energies(s, k) ==
    IF k = 0 THEN Silent
    ELSE [b \in 0..Bands |-> IF b = Bands THEN 0 ELSE Energy(Frame(s, k), b)]

\* getFingerprint
Fingerprint(prev, cur) ==
    {b \in 0 .. Bands - 1 : cur[b] - cur[b + 1] - (prev[b] - prev[b + 1]) > 0}

\* The output for the samples s
FingerprintAt(s, k) == Fingerprint(Energies(s, k - 1), Energies(s, k))

FingerprintStream(s) == [k \in FrameNumbers(Len(s)) |-> FingerprintAt(s, k)]
=============================================================================
