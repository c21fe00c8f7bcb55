----------------------------- MODULE MCWavFile -----------------------------
(***************************************************************************)
(* The files for model checking WavFile.                                   *)
(***************************************************************************)
EXTENDS WavFile

MCShortMax == 64
MCIntMax == 1200
MCSizeMax == 400 * (2 * MCIntMax)

\* A file with n bytes behind the header of its data chunk
Wav(c, n) == [size |-> 44 + n, riff |-> 36 + n, fmt |-> 16, channels |-> c, bits |-> 16,
              gap |-> 0, decoys |-> {}, data |-> n]

\* Another chunk of g bytes, its header included, before the data chunk
Gap(f, g) == [f EXCEPT !.size = @ + g, !.riff = @ + g, !.gap = g]

Data(n) == {Wav(c, n) : c \in 1..2}

Plain == UNION {Data(n) : n \in 0..MaxBytes} \union {Wav(3, n) : n \in 0..13}

\* The data chunk is shorter than what stands behind it, or longer.
Sized == {[Wav(c, 12) EXCEPT !.data = n] : c \in 1..2, n \in {2, 8, 11, 13, 20}}

\* Chunks before the data, up to the places where it is just found or not
Moved == {Gap(f, g) : f \in Data(1) \union Data(9), g \in {34, 1015, 1016, 1160}}
    \union {[Gap(f, 34) EXCEPT !.decoys = {8}] : f \in Data(9)}

Odd == {[f EXCEPT !.bits = n] : f \in Data(8), n \in {0, 8, 24}}
    \union {[Gap(f, 2) EXCEPT !.fmt = 18, !.gap = 0] : f \in Data(9)}
    \union {[f EXCEPT !.channels = 0] : f \in Data(4)}
    \union {[f EXCEPT !.riff = 0] : f \in Data(4)}
    \union {[f EXCEPT !.fmt = n] : f \in Data(2), n \in {14, 25, 36, 40, 60}}
    \union {[f EXCEPT !.size = n, !.riff = (n - 8) % (2 * MCIntMax)] : f \in Data(2), n \in {4, 15, 30, 36, 40}}

\* A fmt chunk that does not fit into the buffer, or says so
Long == {[f EXCEPT !.size = @ + n, !.riff = @ + n, !.fmt = @ + n] : f \in Data(5), n \in {1008, 1009, 1100}}
    \union {[Gap(f, 1015) EXCEPT !.gap = 0, !.fmt = n] : f \in Data(3), n \in {1024, 1042, 1043, MCIntMax}}

\* Numbers that are negative as they are read
Negative == {[Wav(c, 8) EXCEPT !.data = n] : c \in 1..2, n \in {MCIntMax - 1, MCIntMax, 2 * MCIntMax - 1}}
    \union {[f EXCEPT !.bits = n] : f \in Data(8), n \in {MCShortMax, 2 * MCShortMax - 16}}
    \union {[f EXCEPT !.fmt = 2 * MCIntMax - 16] : f \in Data(4)}

MCFiles == Plain \union Sized \union Moved \union Odd \union Long \union Negative
=============================================================================
