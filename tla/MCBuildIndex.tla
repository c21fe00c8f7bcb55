---------------------------- MODULE MCBuildIndex ----------------------------
(***************************************************************************)
(* Recordings and invocations for model checking BuildIndex.               *)
(***************************************************************************)
EXTENDS BuildIndex

\* The table counts bits.
ASSUME HammingCounts ==
    \A n \in {0, 1, 255, 43690, 65535, 65536, 2^30 - 1} :
        hammingLookup16(n) = Cardinality({b \in 0..29 : (n \div 2^b) % 2 = 1})

\* Energy of a band: the two samples of the frame that belong to it
MCEnergy(f, b) == (b + 1) * f[b + 1] + f[b + 2]

Recording(name, kind, c, sound) ==
    [name |-> name, kind |-> kind, channels |-> c, mark |-> 6, sound |-> sound,
     size |-> 14 + 2 * c * Len(sound), supply |-> 2 * Field + 14 + 2 * c * Len(sound)]

Long == <<3, 0, 1, 0, 3, 1, 0, 2, 1, 3>>
Stdin(c, sound) == Recording("-", "-", c, sound)

MCPiped ==
    {Stdin(1, Long), Stdin(2, SubSeq(Long, 3, 10)), Stdin(1, << >>), Stdin(1, <<1>>)}
    \union {[Stdin(2, <<1, 2, 0, 1>>) EXCEPT !.size = @ + n, !.supply = @ + n] : n \in {1, 4}}
    \union {[Stdin(1, <<1, 2>>) EXCEPT !.supply = s] : s \in {0, 1, 3}}
    \union {[Stdin(1, <<1, 2>>) EXCEPT !.supply = @ - 1], [Stdin(1, <<1, 2>>) EXCEPT !.mark = None],
            [Stdin(1, <<1, 2>>) EXCEPT !.channels = 0], [Stdin(1, <<1, 2>>) EXCEPT !.supply = @ + 2]}

A == Recording("a.wav", "wav", 1, Long)
B == Recording("b.wav", "wav", 2, SubSeq(Long, 3, 10))
C == Recording("c.wav", "wav", 1, <<1, 2>>)
Missing == Recording("d.wav", "missing", 1, Long)
Other == Recording("e.mp3", "other", 1, Long)

Call(file, name, list) ==
    [help |-> FALSE, dbname |-> TRUE, file |-> file, input |-> TRUE, name |-> name, list |-> list]

Before == {<<A>>, <<B, A>>, <<A, C>>, <<C, Missing>>, <<A, Other>>}

MCInvocations ==
    {Call("list", None, Append(l, r)) : l \in Before, r \in MCPiped}
    \union {Call(None, n, <<r>>) : n \in {None, "n"}, r \in MCPiped}
    \union {[Call(f, None, <<r>>) EXCEPT !.help = h, !.dbname = d, !.input = FALSE] :
            f \in {None, "unreadable"}, r \in {Stdin(1, <<1>>)}, h \in BOOLEAN, d \in BOOLEAN}
=============================================================================
