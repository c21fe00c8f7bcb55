------------------------- MODULE MCOverlapAnalysis -------------------------
(***************************************************************************)
(* Files and arguments for model checking OverlapAnalysis: all contents of *)
(* short files with the default arguments, all arguments with one pair of  *)
(* files.                                                                  *)
(***************************************************************************)
EXTENDS OverlapAnalysis

\* The left channel and a constant right one
Stereo(left, right) ==
    [k \in 1 .. 2 * Len(left) |-> IF k % 2 = 1 THEN left[(k + 1) \div 2] ELSE right]

MCLeft1 == [1..4 -> {-1, 0, 1}]
MCLeft2 == {t \in [1..4 -> {0, 1}] : t[1] = 1 /\ t[4] = 1} \union {<<0, 0, 0, 0>>, <<1, -1, 0, 1>>}

Run(file1, file2) ==
    [version |-> FALSE, files |-> 2, level |-> 0, idLength |-> 1, sameRate |-> TRUE,
     file1 |-> file1, file2 |-> file2]

Sound1 == Stereo(<<0, 1, 1, -1, 1>>, 1)
Sound2 == Stereo(<<1, -1, 1, 0>>, 0)

MCInputs ==
    {Run(Stereo(l1, 1), Stereo(l2, 0)) : l1 \in MCLeft1, l2 \in MCLeft2}
    \union {Run(Sound1, Sound2), Run(Sound2, Sound1),
            Run(Append(Sound2, 1), Sound2), Run(Append(Sound1, 1), Append(Sound2, 1))}
    \union {[Run(Sound1, Sound2) EXCEPT !.version = v, !.files = f, !.level = l, !.idLength = i,
                                        !.sameRate = r] :
            v \in BOOLEAN, f \in {1, 2}, l \in {1, 3, 4, 5}, i \in {1, 4}, r \in BOOLEAN}
=============================================================================
