------------------------------ MODULE IndexSpec ------------------------------
(***************************************************************************)
(* What an audio index promises: tracks are added to it whole and one at a *)
(* time, and a position in it is known to belong to one of them.           *)
(***************************************************************************)
EXTENDS Naturals, Sequences

CONSTANTS Dbs, Tracks, FpCount

VARIABLES
    tracks,   \* tracks[d]: the tracks added to index d, in order
    stream    \* stream[d]: where each of its fingerprints comes from

Init ==
    /\ tracks = [d \in Dbs |-> << >>]
    /\ stream = [d \in Dbs |-> << >>]

Add(d, t) ==
    /\ tracks' = [tracks EXCEPT ![d] = Append(@, t)]
    /\ stream' = [stream EXCEPT ![d] = @ \o [k \in 1..FpCount[t] |-> <<t, k>>]]

Next == \E d \in Dbs, t \in Tracks : Add(d, t)

Spec == Init /\ [][Next]_<<tracks, stream>>
=============================================================================
