--------------------------- MODULE MCFingerprintDb ---------------------------
(* Instances of FingerprintDb for TLC.                                     *)
EXTENDS FingerprintDb, TLC

CONSTANTS short, long, empty, spaced, unnamed

MCFpCount == short :> 1 @@ long :> 3 @@ empty :> 0 @@ spaced :> 1 @@ unnamed :> 1 @@ 7 :> 1

MCCount == [t \in Tracks |-> MCFpCount[t]]

MCNoMerge == {}

\* Merges into a new database, into an existing one, and of a merged one.
MCMerges == {[out |-> "c", inputs |-> <<"a", "b">>], [out |-> "b", inputs |-> <<"a">>],
             [out |-> "a", inputs |-> <<"c", "b">>]}
=============================================================================
