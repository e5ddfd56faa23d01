-------------------------- MODULE MCViewingHistory --------------------------
(***************************************************************************)
(* Instances of ViewingHistory for TLC.                                    *)
(***************************************************************************)
EXTENDS ViewingHistory, TLC

CONSTANTS r1, r2, c1, c2

AllRecordings == {r1, r2}
OneUnsavable  == {r2}
AllServices   == {c1, c2}

ServiceSymmetry == Permutations(AllServices)

=============================================================================
