---------------------------- MODULE MCRefreshFlow ----------------------------
(* Instances of RefreshFlow; each .cfg says what it varies.                   *)
EXTENDS RefreshFlow, TLC

CONSTANTS r1, r2, r3, r4, read, write

TwoRequests == {r1, r2}
ThreeRequests == {r1, r2, r3}
FourRequests == {r1, r2, r3, r4}
OneScope == {read}
TwoScopes == {read, write}
SymmetricThree == Permutations(ThreeRequests)
=============================================================================
