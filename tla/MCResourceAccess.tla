-------------------------- MODULE MCResourceAccess --------------------------
(* One token, two requests of five kinds of view, answers cached for less    *)
(* time than the token lives.                                                *)
EXTENDS ResourceAccess, TLC

CONSTANTS tok, ann, read, write, r1, r2, server

OneToken == {tok}
OneUser == {ann}
TwoScopes == {read, write}
ReadOnly == {read}
TwoRequests == {r1, r2}
OneServer == {server}
NoneRequired == {}
FiveViews == {"rw_decorated", "mixin", "rest_or_user", "oas", "page"}
Either == {"secret", "bearer"}
ReadOrNothing == [m \in Method |-> IF m = "OPTIONS" THEN {} ELSE {{read}, {write}}]

Alike == Permutations(TwoRequests)
=============================================================================
