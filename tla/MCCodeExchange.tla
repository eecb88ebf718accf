--------------------------- MODULE MCCodeExchange ---------------------------
(* Two requests for one code, with two clients and two redirect URIs that    *)
(* can be mixed up; only the mobile client must use PKCE.                    *)
EXTENDS CodeExchange

CONSTANTS c1, r1, r2, webapp, mobile, uri1, uri2, v1

OneCode == {c1}
TwoRequests == {r1, r2}
TwoClients == {webapp, mobile}
MobileOnly == {mobile}
TwoUris == {uri1, uri2}
OneVerifier == {v1}
=============================================================================
