--------------------------- MODULE MCAuthorization ---------------------------
(* One application whose owner edits or deletes it once, two users, two      *)
(* journeys; URIs that differ in a query parameter, a loopback port, a       *)
(* wildcard's host or a part that is not compared, and registrations and     *)
(* URIs that must be refused.                                                *)
EXTENDS Authorization, TLC

CONSTANTS ann, bob, r1, r2, cli

Web(host, query) == [scheme |-> "https", host |-> host, port |-> 443, path |-> "/cb",
                     query |-> query, fragment |-> FALSE, rest |-> ""]
Local(port) == [scheme |-> "http", host |-> "127.0.0.1", port |-> port, path |-> "/cb",
                query |-> {}, fragment |-> FALSE, rest |-> ""]
Plain == Web("a.example.com", {})
Marked == Web("a.example.com", {"x"})
Starred == Web("*.example.com", {"x"})
Fragment == [Plain EXCEPT !.fragment = TRUE]
Ftp == [Plain EXCEPT !.scheme = "ftp"]
NamedLocal(port) == [Local(port) EXCEPT !.rest = "user@"]

App(grant, uris) == [grant |-> grant, uris |-> uris, origins |-> {}, algorithm |-> "",
                     public |-> TRUE, skip |-> FALSE]
Site == App(AuthorizationCode, {Marked})
Native == App(AuthorizationCode, {Local(1)})
Machine == App("client-credentials", {})
TrustedSite == [Site EXCEPT !.uris = {Starred}, !.skip = TRUE, !.public = FALSE, !.algorithm = "RS256"]
Refused == {App(AuthorizationCode, {}), App(Implicit, {Fragment}),
            App(Implicit, {Web("a.*.com", {})}), App(Hybrid, {Ftp}),
            [Site EXCEPT !.origins = {Plain}], [Site EXCEPT !.algorithm = "HS256"]}

Registrations == {Site, Native, Machine, TrustedSite} \cup Refused
Requested == {Plain, Marked, NamedLocal(2), Fragment, Ftp}
URIs == Requested \cup UNION {reg.uris : reg \in Registrations}
OneApplication == {cli}
TwoUsers == {ann, bob}
TwoRequests == {r1, r2}
Hosts == "*.example.com" :> {"*.example.com", "a.example.com"}
Alike == Permutations(TwoUsers) \cup Permutations(TwoRequests)
=============================================================================
