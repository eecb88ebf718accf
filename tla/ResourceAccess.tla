--------------------------- MODULE ResourceAccess ---------------------------
(***************************************************************************)
(* Protected resources on a resource server whose tokens were issued by    *)
(* another server.  Both run this code: the first validates bearer tokens  *)
(* against its own AccessToken table and, when that does not suffice, asks *)
(* the second's IntrospectTokenView and stores the answer as a row of its  *)
(* own, with an expiry cut to RESOURCE_SERVER_TOKEN_CACHING_SECONDS.       *)
(* The look-up with the first validity check, the question, the answer,    *)
(* the store and each later check are steps of their own: time passes,     *)
(* tokens are revoked and other requests store or delete the same row      *)
(* between them.                                                           *)
(***************************************************************************)
EXTENDS Integers, FiniteSets, ClientAuth

CONSTANTS
  Token,           \* token strings
  User,            \* users; both servers know them by name
  Scope,           \* scopes of the views and tokens
  Read, Write,     \* READ_SCOPE and WRITE_SCOPE
  View,            \* the kinds of view requests are made to
  ViewScopes,      \* the scopes the views themselves require
  Alternates,      \* required_alternate_scopes: method to sets of scopes
  Request,         \* requests of a protected view
  Nobody,          \* no user
  NoToken,         \* a token string without a row
  Way,             \* how resource servers are set up to ask: "none", "secret", "bearer"
  Server,          \* the application a resource server authenticates as
  OldSecret, NewSecret, \* its secret as configured, and after a change of the application
  BearerExpires,   \* when the resource server's own token expires
  Cache,           \* RESOURCE_SERVER_TOKEN_CACHING_SECONDS
  Life,            \* ACCESS_TOKEN_EXPIRE_SECONDS of the issuing server
  MaxTime          \* bound: the clock stops here

ASSUME NumbersAreNat == {Cache, Life, BearerExpires, MaxTime} \subseteq Nat
ASSUME ReadWriteAreScopes == {Read, Write} \cup ViewScopes \subseteq Scope
ASSUME WaysAreKnown == Way \subseteq {"none", "secret", "bearer"}
ASSUME ServerIsApplication == Server \in Application
ASSUME SecretsAreSecrets == NoSecret \notin {OldSecret, NewSecret}
ASSUME NobodyIsNone == Nobody \notin User

Method == {"GET", "POST", "OPTIONS"}
AnyView == {"decorated", "rw_decorated", "mixin", "rest", "rest_or_user", "oas", "page"}
ASSUME ViewsAreKnown == View \subseteq AnyView

ASSUME AlternatesAreScopes == Alternates \in [Method -> SUBSET SUBSET Scope]

VARIABLES
  now,      \* timezone.now(), the same on both servers
  remote,   \* the tokens with an AccessToken row on the issuing server
  issued,   \* the contents of the row a token was given, kept after deletion
  secret,   \* the secret of the resource server's application there
  copy,     \* AccessToken of the resource server
  scopes,   \* _scopes, the one list of an rw_protected_resource view
  request   \* each request and the token instance it holds

vars == <<now, remote, issued, secret, copy, scopes, request>>

Row == [user : User \cup {Nobody}, scopes : SUBSET Scope, expires : Nat]
\* "since" is a history: when the answer was read.
Copy == [user : User \cup {Nobody}, scopes : SUBSET Scope, expires : Nat, since : Nat]

ASSUME NoTokenIsNone == NoToken \notin Row \cup Copy \cup Token

Phase == {"idle", "load", "ask", "answer", "store", "check", "explain", "permit", "served",
          "invalid_token", "insufficient_scope", "unknown_reason", "forbidden"}

TypeOK ==
  /\ now \in Nat
  /\ remote \subseteq Token
  /\ issued \in [Token -> Row \cup {NoToken}]
  /\ secret \in {OldSecret, NewSecret}
  /\ copy \in [Token -> Copy \cup {NoToken}]
  /\ scopes \subseteq Scope
  /\ request \in [Request -> [phase : Phase, view : AnyView, method : Method,
       token : Token \cup {NoToken}, held : Copy \cup {NoToken},
       user : User \cup {Nobody}, at : Nat]]

NewRequest == [phase |-> "idle", view |-> "page", method |-> "GET", token |-> NoToken,
               held |-> NoToken, user |-> Nobody, at |-> 0]

Init ==
  /\ now = 0
  /\ remote = {}
  /\ issued = [t \in Token |-> NoToken]
  /\ secret = OldSecret
  /\ copy = [t \in Token |-> NoToken]
  /\ scopes = ViewScopes
  /\ request = [r \in Request |-> NewRequest]

-----------------------------------------------------------------------------
(* Tokens and scopes. *)

IsExpiredLate(row) == now > row.expires               \* mutant: valid at the instant of expiry
IsExpired(row) == now >= row.expires

AllowScopes(row, required) == required \subseteq row.scopes

IsValid(row, required) == ~IsExpired(row) /\ AllowScopes(row, required)

MethodScope(method) == IF method = "POST" THEN Write ELSE Read

ReplaceScopes(method) == scopes' = ViewScopes \cup {MethodScope(method)}  \* mutant: the shared list starts anew
\* rw_protected_resource appends to the list all requests of the view share.
AppendScope(method) == scopes' = scopes \cup {MethodScope(method)}

\* ReadWriteScopedResourceMixin and TokenHasReadWriteScope build a list anew.
ReadWriteScopes(method) == ViewScopes \cup {MethodScope(method)}

\* The scopes handed to verify_request; a list is read when it is used.
\* OAuth2Authentication and OAuth2Backend require none.
RequiredScopes(r) == CASE request[r].view = "decorated" -> ViewScopes
  [] request[r].view = "rw_decorated" -> scopes
  [] request[r].view = "mixin" -> ReadWriteScopes(request[r].method)
  [] OTHER -> {}

\* TokenHasScope, TokenHasReadWriteScope, IsAuthenticatedOrTokenHasScope and
\* TokenMatchesOASRequirements: the alternatives, one of which must hold.
PermittedScopes(view, method) == CASE view = "rest" -> {ReadWriteScopes(method)}
  [] view = "rest_or_user" -> {ViewScopes}
  [] view = "oas" -> Alternates[method]

-----------------------------------------------------------------------------
(* The issuing server. *)

\* A token string is issued once, and before anybody presents it.
IssueToken(t) ==
  /\ issued[t] = NoToken
  /\ \E u \in User \cup {Nobody}, granted \in SUBSET Scope :
       issued' = [issued EXCEPT ![t] = [user |-> u, scopes |-> granted, expires |-> now + Life]]
  /\ remote' = remote \cup {t}
  /\ UNCHANGED <<now, secret, copy, scopes, request>>

\* The token is revoked, or cleared once it expired.
RevokeToken(t) ==
  /\ remote' = remote \ {t}
  /\ UNCHANGED <<now, issued, secret, copy, scopes, request>>

\* The application gets another secret, and the resource server is not told.
ChangeSecret ==
  /\ secret' = NewSecret
  /\ UNCHANGED <<now, remote, issued, copy, scopes, request>>

\* ClientProtectedResourceMixin.dispatch, for what a resource server sends: a
\* client that authenticates, or a bearer token with the scope "introspection".
MayIntrospect(way) ==
  LET sent == [basic |-> [id |-> Server, secret |-> OldSecret], body |-> Unauthenticated, grant |-> "none"]
  IN \/ way = "secret" /\ AuthenticateClient(sent, [a \in Application |-> secret])
     \/ way = "bearer" /\ now < BearerExpires

\* IntrospectTokenView.get_token_response: "active" with the row's data.
IsActive(t) == t \in remote /\ ~IsExpired(issued[t])

-----------------------------------------------------------------------------
(* A request of a protected view. *)

\* A preflight OPTIONS request passes the mixin, and a user who is signed in
\* needs no token for a page behind OAuth2TokenMiddleware or a view that takes
\* either.
NeedsNoToken(view, method, user) ==
  \/ view = "mixin" /\ method = "OPTIONS"
  \/ view \in {"page", "rest_or_user"} /\ user # Nobody

Arrive(r) ==
  /\ request[r].phase = "idle"
  /\ \E view \in View, method \in Method, t \in Token, user \in User \cup {Nobody} :
       /\ user # Nobody => view \in {"page", "rest_or_user"}
       /\ request' = [request EXCEPT ![r] = [NewRequest EXCEPT !.view = view, !.method = method,
            !.token = t, !.user = user,
            !.phase = IF NeedsNoToken(view, method, user) THEN "served" ELSE "load"]]
       /\ IF view = "rw_decorated" THEN AppendScope(method) ELSE UNCHANGED scopes
  /\ UNCHANGED <<now, remote, issued, secret, copy>>

Answer(r, phase) == request' = [request EXCEPT ![r] = [NewRequest EXCEPT !.phase = phase]]
Hold(r, row, phase) == request' = [request EXCEPT ![r].held = row, ![r].phase = phase]

\* validate_bearer_token: _load_access_token, and the first validity check.
LoadToken(r) ==
  /\ request[r].phase = "load"
  /\ LET row == copy[request[r].token] IN
     IF row # NoToken /\ IsValid(row, RequiredScopes(r)) THEN Hold(r, row, "check")
     ELSE \/ "none" \in Way /\ Hold(r, row, "check")
          \/ Way # {"none"} /\ Hold(r, NoToken, "ask")
  /\ UNCHANGED <<now, remote, issued, secret, copy, scopes>>

\* The question reaches the issuing server, is refused (403), is answered
\* "inactive", or is lost: the last three all leave the request without a token.
AskServer(r) ==
  /\ request[r].phase = "ask"
  /\ \/ /\ \E way \in Way : MayIntrospect(way)
        /\ IsActive(request[r].token)
        /\ LET row == issued[request[r].token] IN
           Hold(r, [user |-> row.user, scopes |-> row.scopes, expires |-> row.expires, since |-> now], "answer")
     \/ Hold(r, NoToken, "check")
  /\ UNCHANGED <<now, remote, issued, secret, copy, scopes>>

NoExpiry(exp) == NoToken                               \* mutant: no expiry is stored
UncutExpiry(exp) == exp                               \* mutant: kept as long as the token lives
\* The answer is kept for a limited time.
CutExpiry(exp) == IF exp > now + Cache THEN now + Cache ELSE exp

\* _get_token_from_authentication_server computes the expiry of the copy ...
ReadAnswer(r) ==
  /\ request[r].phase = "answer"
  /\ request' = [request EXCEPT ![r].phase = "store", ![r].held.since = now,
                                ![r].held.expires = CutExpiry(@)]
  /\ UNCHANGED <<now, remote, issued, secret, copy, scopes>>

\* ... and update_or_create stores it over what another request stored.
StoreCopy(r) ==
  /\ request[r].phase = "store"
  /\ copy' = [copy EXCEPT ![request[r].token] = request[r].held]
  /\ request' = [request EXCEPT ![r].phase = "check"]
  /\ UNCHANGED <<now, remote, issued, secret, scopes>>

\* clear_expired on the resource server.
ClearCopy(t) ==
  /\ copy[t] # NoToken
  /\ copy[t].expires < now
  /\ copy' = [copy EXCEPT ![t] = NoToken]
  /\ UNCHANGED <<now, remote, issued, secret, scopes, request>>

Serve(r, user) ==
  request' = [request EXCEPT ![r].phase = "served", ![r].user = user, ![r].at = now]

\* The second validity check, on the instance the request holds.  A page
\* behind the middleware is shown to an anonymous user if it fails.
CheckToken(r) ==
  /\ request[r].phase = "check"
  /\ LET row == request[r].held
         valid == row # NoToken /\ IsValid(row, RequiredScopes(r)) IN
     \/ valid /\ request[r].view \notin {"rest", "rest_or_user", "oas"} /\ Serve(r, row.user)
     \/ valid /\ request[r].view \in {"rest", "rest_or_user", "oas"} /\ Hold(r, row, "permit")
     \/ ~valid /\ request[r].view # "page" /\ Hold(r, row, "explain")
     \/ ~valid /\ request[r].view = "page" /\ Answer(r, "served")
  /\ UNCHANGED <<now, remote, issued, secret, copy, scopes>>

\* _set_oauth2_error_on_request looks for the reason in a step of its own.
ExplainRefusal(r) ==
  /\ request[r].phase = "explain"
  /\ LET row == request[r].held IN
     Answer(r, CASE row = NoToken -> "invalid_token"
       [] row # NoToken /\ IsExpired(row) -> "invalid_token"
       [] row # NoToken /\ ~IsExpired(row) /\ ~AllowScopes(row, RequiredScopes(r)) -> "insufficient_scope"
       [] OTHER -> "unknown_reason")
  /\ UNCHANGED <<now, remote, issued, secret, copy, scopes>>

\* has_permission of the REST framework's permission classes.
CheckPermission(r) ==
  /\ request[r].phase = "permit"
  /\ LET row == request[r].held
         granted == \E alternative \in PermittedScopes(request[r].view, request[r].method) :
                      IsValid(row, alternative) IN
     \/ granted /\ Serve(r, row.user)
     \/ ~granted /\ Answer(r, "forbidden")
  /\ UNCHANGED <<now, remote, issued, secret, copy, scopes>>

-----------------------------------------------------------------------------
Tick == now < MaxTime /\ now' = now + 1 /\ UNCHANGED <<remote, issued, secret, copy, scopes, request>>

ServeStep(r) == LoadToken(r) \/ AskServer(r) \/ ReadAnswer(r) \/ StoreCopy(r)
                \/ CheckToken(r) \/ ExplainRefusal(r) \/ CheckPermission(r)

Next ==
  \/ \E t \in Token : IssueToken(t) \/ RevokeToken(t) \/ ClearCopy(t)
  \/ ChangeSecret
  \/ \E r \in Request : Arrive(r) \/ ServeStep(r)
  \/ Tick

Spec == Init /\ [][Next]_vars
-----------------------------------------------------------------------------
(* Properties. *)

ServedWithToken(r) == request[r].phase = "served" /\ request[r].held # NoToken

\* A token is accepted only before it expires on the server that issued it,
\* and only within the caching time of an answer that called it active,
\* however the look-ups, answers and stores of several requests interleave.
AcceptedInTime == \A r \in Request : ServedWithToken(r) =>
  /\ request[r].at < issued[request[r].token].expires
  /\ request[r].at < request[r].held.since + Cache

\* A request is served with a token only if the issuing server granted it what
\* the view requires for the method, although requests share the list of
\* scopes of an rw_protected_resource view, and in the name of the user the
\* token was issued for; without a token, only if it needs none.
Sufficient(view, method, granted) == CASE view = "decorated" -> ViewScopes \subseteq granted
  [] view \in {"rw_decorated", "mixin"} -> ReadWriteScopes(method) \subseteq granted
  [] view \in {"rest", "rest_or_user", "oas"} -> \E s \in PermittedScopes(view, method) : s \subseteq granted
  [] view = "page" -> TRUE

AcceptedAsGranted == \A r \in Request : request[r].phase = "served" =>
  LET granted == issued[request[r].token] IN
  IF ServedWithToken(r)
  THEN Sufficient(request[r].view, request[r].method, granted.scopes) /\ request[r].user = granted.user
  ELSE NeedsNoToken(request[r].view, request[r].method, request[r].user) \/ request[r].view = "page"

\* The reason of a refusal is looked for after the check that failed; by then
\* it is still there, and "for an unknown reason" is never logged.
ErrorHasAReason == \A r \in Request : request[r].phase # "unknown_reason"
=============================================================================
