---------------------------- MODULE Authorization ----------------------------
(***************************************************************************)
(* The authorization endpoint, for response_type=code.  A GET validates    *)
(* the request, loads the application and looks for an earlier token of    *)
(* the user; it answers with a code, an error, or the form.  The POST of   *)
(* the form loads the application, validates everything again and stores   *)
(* the code.  Each of these reads is a step: owners edit and delete the    *)
(* application, tokens are revoked and expire in between.                  *)
(*                                                                         *)
(* A request is one browser's journey: the GET and the POST of its form.   *)
(***************************************************************************)
EXTENDS Integers, RedirectURI

CONSTANTS
  Application,   \* client_ids; a deleted one is not registered again
  Registration,  \* what owners try to save as an application
  First,         \* the registration of every application to begin with
  URI,           \* redirect URIs
  AskedURI,      \* those that requests carry
  User,          \* users
  Scope,         \* scopes that requests name
  Available,     \* get_available_scopes
  Default,       \* get_default_scopes
  PKCERequired,  \* PKCE_REQUIRED
  Request,       \* browser journeys
  NoURI,         \* no redirect_uri in the request
  NoRow,         \* the application is deleted
  Nobody,        \* nobody is logged in
  NoClient,      \* a journey that has not begun
  Lifetime,      \* ACCESS_TOKEN_EXPIRE_SECONDS
  MaxTime,       \* bound: the clock stops here
  MaxEdits,      \* bound on edits and deletions of applications
  MaxTokens      \* bound on the tokens there are at one time

ASSUME BoundsAreNat == Lifetime \in Nat /\ MaxTime \in Nat /\ MaxEdits \in Nat /\ MaxTokens \in Nat
ASSUME FirstIsClean == First \in Registration /\ Clean(First)
ASSUME DefaultIsAvailable == Default # {} /\ Default \subseteq Available /\ Available \subseteq Scope
ASSUME RowsAreRegistrations == NoRow \notin Registration
ASSUME NoURIIsNone == NoURI \notin URI /\ AskedURI \subseteq URI
ASSUME NobodyIsNone == Nobody \notin User
ASSUME NoClientIsNone == NoClient \notin Application
ASSUME RegistrationsHaveURIs == \A reg \in Registration : reg.uris \subseteq URI

Token == [user : User, client : Application, scope : SUBSET Scope, expires : Nat]

Active == {"application", "tokens", "form", "create", "store"}
Answer == {"bad_request", "server_error", "assertion", "to_login", "login_required", "error", "code"}

VARIABLES
  now,      \* timezone.now()
  app,      \* the Application table
  tokens,   \* access tokens
  codes,    \* the journeys whose code is in the Grant table
  req,      \* the journeys
  granted,  \* history: <<user, client, scope>> that the user or the operator agreed to
  edits     \* edits and deletions so far

vars == <<now, app, tokens, codes, req, granted, edits>>

\* seen and fresh are history: the registrations of the client since the
\* journey began and since its last HTTP request; held: a live token of this
\* user and client covered the scopes at some time since the journey began.
Journey == [phase : Active \cup Answer \cup {"idle"}, user : User \cup {Nobody},
            client : Application \cup {NoClient}, uri : URI \cup {NoURI}, scope : SUBSET Scope,
            seen : SUBSET Registration, fresh : SUBSET Registration,
            held : BOOLEAN, silent : BOOLEAN]

TypeOK ==
  /\ now \in Nat
  /\ app \in [Application -> Registration \cup {NoRow}]
  /\ tokens \subseteq Token
  /\ codes \subseteq {r \in Request : req[r].phase = "code"}
  /\ req \in [Request -> Journey]
  /\ granted \subseteq (User \X Application \X Scope)
  /\ edits \in 0 .. MaxEdits

NewJourney == [phase |-> "idle", user |-> Nobody, client |-> NoClient, uri |-> NoURI, scope |-> {},
               seen |-> {}, fresh |-> {}, held |-> FALSE, silent |-> FALSE]

Init ==
  /\ now = 0
  /\ app = [a \in Application |-> First]
  /\ tokens = {}
  /\ codes = {}
  /\ req = [r \in Request |-> NewJourney]
  /\ granted = {}
  /\ edits = 0

\* A journey goes on, or ends with an answer; of one that ends without a code
\* only what a redirect tells is kept.
Ended(j, answer) ==
  IF answer = "error" THEN [NewJourney EXCEPT !.phase = answer, !.uri = j.uri, !.seen = j.seen]
  ELSE IF answer = "login_required" THEN [NewJourney EXCEPT !.phase = answer, !.uri = j.uri]
  ELSE [NewJourney EXCEPT !.phase = answer]

Become(r, phase) == req' = [req EXCEPT ![r] =
  IF phase \in Active \cup {"code"} THEN [req[r] EXCEPT !.phase = phase] ELSE Ended(req[r], phase)]

Agreed(r) == {<<req[r].user, req[r].client, s>> : s \in req[r].scope}

-----------------------------------------------------------------------------
(* Validation, by oauthlib and OAuth2Validator. *)

\* validate_response_type for "code"
AllowsCode(reg) == reg.grant = AuthorizationCode

\* An empty scope parameter stands for the default scopes.
ScopesOf(asked) == IF asked = {} THEN Default ELSE asked

\* A redirect URI that is missing or does not match is fatal: the answer is
\* not a redirect; oauthlib refuses one with a fragment.  Without any registered
\* URI, default_redirect_uri asserts.
RedirectVerdict(reg, uri) ==
  IF uri = NoURI
  THEN IF reg.uris = {} THEN "assertion" ELSE IF HasDefault(reg) THEN "valid" ELSE "bad_request"
  ELSE IF ~uri.fragment /\ RedirectToUriAllowed(uri, reg.uris) THEN "valid" ELSE "bad_request"

\* The redirect URI an accepted request has from then on.
RedirectOf(reg, uri) == IF uri = NoURI THEN CHOOSE u \in reg.uris : TRUE ELSE uri

\* What the request fails on once its redirect URI is settled goes there as an error.
RequestVerdict(reg, scope, challenge) ==
  IF /\ AllowsCode(reg)
     /\ PKCERequired => challenge
     /\ scope \subseteq Available
  THEN "valid" ELSE "error"

Verdict(reg, uri, scope, challenge) ==
  IF reg = NoRow THEN "bad_request"
  ELSE IF RedirectVerdict(reg, uri) # "valid" THEN RedirectVerdict(reg, uri)
  ELSE RequestVerdict(reg, scope, challenge)

-----------------------------------------------------------------------------
(* The GET. *)

\* allow_scopes
Covered(ts, scope) == \E t \in ts : scope \subseteq t.scope

\* A live token of the user and the client has the scopes (for the property).
Covering(u, a, scope) == Covered({t \in tokens : t.user = u /\ t.client = a /\ t.expires > now}, scope)

\* handle_no_permission sends a visitor to log in or, with prompt=none and a
\* redirect_uri, there with the error login_required.  It looks at no application
\* and validates nothing; OAuth2ResponseRedirect refuses a scheme not allowed.
NoPermission(uri, promptNone) ==
  IF ~promptNone \/ uri = NoURI THEN "to_login"
  ELSE IF uri.scheme \in RedirectScheme THEN "login_required" ELSE "bad_request"

VisitAnonymously(r) ==
  /\ req[r].phase = "idle"
  /\ \E uri \in AskedURI \cup {NoURI}, promptNone \in BOOLEAN :
       req' = [req EXCEPT ![r] = Ended([NewJourney EXCEPT !.uri = uri], NoPermission(uri, promptNone))]
  /\ UNCHANGED <<now, app, tokens, codes, granted, edits>>

\* AuthorizationView.get up to the prompt: validate_authorization_request.
Get(r) ==
  /\ req[r].phase = "idle"
  /\ \E u \in User, a \in Application, uri \in AskedURI \cup {NoURI}, asked \in SUBSET Scope,
        challenge, promptLogin \in BOOLEAN :
       LET reg == app[a]
           scope == ScopesOf(asked)
           verdict == Verdict(reg, uri, scope, challenge)
           refused == [NewJourney EXCEPT !.seen = {reg} \ {NoRow}, !.phase = verdict]
       IN req' = [req EXCEPT ![r] =
            IF verdict \in {"bad_request", "assertion"} THEN refused
            ELSE IF verdict = "error" THEN [refused EXCEPT !.uri = RedirectOf(reg, uri)]
            ELSE IF promptLogin THEN [NewJourney EXCEPT !.phase = "to_login"]
            ELSE [phase |-> "application", user |-> u, client |-> a, uri |-> RedirectOf(reg, uri),
                  scope |-> scope, seen |-> {reg}, fresh |-> {reg},
                  held |-> Covering(u, a, scope), silent |-> FALSE]]
  /\ UNCHANGED <<now, app, tokens, codes, granted, edits>>

\* The application is loaded again: one that skips authorization is trusted,
\* and approval_prompt=auto asks for earlier tokens.
LoadApplication(r) ==
  /\ req[r].phase = "application"
  /\ LET reg == app[req[r].client] IN
     IF reg = NoRow THEN Become(r, "server_error") /\ UNCHANGED granted
     ELSE IF reg.skip THEN Become(r, "create") /\ granted' = granted \cup Agreed(r)
     ELSE /\ \E next \in {"tokens", "form"} : Become(r, next)
          /\ UNCHANGED granted
  /\ UNCHANGED <<now, app, tokens, codes, edits>>

AllTokens(u, a) == {t \in tokens : t.user = u /\ t.client = a}             \* mutant: expired ones too
AnyUsersTokens(u, a) == {t \in tokens : t.client = a /\ t.expires > now}  \* mutant: of any user

\* The query that approval_prompt=auto makes.
PastTokens(u, a) == {t \in tokens : t.user = u /\ t.client = a /\ t.expires > now}

CheckTokens(r) ==
  /\ req[r].phase = "tokens"
  /\ req' = [req EXCEPT ![r] =
       IF Covered(PastTokens(req[r].user, req[r].client), req[r].scope)
       THEN [req[r] EXCEPT !.phase = "create", !.silent = TRUE]
       ELSE [req[r] EXCEPT !.phase = "form"]]
  /\ UNCHANGED <<now, app, tokens, codes, granted, edits>>

-----------------------------------------------------------------------------
(* The POST, and what both methods end with. *)

\* The session may have ended; the form posts to the URL of the GET, prompt and
\* redirect_uri included (one the GET did not have cannot be answered to, which is
\* not told apart here).  form_valid loads the application; a refusal is answered
\* to the form's redirect URI without another look at the registration.
Post(r) ==
  /\ req[r].phase = "form"
  /\ LET reg == app[req[r].client] IN
     \/ /\ \E promptNone \in BOOLEAN : Become(r, NoPermission(req[r].uri, promptNone))
        /\ UNCHANGED granted
     \/ reg = NoRow /\ Become(r, "server_error") /\ UNCHANGED granted
     \/ reg # NoRow /\ Become(r, "error") /\ UNCHANGED granted
     \/ /\ reg # NoRow
        /\ req' = [req EXCEPT ![r].phase = "create", ![r].fresh = {reg}]
        /\ granted' = granted \cup Agreed(r)
  /\ UNCHANGED <<now, app, tokens, codes, edits>>

CreateUnchecked(r) ==                                 \* mutant: the form's fields are trusted
  /\ req[r].phase = "create"
  /\ Become(r, "store")
  /\ UNCHANGED <<now, app, tokens, codes, granted, edits>>

\* create_authorization_response validates the request once more; the code
\* challenge is the one of the GET, which was there if it is required.
Create(r) ==
  /\ req[r].phase = "create"
  /\ LET verdict == Verdict(app[req[r].client], req[r].uri, req[r].scope, TRUE)
     IN Become(r, IF verdict = "valid" THEN "store" ELSE verdict)
  /\ UNCHANGED <<now, app, tokens, codes, granted, edits>>

\* _create_authorization_code: the row refers to the application.
Store(r) ==
  /\ req[r].phase = "store"
  /\ IF app[req[r].client] = NoRow
     THEN Become(r, "server_error") /\ UNCHANGED codes
     ELSE Become(r, "code") /\ codes' = codes \cup {r}
  /\ UNCHANGED <<now, app, tokens, granted, edits>>

-----------------------------------------------------------------------------
(* The rest of the system. *)

\* The token that the code of r gives.
TokenOf(r) == [user |-> req[r].user, client |-> req[r].client, scope |-> req[r].scope,
               expires |-> now + Lifetime]

\* For the property: the token is live while these journeys go on.
Holding(r, t) == [q \in Request |->
  IF q = r THEN NewJourney
  ELSE IF /\ req[q].phase \in Active /\ req[q].user = t.user /\ req[q].client = t.client
          /\ req[q].scope \subseteq t.scope
  THEN [req[q] EXCEPT !.held = TRUE] ELSE req[q]]

ExchangeKeepsCode(r) ==                               \* mutant: the code is not used up
  /\ r \in codes
  /\ Cardinality(tokens) < MaxTokens
  /\ app[req[r].client].grant \in {AuthorizationCode, Hybrid}
  /\ tokens' = tokens \cup {TokenOf(r)}
  /\ req' = Holding(r, TokenOf(r))
  /\ UNCHANGED <<now, app, codes, granted, edits>>

\* The token endpoint turns a code into an access token, and the browser is
\* free for another journey.
Exchange(r) ==
  /\ r \in codes
  /\ Cardinality(tokens) < MaxTokens
  /\ app[req[r].client].grant \in {AuthorizationCode, Hybrid}
  /\ tokens' = tokens \cup {TokenOf(r)}
  /\ req' = Holding(r, TokenOf(r))
  /\ codes' = codes \ {r}
  /\ UNCHANGED <<now, app, granted, edits>>

\* A token is deleted: AuthorizedTokenDeleteView, the revocation endpoint, a logout.
Revoke == \E t \in tokens :
  /\ tokens' = tokens \ {t}
  /\ UNCHANGED <<now, app, codes, req, granted, edits>>

\* ApplicationUpdate saves what its form accepts.
UpdateApplication(a) ==
  /\ app[a] # NoRow
  /\ edits < MaxEdits
  /\ edits' = edits + 1
  /\ \E reg \in Registration :
       /\ Clean(reg)
       /\ app' = [app EXCEPT ![a] = reg]
       /\ req' = [r \in Request |->
            IF req[r].phase \in Active /\ req[r].client = a
            THEN [req[r] EXCEPT !.seen = @ \cup {reg}, !.fresh = @ \cup {reg}] ELSE req[r]]
  /\ UNCHANGED <<now, tokens, codes, granted>>

\* ApplicationDelete: its tokens and codes go with it.
DeleteApplication(a) ==
  /\ app[a] # NoRow
  /\ edits < MaxEdits
  /\ edits' = edits + 1
  /\ app' = [app EXCEPT ![a] = NoRow]
  /\ tokens' = {t \in tokens : t.client # a}
  /\ codes' = {r \in codes : req[r].client # a}
  /\ UNCHANGED <<now, req, granted>>

Tick == now < MaxTime /\ now' = now + 1 /\ UNCHANGED <<app, tokens, codes, req, granted, edits>>

Visit(r) == VisitAnonymously(r) \/ Get(r) \/ LoadApplication(r) \/ CheckTokens(r) \/ Post(r)
            \/ Create(r) \/ Store(r)

Next ==
  \/ \E r \in Request : Visit(r) \/ Exchange(r)
  \/ \E a \in Application : UpdateApplication(a) \/ DeleteApplication(a)
  \/ Revoke
  \/ Tick

Spec == Init /\ [][Next]_vars

-----------------------------------------------------------------------------
(* Properties. *)

\* The URIs that a registered one stands for: itself, with further query
\* parameters, on any port of the loopback interface, on any host under a
\* wildcard, and with anything at all in "rest".
Denoted(a) == {u \in URI :
  /\ <<u.scheme, u.path>> = <<a.scheme, a.path>>
  /\ u.query \cup a.query = u.query
  /\ u.host = a.host \/ (Wildcards /\ a.host \in DOMAIN Under /\ u.host \in Under[a.host])
  /\ u.port # a.port => u.scheme = "http" /\ a.host \in {"127.0.0.1", "::1"}}

Registered(reg, uri) == uri \in UNION {Denoted(a) : a \in reg.uris}

\* A code goes to a URI that the application registered, with the grant type
\* that allows codes, at some time since the browser's last request: an edit
\* made while the form was on the screen counts.  The error of a request that was
\* validated goes to a URI that was registered at some time since the journey
\* began.  This is not so of login_required, which VisitAnonymously answers to any
\* redirect_uri: that answer is not spoken of here.
RedirectsAreRegistered == \A r \in Request :
  /\ req[r].phase = "code" => \E reg \in req[r].fresh :
       Registered(reg, req[r].uri) /\ AllowsCode(reg)
  /\ req[r].phase = "error" => \E reg \in req[r].seen : Registered(reg, req[r].uri)

KeepsPolicy(uri) == uri.scheme \in RedirectScheme /\ ~uri.fragment

\* What clean() let into the Application table is enough for the endpoint, whatever
\* edit or deletion comes in between.  OAuth2ResponseRedirect, which sees only the
\* setting, never refuses the redirect with a code or with the error of a request
\* that was validated, and it has no fragment, although nothing checks a default
\* URI once more.  (login_required, before any validation, is not such an error: it
\* may have a fragment, and NoPermission has the refusal.)  The assertion of
\* default_redirect_uri never fires for an application whose grant type redirects.
\* (RedirectScheme is the setting in lower case, as clean() takes it;
\* OAuth2ResponseRedirect does not lower it.)
SavedApplicationsSuffice == \A r \in Request :
  /\ req[r].phase \in {"code", "error"} => KeepsPolicy(req[r].uri)
  /\ req[r].phase = "assertion" => \A reg \in req[r].seen : reg.grant \notin NeedsRedirectURI

\* Whatever chain of silent approvals led to it, every scope of a code or of a
\* token was once agreed to by that user for that client in the form, or
\* belonged to a request of a client that skipped authorization then.
ConsentIsGrounded ==
  /\ \A r \in codes : Agreed(r) \subseteq granted
  /\ \A t \in tokens : {<<t.user, t.client, s>> : s \in t.scope} \subseteq granted

\* A code given because of an earlier token is given only if a token of this
\* user and client with these scopes was live at some time since the GET: not
\* because of one that had expired or been revoked by then.
SilenceNeedsALiveToken == \A r \in Request :
  req[r].phase = "code" /\ req[r].silent => req[r].held
=============================================================================
