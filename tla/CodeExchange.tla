---------------------------- MODULE CodeExchange ----------------------------
(***************************************************************************)
(* The authorization-code grant of the token endpoint: TokenView drives    *)
(* oauthlib's AuthorizationCodeGrant, which calls the methods of           *)
(* OAuth2Validator one after the other.  Each call is a database round     *)
(* trip of its own (only save_bearer_token opens a transaction), so every  *)
(* call is a step of its own and requests of several worker processes      *)
(* interleave between them.  The tokens are committed BEFORE the code is   *)
(* deleted: a request may find, after saving, that another one was faster. *)
(*                                                                         *)
(* A Request is one POST of the token endpoint, from a client that has     *)
(* already been authenticated and is allowed the grant type.               *)
(***************************************************************************)
EXTENDS Integers, FiniteSets

CONSTANTS
  Code,          \* codes the generator hands out (it never repeats one)
  Request,       \* token requests
  Client,        \* applications
  Uri,           \* redirect URIs
  Verifier,      \* PKCE code verifiers; a challenge is named by its verifier
  NoVerifier,    \* no code_verifier in the request, no challenge in the grant
  PkceRequired,  \* the clients for which the PKCE_REQUIRED setting holds
  Nobody,        \* no request
  NotIssued,     \* a code that was not handed out yet
  NoParams,      \* a request that has not arrived yet
  CodeLifetime,  \* AUTHORIZATION_CODE_EXPIRE_SECONDS
  MaxTime        \* bound: the clock stops here

ASSUME LifetimeIsNat == CodeLifetime \in Nat
ASSUME MaxTimeIsNat == MaxTime \in Nat
ASSUME NobodyIsNoRequest == Nobody \notin Request
ASSUME NoVerifierIsNone == NoVerifier \notin Verifier
ASSUME PkceRequiredClients == PkceRequired \subseteq Client

Challenge == Verifier \cup {NoVerifier}
Grant == [client : Client, uri : Uri, challenge : Challenge, expires : Nat]
Params == [code : Code, client : Client, uri : Uri, verifier : Challenge]

ASSUME NotIssuedIsNoGrant == NotIssued \notin Grant
ASSUME NoParamsIsNone == NoParams \notin Params

InFlight == {"validate", "challenge", "redirect", "save", "invalidate", "respond"}
Answers == {"ok", "invalid_grant", "error"}
Phase == InFlight \cup Answers \cup {"idle", "lost"}

VARIABLES
  now,       \* timezone.now()
  table,     \* the codes that have a row in the Grant table
  issued,    \* the contents of the row a code was given, kept after deletion
  phase,     \* how far each request is, or how it was answered
  params,    \* what each request asks for
  token,     \* the access token row of a request: "none", "live", "deleted"
  redeemer,  \* history: the request whose DELETE removed the code's row
  arrival    \* history: when a request arrived, and whether its code was redeemed by then

vars == <<now, table, issued, phase, params, token, redeemer, arrival>>

TypeOK ==
  /\ now \in Nat
  /\ table \subseteq Code
  /\ issued \in [Code -> Grant \cup {NotIssued}]
  /\ phase \in [Request -> Phase]
  /\ params \in [Request -> Params \cup {NoParams}]
  /\ token \in [Request -> {"none", "live", "deleted"}]
  /\ redeemer \in [Code -> Request \cup {Nobody}]
  /\ arrival \in [Request -> [at : Nat, late : BOOLEAN]]

At(r, p) == phase[r] = p
Goto(r, p) == phase' = [phase EXCEPT ![r] = p]

Init ==
  /\ now = 0
  /\ table = {}
  /\ issued = [c \in Code |-> NotIssued]
  /\ phase = [r \in Request |-> "idle"]
  /\ params = [r \in Request |-> NoParams]
  /\ token = [r \in Request |-> "none"]
  /\ redeemer = [c \in Code |-> Nobody]
  /\ arrival = [r \in Request |-> [at |-> 0, late |-> FALSE]]

-----------------------------------------------------------------------------
(* The rows. *)

\* Grant.objects.get(code=code, application=client)
RowOf(r) == params[r].code \in table /\ issued[params[r].code].client = params[r].client

ExpiredInclusive(c) == now > issued[c].expires          \* mutant: expiry instant still valid
IsExpired(c) == now >= issued[c].expires

\* The authorization endpoint stores a code (_create_authorization_code).
CreateGrant(c) ==
  /\ issued[c] = NotIssued
  /\ \E cl \in Client, u \in Uri, ch \in Challenge :
       /\ cl \in PkceRequired => ch # NoVerifier
       /\ issued' = [issued EXCEPT ![c] =
            [client |-> cl, uri |-> u, challenge |-> ch, expires |-> now + CodeLifetime]]
  /\ table' = table \cup {c}
  /\ UNCHANGED <<now, phase, params, token, redeemer, arrival>>

\* clear_expired deletes the grants whose expiry lies before its start.
ClearGrant(c) ==
  /\ c \in table
  /\ issued[c].expires < now
  /\ table' = table \ {c}
  /\ UNCHANGED <<now, issued, phase, params, token, redeemer, arrival>>

MarkToken(r) ==                                          \* mutant: marked, not deleted
  /\ token[r] = "live"
  /\ token' = [token EXCEPT ![r] = "revoked"]
  /\ UNCHANGED <<now, table, issued, phase, params, redeemer, arrival>>

\* The access token of a request is deleted: by the revocation endpoint, the
\* user's token page, logout, or clear_expired.
DeleteToken(r) ==
  /\ token[r] = "live"
  /\ token' = [token EXCEPT ![r] = "deleted"]
  /\ UNCHANGED <<now, table, issued, phase, params, redeemer, arrival>>

-----------------------------------------------------------------------------
(* One token request. *)

Arrive(r) ==
  /\ At(r, "idle")
  /\ Goto(r, "validate")
  /\ \E p \in Params :
       /\ params' = [params EXCEPT ![r] = p]
       /\ arrival' = [arrival EXCEPT ![r] = [at |-> now, late |-> redeemer[p.code] # Nobody]]
  /\ UNCHANGED <<now, table, issued, token, redeemer>>

\* validate_code: the row exists and has not expired.
ValidateCode(r) ==
  /\ At(r, "validate")
  /\ Goto(r, IF RowOf(r) /\ ~IsExpired(params[r].code) THEN "challenge" ELSE "invalid_grant")
  /\ UNCHANGED <<now, table, issued, params, token, redeemer, arrival>>

\* get_code_challenge and get_code_challenge_method look the row up again:
\* DoesNotExist, a server error, when it is gone.
ChallengeMet(r) == issued[params[r].code].challenge \in {NoVerifier, params[r].verifier}

CheckChallenge(r) ==
  /\ At(r, "challenge")
  /\ \/ ~RowOf(r) /\ Goto(r, "error")
     \/ RowOf(r) /\ ~ChallengeMet(r) /\ Goto(r, "invalid_grant")
     \/ RowOf(r) /\ ChallengeMet(r) /\ Goto(r, "redirect")
  /\ UNCHANGED <<now, table, issued, params, token, redeemer, arrival>>

\* confirm_redirect_uri, the third look-up of the row.
ConfirmRedirect(r) ==
  /\ At(r, "redirect")
  /\ \/ ~RowOf(r) /\ Goto(r, "error")
     \/ RowOf(r) /\ issued[params[r].code].uri # params[r].uri /\ Goto(r, "invalid_grant")
     \/ RowOf(r) /\ issued[params[r].code].uri = params[r].uri /\ Goto(r, "save")
  /\ UNCHANGED <<now, table, issued, params, token, redeemer, arrival>>

\* mutant: the failure of the save goes unnoticed
SaveSwallowed(r) ==
  /\ At(r, "save")
  /\ Goto(r, "invalidate")
  /\ UNCHANGED <<now, table, issued, params, token, redeemer, arrival>>

\* save_bearer_token: access and refresh token rows, in one transaction.
SaveToken(r) ==
  /\ At(r, "save")
  /\ token' = [token EXCEPT ![r] = "live"]
  /\ Goto(r, "invalidate")
  /\ UNCHANGED <<now, table, issued, params, redeemer, arrival>>

\* invalidate_authorization_code: DELETE, and invalid_grant when it removed no row.
DeleteUndone(r, c) ==                                    \* mutant: the row is back
  /\ table' = table
  /\ redeemer' = [redeemer EXCEPT ![c] = r]

DeleteCode(r, c) ==
  /\ table' = table \ {c}
  /\ redeemer' = [redeemer EXCEPT ![c] = r]

InvalidateUnchecked(r) ==                                \* mutant: deleted count ignored
  /\ At(r, "invalidate")
  /\ DeleteCode(r, params[r].code)
  /\ Goto(r, "respond")
  /\ UNCHANGED <<now, issued, params, token, arrival>>

InvalidateCode(r) ==
  /\ At(r, "invalidate")
  /\ \/ RowOf(r) /\ DeleteCode(r, params[r].code) /\ Goto(r, "respond")
     \/ ~RowOf(r) /\ Goto(r, "invalid_grant") /\ UNCHANGED <<table, redeemer>>
  /\ UNCHANGED <<now, issued, params, token, arrival>>

\* TokenView looks the new access token up before it answers 200.
Respond(r) ==
  /\ At(r, "respond")
  /\ Goto(r, IF token[r] = "live" THEN "ok" ELSE "error")
  /\ UNCHANGED <<now, table, issued, params, token, redeemer, arrival>>

\* The worker process is killed; what it committed stays.
Crash(r) ==
  /\ phase[r] \in InFlight
  /\ Goto(r, "lost")
  /\ UNCHANGED <<now, table, issued, params, token, redeemer, arrival>>

Tick ==
  /\ now < MaxTime
  /\ now' = now + 1
  /\ UNCHANGED <<table, issued, phase, params, token, redeemer, arrival>>

-----------------------------------------------------------------------------
Serve(r) ==
  \/ ValidateCode(r) \/ CheckChallenge(r) \/ ConfirmRedirect(r)
  \/ SaveToken(r) \/ InvalidateCode(r) \/ Respond(r)

Next ==
  \/ \E c \in Code : CreateGrant(c) \/ ClearGrant(c)
  \/ \E r \in Request : Arrive(r) \/ Serve(r) \/ Crash(r) \/ DeleteToken(r)
  \/ Tick

Spec == Init /\ [][Next]_vars

\* A worker process that is not killed goes on with its request.
FairSpec == Spec /\ \A r \in Request : WF_vars(Serve(r))
-----------------------------------------------------------------------------
(* Properties. *)

\* However many workers redeem a code at the same time, although each of them
\* commits its tokens before it deletes the code, at most one request per code is
\* answered with tokens (invalidate_authorization_code checks the deleted count).
AtMostOneDelivery ==
  \A r, s \in Request :
    phase[r] = "ok" /\ phase[s] = "ok" /\ params[r].code = params[s].code => r = s

\* Tokens exist only for requests that presented the client, the redirect URI and
\* the PKCE verifier the code was issued for, before the code had expired: the
\* checks are made in separate queries while the row may be deleted under them.
EntitledToken ==
  \A r \in Request : token[r] # "none" =>
    LET g == issued[params[r].code] IN
      /\ g.client = params[r].client
      /\ g.uri = params[r].uri
      /\ g.challenge \in {NoVerifier, params[r].verifier}
      /\ arrival[r].at < g.expires

\* A code is never used up for nothing: when a request has deleted it, that
\* request's tokens are already committed, wherever a worker is killed.
NothingSpentForNothing ==
  \A c \in Code, r \in Request : redeemer[c] = r => params[r].code = c /\ token[r] # "none"

\* A request that arrives after the code was redeemed leaves no token behind,
\* not even an undelivered one.
LateGetsNothing ==
  \A r \in Request : arrival[r].late => token[r] = "none"

CodeGone(r) == phase[r] # "idle" /\ params[r].code \notin table

\* Once a request has saved tokens for a code, the code stops being redeemable,
\* unless that worker is killed before it can delete it.
CodeSettles ==
  \A r \in Request :
    phase[r] = "invalidate" ~> (phase[r] = "lost" \/ CodeGone(r))

\* The exchange implements the one-shot code.
OneShot == INSTANCE OneShotCode WITH
  fresh <- {c \in Code : issued[c] = NotIssued},
  open <- table,
  winner <- redeemer,
  delivered <- {r \in Request : phase[r] = "ok"}

\* Codes are handed out once, redeemed once, and only the redeemer is answered.
ImplementsOneShot == OneShot!Spec
=============================================================================
