----------------------------- MODULE SessionEnd -----------------------------
(***************************************************************************)
(* The end of a user's tokens: RP-initiated logout, which lists the        *)
(* tokens of a user and deletes them one statement at a time, the          *)
(* clear_expired job, which deletes outdated rows in batches, and what     *)
(* else removes tokens while both are running.                             *)
(*                                                                         *)
(* An Issue is one token response: an access token row, perhaps a refresh  *)
(* token bound to it (RefreshToken.access_token, one-to-one, SET_NULL) and *)
(* perhaps an ID token it is bound to (AccessToken.id_token, one-to-one,   *)
(* CASCADE).  These references never leave the issue, so one index serves  *)
(* all three tables; a refresh token's reference is set while its access   *)
(* token is there.  A Logout is one request of the logout endpoint.        *)
(***************************************************************************)
EXTENDS Integers, FiniteSets, FiniteSetsExt

CONSTANTS
  Issue,          \* token responses
  User,           \* resource owners
  App,            \* applications
  Deletable,      \* those with a type in token_deletion_client_types and _grant_types
  Uri,            \* post-logout redirect URIs with a scheme
  Registered,     \* the pairs of an application and a URI it registered
  Logout,         \* requests of the logout endpoint
  Session,        \* browser sessions
  Anonymous,      \* nobody is signed in, or a token that belongs to no user
  None,           \* no hint, no client_id, no redirect URI, no current row
  AccessLife,     \* ACCESS_TOKEN_EXPIRE_SECONDS
  IdLife,         \* ID_TOKEN_EXPIRE_SECONDS
  RefreshExpire,  \* REFRESH_TOKEN_EXPIRE_SECONDS, 0 when not set
  BatchSize,      \* CLEAR_EXPIRED_TOKENS_BATCH_SIZE
  AcceptExpired,  \* OIDC_RP_INITIATED_LOGOUT_ACCEPT_EXPIRED_TOKENS
  AlwaysPrompt,   \* OIDC_RP_INITIATED_LOGOUT_ALWAYS_PROMPT
  DeleteTokens,   \* OIDC_RP_INITIATED_LOGOUT_DELETE_TOKENS
  Sweeping,       \* whether cleartokens is run at all
  Clock           \* bound: the instants the clock shows, the first of them 0

ASSUME NumbersAreNat == {AccessLife, IdLife, RefreshExpire} \cup Clock \subseteq Nat
ASSUME BatchIsPositive == BatchSize \in Nat \ {0}
ASSUME SwitchesAreBoolean == {AcceptExpired, AlwaysPrompt, DeleteTokens, Sweeping} \subseteq BOOLEAN
ASSUME DeletableApps == Deletable \subseteq App
ASSUME NoneIsNone == None \notin Issue \cup User \cup App \cup Uri
ASSUME AnonymousIsNoUser == Anonymous \notin User

VARIABLES
  now,      \* timezone.now()
  info,     \* whose the tokens of an issue are, for which application, since when
  access,   \* the AccessToken row of an issue
  refresh,  \* its RefreshToken row
  revoked,  \* when the refresh token was revoked
  idtoken,  \* its IDToken row
  session,  \* who is signed in in each browser session
  logout,   \* each logout request, with the rows it listed
  sweep     \* the clear_expired job

vars == <<now, info, access, refresh, revoked, idtoken, session, logout, sweep>>
tokens == <<info, access, refresh, revoked, idtoken>>

Info == [owner : User, app : App, born : Nat]
ASSUME NoneIsNoInfo == None \notin Info
Doing == {"list_refresh", "list_access", "loop", "drop_id", "drop_access", "revoke", "sign_out"}
Answer == {"prompt", "denied", "oidc_error", "server_error", "logged_out"}
Stage == {"revoked", "expired", "access", "id"}

TypeOK ==
  /\ now \in Nat
  /\ info \in [Issue -> Info \cup {None}]
  /\ access \in [Issue -> {"none", "live", "gone"}]
  /\ refresh \in [Issue -> {"none", "live", "revoked", "gone"}]
  /\ revoked \in [Issue -> Nat]
  /\ idtoken \in [Issue -> {"none", "live", "gone"}]
  /\ session \in [Session -> User \cup {Anonymous}]
  /\ logout \in [Logout ->
       [phase : {"idle"} \cup Doing \cup Answer, session : Session \cup {None},
        asked : BOOLEAN, presented : User \cup {Anonymous, None}, browser : User \cup {Anonymous},
        refresh : SUBSET Issue, access : SUBSET Issue, row : Issue \cup {None},
        begun : SUBSET Issue, listed : SUBSET Issue, hit : SUBSET Issue]]
  /\ sweep \in [stage : {"idle", "done"} \cup Stage, start : Nat, batch : SUBSET Issue,
                dead : [access : SUBSET Issue, refresh : SUBSET Issue, id : SUBSET Issue]]

NewLogout == [phase |-> "idle", session |-> None, asked |-> FALSE, presented |-> None,
              browser |-> Anonymous, refresh |-> {}, access |-> {}, row |-> None,
              begun |-> {}, listed |-> {}, hit |-> {}]

Init ==
  /\ now = 0
  /\ info = [i \in Issue |-> None]
  /\ access = [i \in Issue |-> "none"]
  /\ refresh = [i \in Issue |-> "none"]
  /\ revoked = [i \in Issue |-> 0]
  /\ idtoken = [i \in Issue |-> "none"]
  /\ session \in [Session -> User \cup {Anonymous}]
  /\ logout = [l \in Logout |-> NewLogout]
  /\ sweep = [stage |-> "idle", start |-> 0, batch |-> {},
              dead |-> [access |-> {}, refresh |-> {}, id |-> {}]]

-----------------------------------------------------------------------------
(* The rows. *)

AccessExpires(i) == info[i].born + AccessLife
IdExpires(i) == info[i].born + IdLife

\* RefreshToken.access_token is not null.
Bound(i) == refresh[i] = "live" /\ access[i] = "live"

\* The rows of a token response, with or without refresh and ID token.
StoreTokens(i, u, a) ==
  /\ info[i] = None
  /\ info' = [info EXCEPT ![i] = [owner |-> u, app |-> a, born |-> now]]
  /\ \E rt, it \in {"none", "live"} :
       /\ refresh' = [refresh EXCEPT ![i] = rt]
       /\ idtoken' = [idtoken EXCEPT ![i] = it]
  /\ access' = [access EXCEPT ![i] = "live"]
  /\ UNCHANGED revoked

\* A user obtains tokens; the tokens of a client alone have no user and are no logout's.
IssueTokens(i) ==
  /\ \E u \in User, a \in App : StoreTokens(i, u, a)
  /\ UNCHANGED <<now, session, logout, sweep>>

MarkAccess(i) ==                                      \* mutant: marked, not deleted
  access' = [access EXCEPT ![i] = IF @ = "live" THEN "revoked" ELSE @]
\* AccessToken.delete: the refresh token keeps its row and loses its reference.
DropAccess(i) == access' = [access EXCEPT ![i] = IF @ = "live" THEN "gone" ELSE @]

\* IDToken.delete takes the access token of the ID token with it.
DropIdToken(i) ==
  /\ idtoken' = [idtoken EXCEPT ![i] = IF @ = "live" THEN "gone" ELSE @]
  /\ IF idtoken[i] = "live" THEN DropAccess(i) ELSE UNCHANGED access

\* RefreshToken.revoke, under its lock: nothing unless the row is there and
\* not revoked; its access token goes first.
RevokeRow(i) ==
  IF refresh[i] = "live"
  THEN /\ refresh' = [refresh EXCEPT ![i] = "revoked"]
       /\ revoked' = [revoked EXCEPT ![i] = now]
       /\ DropAccess(i)
  ELSE UNCHANGED <<refresh, revoked, access>>

\* The token page, and the revocation endpoint with an access token.
DeleteAccess(i) ==
  /\ access[i] = "live"
  /\ DropAccess(i)
  /\ UNCHANGED <<now, info, refresh, revoked, idtoken, session, logout, sweep>>

\* The revocation endpoint with a refresh token.
RevokeToken(i) ==
  /\ refresh[i] = "live"
  /\ RevokeRow(i)
  /\ UNCHANGED <<now, info, idtoken, session, logout, sweep>>

\* A rotation, in one step: RefreshFlow has its details.
Rotate(i, j) ==
  /\ refresh[i] = "live"
  /\ info[j] = None
  /\ refresh' = [refresh EXCEPT ![i] = "revoked", ![j] = "live"]
  /\ revoked' = [revoked EXCEPT ![i] = now]
  /\ access' = [access EXCEPT ![i] = IF @ = "live" THEN "gone" ELSE @, ![j] = "live"]
  /\ idtoken' = [idtoken EXCEPT ![j] = IF idtoken[i] = "none" THEN "none" ELSE "live"]
  /\ info' = [info EXCEPT ![j] = [info[i] EXCEPT !.born = now]]
  /\ UNCHANGED <<now, session, logout, sweep>>

-----------------------------------------------------------------------------
(* RP-initiated logout: the request. *)

\* _load_id_token: the row is found by its jti, expired or not as configured.
Loads(hint) == idtoken[hint] = "live" /\ (AcceptExpired \/ now < IdExpires(hint))

\* validate_logout_request_user
HintRefused(hint, client) ==
  hint # None /\ (~Loads(hint) \/ client \notin {None, info[hint].app})

\* get_request_application
RequestApplication(hint, client) ==
  IF client # None THEN client ELSE IF hint # None THEN info[hint].app ELSE None

\* validate_post_logout_redirect_uri
UriRefused(uri, app) == uri # None /\ <<app, uri>> \notin Registered

\* validate_logout_request: the user of the ID token, if there is one.
TokenUser(hint) == IF hint = None THEN None ELSE info[hint].owner

MustPromptAnyUser(user, tokenUser) ==                 \* mutant: whoever the token belongs to
  user # Anonymous /\ (AlwaysPrompt \/ tokenUser = None)
MustPrompt(user, tokenUser) ==
  user # Anonymous /\ (AlwaysPrompt \/ tokenUser = None \/ tokenUser # user)

UserSignedIn(user, tokenUser) ==                      \* mutant: request.user or token_user
  IF user # Anonymous THEN user ELSE tokenUser
\* user = token_user or self.request.user
UserToLogOut(user, tokenUser) == IF tokenUser # None THEN tokenUser ELSE user

\* Whether do_logout deletes tokens, and whose.
Subject(l) == UserToLogOut(logout[l].browser, logout[l].presented)
Deletes(l) == DeleteTokens /\ Subject(l) # Anonymous

\* get or form_valid, up to the call of do_logout.  The user agreed only if
\* the form came back with "allow".
RequestLogout(l) ==
  /\ logout[l].phase = "idle"
  /\ \E s \in Session, client \in App \cup {None}, uri \in Uri \cup {None}, posted, allow \in BOOLEAN,
        hint \in {i \in Issue : idtoken[i] # "none"} \cup {None} :
       LET user == session[s]
           refused == HintRefused(hint, client) \/ UriRefused(uri, RequestApplication(hint, client))
           prompt == MustPrompt(user, TokenUser(hint)) /\ ~(posted /\ allow)
           phase == CASE refused -> "oidc_error"
                      [] ~refused /\ prompt /\ ~posted -> "prompt"
                      [] ~refused /\ prompt /\ posted -> "denied"
                      [] OTHER -> "list_refresh"
       IN logout' = [logout EXCEPT ![l] =
            IF phase # "list_refresh" THEN [NewLogout EXCEPT !.phase = phase]
            ELSE [NewLogout EXCEPT !.phase = phase, !.session = s, !.browser = user,
                    !.asked = posted /\ allow, !.presented = TokenUser(hint)]]
  /\ UNCHANGED <<now, session, sweep, tokens>>

-----------------------------------------------------------------------------
(* RP-initiated logout: do_logout, one statement after the other. *)

\* access_tokens_to_delete, a query: it is evaluated again for each use.
ToDelete(l) == {i \in Issue : access[i] = "live" /\ info[i].owner = Subject(l)
                              /\ info[i].app \in Deletable}

ListRefreshLazily(l) ==                               \* mutant: the list is left unevaluated
  /\ logout[l].phase = "list_refresh"
  /\ logout' = [logout EXCEPT ![l].phase = IF Deletes(l) THEN "list_access" ELSE "sign_out",
                              ![l].begun = IF Deletes(l) THEN ToDelete(l) ELSE {}]
  /\ UNCHANGED <<now, session, sweep, tokens>>
\* refresh_tokens_to_delete = list(...)
ListRefresh(l) ==
  /\ logout[l].phase = "list_refresh"
  /\ IF Deletes(l)
     THEN logout' = [logout EXCEPT ![l].phase = "list_access", ![l].begun = ToDelete(l),
                                   ![l].refresh = {i \in ToDelete(l) : Bound(i)}]
     ELSE logout' = [logout EXCEPT ![l].phase = "sign_out"]
  /\ UNCHANGED <<now, session, sweep, tokens>>

\* for token in access_tokens_to_delete
ListAccess(l) ==
  /\ logout[l].phase = "list_access"
  /\ logout' = [logout EXCEPT ![l].phase = "loop", ![l].access = ToDelete(l), ![l].listed = ToDelete(l)]
  /\ UNCHANGED <<now, session, sweep, tokens>>

\* The next token; its ID token is looked up and may be gone: DoesNotExist.
NextToken(l) ==
  /\ logout[l].phase = "loop"
  /\ \/ \E i \in logout[l].access :
          logout' = [logout EXCEPT ![l].row = i, ![l].access = @ \ {i},
            ![l].phase = CASE idtoken[i] = "none" -> "drop_access"
                           [] idtoken[i] = "live" -> "drop_id"
                           [] idtoken[i] = "gone" -> "server_error"]
     \/ logout[l].access = {} /\ logout' = [logout EXCEPT ![l].phase = "revoke", ![l].row = None]
  /\ UNCHANGED <<now, session, sweep, tokens>>

\* token.id_token.revoke()
RevokeIdToken(l) ==
  /\ logout[l].phase = "drop_id"
  /\ DropIdToken(logout[l].row)
  /\ logout' = [logout EXCEPT ![l].phase = "drop_access", ![l].hit = @ \cup {logout[l].row}]
  /\ UNCHANGED <<now, info, refresh, revoked, session, sweep>>

\* token.revoke()
RevokeAccess(l) ==
  /\ logout[l].phase = "drop_access"
  /\ DropAccess(logout[l].row)
  /\ logout' = [logout EXCEPT ![l].phase = "loop", ![l].hit = @ \cup {logout[l].row}]
  /\ UNCHANGED <<now, info, refresh, revoked, idtoken, session, sweep>>

\* for refresh_token in refresh_tokens_to_delete: refresh_token.revoke()
RevokeRefresh(l) ==
  /\ logout[l].phase = "revoke"
  /\ \/ \E i \in logout[l].refresh :
          /\ RevokeRow(i)
          /\ logout' = [logout EXCEPT ![l].refresh = @ \ {i}, ![l].hit = @ \cup {i}]
     \/ /\ logout[l].refresh = {}
        /\ logout' = [logout EXCEPT ![l].phase = "sign_out"]
        /\ UNCHANGED <<access, refresh, revoked>>
  /\ UNCHANGED <<now, info, idtoken, session, sweep>>

\* logout(self.request), and the redirect.
SignOut(l) ==
  /\ logout[l].phase = "sign_out"
  /\ session' = [session EXCEPT ![logout[l].session] = Anonymous]
  /\ logout' = [logout EXCEPT ![l].phase = "logged_out"]
  /\ UNCHANGED <<now, sweep, tokens>>

-----------------------------------------------------------------------------
(* clear_expired. *)

RefreshExpireAt == sweep.start - RefreshExpire

\* The query of each stage, evaluated anew for each batch; "now" is the start.
IsRevoked(i) == refresh[i] = "revoked" /\ revoked[i] < RefreshExpireAt
IsOutdated(i) == Bound(i) /\ AccessExpires(i) < RefreshExpireAt
ExpiredAccess(i) == access[i] = "live" /\ AccessExpires(i) < sweep.start  \* mutant: no look at the refresh token
AccessIsDead(i) == access[i] = "live" /\ ~Bound(i) /\ AccessExpires(i) < sweep.start
IdIsDead(i) == idtoken[i] = "live" /\ access[i] # "live" /\ IdExpires(i) < sweep.start

Matching(stage) == CASE stage = "revoked" -> {i \in Issue : IsRevoked(i)}
  [] stage = "expired" -> {i \in Issue : IsOutdated(i)}
  [] stage = "access" -> {i \in Issue : AccessIsDead(i)}
  [] stage = "id" -> {i \in Issue : IdIsDead(i)}

AccessEarlier(stage) == CASE stage = "revoked" -> "access" [] stage = "access" -> "expired"  \* mutant: swapped order
  [] stage = "expired" -> "id" [] stage = "id" -> "done"
StageAfter(stage) == CASE stage = "revoked" -> "expired" [] stage = "expired" -> "access"
  [] stage = "access" -> "id" [] stage = "id" -> "done"

\* What is dead when the job starts: an access token with its refresh token,
\* an ID token with its access token.
Doomed(start) ==
  LET old == start - RefreshExpire
      oldRefresh == {i \in Issue : RefreshExpire # 0 /\ refresh[i] = "revoked" /\ revoked[i] < old}
      oldAccess == {i \in Issue : /\ access[i] = "live" /\ AccessExpires(i) < start
                                  /\ Bound(i) => RefreshExpire # 0 /\ AccessExpires(i) < old}
  IN [refresh |-> oldRefresh, access |-> oldAccess,
      id |-> {i \in Issue : /\ idtoken[i] = "live" /\ IdExpires(i) < start
                            /\ access[i] = "live" => i \in oldAccess}]

StartSweep ==
  /\ Sweeping
  /\ sweep.stage = "idle"
  /\ sweep' = [stage |-> IF RefreshExpire = 0 THEN "access" ELSE "revoked",
               start |-> now, batch |-> {}, dead |-> Doomed(now)]
  /\ UNCHANGED <<now, session, logout, tokens>>

EmptyBatches(rows) == {{}}                            \* mutant: the slice is empty
\* queryset.values_list("id")[:CLEAR_EXPIRED_TOKENS_BATCH_SIZE]
Batches(rows) ==
  IF Cardinality(rows) <= BatchSize THEN {rows} ELSE kSubset(BatchSize, rows)

\* batch_delete: while the count is not zero, the ids of a batch are read ...
ReadBatch ==
  /\ sweep.stage \in Stage
  /\ sweep.batch = {}
  /\ IF Matching(sweep.stage) = {}
     THEN sweep' = [sweep EXCEPT !.stage = StageAfter(@)]
     ELSE \E batch \in Batches(Matching(sweep.stage)) : sweep' = [sweep EXCEPT !.batch = batch]
  /\ UNCHANGED <<now, session, logout, tokens>>

\* ... and the rows with these ids deleted, whatever they are by now.
DeleteBatch ==
  /\ sweep.batch # {}
  /\ sweep' = [sweep EXCEPT !.batch = {}]
  /\ LET Goes(row, i) == IF i \in sweep.batch /\ row # "none" THEN "gone" ELSE row
         OfStage(stages, table) ==
           IF sweep.stage \in stages THEN [i \in Issue |-> Goes(table[i], i)] ELSE table
     IN /\ refresh' = OfStage({"revoked", "expired"}, refresh)
        /\ access' = OfStage({"access"}, access)
        /\ idtoken' = OfStage({"id"}, idtoken)
  /\ UNCHANGED <<now, info, revoked, session, logout>>

-----------------------------------------------------------------------------
Tick ==
  /\ \E t \in Clock : t > now /\ now' = t
  /\ UNCHANGED <<session, logout, sweep, tokens>>

DoLogout(l) == ListRefresh(l) \/ ListAccess(l) \/ NextToken(l) \/ RevokeIdToken(l)
               \/ RevokeAccess(l) \/ RevokeRefresh(l) \/ SignOut(l)
Sweep == StartSweep \/ ReadBatch \/ DeleteBatch

Next ==
  \/ \E i \in Issue : IssueTokens(i) \/ DeleteAccess(i) \/ RevokeToken(i)
  \/ \E i, j \in Issue : Rotate(i, j)
  \/ \E l \in Logout : RequestLogout(l) \/ DoLogout(l)
  \/ Sweep
  \/ Tick

Spec == Init /\ [][Next]_vars

\* The job, once it runs, takes its next step.
FairSpec == Spec /\ WF_vars(ReadBatch \/ DeleteBatch)

-----------------------------------------------------------------------------
(* Properties. *)

Ended(l) == logout[l].phase = "logged_out"

\* After a logout, nothing is left of what it could see when it listed the
\* refresh tokens: each access token is gone, the refresh token bound to it is
\* revoked or gone (how long a revoked one is still admitted is the matter of the
\* grace period, in RefreshFlow), and the ID token of each access token it listed
\* is gone.
LogoutIsComplete == \A l \in Logout : Ended(l) =>
  /\ \A i \in logout[l].begun : access[i] = "gone" /\ refresh[i] # "live"
  /\ \A i \in logout[l].listed : idtoken[i] # "live"

\* A logout touches only tokens of the user of the ID token it was given, or
\* without one those of the signed-in user.
OthersKeepTheirTokens == \A l \in Logout : \A i \in logout[l].hit :
  info[i].owner = IF logout[l].presented = None THEN logout[l].browser ELSE logout[l].presented

\* A signed-in user is logged out, and tokens deleted, only if the user agreed
\* in the form or the request carried an ID token of that same user.
LogoutIsConsented == \A l \in Logout :
  logout[l].phase \in Doing \cup {"logged_out", "server_error"} /\ logout[l].browser # Anonymous
    => logout[l].asked \/ logout[l].presented = logout[l].browser

\* The job leaves nothing of what was outdated when it started, although an
\* access token is outdated only without its refresh token, and an ID token
\* only without its access token.
SweepIsComplete == sweep.stage = "done" =>
  /\ \A i \in sweep.dead.refresh : refresh[i] = "gone"
  /\ \A i \in sweep.dead.access : access[i] # "live"
  /\ \A i \in sweep.dead.id : idtoken[i] # "live"

\* The job never takes the access token of a refresh token that can still be
\* used, nor a token of any kind that has not expired.
SweepSparesTheLiving == [][\A i \in Issue : sweep.stage \in Stage /\ sweep' # sweep =>
  /\ Bound(i) /\ access'[i] = "gone" => refresh'[i] # "live"
  /\ access[i] = "live" /\ access'[i] = "gone" => AccessExpires(i) < now
  /\ idtoken[i] = "live" /\ idtoken'[i] = "gone" => IdExpires(i) < now]_vars

\* The job's loop over batches ends, although tokens are issued and expire meanwhile.
SweepEnds == sweep.stage \in Stage ~> sweep.stage = "done"

=============================================================================
