# django-oauth-toolkit in TLA+

A verification project for the authorization server in `src/oauth2_provider`: TLA+
models of its flows, TLC configurations that check them on small instances, and
proofs checked by TLAPS. `PROJECT.json` lists the components, runs, mutants, the map
from definitions to source lines, the hazards and the theorems.

## 1. The system

The package is a Django application. Its long-lived state is a handful of database
tables; its code runs in web workers, several processes that share nothing but the
database, plus the `cleartokens` command. The protocol is driven by the oauthlib
library: a view calls `OAuthLibCore`, which calls an oauthlib grant, which calls the
methods of `OAuth2Validator` one after the other. Each method is one or more database
statements; only `save_bearer_token` and `revoke()` open transactions. Between two
calls anything may happen, and that is what the models are about.

| Component | State | Operations | Hard behaviour | What makes it correct | Modelled in |
|---|---|---|---|---|---|
| Authorization endpoint (`views/base.py`, `oauth2_backends.py`) | Application, AccessToken and Grant rows | GET, form, POST, silent approval | the application is edited, tokens expire between form and answer | codes go where the application registered and carry what the user agreed to | `Authorization`, `RedirectURI` |
| Code exchange (`oauth2_validators.py`, `views/base.py`) | Grant, AccessToken, RefreshToken | validate, PKCE, redirect URI, save, invalidate | racing redemptions, kills between commit and delete | one delivery per code, nothing without entitlement | `CodeExchange`, `OneShotCode` |
| Refresh flow (`oauth2_validators.py`, `models.py`) | RefreshToken, AccessToken, row locks | validate, scopes, rotate, repeat, revoke the family | grace-period retries, concurrent rotation, deletions by others | one usable successor, no wider scope, ended sessions stay ended, a retry is answered like its first try | `RefreshFlow`, `TokenChain` |
| Revocation endpoint | the same tables | revoke one token | races with refreshes | revocation is final | actions of three modules |
| Clean-up (`clear_expired`) | all token tables | batches of deletes | runs beside requests; long loop; one stage needs the one before | removes what is dead, only that, and ends | `SessionEnd` |
| Device grant (`views/device.py`, `views/base.py`) | DeviceGrant rows | authorize, user code, confirm, poll | unlocked read and save, poll against decision, expiry | one decision, no token without it | `DeviceFlow` |
| Logout (`views/oidc.py`) | sessions, all tokens of a user | validate, confirm, delete | statement by statement among other requests | complete, of one user, agreed to | `SessionEnd` |
| Bearer validation, introspection (`oauth2_validators.py`, `views/introspect.py`) | AccessToken copies | look up, ask the server, cache | stale copies, concurrent updates | no copy outlives its original or its caching time | `ResourceAccess` |
| Protected resources (decorators, mixins, REST framework) | one shared list of scopes | check scopes per method | state shared by requests | a request needs the scopes of its method | `ResourceAccess` |
| Client authentication | Application rows | basic, body, client id | fall-through between methods, blank secrets | a confidential client sends the secret stored for it, which may be blank | `ClientAuth` |
| Applications, redirect URIs | Application rows | validate, match | loopback, wildcard, query strings | no match outside the registered set | `RedirectURI` |
| OpenID Connect | ID tokens, keys | sign, claims, discovery | none shared | data only | the row, in `SessionEnd` |
| Settings, scopes, admin, pages, commands, adapter | configuration | read, CRUD | none shared | | not modelled, or as constants |

Interaction: the code exchange, the refresh flow, revocation, logout, the token page
and clean-up meet in the AccessToken and RefreshToken tables through foreign keys
with `SET_NULL` and `CASCADE` and through row locks; the authorization endpoint hands
a Grant row to the exchange; the device views hand a status to the polling client.

## 2. Modules

| Module | What it is |
|---|---|
| `OneShotCode` | abstract specification: a code is handed out once, redeemed by at most one request, and only the redeemer is answered |
| `CodeExchange` | the authorization-code grant at the token endpoint, step by step |
| `TokenChain` | abstract specification: the pairs of a session form a chain that only presented tokens extend, and every answer is a live successor of the token presented |
| `RefreshFlow` | the refresh-token grant, with revocation, deletion and clean-up around it |
| `DeviceFlow` | the device grant: the device's requests, the user's browser tabs, the polls |
| `SessionEnd` | RP-initiated logout and `clear_expired`, with what else removes tokens |
| `ResourceAccess` | protected views of a resource server that introspects and caches tokens |
| `Authorization` | the authorization endpoint, with owners who edit and delete applications |
| `ClientAuth` | operators: which credentials authenticate a client (used by `DeviceFlow` and `ResourceAccess`) |
| `RedirectURI` | operators: `Application.clean` and `redirect_to_uri_allowed` (used by `Authorization`) |
| `MC...` | the instances; every `.cfg` says what it varies |
| `CodeExchangeProofs` | inductive invariant and theorems of `CodeExchange`, and the refinement |
| `RefreshFlowProofs` | `RefreshFlow`: the tables as they stand |
| `RefreshHistoryProofs` | `RefreshFlow`: what pairs were when they were inserted |
| `RefreshAnswerProofs` | `RefreshFlow`: the token strings, hence the answers and what kept sessions hold |
| `DeviceFlowProofs`, `SessionEndProofs`, `ResourceAccessProofs`, `AuthorizationProofs` | inductive invariant and theorems of each of these modules |

### CodeExchange

One action per validator call, in oauthlib's order: `Arrive`, `ValidateCode`
(`validate_code`), `CheckChallenge` (`get_code_challenge` and oauthlib's comparison),
`ConfirmRedirect`, `SaveToken` (`save_bearer_token`), `InvalidateCode`, `Respond`
(`TokenView` looks the token up). Around a request: `CreateGrant`, `ClearGrant`
(`clear_expired`), `DeleteToken` (any deletion of an access token), `Crash`, `Tick`.
`table` is the set of codes with a Grant row; `issued` keeps what the row said, which
stands for the columns and survives as a history; `token` is the access-token row of a
request; `redeemer` and `arrival` are histories that the properties read and no guard
does. The client is authenticated and allowed the grant type, and the tokens of one
request are one row, because nothing in this flow treats them apart.

### RefreshFlow

`rt` and `at` are the two tables, keyed by the order of insertion: the pair of rows one
transaction inserts has one number, which is also their primary key's order. `lock` is
the row lock that `select_for_update` takes. A request goes through `Validate`
(`validate_refresh_token`), on a reuse through `ListFamily`, `RevokeMember` once per
row, and `EndReuse`; otherwise `CheckScope` (`get_original_scopes` and oauthlib's
subset test) and `save_bearer_token`, which is `OverwriteAccess` when the token is
kept, or `LockToken` followed by `Rotated` or `Repeated`, the two outcomes of the look
for an access token made from this refresh token. The transaction is two steps because
what it reads under the lock is used after other transactions have run. `revoke()` is
one step, since it locks its own row. `Rollback` is the transaction when an exception
leaves it. `StartSession` is `_save_bearer_token` for every other grant. `RevokeToken`,
`DeleteAccess`, `ListOutdated` and `DeleteSwept` are the revocation endpoint, the
deletion of an access token by whoever does it, and `clear_expired`. `born` is a
history of what every pair was at its insertion, and so is `upto`, the last pair there was when
a reuse listed the family.

With rotation `RefreshFlow` is mapped to `TokenChain` by what was inserted (`issued`,
`parent`), the stored access tokens (`alive`), the token a request presented and the pair it
was answered with; nothing is left there of locks, grace periods, families and dates of revocation.

Assumptions on the database, stated because the code relies on them: READ COMMITTED,
row locks held to the end of a transaction, and a write of a foreign key waiting for
the lock of the row it writes. `Deletions`, `Revocations`, `Foreign`, `Rotate`,
`ReuseProtection` and the three durations are constants, so that a run varies one
thing at a time and the proofs hold for all of them.

### DeviceFlow

`row` is the DeviceGrant table keyed by device code; user codes may collide, because only
`device_code` is unique. A `Tab` is one POST of a browser, a `Poll` one POST of the token
endpoint, and neither locks the row, so every read and every save is an action: a tab
looks the user code up (`EnterUserCode`), saves the expiry or the user in a later step
(`SaveExpired`, `SaveUser`), reads the pending row of the confirmation form (`OpenDecision`)
and saves the decision after that (`SaveDecision`); a poll reads the status (`PollStatus`),
authenticates its client (`PollClient`), reads the row again (`PreToken`) and saves the token
(`SaveToken`). `Authorize` is the device's own request. Saves write one column, as `update_fields` or
an instance whose other columns did not change do; the mutants `SaveWholeRow` and
`AnyWithCode` are what a full save or a lookup without the status would do. `approved` and
`entered` are histories for the properties. The code does not compare the polling client
with the one the row was made for, and the model does not either; a poll by any client
that authenticates as `ClientAuth` says is served. `BlankSecret` are the applications whose
`client_secret` is blank.

### SessionEnd

An `Issue` is one token response: an access token, perhaps a refresh token bound to it,
perhaps an ID token; the foreign keys never leave the issue, so one index serves the three
tables. A logout is `RequestLogout` (validation of hint, client and URI,
`must_prompt`, the form and its answer, which read no token row twice), then the statements
of `do_logout` one by one: list the access tokens' refresh tokens, list the access tokens,
for each the ID token, the access token and the revocation of its refresh token, and sign
out. `clear_expired` goes through four stages in the code's order (revoked refresh
tokens, refresh tokens with an expired access token, access tokens, ID tokens); each
`ReadBatch` evaluates the query and takes some `BatchSize` rows, each `DeleteBatch` deletes
them by primary key in a later step. Around both, tokens are issued, rotated, revoked and
deleted. Grants are cleared in `CodeExchange`. `Registered` stands for
`post_logout_redirect_uris`.

### ResourceAccess

Two servers that both run this code. `remote` are the tokens with a row on the issuing
server, `issued` what it said; `copy` is the AccessToken table of the resource server;
`scopes` is the one list that all requests of an `rw_protected_resource` view share, because
the decorator appends to the list it closed over. A request is a look-up with the first
validity check, when that does not suffice the question, the issuing server's answer (its
own bearer or secret is checked there), the store of a copy with a cut expiry, the second
validity check, and on a refusal another evaluation that looks for the reason, each a step.
The `exp` of an answer is taken to be in UTC: the setting
`AUTHENTICATION_SERVER_EXP_TIME_ZONE`, for servers that send a local time, is not modelled. View kinds are the decorators,
the mixins, the REST framework's permission classes with and without alternates, and a plain
page behind the middleware. Revocation, expiry, a change of the resource server's
secret and the deletion of copies happen in between.

### Authorization

A journey is the GET of one browser (`VisitAnonymously` if nobody is signed in) and the POST of
its form. From `Get` to the answer: the application is loaded by client id, the redirect URI is matched,
the grant type and PKCE are checked, the application is loaded again, and past tokens are
looked for (`LoadApplication`, `CheckTokens`); `Post` loads the application again, `Create` validates once more and `Store` inserts the
code. `Exchange` makes a token of a code, and is the only action that makes one; `base.py:207-213` also
reads tokens of other grants for the same user and application, and these are left out. `UpdateApplication` (restricted to what
`Application.clean` accepts) and `DeleteApplication` are the owner's, and `Revoke` deletes a token. `granted` (what users
agreed to), and per journey `fresh`, `seen` (the registrations since the browser's last
request and since the start) and `held` (whether a covering token was live) are
histories. Modelling decisions: a deleted client id is not registered again;
`response_type=code` only; a visitor who is not logged in is
sent to log in (`to_login`) or, with `prompt=none` and a `redirect_uri`, redirected there with
`login_required`, without a look at the application or at the URI but for its scheme
(`NoPermission`); the fragment check is oauthlib's; the form
posts what the GET rendered, to the URL of the GET; the PKCE challenge is kept from the GET.

### ClientAuth and RedirectURI

Operators without state, translated from `authenticate_client`,
`client_authentication_required` and `authenticate_client_id`, and from
`Application.clean`, `AllowedURIValidator` and `redirect_to_uri_allowed`. A secret that is
missing from the body is the blank one, which is right for an application whose stored secret
is blank (`oauth2_validators.py:195`, `tests/test_oauth2_validators.py:103-104`). A URI is a record of
scheme, host, port, path, set of query parameters, whether it has a fragment, and `rest`, the
parts that `redirect_to_uri_allowed` compares with nothing (user and password, `;` parameters,
query parameters without a value); that a
wildcard covers a host is the constant `Under`; a wildcard host ends with what follows its own
`*`, so it is under itself (`WildcardsAreUnderThemselves`). `Denoted` in `Authorization` says
which URIs a registered one stands for, and `RedirectsAreRegistered` relies on it; anything
may be in their `rest`.

Definitions whose comment begins with "mutant" are wrong on purpose: each differs from
the definition below it as a plausible bug would, and no definition uses it. A run with
the mutant in its place must violate the property that `PROJECT.json` names.

## 3. What is checked

| Run | Instance | Shows | States |
|---|---|---|---|
| `code_exchange` | 2 requests, 1 code, 2 clients, 2 URIs, PKCE for one client, lifetime 1, clock to 2 | `TypeOK`, `AtMostOneDelivery`, `EntitledToken`, `NothingSpentForNothing`, `LateGetsNothing`, `CodeSettles`, and `ImplementsOneShot` | 465,881 |
| `refresh_rotation` | 3 requests (symmetric), 1 session, rotation, reuse protection, grace 1, clock to 3 | `ConstraintNeverFires`, `OneUsableSuccessor`, `ReuseRevokesFamily`, `RevokedOnce`, `EndedSessionStaysEnded`, and `ImplementsTokenChain` | 349,532 |
| `refresh_environment` | 2 requests, 2 scopes, rotation, deletions, revocations, clean-up, clock to 2 | `TypeOK`, `RevokedHoldsNothing`, `ScopeNeverWidens` | 538,882 |
| `refresh_kept` | 2 requests, no rotation, foreign clients, everything around them, fairness | `OneAccessPerSession`, `KeptTokenReturned`, `EveryRequestAnswered` | about 57,000 |
| `device_flow` | 2 devices, 2 user codes, 2 users, 3 tabs, 2 polls, a public client, a confidential one and one with a blank secret, clock to the deadline | `TypeOK`, `TokenIsEntitled`, `DenialHolds`, `DecisionStands`, `OwnerStands` | 602,357 |
| `logout` | 2 issues, 2 users, 2 applications (one whose tokens a logout leaves alone), 2 logouts in 1 session, no clock | `TypeOK`, `LogoutIsComplete`, `OthersKeepTheirTokens`, `LogoutIsConsented` | 2,004,220 |
| `clean_up` | 2 issues, 1 user, batches of 1 row, clock 0..3, fairness | `SweepIsComplete`, `SweepSparesTheLiving`, `SweepEnds` | 273,488 |
| `resource_access` | 1 token, 2 requests of 5 kinds of view, token life 2, caching time 1, own bearer to 1, clock to 2 | `TypeOK`, `AcceptedInTime`, `AcceptedAsGranted`, `ErrorHasAReason` | 3,575,586 |
| `authorization` | 1 application with 10 registrations to try, 2 users, 2 journeys with 5 redirect URIs or none, 1 edit, 1 earlier token, clock to 1 | `TypeOK`, `RedirectsAreRegistered`, `SavedApplicationsSuffice`, `ConsentIsGrounded`, `SilenceNeedsALiveToken` | 2,507,435 |

Three runs look for what a comment or the documentation says and the code does not do;
TLC finds each violated:

* `refresh_exchanged_twice`: the comment at `oauth2_validators.py:690` says a token
  already used in the grace period returns the access token it produced. Once the
  successor has been used, that access token is gone and a second pair is made. What
  does hold, and is checked, is `OneUsableSuccessor`.
* `refresh_reuse_race`: `docs/settings.rst:204` says a reuse revokes all related tokens
  and ends the session. A request that validated before the reuse was seen commits a
  live pair after the family was listed. What does hold is `ReuseRevokesFamily`, all
  that was stored when the family was listed is revoked, and `EndedSessionStaysEnded`, a
  session that is over, with no such request left, never comes back.
* `refresh_after_revocation`: `docs/settings.rst:188` says refresh tokens last until
  revoked. With a grace period, one revoked at the revocation endpoint is admitted
  until the period has passed.

Other disagreements are not runs. `docs/settings.rst:216` says that without rotation the
refresh token is reused and only the access token updated. When the access token was deleted,
the refresh token's row is revoked and a second row inserted with the same string; the next
request finds the first row and, without a grace period, refuses the token that was returned. With three requests
and clean-up, which removes the first row, a later copy is used although another one
has a live access token, and the session has two. What does hold is
`OneAccessPerSession`: one access token while the session's first row is stored. (Two requests never
get that far; the attempt to prove the unconditional property showed the case.)
`docs/settings.rst:400-402` says a logout deletes the
tokens of all applications by default; the lists in `oidc.py:228-234` leave device-code
applications out, which `Deletable` models. The message of the assertion in
`default_redirect_uri` (`models.py:173-177`) speaks of an application without redirect
URIs as a mistake; a client-credentials application may have none, and a GET for it
without a URI fires it. `SavedApplicationsSuffice` states what holds.
`clean()` takes `ALLOWED_REDIRECT_URI_SCHEMES` in lower case (`models.py:217`); the redirect
takes it as it is (`http.py:31`) and compares it with a scheme that `urlparse` lowered. With a
setting like `["HTTPS"]` an application can be saved and every redirect to it is refused;
`SavedApplicationsSuffice` is about a setting in lower case.
The comment at `views/mixins.py:195` says that with a bad redirect URI or client id "we will
*not* redirect back to the URL". `handle_no_permission` (`views/base.py:257-282`), which says it
copies that code, answers a visitor who is not signed in before anything is validated:
with `prompt=none` it redirects `login_required` to whatever `redirect_uri` the query has, which
may be unregistered, may have a fragment, and is only refused for its scheme. The model does the
same, and `RedirectsAreRegistered` and `SavedApplicationsSuffice` are about codes and the errors
of requests that were validated.
The docstring at `decorators.py:46` says that GET, HEAD and OPTIONS require the read scope
and other methods the write scope. `rw_protected_resource` appends to one list for the life of
the process (lines 55 and 72-74), so after a first POST a GET requires both. `AcceptedAsGranted`
states that nothing is let through by this; that too much is refused is what the code does.

Bounds. Two requests are what every race between a check and its use needs; the rotation run
has a third, which is needed for "used, successor used, used again", and the device run a
third tab, for two that compete and one that comes after. `MaxRow` is one row per
session and one per request, so no request is ever refused for lack of rows. One session
suffices because no action relates two of them: the family is only ever compared for
equality. The clock reaches past the end of every duration: the code's lifetime of 1
with the clock at 2, the grace period of 1 with revocations at 0, 1 or 2 and the clock
at 3. A device's deadline is at 1, and "not before the deadline" is the code's comparison,
so a clock that reaches 1 has both cases. The caching time is shorter than the token's life, so
that copies expire before their originals. Batches of one row make the clean-up loop go round as often as
there are rows. `MaxEdits` and `MaxTokens` bound owners' edits and the tokens there are at one time.
All invariants of these instances but the runs' liveness are also proved without bounds.
The abstract time is discrete, so "at the instant" and "just after" both occur.

Fairness. `FairSpec` of `CodeExchange` and `RefreshFlow` assumes of each request only that a
step it can take and is not killed before is taken (`WF` on `Serve(r)`). A worker runs its
request to the end, and waits in the database only for a row lock whose holder is itself such a
request. `FairSpec` of `SessionEnd` assumes the same of the clean-up job (`WF` on
`ReadBatch \/ DeleteBatch`), a loop that waits for nobody. No
fairness is assumed of clients, users, deletions or the clock. Runs
disable the deadlock check because the clock and the number of requests are bounded:
when all are answered the instance stops.

## 4. What is proved

For every value of the constants that satisfies the `ASSUME`s (any number of requests,
codes and rows, any durations, any settings):

`CodeExchangeProofs` proves `TypeOK` and the four safety properties of the exchange,
and that it implements `OneShotCode`. The inductive invariant `ExchangeInv` adds to the
properties what a request in a given phase has already established: past `validate` its
code was issued to its client and was not expired on arrival, past `challenge` the
verifier fits, past `redirect` the URI does, past `save` its token exists, and past
`invalidate` it is the recorded redeemer. At most one delivery follows because the
redeemer is a function of the code. Replay follows because a redeemed code has no row
and a late request cannot pass the first look-up. `RefinesStep` maps `CreateGrant` to `HandOut`, the
successful branch of `InvalidateCode` to `Redeem`, `ClearGrant` to `Lapse`, the 200
answer to `Deliver`, and everything else to a stutter.

`RefreshFlowProofs` proves `TypeOK`, `ConstraintNeverFires`, `RevokedHoldsNothing` and
`RevokedOnce`. None is inductive alone. `RefreshInv` adds: numbers above the last were
never used (`UnusedInv`); a bound access token is stored, bound once, and bound to a
token that is not revoked (`BoundInv`); a lock belongs to the request about to commit on
that row, and the row exists (`LockInv`); and what the transaction read under its lock
is still true (`UntakenInv`), which is what rules the unique constraint out. The proof
of a step has three parts: the tables (`RevokeRows`, `InsertRows`, `DeleteKept`,
`SweepKept`), the steps that touch no transaction (`CalmStep`), and the four that do
(`LockStep`, `RotateStep`, `RepeatStep`, `CrashStep`).

`RefreshHistoryProofs` proves `OneUsableSuccessor`, `ScopeNeverWidens` and
`EndedSessionStaysEnded`. What a row holds now is not enough for these, so
`HistoryInv` adds to `RefreshInv`: a pair was made from an earlier pair of the same
family, with no wider scope (`BirthInv`); a refresh token holds its own access token
or none, and keeps its family; an access token keeps its source for as long as the
source is stored; two stored access tokens do not come from one refresh token
(`HistoryIn`); and the scope a request carries is within what its token was born with
(`RequestInv`). One usable successor follows because two tokens that both hold an
access token and have one parent would make two such siblings. An ended session is an
action property: the proof shows that a step gives a session a new row only by a commit
of one of its requests (`RowsContinue`), that a date of revocation does not change
(`RevokedOnce`), and that a request which could commit could already do so, or was just
admitted with a token that is not a reuse (`RequestsContinue`); a session that is over
has neither such requests nor such tokens (`OverStep`).

The same module proves `ReuseRevokesFamily`. It speaks of requests that have already answered,
so `ReuseInv` keeps for each of them, and for each still at work, the last pair there was
when the family was listed (`upto`): of the family's pairs up to that one, those still
to be revoked are `Pending`, and every other is revoked or gone. A commit in between gets a
number above `upto`, and a revoked row never becomes usable again (`OldRows`, `OldStep`).
This is why listing the family once, outside of any transaction, is enough for what was there,
and why it is not for what comes (`refresh_reuse_race`).

`RefreshAnswerProofs` proves with rotation that the two tokens of an answer were inserted
together (`AnswerIsAPair`), and without it `KeptTokenReturned` and `OneAccessPerSession`. `PairInv` adds to `HistoryInv` what the strings are: with
rotation a pair's number is its string, without it a family has the string of its first
token (`RotatedStrings`, `KeptStrings`); a stored access token is bound to its refresh token and gone
when that has a successor (`BoundRows`); and what a request was admitted with, found and is
about to answer (`AnswerInv`). The first row of a family has the least number and its
string, so `.first()` finds it for as long as it is stored, and every successor is made from
it (`FirstIsParent`): two stored access tokens would be siblings, or a token and its own
successor.

`ChainRefinement` in the same module shows, under the assumption `Rotate`, that the flow implements
`TokenChain`: `StartSession` maps to `Start`, `Arrive` to `Present`, `Rotated` to `Exchange`, whatever
deletes access tokens to `Withdraw`, the answer of `Respond` to `Answer`, every refusal, rollback and
crash to `Refuse`, and the rest to stutters (`ChainStart` to `ChainRefuse`, one lemma per abstract
action). The exchange needs the row lock: that there was no live successor, read by `LockToken`,
still holds at the commit. The answer needs `PairInv`: the pair found is a successor of the very
token presented, not of another token of the family, and its two tokens belong together. `IdleInv` says that a request holds nothing
before it begins. Without rotation the exchange overwrites an access token in its row, and no
new pair is made; what holds there is `KeptTokenReturned`.

`DeviceFlowProofs`: `DeviceInv` adds to the properties what each step of a tab or a poll has
established and later steps of others cannot undo: a row keeps its codes, scope and
deadline; only a tab that read the row as pending can change its decision or user; a poll past
its second read holds a device that was approved; a device whose denial was told while no
tab was deciding stays denied or expired. `ClientIsProven` is about the operators of
`ClientAuth` alone: for any stored secrets, blank ones included, and any credentials in header
and body, a request that `authenticate_client` accepts has the secret stored for the very
client it is served as, in the same place as the client's id, or polls with a device code as
a public client. A missing secret is the blank one, so it is accepted for a client whose
stored secret is blank, and for no other.

`SessionEndProofs`: `Inv` is `SessionInv` (rows well-typed and consistent; what a logout listed
is of its subject, what it worked off cannot be used, and the rest is still on its lists)
and `SweepInv` (what the job holds for deletion is still outdated, and what was outdated at
the start is gone once its stage is over). Every step satisfies `RowsLater`: owners never
change and rows never come back. From this, each step of anybody else keeps what a
logout and the job know (`SoundCarried`, `SweptCarried`), which is why the statements need
no transaction.

`ResourceAccessProofs`: `AccessInv` says that a copy carries what the issuing server granted,
with an expiry cut to the original's and to the caching time of the answer it came from
(`CopyInv`), that the shared list has at least the view's own scopes, and that a request in
each phase has its facts (`RequestInv`). A refusal keeps its reason because between the two
evaluations time only passes and the list only grows.

`AuthorizationProofs`: `AuthorizationInv` says that saved applications are clean (`AppInv`),
that the scopes of tokens were agreed to (`TokenInv`), and of each journey (`Sound`) that the
URI it will answer to was registered within the window it claims, that its scopes are agreed
to by now if it goes on silently, that its redirect keeps the policy on schemes and fragments, and
that a token it saw was live then. `CleanSuffices` needs `AppInv` only where a journey begins
(`CleanRedirect`), because a URI that was accepted does not change. `SecondLookAgrees` is about
the two validations of a request: the one before the code is stored refuses only what was
edited or deleted since the GET. `Sound` therefore also says that a registration accepts the journey
if it is the only one the journey has seen; where a journey begins this is `ValidAgain`, and for a
default redirect URI with a wildcard host it needs `WildcardsAreUnderThemselves`.

Assumptions are the named `ASSUME`s of each module: durations are naturals, model values that
stand for "none" are outside the sets they extend, the first registration is clean, the
batch size is positive (with 0 the loop of `batch_delete` would not end), a wildcard is under itself.

Model-checked only: liveness (`CodeSettles`, `EveryRequestAnswered`, `SweepEnds`; fairness and
ENABLED are out of the prover's reach). Every invariant and action property of a passing run is
proved.

## 5. Not modelled

* JWT contents and key handling, claims, discovery, HTML, admin, migrations and translations:
  data or presentation, no shared state. Random generators are assumed never to repeat
  (user codes excepted).
* The conversion of requests and responses in `OAuthLibCore`, and CORS (`is_origin_allowed`).
* The server object that `OAuthLibMixin` caches on a class: it is made once from settings
  that do not change, and no two classes of this repository disagree about it.
* Implicit, hybrid, password and client-credentials grants: they end in the creation of tokens,
  which `StartSession` and `IssueTokens` stand for. OpenID request parameters (`nonce`, `claims`).
* The order in which the revocation endpoint looks a token up (`token_type_hint`).
* In `CodeExchange` and `RefreshFlow`: the user, the ID token of an exchange, the fields of the
  answer that no property reads, `expires_in`; the collection phase of Django's delete is
  atomic with it. In `SessionEnd`: the cascade from users and applications.
* Settings are constants, read-only at run time.

What could come next: a composition of `Authorization` with `OneShotCode`, so that
`ConsentIsGrounded` speaks of the tokens an exchange makes; the expiry of access tokens
in `RefreshFlow`; the revocation endpoint as a module with `ClientAuth`.
