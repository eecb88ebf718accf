----------------------------- MODULE RefreshFlow -----------------------------
(***************************************************************************)
(* The refresh-token grant: rotation, the grace period, reuse protection   *)
(* and revocation.  TokenView and oauthlib's RefreshTokenGrant call        *)
(* validate_refresh_token, get_original_scopes and save_bearer_token of    *)
(* OAuth2Validator; only the last one is a transaction, which locks the    *)
(* row of the presented token.  Several requests, the revocation endpoint, *)
(* token deletion and the cleartokens command run concurrently on the two  *)
(* tables.  READ COMMITTED isolation with row locks is assumed.            *)
(*                                                                         *)
(* Refresh tokens and access tokens are numbered by insertion: the two     *)
(* rows that one transaction inserts get the same number.  Token strings   *)
(* are numbers too, drawn from one generator that never repeats.           *)
(***************************************************************************)
EXTENDS Integers, FiniteSets

CONSTANTS
  Request,          \* POSTs of the token endpoint with grant_type=refresh_token
  Nobody,           \* no request
  Scope,            \* scopes an application can be granted
  NoRow,            \* a row that is not in its table
  Rotate,           \* ROTATE_REFRESH_TOKEN
  ReuseProtection,  \* REFRESH_TOKEN_REUSE_PROTECTION
  GracePeriod,      \* REFRESH_TOKEN_GRACE_PERIOD_SECONDS
  TokenLifetime,    \* ACCESS_TOKEN_EXPIRE_SECONDS
  RefreshExpire,    \* REFRESH_TOKEN_EXPIRE_SECONDS, 0 when unset
  Deletions,        \* whether access tokens are deleted outside the refresh flow
  Revocations,      \* whether clients use the revocation endpoint
  Foreign,          \* whether clients present refresh tokens of another application
  MaxSession,       \* bound: sessions that are started
  MaxRow,           \* bound: rows ever inserted, MaxSession + one per request
  MaxTime           \* bound: the clock stops here

ASSUME BoundsAreNat ==
  {GracePeriod, TokenLifetime, RefreshExpire, MaxSession, MaxRow, MaxTime} \subseteq Nat
ASSUME SettingsAreBoolean ==
  {Rotate, ReuseProtection, Deletions, Revocations, Foreign} \subseteq BOOLEAN
ASSUME NobodyIsNoRequest == Nobody \notin Request

Id == 1..MaxRow
None == 0          \* no row is referenced
NotRevoked == -1   \* the revoked column is NULL

RefreshRow == [tok : Nat, family : Id, at : Id \cup {None}, revoked : Nat \cup {NotRevoked}]
AccessRow == [tok : Nat, source : Id \cup {None}, scope : SUBSET Scope, expires : Nat]
ASSUME NoRowIsNoRow == NoRow \notin RefreshRow \cup AccessRow

InFlight == {"validate", "scope", "save", "commit", "respond", "list", "revoke"}
Refusals == {"invalid_grant", "invalid_scope", "error", "integrity"}
Phase == InFlight \cup Refusals \cup {"idle", "ok", "lost"}

VARIABLES
  now,    \* timezone.now()
  rt,     \* the RefreshToken table
  at,     \* the AccessToken table
  lock,   \* the request whose transaction holds the row lock of a refresh token
  phase,  \* how far each request is, or how it was answered
  ctx,    \* what a request carries in memory
  last,   \* the number of the last inserted pair of rows
  fresh,  \* the token string generated last
  sweep,  \* the refresh tokens cleartokens has listed and not deleted yet
  born    \* history: what every pair of rows was when it was inserted

tables == <<rt, at, last, fresh, born>>
vars == <<now, rt, at, lock, phase, ctx, last, fresh, sweep, born>>

Context ==
  [tok : Nat, want : SUBSET Scope,          \* the request's parameters
   own : BOOLEAN,                           \* its client is the token's application
   row : Id \cup {None},                    \* request.refresh_token_instance ...
   cached : Id \cup {None},                 \* ... its access token when it was read
   scope : SUBSET Scope,                    \* the scope to grant
   until : Nat,                             \* the expiry the answer announces
   prev : Id \cup {None},                   \* previous_access_token
   access : Nat, refresh : Nat,             \* the token strings of the answer
   todo : SUBSET Id,                        \* family members still to revoke
   upto : Id \cup {None}]                   \* history: the last row when they were listed

Blank ==
  [tok |-> 0, want |-> {}, own |-> TRUE, row |-> None, cached |-> None, scope |-> {}, until |-> 0,
   prev |-> None, access |-> 0, refresh |-> 0, todo |-> {}, upto |-> None]

Origin == [parent : Id \cup {None}, family : Nat, tok : Nat, scope : SUBSET Scope]
Unborn == [parent |-> None, family |-> 0, tok |-> 0, scope |-> {}]

TypeOK ==
  /\ now \in Nat
  /\ rt \in [Id -> RefreshRow \cup {NoRow}]
  /\ at \in [Id -> AccessRow \cup {NoRow}]
  /\ lock \in [Id -> Request \cup {Nobody}]
  /\ phase \in [Request -> Phase]
  /\ ctx \in [Request -> Context]
  /\ last \in 0..MaxRow
  /\ fresh \in Nat
  /\ sweep \subseteq Id
  /\ born \in [Id -> Origin]

Init ==
  /\ now = 0
  /\ rt = [i \in Id |-> NoRow]
  /\ at = [i \in Id |-> NoRow]
  /\ lock = [i \in Id |-> Nobody]
  /\ phase = [r \in Request |-> "idle"]
  /\ ctx = [r \in Request |-> Blank]
  /\ last = 0
  /\ fresh = 0
  /\ sweep = {}
  /\ born = [i \in Id |-> Unborn]

-----------------------------------------------------------------------------
(* The tables. *)

First(S) == CHOOSE i \in S : \A j \in S : i <= j

Live == {i \in Id : rt[i] # NoRow}
Stored == {a \in Id : at[a] # NoRow}

\* RefreshToken.objects.filter(token=tok)
WithToken(tok) == {i \in Live : rt[i].tok = tok}
\* mutant: the access token of another exchange in the session is found
RefreshedInFamily(i) == {a \in Stored : a # i /\ born[a].family = born[i].family}
\* AccessToken.objects.filter(source_refresh_token=i)
RefreshedFrom(i) == {a \in Stored : at[a].source = i}
\* RefreshToken.objects.filter(access_token=a)
BoundTo(a) == {i \in Live : rt[i].at = a}

Unlocked(i) == lock[i] = Nobody
Roots == {i \in 1..last : born[i].parent = None}

\* The strings clients have been given as refresh tokens.
Known == {born[i].tok : i \in Roots} \cup {ctx[r].refresh : r \in {q \in Request : phase[q] = "ok"}}

\* AbstractRefreshToken.revoke, on the locked row; revoking twice does nothing.
Revoked(i) == rt[i].revoked # NotRevoked
AnyRow(i) == TRUE                                 \* mutant: revoked__isnull is not asked
Revocable(i) == ~Revoked(i)

RtWrongNull(i) ==                                 \* mutant: one null for both columns
  IF Revocable(i) THEN [rt EXCEPT ![i].at = NotRevoked, ![i].revoked = now] ELSE rt
RtStillBound(i) ==                                \* mutant: the access token is kept
  IF Revocable(i) THEN [rt EXCEPT ![i].revoked = now] ELSE rt
RtAfterRevoke(i) ==
  IF Revocable(i) THEN [rt EXCEPT ![i].at = None, ![i].revoked = now] ELSE rt
AtAfterRevoke(i) ==
  IF Revocable(i) /\ rt[i].at # None THEN [at EXCEPT ![rt[i].at] = NoRow] ELSE at

\* mutant: source_refresh_token is not stored
Unlinked(tok, source, scope, expires) ==
  [tok |-> tok, source |-> None, scope |-> scope, expires |-> expires]
NewAccess(tok, source, scope, expires) ==
  [tok |-> tok, source |-> source, scope |-> scope, expires |-> expires]

\* _create_access_token and _create_refresh_token, on tables r and a.
Insert(r, a, tok, family, source, scope, expires) ==
  LET n == last + 1 IN
  /\ last < MaxRow
  /\ last' = n
  /\ fresh' = fresh + 1
  /\ at' = [a EXCEPT ![n] = NewAccess(fresh + 1, source, scope, expires)]
  /\ rt' = [r EXCEPT ![n] = [tok |-> tok, family |-> family, at |-> n, revoked |-> NotRevoked]]
  /\ born' = [born EXCEPT ![n] =
       [parent |-> source, family |-> family, tok |-> tok, scope |-> scope]]

-----------------------------------------------------------------------------
(* Everything that is not a refresh request. *)

\* A grant other than refresh_token saves a first pair of tokens.
StartSession ==
  /\ Cardinality(Roots) < MaxSession
  /\ Insert(rt, at, fresh + 1, last + 1, None, Scope, now + TokenLifetime)
  /\ UNCHANGED <<now, lock, phase, ctx, sweep>>

\* The revocation endpoint on a refresh token: revoke() waits for the row lock.
RevokeToken(i) ==
  /\ Revocations
  /\ i \in Live /\ Unlocked(i)
  /\ rt' = RtAfterRevoke(i)
  /\ at' = AtAfterRevoke(i)
  /\ UNCHANGED <<now, lock, phase, ctx, last, fresh, sweep, born>>

\* An access token is deleted (revocation endpoint, token page, cleartokens);
\* on_delete=SET_NULL writes the refresh token bound to it, hence waits for its lock.
DeleteAccess(a) ==
  /\ Deletions
  /\ a \in Stored
  /\ \A i \in BoundTo(a) : Unlocked(i)
  /\ at' = [at EXCEPT ![a] = NoRow]
  /\ rt' = [i \in Id |-> IF i \in BoundTo(a) THEN [rt[i] EXCEPT !.at = None] ELSE rt[i]]
  /\ UNCHANGED <<now, lock, phase, ctx, last, fresh, sweep, born>>

\* clear_expired lists a batch of refresh tokens, revoked or expired long enough ago ...
Outdated(i) ==
  \/ Revoked(i) /\ rt[i].revoked < now - RefreshExpire
  \/ rt[i].at # None /\ at[rt[i].at].expires < now - RefreshExpire

ListOutdated ==
  /\ RefreshExpire > 0
  /\ sweep = {}
  /\ \E S \in SUBSET {i \in Live : Outdated(i)} : S # {} /\ sweep' = S
  /\ UNCHANGED <<now, rt, at, lock, phase, ctx, last, fresh, born>>

\* ... and deletes it by primary key; source_refresh_token is set to NULL.
DeleteSwept ==
  /\ sweep # {}
  /\ \A i \in sweep : Unlocked(i)
  /\ rt' = [i \in Id |-> IF i \in sweep THEN NoRow ELSE rt[i]]
  /\ at' = [a \in Id |-> IF a \in Stored /\ at[a].source \in sweep
                         THEN [at[a] EXCEPT !.source = None] ELSE at[a]]
  /\ sweep' = {}
  /\ UNCHANGED <<now, lock, phase, ctx, last, fresh, born>>

Tick ==
  /\ now < MaxTime
  /\ now' = now + 1
  /\ UNCHANGED <<rt, at, lock, phase, ctx, last, fresh, sweep, born>>

-----------------------------------------------------------------------------
(* One refresh request. *)

Goto(r, p) == phase' = [phase EXCEPT ![r] = p]
Remember(r, c) == ctx' = [ctx EXCEPT ![r] = c]
Refuse(r, why) == Goto(r, why) /\ Remember(r, Blank)

\* A client presents a refresh token it was given; no scope means all of it.
Arrive(r) ==
  /\ phase[r] = "idle"
  /\ \E tok \in Known, want \in SUBSET Scope, own \in BOOLEAN :
       /\ own \/ Foreign
       /\ Remember(r, [Blank EXCEPT !.tok = tok, !.want = want, !.own = own])
  /\ Goto(r, "validate")
  /\ UNCHANGED <<now, tables, lock, sweep>>

\* validate_refresh_token: a token revoked longer ago than the grace period is a
\* reuse; with reuse protection the token's family is revoked before the refusal.
ReusedAfter(i) == Revoked(i) /\ rt[i].revoked < now - GracePeriod      \* mutant: off by one
Reused(i) == Revoked(i) /\ rt[i].revoked <= now - GracePeriod

Admit(r, i) ==
  /\ ctx[r].own
  /\ Goto(r, "scope")
  /\ Remember(r, [ctx[r] EXCEPT !.row = i, !.cached = rt[i].at,
                   !.scope = IF rt[i].at = None THEN {} ELSE at[rt[i].at].scope])

Validate(r) ==
  LET rows == WithToken(ctx[r].tok)
      reuse == rows # {} /\ Reused(First(rows))
  IN
  /\ phase[r] = "validate"
  /\ \/ rows = {} /\ Refuse(r, "invalid_grant")
     \/ rows # {} /\ ~reuse /\ Admit(r, First(rows))
     \/ rows # {} /\ ~reuse /\ ~ctx[r].own /\ Refuse(r, "invalid_grant")
     \/ reuse /\ ~ReuseProtection /\ Refuse(r, "invalid_grant")
     \/ /\ reuse /\ ReuseProtection
        /\ Goto(r, "list")
        /\ Remember(r, [ctx[r] EXCEPT !.row = First(rows)])
  /\ UNCHANGED <<now, tables, lock, sweep>>

\* mutant: only what was made from the token itself is listed
Successors(i) == {j \in Live : born[j].parent = i}
\* The family is listed in one query and revoked row by row, one transaction each.
Family(i) == {j \in Live : rt[j].family = born[i].family}

ListFamily(r) ==
  /\ phase[r] = "list"
  /\ Remember(r, [ctx[r] EXCEPT !.todo = Family(ctx[r].row), !.upto = last])
  /\ Goto(r, "revoke")
  /\ UNCHANGED <<now, tables, lock, sweep>>

RevokeMember(r) ==
  /\ phase[r] = "revoke"
  /\ \E j \in ctx[r].todo :
       /\ Unlocked(j)
       /\ Remember(r, [ctx[r] EXCEPT !.todo = @ \ {j}])
       /\ rt' = IF j \in Live THEN RtAfterRevoke(j) ELSE rt
       /\ at' = IF j \in Live THEN AtAfterRevoke(j) ELSE at
  /\ UNCHANGED <<now, lock, phase, last, fresh, sweep, born>>

EndReuse(r) ==
  /\ phase[r] = "revoke"
  /\ ctx[r].todo = {}
  /\ Goto(r, "invalid_grant")
  /\ UNCHANGED <<now, tables, lock, ctx, sweep>>

\* get_original_scopes, and oauthlib's check that the wanted scope is within them.
WidestScope(r) ==                                 \* mutant: a lost access token had every scope
  IF ctx[r].cached # None THEN ctx[r].scope ELSE Scope
OriginalScope(r) ==
  IF ctx[r].cached # None THEN ctx[r].scope
  ELSE UNION {at[a].scope : a \in RefreshedFrom(ctx[r].row)}

CheckScope(r) ==
  /\ phase[r] = "scope"
  /\ \/ /\ ctx[r].want \subseteq OriginalScope(r)
        /\ Goto(r, "save")
        /\ Remember(r, [ctx[r] EXCEPT !.until = now + TokenLifetime,
                         !.scope = IF ctx[r].want = {} THEN OriginalScope(r) ELSE ctx[r].want])
     \/ /\ ~(ctx[r].want \subseteq OriginalScope(r))
        /\ Refuse(r, "invalid_scope")
  /\ UNCHANGED <<now, tables, lock, sweep>>

Answer(r, access, refresh) ==
  Remember(r, [ctx[r] EXCEPT !.access = access, !.refresh = refresh])

\* _save_bearer_token without rotation: the access token bound to the refresh
\* token when it was validated is overwritten, in its own row.
KeepsToken(r) == ~Rotate /\ ctx[r].cached # None

OverwriteAccess(r) ==
  LET a == ctx[r].cached IN
  /\ phase[r] = "save" /\ KeepsToken(r)
  /\ \/ /\ a \in Stored
        /\ fresh' = fresh + 1
        /\ at' = [at EXCEPT ![a] = NewAccess(fresh + 1, at[a].source, ctx[r].scope, ctx[r].until)]
        /\ Answer(r, fresh + 1, ctx[r].tok)
        /\ Goto(r, "respond")
     \/ a \notin Stored /\ Refuse(r, "error") /\ UNCHANGED <<at, fresh>>
  /\ UNCHANGED <<now, rt, lock, last, sweep, born>>

\* _save_bearer_token with fresh tokens: the transaction locks the refresh token
\* and looks for an access token that was already made from it.
NotAwaited(i) == TRUE                             \* mutant: no select_for_update
Acquirable(i) == Unlocked(i)

LockToken(r) ==
  LET i == ctx[r].row IN
  /\ phase[r] = "save" /\ ~KeepsToken(r)
  /\ \/ /\ i \in Live /\ Acquirable(i)
        /\ lock' = [lock EXCEPT ![i] = r]
        /\ IF RefreshedFrom(i) = {} THEN UNCHANGED ctx
           ELSE LET a == First(RefreshedFrom(i)) IN
                Remember(r, [ctx[r] EXCEPT !.prev = a, !.access = at[a].tok])
        /\ Goto(r, "commit")
     \/ i \notin Live /\ Refuse(r, "error") /\ UNCHANGED lock
  /\ UNCHANGED <<now, tables, sweep>>

KeepLock(r) == lock' = lock                       \* mutant: a failed transaction keeps its lock
Unlock(r) == lock' = [lock EXCEPT ![ctx[r].row] = Nobody]
\* An exception rolls the transaction back: nothing is written.
Rollback(r, why) == Unlock(r) /\ Refuse(r, why) /\ UNCHANGED tables

\* The next refresh token: oauthlib generates one, or repeats the presented one.
AlwaysNew(r) == fresh + 1                         \* mutant: rotation cannot be switched off
NextToken(r) == IF Rotate THEN fresh + 1 ELSE ctx[r].tok

\* source_refresh_token is unique: a second row makes the INSERT fail.
Taken(i) == \E a \in Stored : at[a].source = i

\* It revokes the token and inserts the successor pair ...
Rotated(r) ==
  LET i == ctx[r].row IN
  /\ phase[r] = "commit" /\ ctx[r].prev = None
  /\ \/ /\ ~Taken(i)
        /\ Insert(RtAfterRevoke(i), AtAfterRevoke(i), NextToken(r), rt[i].family,
                  i, ctx[r].scope, ctx[r].until)
        /\ Answer(r, fresh + 1, NextToken(r))
        /\ Goto(r, "respond") /\ Unlock(r)
     \/ Taken(i) /\ Rollback(r, "integrity")
  /\ UNCHANGED <<now, sweep>>

StoredToken(pair) == rt[First(pair)].tok

\* ... or returns the pair that an earlier use of the token produced.
Repeated(r) ==
  LET i == ctx[r].row
      pair == BoundTo(ctx[r].prev) \ {i}
  IN
  /\ phase[r] = "commit" /\ ctx[r].prev # None
  /\ \/ /\ pair # {}
        /\ rt' = RtAfterRevoke(i)
        /\ at' = AtAfterRevoke(i)
        /\ Answer(r, ctx[r].access, StoredToken(pair))
        /\ Goto(r, "respond") /\ Unlock(r)
        /\ UNCHANGED <<last, fresh, born>>
     \/ pair = {} /\ Rollback(r, "error")
  /\ UNCHANGED <<now, sweep>>

\* TokenView looks up the access token it is about to return.
Respond(r) ==
  /\ phase[r] = "respond"
  /\ \/ /\ \E a \in Stored : at[a].tok = ctx[r].access
        /\ Goto(r, "ok") /\ UNCHANGED ctx
     \/ /\ ~\E a \in Stored : at[a].tok = ctx[r].access
        /\ Refuse(r, "error")
  /\ UNCHANGED <<now, tables, lock, sweep>>

\* The worker is killed: its open transaction is rolled back, its answer is lost.
Crash(r) ==
  /\ phase[r] \in InFlight
  /\ Refuse(r, "lost")
  /\ lock' = [i \in Id |-> IF lock[i] = r THEN Nobody ELSE lock[i]]
  /\ UNCHANGED <<now, tables, sweep>>

-----------------------------------------------------------------------------
Serve(r) ==
  \/ Validate(r) \/ ListFamily(r) \/ RevokeMember(r) \/ EndReuse(r) \/ CheckScope(r)
  \/ OverwriteAccess(r) \/ LockToken(r) \/ Rotated(r) \/ Repeated(r) \/ Respond(r)

Next ==
  \/ StartSession \/ ListOutdated \/ DeleteSwept \/ Tick
  \/ \E i \in Id : RevokeToken(i) \/ DeleteAccess(i)
  \/ \E r \in Request : Arrive(r) \/ Serve(r) \/ Crash(r)

Spec == Init /\ [][Next]_vars

\* A worker that is not killed goes on with its request.
FairSpec == Spec /\ \A r \in Request : WF_vars(Serve(r))
-----------------------------------------------------------------------------
(* Properties. *)

\* Concurrent uses of one refresh token never run into the unique constraint on
\* source_refresh_token: the row lock serialises "look for the access token that was
\* made from this refresh token" with "insert it".
ConstraintNeverFires == \A r \in Request : phase[r] # "integrity"

\* A revoked refresh token holds no access token, and an access token that a refresh
\* token holds is stored and held by it alone, whatever runs concurrently.
RevokedHoldsNothing ==
  \A i \in Live :
    /\ Revoked(i) => rt[i].at = None
    /\ rt[i].at # None => rt[i].at \in Stored /\ BoundTo(rt[i].at) = {i}

\* One refresh token never has two usable successors: of the pairs inserted in
\* exchange for it, at most one still has both of its tokens.
OneUsableSuccessor ==
  \A i, j \in Live :
    /\ rt[i].at # None /\ rt[j].at # None
    /\ born[i].parent # None /\ born[i].parent = born[j].parent
    => i = j

\* No chain of refreshes, retries and lost rows widens what was granted: an access
\* token has at most the scope of the access token its refresh token came with.
ScopeNeverWidens ==
  \A a \in Stored :
    /\ at[a].scope \subseteq born[a].scope
    /\ born[a].parent # None => born[a].scope \subseteq born[born[a].parent].scope

\* The two tokens of an answer were inserted together, also when the answer repeats
\* an earlier one (with rotation).
AnswerIsAPair ==
  \A r \in Request : phase[r] = "ok" => ctx[r].access = ctx[r].refresh

\* Without rotation a session never has two access tokens while its first refresh token
\* is stored, also when the access token was deleted and the refresh token is used by
\* several requests at once: they all find the first row, and lock it.
OneAccessPerSession ==
  \A a, b \in Stored :
    born[a].family = born[b].family /\ born[a].family \in Live => a = b

\* Without rotation every answer returns the refresh token that was presented.
KeptTokenReturned ==
  \A r \in Request : phase[r] = "ok" => ctx[r].refresh = ctx[r].tok

\* Reuse protection works: when a reuse was refused, every refresh token of the session
\* that was stored when the family was listed is revoked, whatever the other requests
\* did between the transactions that revoke its members.
ReuseRevokesFamily ==
  \A r \in Request : phase[r] = "invalid_grant" =>
    \A i \in Live : i <= ctx[r].upto /\ rt[i].family = born[ctx[r].row].family => Revoked(i)

\* Revocation is final and dated once, so that a retry cannot restart the grace period.
RevokedOnce ==
  [][\A i \in Live : Revoked(i) /\ rt'[i] # NoRow => rt'[i].revoked = rt[i].revoked]_vars

\* A session is over when every refresh token left of its family was revoked longer ago
\* than the grace period and no request holds one that it validated before.
SessionOver(f) ==
  /\ \A i \in Live : rt[i].family = f => Revoked(i) /\ rt[i].revoked + GracePeriod <= now
  /\ \A r \in Request :
       phase[r] \in {"scope", "save", "commit"} => born[ctx[r].row].family # f

\* A session that is over stays over: no step brings a token of it back.
EndedSessionStaysEnded ==
  [][\A f \in {born[i].family : i \in Roots} : SessionOver(f) => SessionOver(f)']_vars

\* Every request that is not killed is answered: no path leaves a row locked.
EveryRequestAnswered ==
  \A r \in Request : phase[r] = "validate" ~> phase[r] \notin InFlight

\* With rotation the flow implements TokenChain: its tokens form chains, and a request is
\* answered with both tokens of a live successor of the token it presented, also in the
\* grace period.
Chain == INSTANCE TokenChain WITH
  Pair <- Id, issued <- 1..last, alive <- Stored, parent <- [i \in Id |-> born[i].parent],
  presented <- [r \in Request |-> ctx[r].tok],
  answer <- [r \in Request |-> IF phase[r] = "ok" THEN <<ctx[r].access, ctx[r].refresh>> ELSE <<None, None>>]
ImplementsTokenChain == Chain!Spec

-----------------------------------------------------------------------------
(* What the documentation says of the refresh flow and the code does not do. *)

\* "If the refresh token has already been used to create an access token (ie it's
\* within the grace period), return that access token": a refresh token is exchanged
\* for one new pair only.
OneExchangePerToken ==
  \A i, j \in 1..last :
    born[i].parent # None /\ born[i].parent = born[j].parent => i = j

\* "it will end the session for both": after a reuse was answered, no refresh token of
\* the session is left alive.
ReuseEndsSession ==
  [][\A r \in Request : phase[r] = "revoke" /\ phase'[r] = "invalid_grant" =>
       \A i \in Live : rt[i].family = born[ctx[r].row].family => Revoked(i)]_vars

\* "refresh tokens will last until revoked": a token that was revoked and never used is
\* not admitted again.
RevokedIsRefused ==
  [][\A r \in Request : phase[r] = "validate" /\ phase'[r] = "scope" =>
       LET i == ctx'[r].row IN Revoked(i) => \E j \in Id : born[j].parent = i]_vars
=============================================================================
