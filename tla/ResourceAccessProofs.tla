------------------------- MODULE ResourceAccessProofs -------------------------
(***************************************************************************)
(* Proofs about ResourceAccess, for any tokens, users, scopes, views and   *)
(* requests, and any caching time and token life.                          *)
(***************************************************************************)
EXTENDS ResourceAccess, TLAPS

-----------------------------------------------------------------------------
(* The inductive invariant. *)

\* The phases in which a request holds a token string that was presented.
Pending == {"load", "ask", "answer", "store", "check", "explain", "permit"}

RequestRecord == [phase : Phase, view : AnyView, method : Method, token : Token \cup {NoToken},
                  held : Copy \cup {NoToken}, user : User \cup {Nobody}, at : Nat]

\* RequiredScopes, of a request record and a list.
Required(q, sc) == CASE q.view = "decorated" -> ViewScopes
  [] q.view = "rw_decorated" -> sc
  [] q.view = "mixin" -> ReadWriteScopes(q.method)
  [] OTHER -> {}

\* An answer or a copy of it says what the issuing server granted, and no
\* more time than it did.
Granted(held, t, is) == /\ is[t] # NoToken
                        /\ held.user = is[t].user /\ held.scopes = is[t].scopes
                        /\ held.expires <= is[t].expires

\* The expiry has been cut to the caching time.
Cut(held) == held.expires <= held.since + Cache

\* One request, given the issued tokens, the shared list and the time.
Sound(q, is, sc, t) ==
  /\ q.phase \in Pending \/ q.held # NoToken => q.token \in Token
  /\ q.phase \in {"answer", "store", "permit"} => q.held # NoToken
  /\ q.phase = "permit" => q.view \in {"rest", "rest_or_user", "oas"}
  /\ q.held # NoToken => Granted(q.held, q.token, is) /\ (q.phase # "answer" => Cut(q.held))
  /\ q.view = "rw_decorated" => MethodScope(q.method) \in sc
  /\ q.phase = "explain" => \/ q.held = NoToken \/ q.held.expires <= t
                            \/ ~(Required(q, sc) \subseteq q.held.scopes)
  /\ q.phase = "served" /\ q.held # NoToken => /\ q.at < q.held.expires /\ q.user = q.held.user
                                               /\ Sufficient(q.view, q.method, q.held.scopes)
  /\ q.phase = "served" /\ q.held = NoToken => NeedsNoToken(q.view, q.method, q.user) \/ q.view = "page"
  /\ q.phase # "unknown_reason"

RemoteInv == \A t \in remote : issued[t] # NoToken

CopyInv == \A t \in Token : copy[t] # NoToken => Granted(copy[t], t, issued) /\ Cut(copy[t])

RequestInv == \A r \in Request : Sound(request[r], issued, scopes, now)

AccessInv == TypeOK /\ RemoteInv /\ CopyInv /\ ViewScopes \subseteq scopes /\ RequestInv

-----------------------------------------------------------------------------
(* What happens to one request. *)

\* Time passes, tokens are issued and the shared list grows.
LEMMA SoundCarried ==
  ASSUME NEW q \in RequestRecord, NEW is, NEW is2, NEW sc, NEW sc2, NEW t \in Nat, NEW t2 \in Nat,
         t <= t2, sc \subseteq sc2, \A tk \in Token : is[tk] # NoToken => is2[tk] = is[tk],
         Sound(q, is, sc, t)
  PROVE  Sound(q, is2, sc2, t2)
<1>1. q.held # NoToken => Granted(q.held, q.token, is2) /\ (q.phase # "answer" => Cut(q.held))
  BY DEF Sound, Granted
<1>2. Required(q, sc) \subseteq Required(q, sc2)
  BY DEF Required
<1>3. q.held # NoToken => q.held.expires \in Nat
  BY DEF RequestRecord, Copy
<1>4. q.phase = "explain" => \/ q.held = NoToken \/ q.held.expires <= t2
                             \/ ~(Required(q, sc2) \subseteq q.held.scopes)
  BY <1>2, <1>3 DEF Sound
<1>5. QED
  BY <1>1, <1>4 DEF Sound

\* A request that is over without a token.
LEMMA SoundAnswered ==
  ASSUME NEW is, NEW sc, NEW t,
         NEW phase \in {"idle", "served", "invalid_token", "insufficient_scope", "forbidden"}
  PROVE  LET k == [NewRequest EXCEPT !.phase = phase] IN k \in RequestRecord /\ Sound(k, is, sc, t)
<1> DEFINE k == [NewRequest EXCEPT !.phase = phase]
<1>1. k \in RequestRecord
  BY DEF NewRequest, RequestRecord, Phase, AnyView, Method
<1>2. k.phase = phase /\ k.view = "page" /\ k.held = NoToken
  BY DEF NewRequest
<1> HIDE DEF k
<1>3. phase \notin Pending
  BY DEF Pending
<1>4. Sound(k, is, sc, t)
  BY <1>2, <1>3 DEF Sound
<1>5. QED
  BY <1>1, <1>4 DEF k

\* One request changes, and perhaps the copies and the shared list.
LEMMA OneRequest ==
  ASSUME AccessInv, NEW r \in Request, NEW k \in RequestRecord, Sound(k, issued, scopes', now),
         request' = [request EXCEPT ![r] = k], UNCHANGED <<now, remote, issued, secret>>,
         copy' \in [Token -> Copy \cup {NoToken}], CopyInv',
         scopes \subseteq scopes', scopes' \subseteq Scope
  PROVE  AccessInv'
<1>0. /\ now \in Nat /\ remote \subseteq Token /\ issued \in [Token -> Row \cup {NoToken}]
      /\ secret \in {OldSecret, NewSecret} /\ request \in [Request -> RequestRecord]
  BY DEF AccessInv, TypeOK, RequestRecord
<1>1. request' \in [Request -> RequestRecord] /\ request'[r] = k
      /\ \A q \in Request \ {r} : request'[q] = request[q]
  BY <1>0
<1>2. TypeOK'
  BY <1>0, <1>1 DEF TypeOK, RequestRecord
<1>3. ASSUME NEW q \in Request PROVE Sound(request'[q], issued', scopes', now')
  <2>1. CASE q = r
    BY <1>1, <2>1
  <2>2. CASE q # r
    <3>1. Sound(request[q], issued, scopes, now) /\ request[q] \in RequestRecord
      BY <1>0 DEF AccessInv, RequestInv
    <3>2. Sound(request[q], issued, scopes', now)
      BY <1>0, <3>1, SoundCarried
    <3>3. QED
      BY <1>1, <2>2, <3>2
  <2>3. QED
    BY <2>1, <2>2
<1>4. RemoteInv' /\ ViewScopes \subseteq scopes'
  BY DEF AccessInv, RemoteInv
<1>5. QED
  BY <1>2, <1>3, <1>4 DEF AccessInv, RequestInv

-----------------------------------------------------------------------------
(* The steps of a request. *)

\* What Arrive writes.
Arriving(q, view, method, t, user, phase) ==
  [q EXCEPT !.view = view, !.method = method, !.token = t, !.user = user, !.phase = phase]

\* Its fields.
LEMMA ArrivingFields ==
  ASSUME NEW q \in RequestRecord, NEW view \in AnyView, NEW method \in Method, NEW t \in Token,
         NEW user \in User \cup {Nobody}, NEW phase \in {"served", "load"}
  PROVE  LET k == Arriving(q, view, method, t, user, phase) IN
         /\ k \in RequestRecord /\ k.phase = phase /\ k.view = view /\ k.method = method /\ k.token = t
         /\ k.user = user /\ k.held = q.held
<1>1. phase \in Phase
  BY DEF Phase
<1>2. QED
  BY <1>1 DEF Arriving, RequestRecord

\* A request arrives; one of an rw_protected_resource view adds its scope to
\* the list that all of them share.
LEMMA ArriveStep ==
  ASSUME AccessInv, NEW r \in Request, Arrive(r)
  PROVE  AccessInv'
<1>1. PICK view \in View, method \in Method, t \in Token, user \in User \cup {Nobody} :
        /\ request' = [request EXCEPT ![r] = [NewRequest EXCEPT !.view = view, !.method = method,
             !.token = t, !.user = user,
             !.phase = IF NeedsNoToken(view, method, user) THEN "served" ELSE "load"]]
        /\ IF view = "rw_decorated" THEN AppendScope(method) ELSE UNCHANGED scopes
  BY Zenon DEF Arrive
<1>2. UNCHANGED <<now, remote, issued, secret, copy>>
  BY Zenon DEF Arrive
<1>3. copy' \in [Token -> Copy \cup {NoToken}] /\ CopyInv' /\ scopes \subseteq Scope
  BY <1>2 DEF AccessInv, TypeOK, CopyInv
<1>4. MethodScope(method) \in Scope
  BY ReadWriteAreScopes DEF MethodScope
<1>5. scopes \subseteq scopes' /\ scopes' \subseteq Scope /\ (view = "rw_decorated" => MethodScope(method) \in scopes')
  BY <1>1, <1>3, <1>4 DEF AppendScope
<1> DEFINE need == NeedsNoToken(view, method, user)
           k == [NewRequest EXCEPT !.view = view, !.method = method, !.token = t, !.user = user,
                                   !.phase = IF need THEN "served" ELSE "load"]
<1>6. need \in BOOLEAN
  BY DEF NeedsNoToken
<1>7. need = NeedsNoToken(view, method, user)
  OBVIOUS
<1>8. request' = [request EXCEPT ![r] = k]
  BY <1>1, Zenon
<1> HIDE DEF need
<1>9. NewRequest \in RequestRecord /\ NewRequest.held = NoToken
  BY DEF NewRequest, RequestRecord, Phase, AnyView, Method
<1> DEFINE phase == IF need THEN "served" ELSE "load"
<1>10. phase \in {"served", "load"} /\ (phase = "served" => need)
  BY <1>6
<1>11. k = Arriving(NewRequest, view, method, t, user, phase)
  BY DEF Arriving
<1> HIDE DEF k, phase
<1>12. /\ k \in RequestRecord /\ k.phase = phase /\ k.view = view /\ k.method = method /\ k.token = t
       /\ k.user = user /\ k.held = NoToken
  BY <1>9, <1>10, <1>11, ArrivingFields, ViewsAreKnown
<1>13. Sound(k, issued, scopes', now)
  BY <1>5, <1>7, <1>10, <1>12 DEF Sound, Pending
<1>14. QED
  BY <1>2, <1>3, <1>5, <1>8, <1>12, <1>13, OneRequest

\* What Hold and Serve write.
Holding(q, row, phase) == [q EXCEPT !.held = row, !.phase = phase]
Serving(q, u, t) == [q EXCEPT !.phase = "served", !.user = u, !.at = t]

\* A request that goes on holding a row.
LEMMA Holds ==
  ASSUME AccessInv, NEW r \in Request, NEW row \in Copy \cup {NoToken},
         NEW phase \in {"ask", "answer", "store", "check", "explain", "permit"},
         Hold(r, row, phase), request[r].phase \in Pending,
         UNCHANGED <<now, remote, issued, secret, copy, scopes>>,
         phase \in {"answer", "store", "permit"} => row # NoToken,
         phase = "permit" => request[r].view \in {"rest", "rest_or_user", "oas"},
         row # NoToken => Granted(row, request[r].token, issued) /\ (phase # "answer" => Cut(row)),
         phase = "explain" => row = NoToken \/ row.expires <= now \/ ~(RequiredScopes(r) \subseteq row.scopes)
  PROVE  AccessInv'
<1> DEFINE q == request[r]
           k == Holding(q, row, phase)
<1>0. q \in RequestRecord /\ Sound(q, issued, scopes, now) /\ request \in [Request -> RequestRecord]
  BY DEF AccessInv, TypeOK, RequestInv, RequestRecord
<1>1. request' = [request EXCEPT ![r] = k]
  BY <1>0 DEF Hold, Holding
<1>2. /\ k.phase = phase /\ k.held = row /\ k.view = q.view /\ k.method = q.method /\ k.token = q.token
      /\ k.user = q.user /\ k.at = q.at
  BY <1>0 DEF Holding, RequestRecord
<1>3. k \in RequestRecord
  BY <1>0 DEF Holding, RequestRecord, Phase
<1>4. Required(q, scopes) = RequiredScopes(r) /\ q.token \in Token
  BY <1>0 DEF Required, RequiredScopes, Sound
<1> HIDE DEF k
<1>5. Required(k, scopes) = Required(q, scopes)
  BY <1>2 DEF Required
<1>6. Sound(k, issued, scopes, now)
  BY <1>0, <1>2, <1>4, <1>5 DEF Sound
<1>7. copy' \in [Token -> Copy \cup {NoToken}] /\ CopyInv' /\ scopes \subseteq scopes' /\ scopes' \subseteq Scope
  BY DEF AccessInv, TypeOK, CopyInv
<1>8. Sound(k, issued, scopes', now)
  BY <1>6
<1>9. QED
  BY <1>1, <1>3, <1>7, <1>8, OneRequest

\* A request that is served with the row it holds.
LEMMA Serves ==
  ASSUME AccessInv, NEW r \in Request, request[r].held # NoToken, Serve(r, request[r].held.user),
         UNCHANGED <<now, remote, issued, secret, copy, scopes>>, request[r].phase \in Pending \ {"answer"},
         now < request[r].held.expires, Sufficient(request[r].view, request[r].method, request[r].held.scopes)
  PROVE  AccessInv'
<1> DEFINE q == request[r]
           k == Serving(q, q.held.user, now)
<1>0. /\ q \in RequestRecord /\ Sound(q, issued, scopes, now) /\ request \in [Request -> RequestRecord]
      /\ now \in Nat
  BY DEF AccessInv, TypeOK, RequestInv, RequestRecord
<1>1. request' = [request EXCEPT ![r] = k]
  BY <1>0 DEF Serve, Serving
<1>2. /\ k.phase = "served" /\ k.held = q.held /\ k.view = q.view /\ k.method = q.method /\ k.token = q.token
      /\ k.user = q.held.user /\ k.at = now
  BY <1>0 DEF Serving, RequestRecord
<1>3. k \in RequestRecord
  <2>1. q.held.user \in User \cup {Nobody}
    BY <1>0 DEF RequestRecord, Copy
  <2>2. QED
    BY <1>0, <2>1 DEF Serving, RequestRecord, Phase
<1> HIDE DEF k
<1>4. Sound(k, issued, scopes, now)
  BY <1>0, <1>2 DEF Sound, Pending
<1>5. copy' \in [Token -> Copy \cup {NoToken}] /\ CopyInv' /\ scopes \subseteq scopes' /\ scopes' \subseteq Scope
  BY DEF AccessInv, TypeOK, CopyInv
<1>6. Sound(k, issued, scopes', now)
  BY <1>4
<1>7. QED
  BY <1>1, <1>3, <1>5, <1>6, OneRequest

\* A request that is over without a token.
LEMMA Answers ==
  ASSUME AccessInv, NEW r \in Request, NEW phase \in {"served", "invalid_token", "insufficient_scope", "forbidden"},
         Answer(r, phase), UNCHANGED <<now, remote, issued, secret, copy, scopes>>
  PROVE  AccessInv'
<1> DEFINE k == [NewRequest EXCEPT !.phase = phase]
<1>1. request' = [request EXCEPT ![r] = k]
  BY DEF Answer
<1>2. k \in RequestRecord /\ Sound(k, issued, scopes', now)
  BY SoundAnswered
<1> HIDE DEF k
<1>3. copy' \in [Token -> Copy \cup {NoToken}] /\ CopyInv' /\ scopes \subseteq scopes' /\ scopes' \subseteq Scope
  BY DEF AccessInv, TypeOK, CopyInv
<1>4. QED
  BY <1>1, <1>2, <1>3, OneRequest

\* The facts a step needs about the request it moves.
LEMMA Known ==
  ASSUME AccessInv, NEW r \in Request
  PROVE  /\ request[r] \in RequestRecord /\ Sound(request[r], issued, scopes, now) /\ now \in Nat
         /\ request[r].held \in Copy \cup {NoToken}
         /\ request[r].phase \in Pending => request[r].token \in Token
         /\ request[r].held # NoToken => Granted(request[r].held, request[r].token, issued)
         /\ request[r].held # NoToken /\ request[r].phase # "answer" => Cut(request[r].held)
<1>1. request[r] \in RequestRecord /\ Sound(request[r], issued, scopes, now) /\ now \in Nat
  BY DEF AccessInv, TypeOK, RequestInv, RequestRecord
<1>2. QED
  BY <1>1 DEF Sound, RequestRecord

\* The look-up: a copy that suffices is held, another only if nobody is asked.
LEMMA LoadStep ==
  ASSUME AccessInv, NEW r \in Request, LoadToken(r)
  PROVE  AccessInv'
<1> DEFINE row == copy[request[r].token]
<1>1. request[r].phase = "load" /\ UNCHANGED <<now, remote, issued, secret, copy, scopes>>
  BY DEF LoadToken
<1>2. request[r].phase \in Pending /\ request[r].token \in Token
  BY <1>1, Known DEF Pending
<1>3. row \in Copy \cup {NoToken} /\ (row # NoToken => Granted(row, request[r].token, issued) /\ Cut(row))
  BY <1>2 DEF AccessInv, TypeOK, CopyInv
<1>4. Hold(r, row, "check") \/ Hold(r, NoToken, "ask")
  BY DEF LoadToken
<1> HIDE DEF row
<1>5. CASE Hold(r, row, "check")
  BY <1>1, <1>2, <1>3, <1>5, Holds
<1>6. CASE Hold(r, NoToken, "ask")
  BY <1>1, <1>2, <1>6, Holds
<1>7. QED
  BY <1>4, <1>5, <1>6

\* The question: what an answer says is what was issued.
LEMMA AskStep ==
  ASSUME AccessInv, NEW r \in Request, AskServer(r)
  PROVE  AccessInv'
<1> DEFINE row == issued[request[r].token]
           held == [user |-> row.user, scopes |-> row.scopes, expires |-> row.expires, since |-> now]
<1>1. request[r].phase = "ask" /\ UNCHANGED <<now, remote, issued, secret, copy, scopes>>
  BY DEF AskServer
<1>2. request[r].phase \in Pending /\ request[r].token \in Token /\ now \in Nat
  BY <1>1, Known DEF Pending
<1>3. (IsActive(request[r].token) /\ Hold(r, held, "answer")) \/ Hold(r, NoToken, "check")
  BY DEF AskServer
<1>4. CASE IsActive(request[r].token) /\ Hold(r, held, "answer")
  <2>1. row # NoToken
    BY <1>4 DEF IsActive, AccessInv, RemoteInv
  <2>2. row \in Row
    BY <1>2, <2>1 DEF AccessInv, TypeOK
  <2>3. held \in Copy
    BY <1>2, <2>2 DEF Row, Copy
  <2>4. held # NoToken
    BY <2>3, NoTokenIsNone
  <2>5. held.expires <= row.expires
    BY <2>2 DEF Row
  <2>6. Granted(held, request[r].token, issued)
    BY <2>1, <2>5 DEF Granted
  <2> HIDE DEF held
  <2>7. QED
    BY <1>1, <1>2, <1>4, <2>3, <2>4, <2>6, Holds
<1>5. CASE Hold(r, NoToken, "check")
  BY <1>1, <1>2, <1>5, Holds
<1>6. QED
  BY <1>3, <1>4, <1>5

\* Reading an answer cuts its expiry to the caching time, never past what was granted.
LEMMA ReadStep ==
  ASSUME AccessInv, NEW r \in Request, ReadAnswer(r)
  PROVE  AccessInv'
<1> DEFINE q == request[r]
           cut == CutExpiry(q.held.expires)
           row == [q.held EXCEPT !.since = now, !.expires = cut]
<1>0. request \in [Request -> RequestRecord] /\ q \in RequestRecord
  BY DEF AccessInv, TypeOK, RequestRecord
<1>1. q.phase = "answer" /\ UNCHANGED <<now, remote, issued, secret, copy, scopes>>
  BY Zenon DEF ReadAnswer
<1>2. q.phase \in Pending /\ q.held # NoToken /\ q.held \in Copy /\ Granted(q.held, q.token, issued) /\ now \in Nat
  BY <1>1, Known DEF Pending, Sound
<1>3. q.held.expires \in Nat
  BY <1>2 DEF Copy
<1>4. cut \in Nat /\ cut <= q.held.expires /\ cut <= now + Cache
  BY <1>2, <1>3, NumbersAreNat DEF CutExpiry
<1>5. Hold(r, row, "store")
  BY <1>0, <1>2 DEF ReadAnswer, Hold
<1> HIDE DEF cut
<1>6. row \in Copy /\ row.since = now /\ row.expires = cut /\ row.user = q.held.user /\ row.scopes = q.held.scopes
  BY <1>2, <1>4 DEF Copy
<1> HIDE DEF row
<1>7. q.held.expires <= issued[q.token].expires /\ issued[q.token] # NoToken /\ q.token \in Token
  BY <1>1, <1>2, Known DEF Granted
<1>8. issued[q.token].expires \in Nat
  BY <1>7 DEF AccessInv, TypeOK, Row
<1>9. Granted(row, q.token, issued)
  BY <1>2, <1>3, <1>4, <1>6, <1>7, <1>8 DEF Granted
<1>10. Cut(row) /\ row # NoToken
  BY <1>4, <1>6, NoTokenIsNone DEF Cut
<1>11. QED
  BY <1>1, <1>2, <1>5, <1>6, <1>9, <1>10, Holds

\* Storing a copy puts a sound row in the table.
LEMMA StoreStep ==
  ASSUME AccessInv, NEW r \in Request, StoreCopy(r)
  PROVE  AccessInv'
<1> DEFINE q == request[r]
           k == [q EXCEPT !.phase = "check"]
<1>0. /\ request \in [Request -> RequestRecord] /\ q \in RequestRecord /\ Sound(q, issued, scopes, now)
      /\ copy \in [Token -> Copy \cup {NoToken}] /\ scopes \subseteq Scope
  BY DEF AccessInv, TypeOK, RequestInv, RequestRecord
<1>1. /\ q.phase = "store" /\ copy' = [copy EXCEPT ![q.token] = q.held] /\ request' = [request EXCEPT ![r] = k]
      /\ UNCHANGED <<now, remote, issued, secret, scopes>>
  BY <1>0 DEF StoreCopy
<1>2. /\ q.held \in Copy /\ q.token \in Token /\ Granted(q.held, q.token, issued) /\ Cut(q.held)
  BY <1>1, Known DEF Pending, Sound
<1>3. /\ k \in RequestRecord /\ k.phase = "check" /\ k.held = q.held /\ k.view = q.view
      /\ k.method = q.method /\ k.token = q.token
  BY <1>0 DEF RequestRecord, Phase
<1> HIDE DEF k
<1>4. Sound(k, issued, scopes, now)
  BY <1>0, <1>1, <1>2, <1>3 DEF Sound, Pending
<1>5. copy' \in [Token -> Copy \cup {NoToken}]
  BY <1>0, <1>1, <1>2
<1>6. ASSUME NEW t \in Token, copy'[t] # NoToken PROVE Granted(copy'[t], t, issued) /\ Cut(copy'[t])
  <2>1. CASE t = q.token
    BY <1>0, <1>1, <1>2, <2>1
  <2>2. CASE t # q.token
    <3>1. copy'[t] = copy[t]
      BY <1>0, <1>1, <2>2
    <3>2. QED
      BY <1>6, <3>1 DEF AccessInv, CopyInv
  <2>3. QED
    BY <2>1, <2>2
<1>7. CopyInv'
  BY <1>1, <1>6 DEF CopyInv
<1>8. Sound(k, issued, scopes', now) /\ scopes \subseteq scopes' /\ scopes' \subseteq Scope
  BY <1>0, <1>1, <1>4
<1>9. QED
  BY <1>1, <1>3, <1>5, <1>7, <1>8, OneRequest

\* What a view requires of the row a request holds is what the issuing server
\* must have granted: the shared list has the scope of this request's method.
LEMMA RequiredSuffices ==
  ASSUME AccessInv, NEW r \in Request, request[r].view \notin {"rest", "rest_or_user", "oas"},
         RequiredScopes(r) \subseteq request[r].held.scopes
  PROVE  Sufficient(request[r].view, request[r].method, request[r].held.scopes)
<1> DEFINE q == request[r]
<1>1. q.view \in {"decorated", "rw_decorated", "mixin", "page"}
  BY Known DEF RequestRecord, AnyView
<1>2. CASE q.view = "decorated"
  BY <1>2 DEF RequiredScopes, Sufficient
<1>3. CASE q.view = "rw_decorated"
  <2>1. scopes \subseteq q.held.scopes
    BY <1>3 DEF RequiredScopes
  <2>2. MethodScope(q.method) \in scopes /\ ViewScopes \subseteq scopes
    BY <1>3, Known DEF Sound, AccessInv
  <2>3. QED
    BY <1>3, <2>1, <2>2 DEF ReadWriteScopes, Sufficient
<1>4. CASE q.view = "mixin"
  BY <1>4 DEF RequiredScopes, Sufficient
<1>5. CASE q.view = "page"
  BY <1>5 DEF Sufficient
<1>6. QED
  BY <1>1, <1>2, <1>3, <1>4, <1>5

\* The second check.
LEMMA CheckStep ==
  ASSUME AccessInv, NEW r \in Request, CheckToken(r)
  PROVE  AccessInv'
<1> DEFINE q == request[r]
           row == q.held
           valid == row # NoToken /\ IsValid(row, RequiredScopes(r))
<1>1. q.phase = "check" /\ UNCHANGED <<now, remote, issued, secret, copy, scopes>>
  BY DEF CheckToken
<1>2. /\ row \in Copy \cup {NoToken} /\ now \in Nat /\ q.phase \in Pending /\ q.phase \in Pending \ {"answer"}
      /\ row # NoToken => Granted(row, q.token, issued) /\ Cut(row)
  BY <1>1, Known DEF Pending
<1>3. \/ valid /\ q.view \notin {"rest", "rest_or_user", "oas"} /\ Serve(r, row.user)
      \/ valid /\ q.view \in {"rest", "rest_or_user", "oas"} /\ Hold(r, row, "permit")
      \/ ~valid /\ Hold(r, row, "explain")
      \/ Answer(r, "served")
  BY DEF CheckToken
<1>4. row # NoToken => row.expires \in Nat
  BY <1>2 DEF Copy
<1>5. valid => row # NoToken /\ now < row.expires /\ RequiredScopes(r) \subseteq row.scopes
  BY <1>2, <1>4 DEF IsValid, IsExpired, AllowScopes
<1>6. ~valid => row = NoToken \/ row.expires <= now \/ ~(RequiredScopes(r) \subseteq row.scopes)
  BY <1>2, <1>4 DEF IsValid, IsExpired, AllowScopes
<1>7. valid \in BOOLEAN
  OBVIOUS
<1> HIDE DEF valid
<1>8. CASE valid /\ q.view \notin {"rest", "rest_or_user", "oas"} /\ Serve(r, row.user)
  BY <1>1, <1>2, <1>5, <1>8, RequiredSuffices, Serves
<1> HIDE DEF row
<1>9. CASE valid /\ q.view \in {"rest", "rest_or_user", "oas"} /\ Hold(r, row, "permit")
  BY <1>1, <1>2, <1>5, <1>9, Holds
<1>10. CASE ~valid /\ Hold(r, row, "explain")
  BY <1>1, <1>2, <1>6, <1>10, Holds
<1>11. CASE Answer(r, "served")
  BY <1>1, <1>11, Answers
<1>12. QED
  BY <1>3, <1>8, <1>9, <1>10, <1>11

\* The refusal's reason is still there when it is looked for.
LEMMA ExplainStep ==
  ASSUME AccessInv, NEW r \in Request, ExplainRefusal(r)
  PROVE  AccessInv'
<1> DEFINE q == request[r]
           row == q.held
           reason == CASE row = NoToken -> "invalid_token"
             [] row # NoToken /\ IsExpired(row) -> "invalid_token"
             [] row # NoToken /\ ~IsExpired(row) /\ ~AllowScopes(row, RequiredScopes(r)) -> "insufficient_scope"
             [] OTHER -> "unknown_reason"
<1>1. q.phase = "explain" /\ UNCHANGED <<now, remote, issued, secret, copy, scopes>>
  BY DEF ExplainRefusal
<1>2. Answer(r, reason)
  BY DEF ExplainRefusal
<1>3. row \in Copy \cup {NoToken} /\ now \in Nat
  BY Known
<1>4. row = NoToken \/ row.expires <= now \/ ~(RequiredScopes(r) \subseteq row.scopes)
  BY <1>1, Known DEF Sound, Required, RequiredScopes
<1>5. row # NoToken => row.expires \in Nat
  BY <1>3 DEF Copy
<1>6. row # NoToken => IsExpired(row) \/ ~AllowScopes(row, RequiredScopes(r))
  BY <1>3, <1>4, <1>5 DEF IsExpired, AllowScopes
<1>7. reason \in {"invalid_token", "insufficient_scope"}
  BY <1>6
<1> HIDE DEF reason
<1>8. QED
  BY <1>1, <1>2, <1>7, Answers

\* The permission classes check one of the alternatives against the same row.
LEMMA PermitStep ==
  ASSUME AccessInv, NEW r \in Request, CheckPermission(r)
  PROVE  AccessInv'
<1> DEFINE q == request[r]
           row == q.held
           granted == \E alternative \in PermittedScopes(q.view, q.method) : IsValid(row, alternative)
<1>1. q.phase = "permit" /\ UNCHANGED <<now, remote, issued, secret, copy, scopes>>
  BY DEF CheckPermission
<1>2. /\ row \in Copy /\ row # NoToken /\ now \in Nat /\ q.phase \in Pending \ {"answer"}
      /\ q.view \in {"rest", "rest_or_user", "oas"}
  BY <1>1, Known DEF Pending, Sound
<1>3. (granted /\ Serve(r, row.user)) \/ Answer(r, "forbidden")
  BY DEF CheckPermission
<1>4. CASE granted /\ Serve(r, row.user)
  <2>1. PICK alternative \in PermittedScopes(q.view, q.method) : IsValid(row, alternative)
    BY <1>4
  <2>2. row.expires \in Nat
    BY <1>2 DEF Copy
  <2>3. now < row.expires /\ alternative \subseteq row.scopes
    BY <1>2, <2>1, <2>2 DEF IsValid, IsExpired, AllowScopes
  <2>4. Sufficient(q.view, q.method, row.scopes)
    BY <1>2, <2>1, <2>3 DEF Sufficient
  <2>5. QED
    BY <1>1, <1>2, <1>4, <2>3, <2>4, Serves
<1>5. CASE Answer(r, "forbidden")
  BY <1>1, <1>5, Answers
<1>6. QED
  BY <1>3, <1>4, <1>5

-----------------------------------------------------------------------------
(* The rest of the system. *)

\* The steps that leave requests and the shared list alone: time passes, tokens
\* are issued, revoked and cleared, the secret changes.
LEMMA QuietStep ==
  ASSUME AccessInv, UNCHANGED <<request, scopes>>, now' \in Nat, now <= now',
         remote' \subseteq Token, issued' \in [Token -> Row \cup {NoToken}], secret' \in {OldSecret, NewSecret},
         \A t \in Token : issued[t] # NoToken => issued'[t] = issued[t],
         \A t \in remote' : issued'[t] # NoToken,
         copy' \in [Token -> Copy \cup {NoToken}],
         \A t \in Token : copy'[t] = copy[t] \/ copy'[t] = NoToken
  PROVE  AccessInv'
<1>0. /\ now \in Nat /\ request \in [Request -> RequestRecord] /\ scopes \subseteq Scope
  BY DEF AccessInv, TypeOK, RequestRecord
<1>1. TypeOK'
  BY <1>0 DEF TypeOK, RequestRecord
<1>2. RemoteInv' /\ ViewScopes \subseteq scopes'
  BY DEF AccessInv, RemoteInv
<1>3. CopyInv'
  <2>1. ASSUME NEW t \in Token, copy'[t] # NoToken PROVE Granted(copy'[t], t, issued') /\ Cut(copy'[t])
    <3>1. copy'[t] = copy[t] /\ Granted(copy[t], t, issued) /\ Cut(copy[t])
      BY <2>1 DEF AccessInv, CopyInv
    <3>2. QED
      BY <3>1 DEF Granted
  <2>2. QED
    BY <2>1 DEF CopyInv
<1>4. ASSUME NEW r \in Request PROVE Sound(request[r], issued', scopes', now')
  <2>1. request[r] \in RequestRecord /\ Sound(request[r], issued, scopes, now) /\ scopes \subseteq scopes'
    BY <1>0 DEF AccessInv, RequestInv
  <2>2. QED
    BY <1>0, <2>1, SoundCarried
<1>5. RequestInv'
  BY <1>4 DEF RequestInv
<1>6. QED
  BY <1>1, <1>2, <1>3, <1>5 DEF AccessInv

\* Issuing a token writes a row that no copy refers to yet.
LEMMA IssueStep ==
  ASSUME AccessInv, NEW t \in Token, IssueToken(t)
  PROVE  AccessInv'
<1>0. /\ now \in Nat /\ issued \in [Token -> Row \cup {NoToken}] /\ remote \subseteq Token
      /\ copy \in [Token -> Copy \cup {NoToken}] /\ secret \in {OldSecret, NewSecret}
  BY DEF AccessInv, TypeOK
<1>1. PICK u \in User \cup {Nobody}, granted \in SUBSET Scope :
        issued' = [issued EXCEPT ![t] = [user |-> u, scopes |-> granted, expires |-> now + Life]]
  BY DEF IssueToken
<1> DEFINE row == [user |-> u, scopes |-> granted, expires |-> now + Life]
<1>2. row \in Row
  BY <1>0, NumbersAreNat DEF Row
<1>3. row # NoToken
  BY <1>2, NoTokenIsNone
<1>4. issued' = [issued EXCEPT ![t] = row]
  BY <1>1
<1> HIDE DEF row
<1>5. issued[t] = NoToken /\ remote' = remote \cup {t} /\ UNCHANGED <<now, secret, copy, scopes, request>>
  BY DEF IssueToken
<1>6. issued' \in [Token -> Row \cup {NoToken}] /\ (\A s \in Token : issued[s] # NoToken => issued'[s] = issued[s])
  BY <1>0, <1>2, <1>4, <1>5
<1>7. \A s \in remote' : issued'[s] # NoToken
  BY <1>0, <1>3, <1>4, <1>5 DEF AccessInv, RemoteInv
<1>8. QED
  BY <1>0, <1>5, <1>6, <1>7, QuietStep

-----------------------------------------------------------------------------
(* The invariant. *)

\* It holds to begin with.
LEMMA InvInit ==
  ASSUME Init
  PROVE  AccessInv
<1>1. NewRequest \in RequestRecord
  BY DEF NewRequest, RequestRecord, Phase, AnyView, Method
<1>2. TypeOK
  BY <1>1, ReadWriteAreScopes DEF Init, TypeOK, RequestRecord
<1>3. \A r \in Request : Sound(request[r], issued, scopes, now)
  <2>1. [NewRequest EXCEPT !.phase = "idle"] = NewRequest
    BY DEF NewRequest
  <2>2. Sound(NewRequest, issued, scopes, now)
    BY <2>1, SoundAnswered
  <2>3. QED
    BY <2>2 DEF Init
<1>4. RemoteInv /\ CopyInv /\ ViewScopes \subseteq scopes
  BY DEF Init, RemoteInv, CopyInv
<1>5. QED
  BY <1>2, <1>3, <1>4 DEF AccessInv, RequestInv

\* Every step preserves it.
LEMMA InvStep ==
  ASSUME AccessInv, [Next]_vars
  PROVE  AccessInv'
<1>0. /\ now \in Nat /\ issued \in [Token -> Row \cup {NoToken}] /\ remote \subseteq Token
      /\ copy \in [Token -> Copy \cup {NoToken}] /\ secret \in {OldSecret, NewSecret}
      /\ \A t \in remote : issued[t] # NoToken
  BY DEF AccessInv, TypeOK, RemoteInv
<1>1. ASSUME NEW t \in Token, IssueToken(t) PROVE AccessInv'
  BY <1>1, IssueStep
<1>2. ASSUME NEW t \in Token, RevokeToken(t) PROVE AccessInv'
  <2>1. remote' = remote \ {t} /\ UNCHANGED <<now, issued, secret, copy, scopes, request>>
    BY <1>2 DEF RevokeToken
  <2>2. QED
    BY <1>0, <2>1, QuietStep
<1>3. ASSUME NEW t \in Token, ClearCopy(t) PROVE AccessInv'
  <2>1. copy' = [copy EXCEPT ![t] = NoToken] /\ UNCHANGED <<now, remote, issued, secret, scopes, request>>
    BY <1>3 DEF ClearCopy
  <2>2. /\ copy' \in [Token -> Copy \cup {NoToken}]
        /\ \A s \in Token : copy'[s] = copy[s] \/ copy'[s] = NoToken
    BY <1>0, <2>1
  <2>3. QED
    BY <1>0, <2>1, <2>2, QuietStep
<1>4. CASE ChangeSecret
  <2>1. secret' = NewSecret /\ UNCHANGED <<now, remote, issued, copy, scopes, request>>
    BY <1>4 DEF ChangeSecret
  <2>2. QED
    BY <1>0, <2>1, QuietStep
<1>5. ASSUME NEW r \in Request, Arrive(r) PROVE AccessInv'
  BY <1>5, ArriveStep
<1>6. ASSUME NEW r \in Request, ServeStep(r) PROVE AccessInv'
  BY <1>6, LoadStep, AskStep, ReadStep, StoreStep, CheckStep, ExplainStep, PermitStep DEF ServeStep
<1>7. CASE Tick
  <2>1. now' = now + 1 /\ UNCHANGED <<remote, issued, secret, copy, scopes, request>>
    BY <1>7 DEF Tick
  <2>2. now' \in Nat /\ now <= now'
    BY <1>0, <2>1
  <2>3. QED
    BY <1>0, <2>1, <2>2, QuietStep
<1>8. CASE UNCHANGED vars
  <2>1. UNCHANGED <<now, remote, issued, secret, copy, scopes, request>>
    BY <1>8 DEF vars
  <2>2. QED
    BY <1>0, <2>1, QuietStep
<1>9. QED
  BY <1>1, <1>2, <1>3, <1>4, <1>5, <1>6, <1>7, <1>8 DEF Next

\* The invariant holds in every behaviour.
THEOREM InvCorrect == Spec => []AccessInv
<1>1. Init => AccessInv
  BY InvInit
<1>2. AccessInv /\ [Next]_vars => AccessInv'
  BY InvStep
<1>3. QED
  BY <1>1, <1>2, PTL DEF Spec

\* The rows of both servers, the shared list and the requests stay well typed.
THEOREM TypeCorrect == Spec => []TypeOK
<1>1. AccessInv => TypeOK
  BY DEF AccessInv
<1>2. QED
  BY <1>1, InvCorrect, PTL

\* However look-ups, answers and stores of several requests interleave, a token
\* is accepted only before it expires where it was issued, and within the
\* caching time of the answer that called it active.
THEOREM InTime == Spec => []AcceptedInTime
<1>1. AccessInv => AcceptedInTime
  <2>1. SUFFICES ASSUME AccessInv, NEW r \in Request, ServedWithToken(r)
                 PROVE  /\ request[r].at < issued[request[r].token].expires
                        /\ request[r].at < request[r].held.since + Cache
    BY DEF AcceptedInTime
  <2> DEFINE q == request[r]
  <2>2. /\ q \in RequestRecord /\ q.held \in Copy /\ q.token \in Token /\ q.at < q.held.expires
        /\ Granted(q.held, q.token, issued) /\ Cut(q.held)
    BY <2>1, Known DEF ServedWithToken, Sound
  <2>3. q.at \in Nat /\ q.held.expires \in Nat /\ q.held.since \in Nat /\ Cache \in Nat
    BY <2>2, NumbersAreNat DEF RequestRecord, Copy
  <2>4. issued[q.token].expires \in Nat
    BY <2>1, <2>2 DEF Granted, AccessInv, TypeOK, Row
  <2>5. q.held.expires <= issued[q.token].expires /\ q.held.expires <= q.held.since + Cache
    BY <2>2 DEF Granted, Cut
  <2>6. QED
    BY <2>2, <2>3, <2>4, <2>5
<1>2. QED
  BY <1>1, InvCorrect, PTL

\* A request is served with a token only if the issuing server granted what
\* its view requires for its method, in the name of the token's user.
THEOREM AsGranted == Spec => []AcceptedAsGranted
<1>1. AccessInv => AcceptedAsGranted
  <2>1. SUFFICES ASSUME AccessInv, NEW r \in Request, request[r].phase = "served"
                 PROVE  IF ServedWithToken(r)
                        THEN /\ Sufficient(request[r].view, request[r].method, issued[request[r].token].scopes)
                             /\ request[r].user = issued[request[r].token].user
                        ELSE \/ NeedsNoToken(request[r].view, request[r].method, request[r].user)
                             \/ request[r].view = "page"
    BY DEF AcceptedAsGranted
  <2>2. Sound(request[r], issued, scopes, now)
    BY <2>1, Known
  <2>3. CASE request[r].held # NoToken
    BY <2>1, <2>2, <2>3 DEF ServedWithToken, Sound, Granted
  <2>4. CASE request[r].held = NoToken
    BY <2>1, <2>2, <2>4 DEF ServedWithToken, Sound
  <2>5. QED
    BY <2>3, <2>4
<1>2. QED
  BY <1>1, InvCorrect, PTL

\* A refusal always has its reason: between the check that failed and the look
\* for the reason, time only passes and the shared list only grows.
THEOREM HasAReason == Spec => []ErrorHasAReason
<1>1. AccessInv => ErrorHasAReason
  BY Known DEF Sound, ErrorHasAReason
<1>2. QED
  BY <1>1, InvCorrect, PTL
=============================================================================
