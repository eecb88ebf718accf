-------------------------- MODULE AuthorizationProofs --------------------------
(***************************************************************************)
(* Proofs about Authorization, for any applications, registrations, URIs,  *)
(* users, scopes and browser journeys, with or without wildcards and PKCE. *)
(***************************************************************************)
EXTENDS Authorization, TLAPS

-----------------------------------------------------------------------------
(* The redirect URI. *)

\* redirect_to_uri_allowed admits only what a registered URI stands for.
LEMMA AllowedIsRegistered ==
  ASSUME NEW uri \in URI, NEW reg, RedirectToUriAllowed(uri, reg.uris)
  PROVE  Registered(reg, uri)
<1>1. PICK a \in reg.uris :
        /\ a.scheme = uri.scheme
        /\ HostAllowed(a.host, uri.host)
        /\ IsLoopback(a) \/ a.port = uri.port
        /\ a.path = uri.path
        /\ a.query \subseteq uri.query
  BY DEF RedirectToUriAllowed
<1>2. uri.host = a.host \/ (Wildcards /\ a.host \in DOMAIN Under /\ uri.host \in Under[a.host])
  BY <1>1 DEF HostAllowed
<1>3. uri.port # a.port => uri.scheme = "http" /\ a.host \in {"127.0.0.1", "::1"}
  BY <1>1 DEF IsLoopback
<1>4. uri.query \cup a.query = uri.query
  BY <1>1
<1>5. uri \in Denoted(a)
  BY <1>1, <1>2, <1>3, <1>4 DEF Denoted
<1>6. QED
  BY <1>5 DEF Registered

\* An accepted request has a redirect URI that the registration stands for.
LEMMA ValidRedirect ==
  ASSUME NEW reg \in Registration, NEW uri \in URI \cup {NoURI}, RedirectVerdict(reg, uri) = "valid"
  PROVE  RedirectOf(reg, uri) \in URI /\ Registered(reg, RedirectOf(reg, uri))
<1>1. CASE uri = NoURI
  <2>1. reg.uris # {}
    BY <1>1 DEF RedirectVerdict
  <2>2. RedirectOf(reg, uri) \in reg.uris
    BY <1>1, <2>1 DEF RedirectOf
  <2>3. RedirectOf(reg, uri) \in URI
    BY <2>2, RegistrationsHaveURIs
  <2> DEFINE u == RedirectOf(reg, uri)
  <2>4. u \in Denoted(u)
    BY <2>3 DEF Denoted
  <2>5. QED
    BY <2>2, <2>3, <2>4 DEF Registered
<1>2. CASE uri # NoURI
  BY <1>2, AllowedIsRegistered DEF RedirectVerdict, RedirectOf
<1>3. QED
  BY <1>1, <1>2

\* The redirect URI of an accepted request has an allowed scheme and no
\* fragment if the registration is clean: the default URI is registered itself,
\* and another one agrees with a registered one on the scheme.
LEMMA CleanRedirect ==
  ASSUME NEW reg \in Registration, Clean(reg), NEW uri \in URI \cup {NoURI}, RedirectVerdict(reg, uri) = "valid"
  PROVE  KeepsPolicy(RedirectOf(reg, uri))
<1>1. \A a \in reg.uris : KeepsPolicy(a)
  BY DEF Clean, CleanURIs, ValidURI, KeepsPolicy
<1>2. CASE uri = NoURI
  <2>1. reg.uris # {}
    BY <1>2 DEF RedirectVerdict
  <2>2. RedirectOf(reg, uri) \in reg.uris
    BY <1>2, <2>1 DEF RedirectOf
  <2>3. QED
    BY <1>1, <2>2
<1>3. CASE uri # NoURI
  <2>1. ~uri.fragment /\ RedirectToUriAllowed(uri, reg.uris) /\ RedirectOf(reg, uri) = uri
    BY <1>3 DEF RedirectVerdict, RedirectOf
  <2>2. \E a \in reg.uris : a.scheme = uri.scheme
    BY <2>1 DEF RedirectToUriAllowed
  <2>3. QED
    BY <1>1, <2>1, <2>2 DEF KeepsPolicy
<1>4. QED
  BY <1>2, <1>3

\* The cases of a verdict.
LEMMA VerdictCases ==
  ASSUME NEW reg \in Registration \cup {NoRow}, NEW uri \in URI \cup {NoURI}, NEW scope, NEW challenge
  PROVE  /\ Verdict(reg, uri, scope, challenge) \in {"valid", "error", "bad_request", "assertion"}
         /\ Verdict(reg, uri, scope, challenge) \in {"valid", "error"} =>
              /\ reg \in Registration /\ RedirectOf(reg, uri) \in URI
              /\ Registered(reg, RedirectOf(reg, uri))
              /\ Clean(reg) => KeepsPolicy(RedirectOf(reg, uri))
         /\ Verdict(reg, uri, scope, challenge) = "valid" => AllowsCode(reg)
         /\ Verdict(reg, uri, scope, challenge) = "assertion" =>
              reg # NoRow /\ uri = NoURI /\ reg.uris = {}
<1>1. RequestVerdict(reg, scope, challenge) \in {"valid", "error"}
  BY DEF RequestVerdict
<1>2. RedirectVerdict(reg, uri) \in {"valid", "bad_request", "assertion"}
  BY DEF RedirectVerdict
<1>3. RedirectVerdict(reg, uri) = "assertion" => uri = NoURI /\ reg.uris = {}
  BY DEF RedirectVerdict
<1>4. RequestVerdict(reg, scope, challenge) = "valid" => AllowsCode(reg)
  BY DEF RequestVerdict
<1>5. QED
  BY <1>1, <1>2, <1>3, <1>4, ValidRedirect, CleanRedirect DEF Verdict

\* A clean registration that accepts a request accepts it again with the redirect
\* URI it settled on: a default URI, which is not matched at first, is admitted by
\* the registration it comes from, also if its host is a wildcard.
LEMMA ValidAgain ==
  ASSUME NEW reg \in Registration, Clean(reg), NEW uri \in URI \cup {NoURI}, NEW scope, NEW challenge,
         Verdict(reg, uri, scope, challenge) = "valid"
  PROVE  Verdict(reg, RedirectOf(reg, uri), scope, TRUE) = "valid"
<1> DEFINE u == RedirectOf(reg, uri)
<1>1. reg # NoRow
  BY RowsAreRegistrations
<1>2. RedirectVerdict(reg, uri) = "valid" /\ RequestVerdict(reg, scope, challenge) = "valid"
  BY <1>1 DEF Verdict, RequestVerdict
<1>3. RequestVerdict(reg, scope, TRUE) = "valid"
  BY <1>2 DEF RequestVerdict
<1>4. u \in URI /\ u # NoURI /\ ~u.fragment
  BY <1>2, ValidRedirect, CleanRedirect, NoURIIsNone DEF KeepsPolicy
<1>5. RedirectToUriAllowed(u, reg.uris)
  <2>1. CASE uri = NoURI
    <3>1. reg.uris # {}
      BY <1>2, <2>1 DEF RedirectVerdict
    <3>2. u \in reg.uris
      BY <2>1, <3>1 DEF RedirectOf
    <3>3. HostAllowed(u.host, u.host)
      BY WildcardsAreUnderThemselves DEF HostAllowed
    <3>4. QED
      BY <3>2, <3>3 DEF RedirectToUriAllowed
  <2>2. CASE uri # NoURI
    BY <1>2, <2>2 DEF RedirectVerdict, RedirectOf
  <2>3. QED
    BY <2>1, <2>2
<1>6. RedirectVerdict(reg, u) = "valid"
  BY <1>4, <1>5 DEF RedirectVerdict
<1>7. QED
  BY <1>1, <1>3, <1>6 DEF Verdict

-----------------------------------------------------------------------------
(* The inductive invariant. *)

Going == Active \cup {"code"}

\* One journey, given the tables and the time: its URI was registered since it
\* began and keeps the policy, the current registration is among the fresh ones,
\* what it was granted was agreed to, a live token that covers it is remembered,
\* and the only registration it has seen accepts it.
Sound(j, ap, ts, gr, t) ==
  /\ j.phase \in Going => j.user \in User /\ j.client \in Application /\ j.uri \in URI
  /\ j.phase \in Going \cup {"error"} => (\E reg \in j.seen : Registered(reg, j.uri)) /\ KeepsPolicy(j.uri)
  /\ j.phase \in Active /\ ap[j.client] # NoRow => ap[j.client] \in j.fresh
  /\ j.phase \in {"store", "code"} => \E reg \in j.fresh : Registered(reg, j.uri) /\ AllowsCode(reg)
  /\ j.phase \in {"create", "store", "code"} =>
       /\ \A s \in j.scope : <<j.user, j.client, s>> \in gr
       /\ j.silent => j.held
  /\ j.phase \in {"application", "tokens", "form"} => ~j.silent
  /\ j.phase \in Active => \A tk \in ts :
       (tk.user = j.user /\ tk.client = j.client /\ j.scope \subseteq tk.scope /\ tk.expires > t) => j.held
  /\ j.phase \in Active => \A reg \in j.seen : j.seen = {reg} => Verdict(reg, j.uri, j.scope, TRUE) = "valid"
  /\ j.phase = "assertion" => \A reg \in j.seen : reg.grant \notin NeedsRedirectURI

\* Every saved application passed clean().
AppInv == \A a \in Application : app[a] # NoRow => Clean(app[a])

\* Every scope of a token was agreed to.
TokenInv == \A tk \in tokens : \A s \in tk.scope : <<tk.user, tk.client, s>> \in granted

JourneyInv == \A r \in Request : Sound(req[r], app, tokens, granted, now)

AuthorizationInv == TypeOK /\ AppInv /\ TokenInv /\ JourneyInv

-----------------------------------------------------------------------------
(* What happens to one journey. *)

\* Time passes, tokens and applications go, more is agreed to.
LEMMA SoundCarried ==
  ASSUME NEW j \in Journey, NEW ap, NEW ap2, NEW ts \in SUBSET Token, NEW ts2 \in SUBSET ts, NEW gr, NEW gr2,
         NEW t \in Nat, NEW t2 \in Nat, t <= t2, gr \subseteq gr2,
         \A a \in Application : ap2[a] = ap[a] \/ ap2[a] = NoRow,
         Sound(j, ap, ts, gr, t)
  PROVE  Sound(j, ap2, ts2, gr2, t2)
<1>1. \A tk \in ts2 : tk \in ts /\ (tk.expires > t2 => tk.expires > t)
  BY DEF Token
<1>2. j.phase \in Active => j.client \in Application
  BY DEF Sound, Going
<1>3. QED
  BY <1>1, <1>2 DEF Sound

\* The journey goes on with another phase.
LEMMA SoundMoved ==
  ASSUME NEW j \in Journey, NEW ap, NEW ts, NEW gr, NEW gr2, NEW t, NEW ph \in Going, NEW silent \in BOOLEAN,
         Sound(j, ap, ts, gr, t), gr \subseteq gr2, j.phase \in Active,
         ph \in {"application", "tokens", "form"} => ~silent,
         ph \in {"create", "store", "code"} =>
           (\A s \in j.scope : <<j.user, j.client, s>> \in gr2) /\ (silent => j.held),
         ph \in {"store", "code"} => \E reg \in j.fresh : Registered(reg, j.uri) /\ AllowsCode(reg)
  PROVE  Sound([j EXCEPT !.phase = ph, !.silent = silent], ap, ts, gr2, t)
<1> DEFINE k == [j EXCEPT !.phase = ph, !.silent = silent]
<1>1. /\ k.phase = ph /\ k.silent = silent /\ k.user = j.user /\ k.client = j.client /\ k.uri = j.uri
      /\ k.scope = j.scope /\ k.seen = j.seen /\ k.fresh = j.fresh /\ k.held = j.held
  BY DEF Journey
<1> HIDE DEF k
<1>2. ph # "assertion" /\ ph # "error" /\ j.phase \in Going
  BY DEF Going, Active
<1>3. Sound(k, ap, ts, gr2, t)
  BY <1>1, <1>2 DEF Sound
<1>4. QED
  BY <1>3 DEF k

\* The journey ends with an answer.
LEMMA SoundEnded ==
  ASSUME NEW j \in Journey, NEW ap, NEW ts, NEW gr, NEW t, NEW ap2, NEW ts2, NEW gr2, NEW t2,
         NEW a \in Answer \ {"code"}, Sound(j, ap, ts, gr, t), j.phase \in Active \/ a # "error"
  PROVE  Sound(Ended(j, a), ap2, ts2, gr2, t2)
<1>1. a \notin Going /\ a \notin Active /\ a \notin {"create", "store", "code", "application", "tokens", "form"}
  BY DEF Going, Active, Answer
<1>2. CASE a = "error"
  <2>1. Ended(j, a).phase = a /\ Ended(j, a).uri = j.uri /\ Ended(j, a).seen = j.seen
    BY <1>2 DEF Ended, NewJourney
  <2>2. (\E reg \in j.seen : Registered(reg, j.uri)) /\ KeepsPolicy(j.uri)
    BY <1>2 DEF Sound, Going
  <2>3. QED
    BY <1>1, <1>2, <2>1, <2>2 DEF Sound
<1>3. CASE a # "error"
  <2>1. Ended(j, a).phase = a /\ Ended(j, a).seen = {}
    BY <1>3 DEF Ended, NewJourney
  <2>2. QED
    BY <1>1, <1>3, <2>1 DEF Sound
<1>4. QED
  BY <1>2, <1>3

\* A journey that has not begun.
LEMMA SoundNew ==
  ASSUME NEW ap, NEW ts, NEW gr, NEW t
  PROVE  Sound(NewJourney, ap, ts, gr, t)
  BY DEF Sound, NewJourney, Going, Active

\* The records that an action writes are journeys.
LEMMA JourneyTypes ==
  ASSUME NEW j \in Journey
  PROVE  /\ NewJourney \in Journey
         /\ \A a \in Answer \ {"code"} : Ended(j, a) \in Journey
         /\ \A ph \in Going, silent \in BOOLEAN : [j EXCEPT !.phase = ph, !.silent = silent] \in Journey
         /\ \A ph \in Going : [j EXCEPT !.phase = ph] = [j EXCEPT !.phase = ph, !.silent = j.silent]
         /\ [j EXCEPT !.held = TRUE] \in Journey
<1>1. NewJourney \in Journey
  BY DEF NewJourney, Journey
<1>2. ASSUME NEW a \in Answer \ {"code"} PROVE Ended(j, a) \in Journey
  BY <1>2 DEF Ended, NewJourney, Journey
<1>3. ASSUME NEW ph \in Going, NEW silent \in BOOLEAN
      PROVE  [j EXCEPT !.phase = ph, !.silent = silent] \in Journey
  BY DEF Journey, Going, Answer
<1>4. ASSUME NEW ph \in Going
      PROVE  [j EXCEPT !.phase = ph] = [j EXCEPT !.phase = ph, !.silent = j.silent]
  BY DEF Journey
<1>5. [j EXCEPT !.held = TRUE] \in Journey
  BY DEF Journey
<1>6. QED
  BY <1>1, <1>2, <1>3, <1>4, <1>5

\* What Become writes.
LEMMA BecomeCases ==
  ASSUME req \in [Request -> Journey], NEW r \in Request, NEW ph, Become(r, ph)
  PROVE  /\ ph \in Going => req' = [req EXCEPT ![r] = [req[r] EXCEPT !.phase = ph, !.silent = req[r].silent]]
         /\ ph \in Answer \ {"code"} => req' = [req EXCEPT ![r] = Ended(req[r], ph)]
<1>1. req[r] \in Journey
  OBVIOUS
<1>2. ph \in Answer \ {"code"} => ph \notin Active \cup {"code"}
  BY DEF Answer, Active
<1>3. QED
  BY <1>1, <1>2, JourneyTypes DEF Become, Going

\* A visit touches one journey, and may add to what was agreed to.
LEMMA OneJourney ==
  ASSUME AuthorizationInv, NEW r \in Request, NEW k \in Journey, Sound(k, app, tokens, granted', now),
         req' = [req EXCEPT ![r] = k], UNCHANGED <<now, app, tokens, edits>>,
         granted \subseteq granted', granted' \subseteq (User \X Application \X Scope),
         req[r].phase # "code", codes' = codes \/ (codes' = codes \cup {r} /\ k.phase = "code")
  PROVE  AuthorizationInv'
<1>0. /\ now \in Nat /\ app \in [Application -> Registration \cup {NoRow}] /\ tokens \subseteq Token
      /\ codes \subseteq {q \in Request : req[q].phase = "code"} /\ req \in [Request -> Journey]
      /\ edits \in 0 .. MaxEdits
  BY DEF AuthorizationInv, TypeOK
<1>1. req' \in [Request -> Journey] /\ req'[r] = k /\ \A q \in Request \ {r} : req'[q] = req[q]
  BY <1>0
<1>2. codes' \subseteq {q \in Request : req'[q].phase = "code"}
  BY <1>0, <1>1
<1>3. TypeOK'
  BY <1>0, <1>1, <1>2 DEF TypeOK
<1>4. ASSUME NEW q \in Request PROVE Sound(req'[q], app', tokens', granted', now')
  <2>1. CASE q = r
    BY <1>1, <2>1
  <2>2. CASE q # r
    <3>1. Sound(req[q], app, tokens, granted, now) /\ req[q] \in Journey
      BY <1>0 DEF AuthorizationInv, JourneyInv
    <3>2. Sound(req[q], app, tokens, granted', now)
      BY <1>0, <3>1, SoundCarried
    <3>3. QED
      BY <1>1, <2>2, <3>2
  <2>3. QED
    BY <2>1, <2>2
<1>5. AppInv' /\ TokenInv'
  BY DEF AuthorizationInv, AppInv, TokenInv
<1>6. QED
  BY <1>3, <1>4, <1>5 DEF AuthorizationInv, JourneyInv

-----------------------------------------------------------------------------
(* The visits. *)

\* What Get writes of an accepted request.
Begin(u, a, uri, scope) ==
  [phase |-> "application", user |-> u, client |-> a, uri |-> RedirectOf(app[a], uri),
   scope |-> scope, seen |-> {app[a]}, fresh |-> {app[a]},
   held |-> Covering(u, a, scope), silent |-> FALSE]

\* What Get writes of a refused one.
Refused(a, uri, verdict) ==
  IF verdict = "error"
  THEN [[NewJourney EXCEPT !.seen = {app[a]} \ {NoRow}, !.phase = verdict] EXCEPT !.uri = RedirectOf(app[a], uri)]
  ELSE [NewJourney EXCEPT !.seen = {app[a]} \ {NoRow}, !.phase = verdict]

\* What Get comes to.
LEMMA GetCases ==
  ASSUME NEW r \in Request, Get(r)
  PROVE  \E u \in User, a \in Application, uri \in AskedURI \cup {NoURI}, scope \in SUBSET Scope, challenge \in BOOLEAN :
           \/ /\ Verdict(app[a], uri, scope, challenge) \in {"bad_request", "assertion", "error"}
              /\ req' = [req EXCEPT ![r] = Refused(a, uri, Verdict(app[a], uri, scope, challenge))]
           \/ req' = [req EXCEPT ![r] = [NewJourney EXCEPT !.phase = "to_login"]]
           \/ /\ Verdict(app[a], uri, scope, challenge) \notin {"bad_request", "assertion", "error"}
              /\ req' = [req EXCEPT ![r] = Begin(u, a, uri, scope)]
<1>1. PICK u \in User, a \in Application, uri \in AskedURI \cup {NoURI}, asked \in SUBSET Scope,
            challenge \in BOOLEAN, promptLogin \in BOOLEAN :
       req' = [req EXCEPT ![r] =
            IF Verdict(app[a], uri, ScopesOf(asked), challenge) \in {"bad_request", "assertion"}
            THEN [NewJourney EXCEPT !.seen = {app[a]} \ {NoRow}, !.phase = Verdict(app[a], uri, ScopesOf(asked), challenge)]
            ELSE IF Verdict(app[a], uri, ScopesOf(asked), challenge) = "error"
            THEN [[NewJourney EXCEPT !.seen = {app[a]} \ {NoRow}, !.phase = Verdict(app[a], uri, ScopesOf(asked), challenge)]
                   EXCEPT !.uri = RedirectOf(app[a], uri)]
            ELSE IF promptLogin THEN [NewJourney EXCEPT !.phase = "to_login"]
            ELSE [phase |-> "application", user |-> u, client |-> a, uri |-> RedirectOf(app[a], uri),
                  scope |-> ScopesOf(asked), seen |-> {app[a]}, fresh |-> {app[a]},
                  held |-> Covering(u, a, ScopesOf(asked)), silent |-> FALSE]]
  BY DEF Get
<1>2. PICK scope \in SUBSET Scope : scope = ScopesOf(asked)
  BY DefaultIsAvailable DEF ScopesOf
<1> DEFINE verdict == Verdict(app[a], uri, scope, challenge)
<1>3. verdict = Verdict(app[a], uri, ScopesOf(asked), challenge)
  BY <1>2
<1> HIDE DEF verdict
<1>4. CASE verdict \in {"bad_request", "assertion"}
  <2>1. req' = [req EXCEPT ![r] = Refused(a, uri, verdict)]
    BY <1>1, <1>3, <1>4 DEF Refused
  <2>2. QED
    BY <1>4, <2>1 DEF verdict
<1>5. CASE verdict = "error"
  <2>1. req' = [req EXCEPT ![r] = Refused(a, uri, verdict)]
    BY <1>1, <1>3, <1>5 DEF Refused
  <2>2. QED
    BY <1>5, <2>1 DEF verdict
<1>6. CASE verdict \notin {"bad_request", "assertion", "error"} /\ promptLogin
  <2>1. req' = [req EXCEPT ![r] = [NewJourney EXCEPT !.phase = "to_login"]]
    BY <1>1, <1>3, <1>6
  <2>2. QED
    BY <2>1
<1>7. CASE verdict \notin {"bad_request", "assertion", "error"} /\ ~promptLogin
  <2>1. req' = [req EXCEPT ![r] = Begin(u, a, uri, scope)]
    BY <1>1, <1>2, <1>3, <1>7 DEF Begin
  <2>2. QED
    BY <1>7, <2>1 DEF verdict
<1>8. QED
  BY <1>4, <1>5, <1>6, <1>7

\* A refused request leaves a sound journey.
LEMMA RefusedSound ==
  ASSUME AuthorizationInv, NEW a \in Application, NEW uri \in AskedURI \cup {NoURI}, NEW scope, NEW challenge,
         NEW verdict \in {"bad_request", "assertion", "error"},
         verdict = Verdict(app[a], uri, scope, challenge)
  PROVE  Refused(a, uri, verdict) \in Journey /\ Sound(Refused(a, uri, verdict), app, tokens, granted, now)
<1> DEFINE k == Refused(a, uri, verdict)
<1>0. uri \in URI \cup {NoURI} /\ app[a] \in Registration \cup {NoRow}
  BY NoURIIsNone DEF AuthorizationInv, TypeOK
<1>1. {app[a]} \ {NoRow} \subseteq Registration
  BY <1>0
<1>2. verdict = "error" => /\ app[a] \in Registration /\ RedirectOf(app[a], uri) \in URI
                           /\ Registered(app[a], RedirectOf(app[a], uri))
                           /\ KeepsPolicy(RedirectOf(app[a], uri))
  BY <1>0, VerdictCases, RowsAreRegistrations DEF AuthorizationInv, AppInv
<1>3. /\ k.phase = verdict /\ k.seen = {app[a]} \ {NoRow}
      /\ verdict = "error" => k.uri = RedirectOf(app[a], uri)
  BY DEF Refused, NewJourney
<1>4. k \in Journey
  BY <1>1, <1>2 DEF Refused, NewJourney, Journey, Answer
<1>5. verdict = "assertion" => \A reg \in k.seen : reg.grant \notin NeedsRedirectURI
  <2>1. verdict = "assertion" => app[a] # NoRow /\ app[a].uris = {}
    BY <1>0, VerdictCases
  <2>2. verdict = "assertion" => Clean(app[a])
    BY <2>1 DEF AuthorizationInv, AppInv
  <2>3. QED
    BY <1>3, <2>1, <2>2 DEF Clean, CleanURIs
<1>6. verdict = "error" => (\E reg \in k.seen : Registered(reg, k.uri)) /\ KeepsPolicy(k.uri)
  BY <1>2, <1>3, RowsAreRegistrations
<1> HIDE DEF k
<1>7. Sound(k, app, tokens, granted, now)
  BY <1>3, <1>5, <1>6 DEF Sound, Going, Active
<1>8. QED
  BY <1>4, <1>7 DEF k

\* An accepted request begins a sound journey.
LEMMA BeginSound ==
  ASSUME AuthorizationInv, NEW u \in User, NEW a \in Application,
         NEW uri \in AskedURI \cup {NoURI}, NEW scope \in SUBSET Scope, NEW challenge,
         Verdict(app[a], uri, scope, challenge) \notin {"bad_request", "assertion", "error"}
  PROVE  Begin(u, a, uri, scope) \in Journey /\ Sound(Begin(u, a, uri, scope), app, tokens, granted, now)
<1> DEFINE k == Begin(u, a, uri, scope)
           held == Covering(u, a, scope)
<1>0. uri \in URI \cup {NoURI} /\ app[a] \in Registration \cup {NoRow}
  BY NoURIIsNone DEF AuthorizationInv, TypeOK
<1>1. /\ app[a] \in Registration /\ RedirectOf(app[a], uri) \in URI
      /\ Registered(app[a], RedirectOf(app[a], uri)) /\ KeepsPolicy(RedirectOf(app[a], uri))
  BY <1>0, VerdictCases, RowsAreRegistrations DEF AuthorizationInv, AppInv
<1>2. held \in BOOLEAN /\ Verdict(app[a], RedirectOf(app[a], uri), scope, TRUE) = "valid"
  <2>1. held \in BOOLEAN
    BY DEF Covering, Covered
  <2>2. Verdict(app[a], uri, scope, challenge) = "valid" /\ Clean(app[a])
    BY <1>0, <1>1, VerdictCases, RowsAreRegistrations DEF AuthorizationInv, AppInv
  <2>3. Verdict(app[a], RedirectOf(app[a], uri), scope, TRUE) = "valid"
    BY <1>0, <1>1, <2>2, ValidAgain
  <2>4. QED
    BY <2>1, <2>3
<1>3. \A tk \in tokens : (tk.user = u /\ tk.client = a /\ scope \subseteq tk.scope /\ tk.expires > now) => held
  BY DEF Covering, Covered
<1> HIDE DEF held
<1>4. k = [phase |-> "application", user |-> u, client |-> a, uri |-> RedirectOf(app[a], uri),
           scope |-> scope, seen |-> {app[a]}, fresh |-> {app[a]}, held |-> held, silent |-> FALSE]
  BY DEF Begin, held
<1> HIDE DEF k
<1>5. k \in Journey
  BY <1>1, <1>2, <1>4 DEF Journey, Active
<1>6. Sound(k, app, tokens, granted, now)
  BY <1>1, <1>2, <1>3, <1>4 DEF Sound, Going, Active
<1>7. QED
  BY <1>5, <1>6 DEF k

\* A visit after which the journey goes on.
LEMMA GoesOn ==
  ASSUME AuthorizationInv, NEW r \in Request, NEW ph \in Going, NEW silent \in BOOLEAN,
         req' = [req EXCEPT ![r] = [req[r] EXCEPT !.phase = ph, !.silent = silent]],
         req[r].phase \in Active, UNCHANGED <<now, app, tokens, edits>>, granted \subseteq granted',
         granted' \subseteq (User \X Application \X Scope),
         codes' = codes \/ (codes' = codes \cup {r} /\ ph = "code"),
         ph \in {"application", "tokens", "form"} => ~silent,
         ph \in {"create", "store", "code"} =>
           (\A s \in req[r].scope : <<req[r].user, req[r].client, s>> \in granted') /\ (silent => req[r].held),
         ph \in {"store", "code"} => \E reg \in req[r].fresh : Registered(reg, req[r].uri) /\ AllowsCode(reg)
  PROVE  AuthorizationInv'
<1> DEFINE j == req[r]
           k == [j EXCEPT !.phase = ph, !.silent = silent]
<1>0. j \in Journey /\ Sound(j, app, tokens, granted, now)
  BY DEF AuthorizationInv, TypeOK, JourneyInv
<1>1. k \in Journey
  BY <1>0, JourneyTypes
<1>2. k.phase = ph
  BY <1>0 DEF Journey
<1>3. Sound(k, app, tokens, granted', now)
  BY <1>0, SoundMoved
<1>4. j.phase # "code"
  BY DEF Active
<1>5. req' = [req EXCEPT ![r] = k]
  OBVIOUS
<1>6. codes' = codes \/ (codes' = codes \cup {r} /\ k.phase = "code")
  BY <1>2
<1> HIDE DEF k
<1>7. QED
  BY <1>1, <1>3, <1>4, <1>5, <1>6, OneJourney

\* Each visit preserves the invariant.
LEMMA VisitStep ==
  ASSUME AuthorizationInv, NEW r \in Request, Visit(r)
  PROVE  AuthorizationInv'
<1>0. /\ req \in [Request -> Journey] /\ req[r] \in Journey
      /\ granted \subseteq (User \X Application \X Scope) /\ app \in [Application -> Registration \cup {NoRow}]
      /\ Sound(req[r], app, tokens, granted, now) /\ tokens \subseteq Token /\ now \in Nat
  BY DEF AuthorizationInv, TypeOK, JourneyInv
<1> DEFINE j == req[r]
<1>a. ASSUME NEW a \in Answer \ {"code"}, j.phase \in Active \/ (j.phase = "idle" /\ a # "error"), Become(r, a),
             UNCHANGED <<now, app, tokens, codes, granted, edits>>
      PROVE  AuthorizationInv'
  <2>1. Ended(j, a) \in Journey /\ Sound(Ended(j, a), app, tokens, granted, now)
    BY <1>0, <1>a, JourneyTypes, SoundEnded
  <2>2. req' = [req EXCEPT ![r] = Ended(j, a)]
    BY <1>0, <1>a, BecomeCases
  <2>3. j.phase # "code"
    BY <1>a DEF Active
  <2>4. QED
    BY <1>0, <1>a, <2>1, <2>2, <2>3, OneJourney
<1>b. "create" \in Going /\ "tokens" \in Going /\ "form" \in Going /\ "store" \in Going /\ "code" \in Going
  BY DEF Going, Active
<1>c. ASSUME NEW uri, NEW promptNone
      PROVE  NoPermission(uri, promptNone) \in {"to_login", "login_required", "bad_request"}
  BY DEF NoPermission
<1>1. CASE VisitAnonymously(r)
  <2>1. PICK uri \in AskedURI \cup {NoURI}, promptNone \in BOOLEAN :
          req' = [req EXCEPT ![r] = Ended([NewJourney EXCEPT !.uri = uri], NoPermission(uri, promptNone))]
    BY <1>1 DEF VisitAnonymously
  <2>2. UNCHANGED <<now, app, tokens, codes, granted, edits>> /\ j.phase # "code"
    BY <1>1 DEF VisitAnonymously
  <2> DEFINE i == [NewJourney EXCEPT !.uri = uri]
             answer == NoPermission(uri, promptNone)
  <2>3. i \in Journey /\ i.phase = "idle" /\ i.seen = {}
    BY NoURIIsNone DEF NewJourney, Journey
  <2>4. Sound(i, app, tokens, granted, now)
    BY <2>3 DEF Sound, Going, Active
  <2>5. answer \in Answer \ {"code"} /\ answer # "error"
    BY <1>c DEF Answer
  <2> HIDE DEF i, answer
  <2>6. Ended(i, answer) \in Journey /\ Sound(Ended(i, answer), app, tokens, granted, now)
    BY <2>3, <2>4, <2>5, JourneyTypes, SoundEnded
  <2>7. req' = [req EXCEPT ![r] = Ended(i, answer)]
    BY <2>1 DEF i, answer
  <2>8. QED
    BY <1>0, <2>2, <2>6, <2>7, OneJourney
<1>2. CASE Get(r)
  <2>1. UNCHANGED <<now, app, tokens, codes, granted, edits>> /\ j.phase # "code"
    BY <1>2 DEF Get
  <2>2. \E k \in Journey : Sound(k, app, tokens, granted, now) /\ req' = [req EXCEPT ![r] = k]
    <3>1. PICK u \in User, a \in Application, uri \in AskedURI \cup {NoURI}, scope \in SUBSET Scope,
                challenge \in BOOLEAN :
           \/ /\ Verdict(app[a], uri, scope, challenge) \in {"bad_request", "assertion", "error"}
              /\ req' = [req EXCEPT ![r] = Refused(a, uri, Verdict(app[a], uri, scope, challenge))]
           \/ req' = [req EXCEPT ![r] = [NewJourney EXCEPT !.phase = "to_login"]]
           \/ /\ Verdict(app[a], uri, scope, challenge) \notin {"bad_request", "assertion", "error"}
              /\ req' = [req EXCEPT ![r] = Begin(u, a, uri, scope)]
      BY <1>2, GetCases
    <3>2. CASE req' = [req EXCEPT ![r] = [NewJourney EXCEPT !.phase = "to_login"]]
      <4>1. Ended(j, "to_login") = [NewJourney EXCEPT !.phase = "to_login"]
        BY DEF Ended
      <4>2. Ended(j, "to_login") \in Journey /\ Sound(Ended(j, "to_login"), app, tokens, granted, now)
        BY <1>0, JourneyTypes, SoundEnded DEF Answer
      <4>3. QED
        BY <3>2, <4>1, <4>2
    <3>3. CASE /\ Verdict(app[a], uri, scope, challenge) \in {"bad_request", "assertion", "error"}
               /\ req' = [req EXCEPT ![r] = Refused(a, uri, Verdict(app[a], uri, scope, challenge))]
      BY <3>3, RefusedSound
    <3>4. CASE /\ Verdict(app[a], uri, scope, challenge) \notin {"bad_request", "assertion", "error"}
               /\ req' = [req EXCEPT ![r] = Begin(u, a, uri, scope)]
      BY <3>4, BeginSound
    <3>5. QED
      BY <3>1, <3>2, <3>3, <3>4
  <2>3. QED
    BY <1>0, <2>1, <2>2, OneJourney
<1>3. CASE LoadApplication(r)
  <2>0. UNCHANGED <<now, app, tokens, codes, edits>> /\ j.phase = "application" /\ j.phase \in Active
    BY <1>3 DEF LoadApplication, Active
  <2>s. ~j.silent /\ j.silent \in BOOLEAN /\ j.user \in User /\ j.client \in Application /\ j.scope \subseteq Scope
    BY <1>0, <2>0 DEF Sound, Going, Journey
  <2>1. CASE Become(r, "server_error") /\ UNCHANGED granted
    BY <2>0, <2>1, <1>a DEF Answer
  <2>2. CASE Become(r, "create") /\ granted' = granted \cup Agreed(r)
    <3>1. req' = [req EXCEPT ![r] = [j EXCEPT !.phase = "create", !.silent = j.silent]]
      BY <1>0, <2>2, BecomeCases DEF Going, Active
    <3>2. \A s \in j.scope : <<j.user, j.client, s>> \in granted'
      BY <2>2 DEF Agreed
    <3>3. granted' \subseteq (User \X Application \X Scope)
      BY <1>0, <2>2, <2>s DEF Agreed
    <3>4. granted \subseteq granted'
      BY <2>2
    <3>5. QED
      BY <1>b, <2>0, <2>s, <3>1, <3>2, <3>3, <3>4, GoesOn
  <2>3. ASSUME NEW ph \in {"tokens", "form"}, Become(r, ph), UNCHANGED granted PROVE AuthorizationInv'
    <3>1. req' = [req EXCEPT ![r] = [j EXCEPT !.phase = ph, !.silent = j.silent]]
      BY <1>0, <2>3, BecomeCases DEF Going, Active
    <3>2. QED
      BY <1>0, <1>b, <2>0, <2>s, <2>3, <3>1, GoesOn
  <2>4. QED
    BY <1>3, <2>1, <2>2, <2>3 DEF LoadApplication
<1>4. CASE CheckTokens(r)
  <2>0. UNCHANGED <<now, app, tokens, codes, granted, edits>> /\ j.phase = "tokens" /\ j.phase \in Active
    BY <1>4 DEF CheckTokens, Active
  <2>s. ~j.silent /\ j.silent \in BOOLEAN
    BY <1>0, <2>0 DEF Sound, Journey
  <2>1. CASE Covered(PastTokens(j.user, j.client), j.scope)
    <3>1. PICK tk \in tokens : /\ tk.user = j.user /\ tk.client = j.client /\ tk.expires > now
                               /\ j.scope \subseteq tk.scope
      BY <2>1 DEF Covered, PastTokens
    <3>2. j.held
      BY <1>0, <2>0, <3>1 DEF Sound
    <3>3. \A s \in j.scope : <<j.user, j.client, s>> \in granted
      BY <3>1 DEF AuthorizationInv, TokenInv
    <3>4. req' = [req EXCEPT ![r] = [j EXCEPT !.phase = "create", !.silent = TRUE]]
      BY <1>4, <2>1 DEF CheckTokens
    <3>5. QED
      BY <1>0, <1>b, <2>0, <3>2, <3>3, <3>4, GoesOn
  <2>2. CASE ~Covered(PastTokens(j.user, j.client), j.scope)
    <3>1. req' = [req EXCEPT ![r] = [j EXCEPT !.phase = "form"]]
      BY <1>4, <2>2 DEF CheckTokens
    <3>2. req' = [req EXCEPT ![r] = [j EXCEPT !.phase = "form", !.silent = j.silent]]
      BY <1>0, <3>1, JourneyTypes DEF Going, Active
    <3>3. QED
      BY <1>0, <1>b, <2>0, <2>s, <3>2, GoesOn
  <2>3. QED
    BY <2>1, <2>2
<1>5. CASE Post(r)
  <2>0. UNCHANGED <<now, app, tokens, codes, edits>> /\ j.phase = "form" /\ j.phase \in Active
    BY <1>5 DEF Post, Active
  <2>s. ~j.silent /\ j.silent \in BOOLEAN /\ j.user \in User /\ j.client \in Application /\ j.scope \subseteq Scope
    BY <1>0, <2>0 DEF Sound, Going, Journey
  <2>1. ASSUME NEW a \in {"to_login", "login_required", "bad_request", "server_error", "error"},
               Become(r, a), UNCHANGED granted
        PROVE  AuthorizationInv'
    BY <2>0, <2>1, <1>a DEF Answer
  <2>2. CASE /\ app[j.client] # NoRow
             /\ req' = [req EXCEPT ![r].phase = "create", ![r].fresh = {app[j.client]}]
             /\ granted' = granted \cup Agreed(r)
    <3> DEFINE k == [j EXCEPT !.phase = "create", !.fresh = {app[j.client]}]
    <3>1. req' = [req EXCEPT ![r] = k]
      BY <1>0, <2>2
    <3>2. /\ k.phase = "create" /\ k.fresh = {app[j.client]} /\ k.user = j.user /\ k.client = j.client
          /\ k.uri = j.uri /\ k.scope = j.scope /\ k.seen = j.seen /\ k.held = j.held /\ k.silent = j.silent
      BY <1>0 DEF Journey
    <3>3. k \in Journey
      BY <1>0, <2>s, <2>2 DEF Journey, Active
    <3>4. \A s \in j.scope : <<j.user, j.client, s>> \in granted'
      BY <2>2 DEF Agreed
    <3>5. granted' \subseteq (User \X Application \X Scope)
      BY <1>0, <2>2, <2>s DEF Agreed
    <3> HIDE DEF k
    <3>6. Sound(k, app, tokens, granted', now)
      BY <1>0, <2>0, <2>s, <3>2, <3>4 DEF Sound, Going, Active
    <3>7. QED
      BY <2>0, <2>2, <3>1, <3>3, <3>5, <3>6, OneJourney
  <2>3. CASE (\E promptNone \in BOOLEAN : Become(r, NoPermission(j.uri, promptNone))) /\ UNCHANGED granted
    <3>1. PICK promptNone \in BOOLEAN : Become(r, NoPermission(j.uri, promptNone))
      BY <2>3
    <3>2. QED
      BY <1>c, <2>1, <2>3, <3>1
  <2>4. QED
    BY <1>5, <2>1, <2>2, <2>3 DEF Post
<1>6. CASE Create(r)
  <2>0. UNCHANGED <<now, app, tokens, codes, granted, edits>> /\ j.phase = "create" /\ j.phase \in Active
    BY <1>6 DEF Create, Active
  <2>s. /\ j.silent \in BOOLEAN /\ j.user \in User /\ j.client \in Application /\ j.uri \in URI
        /\ app[j.client] # NoRow => app[j.client] \in j.fresh
        /\ \A s \in j.scope : <<j.user, j.client, s>> \in granted
        /\ j.silent => j.held
    BY <1>0, <2>0 DEF Sound, Going, Journey
  <2> DEFINE verdict == Verdict(app[j.client], j.uri, j.scope, TRUE)
  <2>1. verdict \in {"valid", "error", "bad_request", "assertion"}
    BY <1>0, <2>s, VerdictCases
  <2>2. CASE verdict = "valid"
    <3>1. /\ Registered(app[j.client], j.uri) /\ AllowsCode(app[j.client]) /\ app[j.client] # NoRow
      BY <1>0, <2>s, <2>2, VerdictCases, NoURIIsNone, RowsAreRegistrations DEF RedirectOf
    <3>2. Become(r, "store")
      BY <1>6, <2>2 DEF Create
    <3>3. req' = [req EXCEPT ![r] = [j EXCEPT !.phase = "store", !.silent = j.silent]]
      BY <1>0, <3>2, BecomeCases DEF Going, Active
    <3>4. QED
      BY <1>0, <1>b, <2>0, <2>s, <3>1, <3>3, GoesOn
  <2>3. CASE verdict # "valid"
    <3>1. Become(r, verdict)
      BY <1>6, <2>3 DEF Create
    <3>2. verdict \in Answer \ {"code"}
      BY <2>1, <2>3 DEF Answer
    <3> HIDE DEF verdict
    <3>3. QED
      BY <2>0, <3>1, <3>2, <1>a
  <2>4. QED
    BY <2>2, <2>3
<1>7. CASE Store(r)
  <2>0. UNCHANGED <<now, app, tokens, granted, edits>> /\ j.phase = "store" /\ j.phase \in Active
    BY <1>7 DEF Store, Active
  <2>s. /\ j.silent \in BOOLEAN
        /\ \E reg \in j.fresh : Registered(reg, j.uri) /\ AllowsCode(reg)
        /\ \A s \in j.scope : <<j.user, j.client, s>> \in granted
        /\ j.silent => j.held
    BY <1>0, <2>0 DEF Sound, Going, Journey
  <2>1. CASE Become(r, "server_error") /\ UNCHANGED codes
    BY <2>0, <2>1, <1>a DEF Answer
  <2>2. CASE Become(r, "code") /\ codes' = codes \cup {r}
    <3>1. req' = [req EXCEPT ![r] = [j EXCEPT !.phase = "code", !.silent = j.silent]]
      BY <1>0, <2>2, BecomeCases DEF Going
    <3>2. QED
      BY <1>0, <1>b, <2>0, <2>s, <2>2, <3>1, GoesOn
  <2>3. QED
    BY <1>7, <2>1, <2>2 DEF Store
<1>8. QED
  BY <1>1, <1>2, <1>3, <1>4, <1>5, <1>6, <1>7 DEF Visit

-----------------------------------------------------------------------------
(* The rest of the system. *)

\* A live token of this user and client is remembered by the journey it covers.
LEMMA SoundHeld ==
  ASSUME NEW j \in Journey, NEW ap, NEW ts, NEW gr, NEW t, NEW tk,
         Sound(j, ap, ts, gr, t)
  PROVE  Sound([j EXCEPT !.held = TRUE], ap, ts \cup {tk}, gr, t)
<1> DEFINE k == [j EXCEPT !.held = TRUE]
<1>1. /\ k.phase = j.phase /\ k.silent = j.silent /\ k.user = j.user /\ k.client = j.client /\ k.uri = j.uri
      /\ k.scope = j.scope /\ k.seen = j.seen /\ k.fresh = j.fresh /\ k.held
  BY DEF Journey
<1> HIDE DEF k
<1>2. Sound(k, ap, ts \cup {tk}, gr, t)
  BY <1>1 DEF Sound
<1>3. QED
  BY <1>2 DEF k

\* Exchanging a code keeps the invariant: what the token covers was agreed to,
\* and the journeys it covers remember it.
LEMMA ExchangeStep ==
  ASSUME AuthorizationInv, NEW r \in Request, Exchange(r)
  PROVE  AuthorizationInv'
<1> DEFINE tk == TokenOf(r)
<1>0. /\ now \in Nat /\ app \in [Application -> Registration \cup {NoRow}] /\ tokens \subseteq Token
      /\ codes \subseteq {q \in Request : req[q].phase = "code"} /\ req \in [Request -> Journey]
      /\ granted \subseteq (User \X Application \X Scope) /\ edits \in 0 .. MaxEdits
  BY DEF AuthorizationInv, TypeOK
<1>1. /\ r \in codes /\ tokens' = tokens \cup {tk} /\ req' = Holding(r, tk) /\ codes' = codes \ {r}
      /\ UNCHANGED <<now, app, granted, edits>>
  BY DEF Exchange
<1>2. /\ req[r].phase = "code" /\ req[r] \in Journey /\ Sound(req[r], app, tokens, granted, now)
  BY <1>0, <1>1 DEF AuthorizationInv, JourneyInv
<1>3. /\ req[r].user \in User /\ req[r].client \in Application /\ req[r].scope \subseteq Scope
      /\ \A s \in req[r].scope : <<req[r].user, req[r].client, s>> \in granted
  BY <1>2 DEF Sound, Going, Journey
<1>4. /\ tk.user = req[r].user /\ tk.client = req[r].client /\ tk.scope = req[r].scope /\ tk \in Token
  BY <1>0, <1>3, BoundsAreNat DEF TokenOf, Token
<1>5. TokenInv'
  BY <1>1, <1>3, <1>4 DEF AuthorizationInv, TokenInv
<1> HIDE DEF tk
<1>6. ASSUME NEW q \in Request
      PROVE  /\ req'[q] \in Journey /\ Sound(req'[q], app, tokens', granted, now)
             /\ q # r => req'[q].phase = req[q].phase
  <2>0. req[q] \in Journey /\ Sound(req[q], app, tokens, granted, now)
    BY <1>0 DEF AuthorizationInv, JourneyInv
  <2> DEFINE covers == /\ req[q].phase \in Active /\ req[q].user = tk.user /\ req[q].client = tk.client
                       /\ req[q].scope \subseteq tk.scope
  <2>1. CASE q = r
    <3>1. req'[q] = NewJourney
      BY <1>1, <2>1 DEF Holding
    <3>2. QED
      BY <2>0, <2>1, <3>1, SoundNew, JourneyTypes
  <2>2. CASE q # r /\ covers
    <3>1. req'[q] = [req[q] EXCEPT !.held = TRUE]
      BY <1>1, <2>2 DEF Holding
    <3>2. [req[q] EXCEPT !.held = TRUE].phase = req[q].phase
      BY <2>0 DEF Journey
    <3>3. [req[q] EXCEPT !.held = TRUE] \in Journey
      BY <2>0, JourneyTypes
    <3>4. Sound([req[q] EXCEPT !.held = TRUE], app, tokens \cup {tk}, granted, now)
      BY <2>0, SoundHeld
    <3>5. QED
      BY <1>1, <3>1, <3>2, <3>3, <3>4
  <2>3. CASE q # r /\ ~covers
    <3>1. req'[q] = req[q]
      BY <1>1, <2>3 DEF Holding
    <3>2. Sound(req[q], app, tokens', granted, now)
      BY <1>1, <2>0, <2>3 DEF Sound
    <3>3. QED
      BY <2>0, <3>1, <3>2
  <2>4. QED
    BY <2>1, <2>2, <2>3
<1>7. req' \in [Request -> Journey]
  <2>1. req' = [q \in Request |-> req'[q]]
    BY <1>1 DEF Holding
  <2>2. QED
    BY <1>6, <2>1
<1>8. codes' \subseteq {q \in Request : req'[q].phase = "code"}
  BY <1>0, <1>1, <1>6
<1>9. TypeOK'
  BY <1>0, <1>1, <1>4, <1>7, <1>8 DEF TypeOK
<1>10. AppInv' /\ JourneyInv'
  BY <1>1, <1>6 DEF AuthorizationInv, AppInv, JourneyInv
<1>11. QED
  BY <1>5, <1>9, <1>10 DEF AuthorizationInv

\* The steps that leave the journeys alone, and take tokens and applications
\* away or let time pass.
LEMMA QuietStep ==
  ASSUME AuthorizationInv, UNCHANGED <<req, granted>>, tokens' \subseteq tokens, codes' \subseteq codes,
         now' \in Nat, now <= now', edits' \in 0 .. MaxEdits,
         app' \in [Application -> Registration \cup {NoRow}],
         \A a \in Application : app'[a] = app[a] \/ app'[a] = NoRow
  PROVE  AuthorizationInv'
<1>1. /\ now \in Nat /\ tokens \subseteq Token /\ req \in [Request -> Journey]
      /\ codes \subseteq {q \in Request : req[q].phase = "code"}
      /\ granted \subseteq (User \X Application \X Scope)
  BY DEF AuthorizationInv, TypeOK
<1>2. TypeOK'
  BY <1>1 DEF TypeOK
<1>3. AppInv' /\ TokenInv'
  BY DEF AuthorizationInv, AppInv, TokenInv
<1>4. ASSUME NEW r \in Request PROVE Sound(req[r], app', tokens', granted, now')
  <2>1. req[r] \in Journey /\ Sound(req[r], app, tokens, granted, now)
    BY <1>1 DEF AuthorizationInv, JourneyInv
  <2>2. QED
    BY <1>1, <2>1, SoundCarried
<1>5. QED
  BY <1>2, <1>3, <1>4 DEF AuthorizationInv, JourneyInv

\* What an edit of its application does to a journey.
LEMMA SoundEdited ==
  ASSUME NEW j \in Journey, NEW ap, NEW ap2, NEW ts, NEW gr, NEW t, NEW a \in Application, NEW reg,
         j.phase \in Active, j.client = a, ap2[a] = reg, Sound(j, ap, ts, gr, t)
  PROVE  Sound([j EXCEPT !.seen = @ \cup {reg}, !.fresh = @ \cup {reg}], ap2, ts, gr, t)
<1> DEFINE k == [j EXCEPT !.seen = @ \cup {reg}, !.fresh = @ \cup {reg}]
<1>1. /\ k.phase = j.phase /\ k.silent = j.silent /\ k.user = j.user /\ k.client = j.client /\ k.uri = j.uri
      /\ k.scope = j.scope /\ k.seen = j.seen \cup {reg} /\ k.fresh = j.fresh \cup {reg} /\ k.held = j.held
  BY DEF Journey
<1> HIDE DEF k
<1>2. j.phase # "assertion" /\ j.phase \in Going
  BY DEF Active, Going
<1>3. j.seen # {} /\ \A x : j.seen \cup {reg} = {x} => j.seen = {x}
  BY <1>2 DEF Sound
<1>4. ASSUME NEW x \in k.seen, k.seen = {x} PROVE Verdict(x, k.uri, k.scope, TRUE) = "valid"
  <2>1. j.seen = {x} /\ x \in j.seen
    BY <1>1, <1>3, <1>4
  <2>2. QED
    BY <1>1, <2>1 DEF Sound
<1>5. Sound(k, ap2, ts, gr, t)
  BY <1>1, <1>2, <1>4 DEF Sound
<1>6. QED
  BY <1>5 DEF k

\* Saving an application that its form accepts keeps the invariant.
LEMMA UpdateStep ==
  ASSUME AuthorizationInv, NEW a \in Application, UpdateApplication(a)
  PROVE  AuthorizationInv'
<1>0. /\ now \in Nat /\ app \in [Application -> Registration \cup {NoRow}] /\ tokens \subseteq Token
      /\ codes \subseteq {q \in Request : req[q].phase = "code"} /\ req \in [Request -> Journey]
      /\ granted \subseteq (User \X Application \X Scope) /\ edits \in 0 .. MaxEdits
  BY DEF AuthorizationInv, TypeOK
<1>1. PICK reg \in Registration :
        /\ Clean(reg)
        /\ app' = [app EXCEPT ![a] = reg]
        /\ req' = [r \in Request |->
             IF req[r].phase \in Active /\ req[r].client = a
             THEN [req[r] EXCEPT !.seen = @ \cup {reg}, !.fresh = @ \cup {reg}] ELSE req[r]]
  BY Zenon DEF UpdateApplication
<1>2. edits' \in 0 .. MaxEdits /\ UNCHANGED <<now, tokens, codes, granted>>
  <2>1. edits < MaxEdits /\ edits' = edits + 1 /\ UNCHANGED <<now, tokens, codes, granted>>
    BY Zenon DEF UpdateApplication
  <2>2. QED
    BY <1>0, <2>1, BoundsAreNat
<1>3. /\ app' \in [Application -> Registration \cup {NoRow}] /\ app'[a] = reg
      /\ \A b \in Application \ {a} : app'[b] = app[b]
  BY <1>0, <1>1
<1>4. AppInv' /\ TokenInv'
  BY <1>1, <1>2, <1>3 DEF AuthorizationInv, AppInv, TokenInv
<1>5. ASSUME NEW q \in Request
      PROVE  req'[q] \in Journey /\ Sound(req'[q], app', tokens, granted, now) /\ req'[q].phase = req[q].phase
  <2>0. req[q] \in Journey /\ Sound(req[q], app, tokens, granted, now)
    BY <1>0 DEF AuthorizationInv, JourneyInv
  <2>1. CASE req[q].phase \in Active /\ req[q].client = a
    <3>1. req'[q] = [req[q] EXCEPT !.seen = @ \cup {reg}, !.fresh = @ \cup {reg}]
      BY <1>1, <2>1
    <3>2. [req[q] EXCEPT !.seen = @ \cup {reg}, !.fresh = @ \cup {reg}] \in Journey
      BY <2>0 DEF Journey
    <3>3. [req[q] EXCEPT !.seen = @ \cup {reg}, !.fresh = @ \cup {reg}].phase = req[q].phase
      BY <2>0 DEF Journey
    <3>4. Sound([req[q] EXCEPT !.seen = @ \cup {reg}, !.fresh = @ \cup {reg}], app', tokens, granted, now)
      BY <1>3, <2>0, <2>1, SoundEdited
    <3>5. QED
      BY <3>1, <3>2, <3>3, <3>4
  <2>2. CASE ~(req[q].phase \in Active /\ req[q].client = a)
    <3>1. req'[q] = req[q]
      BY <1>1, <2>2
    <3>2. req[q].phase \in Active => req[q].client \in Application \ {a}
      BY <2>0, <2>2 DEF Sound, Going
    <3>3. Sound(req[q], app', tokens, granted, now)
      BY <1>3, <2>0, <3>2 DEF Sound
    <3>4. QED
      BY <2>0, <3>1, <3>3
  <2>3. QED
    BY <2>1, <2>2
<1>6. req' \in [Request -> Journey]
  <2>1. req' = [q \in Request |-> req'[q]]
    BY <1>1
  <2>2. QED
    BY <1>5, <2>1
<1>7. codes' \subseteq {q \in Request : req'[q].phase = "code"}
  BY <1>0, <1>2, <1>5
<1>8. TypeOK'
  BY <1>0, <1>2, <1>3, <1>6, <1>7 DEF TypeOK
<1>9. JourneyInv'
  BY <1>2, <1>5 DEF JourneyInv
<1>10. QED
  BY <1>4, <1>8, <1>9 DEF AuthorizationInv

-----------------------------------------------------------------------------
(* The invariant. *)

\* It holds to begin with: the first registrations passed clean().
LEMMA InvInit ==
  ASSUME Init
  PROVE  AuthorizationInv
<1>1. NewJourney \in Journey
  BY DEF NewJourney, Journey
<1>2. TypeOK
  BY <1>1, FirstIsClean, BoundsAreNat DEF Init, TypeOK
<1>3. AppInv /\ TokenInv
  BY FirstIsClean DEF Init, AppInv, TokenInv
<1>4. JourneyInv
  BY SoundNew DEF Init, JourneyInv
<1>5. QED
  BY <1>2, <1>3, <1>4 DEF AuthorizationInv

\* Every step preserves it.
LEMMA InvStep ==
  ASSUME AuthorizationInv, [Next]_vars
  PROVE  AuthorizationInv'
<1>0. /\ now \in Nat /\ edits \in 0 .. MaxEdits /\ app \in [Application -> Registration \cup {NoRow}]
  BY DEF AuthorizationInv, TypeOK
<1>1. ASSUME NEW r \in Request, Visit(r) PROVE AuthorizationInv'
  BY <1>1, VisitStep
<1>2. ASSUME NEW r \in Request, Exchange(r) PROVE AuthorizationInv'
  BY <1>2, ExchangeStep
<1>3. ASSUME NEW a \in Application, UpdateApplication(a) PROVE AuthorizationInv'
  BY <1>3, UpdateStep
<1>4. ASSUME NEW a \in Application, DeleteApplication(a) PROVE AuthorizationInv'
  <2>1. UNCHANGED <<now, req, granted>> /\ tokens' \subseteq tokens /\ codes' \subseteq codes
    BY <1>4 DEF DeleteApplication
  <2>2. edits' \in 0 .. MaxEdits
    BY <1>0, <1>4, BoundsAreNat DEF DeleteApplication
  <2>3. /\ app' \in [Application -> Registration \cup {NoRow}]
        /\ \A b \in Application : app'[b] = app[b] \/ app'[b] = NoRow
    BY <1>0, <1>4 DEF DeleteApplication
  <2>4. QED
    BY <1>0, <2>1, <2>2, <2>3, QuietStep
<1>5. CASE Revoke
  <2>1. tokens' \subseteq tokens /\ UNCHANGED <<now, app, codes, req, granted, edits>>
    BY <1>5 DEF Revoke
  <2>2. QED
    BY <1>0, <2>1, QuietStep
<1>6. CASE Tick
  <2>1. now' = now + 1 /\ UNCHANGED <<app, tokens, codes, req, granted, edits>>
    BY <1>6 DEF Tick
  <2>2. now' \in Nat /\ now <= now'
    BY <1>0, <2>1
  <2>3. QED
    BY <1>0, <2>1, <2>2, QuietStep
<1>7. CASE UNCHANGED vars
  <2>1. UNCHANGED <<now, app, tokens, codes, req, granted, edits>>
    BY <1>7 DEF vars
  <2>2. QED
    BY <1>0, <2>1, QuietStep
<1>8. QED
  BY <1>1, <1>2, <1>3, <1>4, <1>5, <1>6, <1>7 DEF Next

\* The invariant holds in every behaviour.
THEOREM InvCorrect == Spec => []AuthorizationInv
<1>1. Init => AuthorizationInv
  BY InvInit
<1>2. AuthorizationInv /\ [Next]_vars => AuthorizationInv'
  BY InvStep
<1>3. QED
  BY <1>1, <1>2, PTL DEF Spec

\* The tables and the journeys stay well typed; in particular every code in
\* the Grant table belongs to a journey that was answered with a code.
THEOREM TypeCorrect == Spec => []TypeOK
<1>1. AuthorizationInv => TypeOK
  BY DEF AuthorizationInv
<1>2. QED
  BY <1>1, InvCorrect, PTL

\* However owners edit the application between the GET and the code, a code
\* goes to a URI registered, with a grant type that allows codes, since the
\* browser's last request, and the error of a validated request to one registered
\* since the first.  (login_required is answered before any validation.)
THEOREM Redirects == Spec => []RedirectsAreRegistered
<1>1. AuthorizationInv => RedirectsAreRegistered
  BY DEF AuthorizationInv, JourneyInv, Sound, Going, RedirectsAreRegistered
<1>2. QED
  BY <1>1, InvCorrect, PTL

\* What clean() let into the table is enough: no redirect with a code or with the
\* error of a validated request is refused or has a fragment, because the
\* registration its URI came from was clean when the journey began, and no
\* application that redirects lacks a URI.
THEOREM CleanSuffices == Spec => []SavedApplicationsSuffice
<1>1. AuthorizationInv => SavedApplicationsSuffice
  BY DEF AuthorizationInv, JourneyInv, Sound, Going, SavedApplicationsSuffice
<1>2. QED
  BY <1>1, InvCorrect, PTL

\* The request is validated twice, at the GET and before the code is stored, and
\* the redirect URI it settled on stands for the one it had or lacked.  The second
\* validation refuses nothing that the first accepted unless the application was
\* edited or deleted in between: also not a default URI, matched only then.
THEOREM SecondLookAgrees ==
  Spec => [][\A r \in Request :
               Create(r) /\ req[r].seen = {app[req[r].client]} => req'[r].phase = "store"]_vars
<1> DEFINE Agrees == \A r \in Request :
             Create(r) /\ req[r].seen = {app[req[r].client]} => req'[r].phase = "store"
<1>1. ASSUME AuthorizationInv, NEW r \in Request, Create(r), req[r].seen = {app[req[r].client]}
      PROVE  req'[r].phase = "store"
  <2>1. /\ req \in [Request -> Journey] /\ req[r] \in Journey
        /\ Sound(req[r], app, tokens, granted, now) /\ req[r].phase = "create"
    BY <1>1 DEF AuthorizationInv, TypeOK, JourneyInv, Create
  <2>2. Verdict(app[req[r].client], req[r].uri, req[r].scope, TRUE) = "valid"
    BY <1>1, <2>1 DEF Sound, Active
  <2>3. Become(r, "store")
    BY <1>1, <2>2 DEF Create
  <2>4. req' = [req EXCEPT ![r] = [req[r] EXCEPT !.phase = "store"]]
    BY <2>3 DEF Become, Active
  <2>5. QED
    BY <2>1, <2>4 DEF Journey
<1>2. AuthorizationInv /\ [Next]_vars => [Agrees]_vars
  BY <1>1
<1>3. QED
  BY <1>2, InvCorrect, PTL DEF Spec

\* Silent approvals never widen what the user agreed to: the scopes of every
\* code and token were once agreed to for that client.
THEOREM Consent == Spec => []ConsentIsGrounded
<1>1. AuthorizationInv => ConsentIsGrounded
  <2>1. SUFFICES ASSUME AuthorizationInv PROVE ConsentIsGrounded
    OBVIOUS
  <2>2. ASSUME NEW r \in codes PROVE Agreed(r) \subseteq granted
    <3>1. req[r].phase = "code" /\ Sound(req[r], app, tokens, granted, now)
      BY <2>1 DEF AuthorizationInv, TypeOK, JourneyInv
    <3>2. QED
      BY <3>1 DEF Sound, Agreed
  <2>3. ASSUME NEW t \in tokens PROVE {<<t.user, t.client, s>> : s \in t.scope} \subseteq granted
    BY <2>1 DEF AuthorizationInv, TokenInv
  <2>4. QED
    BY <2>2, <2>3 DEF ConsentIsGrounded
<1>2. QED
  BY <1>1, InvCorrect, PTL

\* A code is given without asking only if a covering token was live at some
\* time during the journey.
THEOREM Silence == Spec => []SilenceNeedsALiveToken
<1>1. AuthorizationInv => SilenceNeedsALiveToken
  BY DEF AuthorizationInv, JourneyInv, Sound, SilenceNeedsALiveToken
<1>2. QED
  BY <1>1, InvCorrect, PTL
=============================================================================
