--------------------------- MODULE SessionEndProofs ---------------------------
(***************************************************************************)
(* Proofs about SessionEnd, for any issues, users, applications, browser   *)
(* sessions, logout requests, lifetimes and settings.                      *)
(***************************************************************************)
EXTENDS SessionEnd, TLAPS

LogoutRecord ==
  [phase : {"idle"} \cup Doing \cup Answer, session : Session \cup {None},
   asked : BOOLEAN, presented : User \cup {Anonymous, None}, browser : User \cup {Anonymous},
   refresh : SUBSET Issue, access : SUBSET Issue, row : Issue \cup {None},
   begun : SUBSET Issue, listed : SUBSET Issue, hit : SUBSET Issue]

SweepRecord ==
  [stage : {"idle", "done"} \cup Stage, start : Nat, batch : SUBSET Issue,
   dead : [access : SUBSET Issue, refresh : SUBSET Issue, id : SUBSET Issue]]

-----------------------------------------------------------------------------
(* The rows. *)

RowTypes ==
  /\ info \in [Issue -> Info \cup {None}]
  /\ access \in [Issue -> {"none", "live", "gone"}]
  /\ refresh \in [Issue -> {"none", "live", "revoked", "gone"}]
  /\ revoked \in [Issue -> Nat]
  /\ idtoken \in [Issue -> {"none", "live", "gone"}]

\* An issue has rows exactly when it was given to somebody.
RowsInv == \A i \in Issue :
  IF info[i] = None THEN access[i] = "none" /\ refresh[i] = "none" /\ idtoken[i] = "none"
  ELSE access[i] # "none"

\* What no step ever does to the rows of an issue: its owner changes, a row
\* comes back, a revocation is dated anew.
Later(inf, acc, ref, rev, idt, inf2, acc2, ref2, rev2, idt2) == \A i \in Issue : inf[i] # None =>
  /\ inf2[i] = inf[i]
  /\ acc2[i] \in {"live", "gone"} /\ (acc2[i] = "live" => acc[i] = "live")
  /\ ref[i] # "live" => ref2[i] # "live"
  /\ ref[i] = "gone" => ref2[i] = "gone"
  /\ ref[i] = "revoked" => ref2[i] = "gone" \/ (ref2[i] = "revoked" /\ rev2[i] = rev[i])
  /\ idt[i] # "live" => idt2[i] # "live"

RowsLater == Later(info, access, refresh, revoked, idtoken, info', access', refresh', revoked', idtoken')

\* Deleting an access token.
LEMMA DropAccessFacts ==
  ASSUME RowTypes, NEW i \in Issue, DropAccess(i)
  PROVE  /\ access' \in [Issue -> {"none", "live", "gone"}] /\ access'[i] # "live"
         /\ access'[i] = "none" <=> access[i] = "none"
         /\ \A k \in Issue \ {i} : access'[k] = access[k]
  BY DEF RowTypes, DropAccess

\* Nothing happens to the rows.
LEMMA RowsSame ==
  ASSUME RowTypes, RowsInv, UNCHANGED tokens
  PROVE  RowTypes' /\ RowsInv' /\ RowsLater
<1>1. UNCHANGED <<info, access, refresh, revoked, idtoken>>
  BY DEF tokens
<1>2. RowTypes' /\ RowsInv'
  BY <1>1 DEF RowTypes, RowsInv
<1>3. QED
  BY <1>1, <1>2 DEF RowTypes, RowsInv, RowsLater, Later

\* Tokens are issued to an issue that has none.
LEMMA RowsIssued ==
  ASSUME RowTypes, RowsInv, now \in Nat, NEW i \in Issue, IssueTokens(i)
  PROVE  RowTypes' /\ RowsInv' /\ RowsLater
<1>1. PICK u \in User, a \in App : StoreTokens(i, u, a)
  BY DEF IssueTokens
<1>2. PICK rt \in {"none", "live"}, it \in {"none", "live"} :
        refresh' = [refresh EXCEPT ![i] = rt] /\ idtoken' = [idtoken EXCEPT ![i] = it]
  BY <1>1 DEF StoreTokens
<1>3. info[i] = None /\ access' = [access EXCEPT ![i] = "live"] /\ UNCHANGED revoked
  BY <1>1 DEF StoreTokens
<1> DEFINE row == [owner |-> u, app |-> a, born |-> now]
<1>4. row \in Info /\ info' = [info EXCEPT ![i] = row]
  BY <1>1 DEF StoreTokens, Info
<1> HIDE DEF row
<1>5. row # None
  BY <1>4, NoneIsNoInfo
<1>6. RowTypes'
  BY <1>2, <1>3, <1>4 DEF RowTypes
<1>7. \A k \in Issue \ {i} : /\ info'[k] = info[k] /\ access'[k] = access[k] /\ refresh'[k] = refresh[k]
                             /\ idtoken'[k] = idtoken[k]
  BY <1>2, <1>3, <1>4 DEF RowTypes
<1>8. info'[i] # None /\ access'[i] # "none"
  BY <1>3, <1>4, <1>5 DEF RowTypes
<1>9. RowsInv'
  BY <1>7, <1>8 DEF RowsInv
<1>10. RowsLater
  BY <1>3, <1>7 DEF RowTypes, RowsInv, RowsLater, Later
<1>11. QED
  BY <1>6, <1>9, <1>10

\* Deleting rows: an access token, an ID token with it, a batch.
LEMMA RowsDeleted ==
  ASSUME RowTypes, RowsInv, UNCHANGED <<info, revoked>>,
         access' \in [Issue -> {"none", "live", "gone"}], idtoken' \in [Issue -> {"none", "live", "gone"}],
         refresh' \in [Issue -> {"none", "live", "revoked", "gone"}],
         \A i \in Issue : /\ access'[i] = access[i] \/ (access[i] # "none" /\ access'[i] = "gone")
                          /\ idtoken'[i] = idtoken[i] \/ (idtoken[i] # "none" /\ idtoken'[i] = "gone")
                          /\ refresh'[i] = refresh[i] \/ (refresh[i] # "none" /\ refresh'[i] = "gone")
  PROVE  RowTypes' /\ RowsInv' /\ RowsLater
<1>1. RowTypes'
  BY DEF RowTypes
<1>2. RowsInv'
  BY DEF RowsInv
<1>3. RowsLater
  BY DEF RowTypes, RowsInv, RowsLater, Later
<1>4. QED
  BY <1>1, <1>2, <1>3

\* Revoking a refresh token deletes its access token.
LEMMA RowsRevoked ==
  ASSUME RowTypes, RowsInv, now \in Nat, NEW i \in Issue, RevokeRow(i), UNCHANGED <<info, idtoken>>
  PROVE  RowTypes' /\ RowsInv' /\ RowsLater /\ refresh'[i] # "live"
<1>1. CASE refresh[i] = "live"
  <2>1. /\ refresh' = [refresh EXCEPT ![i] = "revoked"] /\ revoked' = [revoked EXCEPT ![i] = now]
        /\ DropAccess(i)
    BY <1>1 DEF RevokeRow
  <2>2. /\ access' \in [Issue -> {"none", "live", "gone"}] /\ access'[i] # "live"
        /\ access'[i] = "none" <=> access[i] = "none"
        /\ \A k \in Issue \ {i} : access'[k] = access[k]
    BY <2>1, DropAccessFacts
  <2>3. RowTypes'
    BY <2>1, <2>2 DEF RowTypes
  <2>4. info[i] # None
    BY <1>1 DEF RowsInv
  <2>5. /\ refresh'[i] = "revoked"
        /\ \A k \in Issue \ {i} : refresh'[k] = refresh[k] /\ revoked'[k] = revoked[k]
    BY <2>1 DEF RowTypes
  <2>6. RowsInv'
    BY <2>2, <2>4, <2>5 DEF RowsInv
  <2>7. RowsLater
    BY <1>1, <2>2, <2>5 DEF RowTypes, RowsInv, RowsLater, Later
  <2>8. QED
    BY <2>3, <2>5, <2>6, <2>7
<1>2. CASE refresh[i] # "live"
  <2>1. UNCHANGED tokens /\ refresh'[i] # "live"
    BY <1>2 DEF RevokeRow, tokens
  <2>2. QED
    BY <2>1, RowsSame
<1>3. QED
  BY <1>1, <1>2

\* A rotation revokes one refresh token and stores another.
LEMMA RowsRotated ==
  ASSUME RowTypes, RowsInv, now \in Nat, NEW i \in Issue, NEW j \in Issue, Rotate(i, j)
  PROVE  RowTypes' /\ RowsInv' /\ RowsLater
<1>1. refresh[i] = "live" /\ info[j] = None
  BY DEF Rotate
<1>2. i # j /\ info[i] # None /\ info[i] \in Info
  BY <1>1 DEF RowsInv, RowTypes
<1> DEFINE row == [info[i] EXCEPT !.born = now]
<1>3. row \in Info /\ info' = [info EXCEPT ![j] = row]
  BY <1>2 DEF Rotate, Info
<1> HIDE DEF row
<1>4. row # None
  BY <1>3, NoneIsNoInfo
<1>5. PICK it \in {"none", "live"} : idtoken' = [idtoken EXCEPT ![j] = it]
  BY DEF Rotate
<1>6. refresh' = [refresh EXCEPT ![i] = "revoked", ![j] = "live"] /\ revoked' = [revoked EXCEPT ![i] = now]
  BY DEF Rotate
<1>7. /\ access' \in [Issue -> {"none", "live", "gone"}] /\ access'[i] \in {"gone"} /\ access'[j] = "live"
      /\ \A k \in Issue \ {i, j} : access'[k] = access[k]
  BY <1>2 DEF Rotate, RowTypes, RowsInv
<1>8. RowTypes'
  BY <1>3, <1>5, <1>6, <1>7 DEF RowTypes
<1>9. /\ \A k \in Issue \ {i, j} : refresh'[k] = refresh[k] /\ revoked'[k] = revoked[k]
      /\ \A k \in Issue \ {j} : info'[k] = info[k] /\ idtoken'[k] = idtoken[k]
      /\ info'[j] = row /\ refresh'[i] = "revoked"
  BY <1>2, <1>3, <1>5, <1>6 DEF RowTypes
<1>10. RowsInv'
  BY <1>2, <1>4, <1>7, <1>9 DEF RowsInv
<1>11. RowsLater
  BY <1>1, <1>2, <1>7, <1>9 DEF RowTypes, RowsInv, RowsLater, Later
<1>12. QED
  BY <1>8, <1>10, <1>11

-----------------------------------------------------------------------------
(* One logout request. *)

\* The phases in which a request deletes, and those in which it has listed.
Listed == {"loop", "drop_id", "drop_access", "revoke", "sign_out", "logged_out"}

\* Everything a request has listed is of its subject and stays so; what it has
\* worked off cannot be used any more, the rest is still on its lists.
Sound(g, inf, acc, ref, idt) ==
  /\ g.phase = "list_refresh" =>
       g.begun = {} /\ g.listed = {} /\ g.access = {} /\ g.refresh = {}
  /\ \A i \in g.begun \cup g.listed \cup g.refresh \cup g.hit :
       inf[i] # None /\ inf[i].owner = UserToLogOut(g.browser, g.presented)
  /\ g.access \subseteq g.listed
  /\ g.phase \in {"drop_id", "drop_access"} => g.row \in g.listed
  /\ g.phase = "drop_access" => idt[g.row] # "live"
  /\ \A i \in g.begun : /\ i \in g.refresh \/ ref[i] # "live"
                        /\ g.phase = "list_access" => inf[i].app \in Deletable
                        /\ g.phase \in Listed => i \in g.listed \/ acc[i] = "gone"
  /\ g.phase \in Listed => \A i \in g.listed :
       \/ i \in g.access
       \/ g.phase \in {"drop_id", "drop_access"} /\ i = g.row
       \/ acc[i] = "gone" /\ idt[i] # "live"
  /\ g.phase \in {"revoke", "sign_out", "logged_out"} => g.access = {}
  /\ g.phase \in {"sign_out", "logged_out"} => g.refresh = {}
  /\ g.phase \in Doing \cup {"logged_out", "server_error"} /\ g.browser # Anonymous =>
       g.asked \/ g.presented = g.browser

LogoutInv == \A l \in Logout : Sound(logout[l], info, access, refresh, idtoken)

\* What others do to the rows leaves it sound.
LEMMA SoundCarried ==
  ASSUME NEW g \in LogoutRecord, NEW inf, NEW acc, NEW ref, NEW rev, NEW idt,
         NEW inf2, NEW acc2, NEW ref2, NEW rev2, NEW idt2,
         Later(inf, acc, ref, rev, idt, inf2, acc2, ref2, rev2, idt2), Sound(g, inf, acc, ref, idt)
  PROVE  Sound(g, inf2, acc2, ref2, idt2)
<1>1. ASSUME NEW i \in g.begun \cup g.listed \cup g.refresh \cup g.hit
      PROVE  /\ inf2[i] = inf[i] /\ inf[i] # None /\ (acc[i] = "gone" => acc2[i] = "gone")
             /\ ref[i] # "live" => ref2[i] # "live"
             /\ idt[i] # "live" => idt2[i] # "live"
  <2>1. i \in Issue
    BY DEF LogoutRecord
  <2>2. inf[i] # None
    BY DEF Sound
  <2>3. QED
    BY <2>1, <2>2 DEF Later
<1>2. g.phase = "drop_access" => idt2[g.row] # "live"
  BY <1>1 DEF Sound
<1>3. \A i \in g.begun \cup g.listed \cup g.refresh \cup g.hit :
        inf2[i] # None /\ inf2[i].owner = UserToLogOut(g.browser, g.presented)
  BY <1>1 DEF Sound
<1>4. \A i \in g.begun : /\ i \in g.refresh \/ ref2[i] # "live"
                         /\ g.phase = "list_access" => inf2[i].app \in Deletable
                         /\ g.phase \in Listed => i \in g.listed \/ acc2[i] = "gone"
  <2>1. \A i \in g.begun : /\ i \in g.refresh \/ ref[i] # "live"
                           /\ g.phase = "list_access" => inf[i].app \in Deletable
                           /\ g.phase \in Listed => i \in g.listed \/ acc[i] = "gone"
    BY DEF Sound
  <2>2. QED
    BY <1>1, <2>1
<1>5. g.phase \in Listed => \A i \in g.listed :
        \/ i \in g.access
        \/ g.phase \in {"drop_id", "drop_access"} /\ i = g.row
        \/ acc2[i] = "gone" /\ idt2[i] # "live"
  BY <1>1 DEF Sound
<1>6. QED
  BY <1>2, <1>3, <1>4, <1>5 DEF Sound

SessionInv ==
  /\ now \in Nat /\ RowTypes /\ RowsInv
  /\ session \in [Session -> User \cup {Anonymous}]
  /\ logout \in [Logout -> LogoutRecord]
  /\ LogoutInv

\* A step that changes at most one logout request keeps the rest sound.
LEMMA OneLogout ==
  ASSUME SessionInv, NEW l \in Logout, NEW k \in LogoutRecord, Sound(k, info', access', refresh', idtoken'),
         logout' = [logout EXCEPT ![l] = k], RowTypes', RowsInv', RowsLater, now' = now,
         session' \in [Session -> User \cup {Anonymous}]
  PROVE  SessionInv' /\ RowsLater
<1>1. /\ logout' \in [Logout -> LogoutRecord] /\ logout'[l] = k
      /\ \A m \in Logout \ {l} : logout'[m] = logout[m]
  BY DEF SessionInv
<1>2. ASSUME NEW m \in Logout PROVE Sound(logout'[m], info', access', refresh', idtoken')
  <2>1. CASE m = l
    BY <1>1, <2>1
  <2>2. CASE m # l
    <3>1. logout[m] \in LogoutRecord /\ Sound(logout[m], info, access, refresh, idtoken)
      BY DEF SessionInv, LogoutInv
    <3>2. Sound(logout[m], info', access', refresh', idtoken')
      BY <3>1, SoundCarried DEF RowsLater
    <3>3. QED
      BY <1>1, <2>2, <3>2
  <2>3. QED
    BY <2>1, <2>2
<1>3. LogoutInv'
  BY <1>2 DEF LogoutInv
<1>4. QED
  BY <1>1, <1>3 DEF SessionInv

\* A step that changes no logout request.
LEMMA NoLogout ==
  ASSUME SessionInv, UNCHANGED <<logout, session>>, RowTypes', RowsInv', RowsLater, now' \in Nat
  PROVE  SessionInv' /\ RowsLater
<1>1. ASSUME NEW m \in Logout PROVE Sound(logout[m], info', access', refresh', idtoken')
  <2>1. logout[m] \in LogoutRecord /\ Sound(logout[m], info, access, refresh, idtoken)
    BY DEF SessionInv, LogoutInv
  <2>2. QED
    BY <2>1, SoundCarried DEF RowsLater
<1>2. LogoutInv'
  BY <1>1 DEF LogoutInv
<1>3. QED
  BY <1>2 DEF SessionInv

\* The rows stay as they are.
LEMMA RowsStay ==
  ASSUME SessionInv, UNCHANGED tokens
  PROVE  /\ RowTypes' /\ RowsInv' /\ RowsLater
         /\ UNCHANGED <<info, access, refresh, revoked, idtoken>>
  BY RowsSame DEF SessionInv, tokens

\* What RequestLogout writes.
Starting(g, phase, s, user, asked, tokenUser) ==
  [g EXCEPT !.phase = phase, !.session = s, !.browser = user, !.presented = tokenUser, !.asked = asked]

\* A new request is a request, and so is what RequestLogout writes.
LEMMA RequestFields ==
  /\ NewLogout \in LogoutRecord
  /\ NewLogout.begun = {} /\ NewLogout.listed = {} /\ NewLogout.access = {} /\ NewLogout.refresh = {}
  /\ NewLogout.hit = {}
  /\ \A g \in LogoutRecord, phase \in Answer \cup Doing, s \in Session, user \in User \cup {Anonymous},
        asked \in BOOLEAN, tokenUser \in User \cup {Anonymous, None} :
       LET k == Starting(g, phase, s, user, asked, tokenUser) IN
       /\ k \in LogoutRecord /\ k.phase = phase /\ k.browser = user /\ k.asked = asked /\ k.presented = tokenUser
       /\ k.begun = g.begun /\ k.listed = g.listed /\ k.access = g.access /\ k.refresh = g.refresh
       /\ k.hit = g.hit
  /\ \A g \in LogoutRecord, phase \in Answer \cup Doing :
       LET k == [g EXCEPT !.phase = phase] IN
       /\ k \in LogoutRecord /\ k.phase = phase
       /\ k.begun = g.begun /\ k.listed = g.listed /\ k.access = g.access /\ k.refresh = g.refresh
       /\ k.hit = g.hit
<1>1. /\ NewLogout \in LogoutRecord
      /\ NewLogout.begun = {} /\ NewLogout.listed = {} /\ NewLogout.access = {} /\ NewLogout.refresh = {}
      /\ NewLogout.hit = {}
  BY DEF NewLogout, LogoutRecord
<1>2. ASSUME NEW g \in LogoutRecord, NEW phase \in Answer \cup Doing, NEW s \in Session,
             NEW user \in User \cup {Anonymous}, NEW asked \in BOOLEAN, NEW tokenUser \in User \cup {Anonymous, None}
      PROVE  LET k == Starting(g, phase, s, user, asked, tokenUser) IN
             /\ k \in LogoutRecord /\ k.phase = phase /\ k.browser = user /\ k.asked = asked
             /\ k.presented = tokenUser /\ k.begun = g.begun /\ k.listed = g.listed /\ k.access = g.access
             /\ k.refresh = g.refresh /\ k.hit = g.hit
  <2> DEFINE k == Starting(g, phase, s, user, asked, tokenUser)
  <2>1. /\ k.phase = phase /\ k.browser = user /\ k.asked = asked
        /\ k.presented = tokenUser /\ k.begun = g.begun /\ k.listed = g.listed /\ k.access = g.access
        /\ k.refresh = g.refresh /\ k.hit = g.hit
    BY DEF Starting, LogoutRecord
  <2> DEFINE g1 == [g EXCEPT !.phase = phase, !.session = s]
             g2 == [g1 EXCEPT !.browser = user]
             g3 == [g2 EXCEPT !.presented = tokenUser]
  <2>2. g1 \in LogoutRecord
    BY DEF LogoutRecord
  <2> HIDE DEF g1
  <2>3. g2 \in LogoutRecord
    BY <2>2 DEF LogoutRecord
  <2> HIDE DEF g2
  <2>4. g3 \in LogoutRecord
    BY <2>3 DEF LogoutRecord
  <2>5. [g3 EXCEPT !.asked = asked] \in LogoutRecord
    <3> HIDE DEF g3
    <3>1. QED
      BY <2>4 DEF LogoutRecord
  <2>6. k = [g3 EXCEPT !.asked = asked]
    BY DEF Starting, g1, g2, g3
  <2> HIDE DEF k, g3
  <2>7. QED
    BY <2>1, <2>5, <2>6 DEF k
<1>3. ASSUME NEW g \in LogoutRecord, NEW phase \in Answer \cup Doing
      PROVE  LET k == [g EXCEPT !.phase = phase] IN
             /\ k \in LogoutRecord /\ k.phase = phase /\ k.begun = g.begun /\ k.listed = g.listed
             /\ k.access = g.access /\ k.refresh = g.refresh /\ k.hit = g.hit
  BY DEF LogoutRecord
<1>4. QED
  BY <1>1, <1>2, <1>3

\* What the request comes to: an answer, or a logout of somebody who agreed or
\* whose own ID token the request carries.
LEMMA RequestStep ==
  ASSUME SessionInv, NEW l \in Logout, RequestLogout(l)
  PROVE  SessionInv' /\ RowsLater
<1>1. UNCHANGED tokens /\ UNCHANGED <<now, session>>
  BY DEF RequestLogout
<1>2. PICK s \in Session, client \in App \cup {None}, uri \in Uri \cup {None}, posted \in BOOLEAN,
            allow \in BOOLEAN, hint \in {i \in Issue : idtoken[i] # "none"} \cup {None} :
       LET user == session[s]
           refused == HintRefused(hint, client) \/ UriRefused(uri, RequestApplication(hint, client))
           prompt == MustPrompt(user, TokenUser(hint)) /\ ~(posted /\ allow)
           phase == CASE refused -> "oidc_error"
                      [] ~refused /\ prompt /\ ~posted -> "prompt"
                      [] ~refused /\ prompt /\ posted -> "denied"
                      [] OTHER -> "list_refresh"
       IN logout' = [logout EXCEPT ![l] =
            IF phase # "list_refresh" THEN [NewLogout EXCEPT !.phase = phase]
            ELSE [NewLogout EXCEPT !.phase = phase, !.session = s, !.browser = user,
                    !.asked = posted /\ allow, !.presented = TokenUser(hint)]]
  BY Zenon DEF RequestLogout
<1> DEFINE user == session[s]
           tokenUser == TokenUser(hint)
           refused == HintRefused(hint, client) \/ UriRefused(uri, RequestApplication(hint, client))
           asked == posted /\ allow
           prompt == MustPrompt(user, tokenUser) /\ ~asked
           phase == CASE refused -> "oidc_error"
                      [] ~refused /\ prompt /\ ~posted -> "prompt"
                      [] ~refused /\ prompt /\ posted -> "denied"
                      [] OTHER -> "list_refresh"
           over == [NewLogout EXCEPT !.phase = phase]
           doing == Starting(NewLogout, phase, s, user, asked, tokenUser)
<1>3. refused \in BOOLEAN /\ prompt \in BOOLEAN /\ asked \in BOOLEAN
  BY DEF HintRefused, UriRefused, MustPrompt
<1>4. user \in User \cup {Anonymous} /\ tokenUser \in User \cup {Anonymous, None}
  <2>1. user \in User \cup {Anonymous}
    BY DEF SessionInv
  <2>2. hint # None => info[hint] \in Info
    BY DEF SessionInv, RowTypes, RowsInv
  <2>3. QED
    BY <2>1, <2>2 DEF TokenUser, Info
<1>5. ~prompt /\ user # Anonymous => asked \/ tokenUser = user
  BY DEF MustPrompt
<1>7. logout' = [logout EXCEPT ![l] = IF phase # "list_refresh" THEN over
        ELSE doing]
  BY <1>2, Zenon DEF Starting
<1> HIDE DEF refused, asked, tokenUser, user
<1>8. phase \in {"oidc_error", "prompt", "denied", "list_refresh"} /\ (phase = "list_refresh" => ~prompt)
  BY <1>3
<1> HIDE DEF prompt, phase
<1>9. CASE phase # "list_refresh"
  <2>1. logout' = [logout EXCEPT ![l] = over]
    BY <1>7, <1>9
  <2>2. over \in LogoutRecord
    BY <1>8, RequestFields DEF Answer, Doing
  <2>3. /\ over.phase = phase /\ over.begun = {} /\ over.listed = {} /\ over.refresh = {} /\ over.hit = {}
        /\ over.access = {}
    BY <1>8, RequestFields DEF Answer, Doing
  <2> HIDE DEF over
  <2>4. phase \notin Listed \cup Doing \cup {"drop_id", "drop_access", "logged_out", "server_error", "revoke"}
    BY <1>8, <1>9 DEF Listed, Doing
  <2>5. Sound(over, info, access, refresh, idtoken)
    BY <2>3, <2>4 DEF Sound, Doing, Listed
  <2>6. Sound(over, info', access', refresh', idtoken')
    BY <1>1, <2>5, RowsStay
  <2>7. QED
    BY <1>1, <2>1, <2>2, <2>6, RowsStay, OneLogout DEF SessionInv
<1>10. CASE phase = "list_refresh"
  <2>1. logout' = [logout EXCEPT ![l] = doing]
    BY <1>7, <1>10
  <2>2. phase \in Answer \cup Doing
    BY <1>10 DEF Doing
  <2>3. /\ doing \in LogoutRecord /\ doing.phase = phase /\ doing.browser = user /\ doing.asked = asked
        /\ doing.presented = tokenUser /\ doing.begun = {} /\ doing.listed = {} /\ doing.access = {}
        /\ doing.refresh = {} /\ doing.hit = {}
    BY <1>3, <1>4, <2>2, RequestFields
  <2> HIDE DEF doing
  <2>4. Sound(doing, info, access, refresh, idtoken)
    BY <1>5, <1>8, <1>10, <2>3 DEF Sound, Doing, Listed
  <2>5. Sound(doing, info', access', refresh', idtoken')
    BY <1>1, <2>4, RowsStay
  <2>6. QED
    BY <1>1, <2>1, <2>3, <2>5, RowsStay, OneLogout DEF SessionInv
<1>11. QED
  BY <1>9, <1>10

\* What a step needs to know about its request.
LEMMA Known ==
  ASSUME SessionInv, NEW l \in Logout
  PROVE  /\ logout[l] \in LogoutRecord /\ logout \in [Logout -> LogoutRecord]
         /\ Sound(logout[l], info, access, refresh, idtoken)
         /\ \A i \in Issue : info[i] # None => access[i] \in {"live", "gone"} /\ info[i] \in Info
         /\ RowTypes /\ RowsInv /\ session \in [Session -> User \cup {Anonymous}] /\ now \in Nat
  BY DEF SessionInv, LogoutInv, RowTypes, RowsInv

\* Nothing but one request changes.
LEMMA OnlyTheLogout ==
  ASSUME SessionInv, NEW l \in Logout, NEW k \in LogoutRecord, Sound(k, info, access, refresh, idtoken),
         logout' = [logout EXCEPT ![l] = k], UNCHANGED tokens, UNCHANGED <<now, session>>
  PROVE  SessionInv' /\ RowsLater
<1>1. Sound(k, info', access', refresh', idtoken')
  BY RowsStay
<1>2. QED
  BY <1>1, RowsStay, OneLogout DEF SessionInv

\* The refresh tokens are listed: what is not on the list cannot be used.
LEMMA ListRefreshStep ==
  ASSUME SessionInv, NEW l \in Logout, ListRefresh(l)
  PROVE  SessionInv' /\ RowsLater
<1> DEFINE g == logout[l]
           all == ToDelete(l)
           some == {i \in all : Bound(i)}
           listing == [g EXCEPT !.phase = "list_access", !.begun = all, !.refresh = some]
           leaving == [g EXCEPT !.phase = "sign_out"]
<1>0. /\ g \in LogoutRecord /\ logout \in [Logout -> LogoutRecord] /\ Sound(g, info, access, refresh, idtoken)
  BY Known
<1>1. g.phase = "list_refresh" /\ UNCHANGED tokens /\ UNCHANGED <<now, session>>
  BY DEF ListRefresh
<1>2. \/ logout' = [logout EXCEPT ![l] = listing]
      \/ logout' = [logout EXCEPT ![l] = leaving]
  BY <1>0 DEF ListRefresh
<1>3. /\ all \subseteq Issue /\ some \subseteq all
      /\ \A i \in all : /\ info[i] # None /\ info[i].owner = UserToLogOut(g.browser, g.presented)
                        /\ info[i].app \in Deletable
                        /\ i \in some \/ refresh[i] # "live"
  BY Known DEF ToDelete, Bound, Subject, RowsInv
<1> HIDE DEF all, some
<1>4. CASE logout' = [logout EXCEPT ![l] = listing]
  <2>1. /\ listing.phase = "list_access" /\ listing.begun = all /\ listing.refresh = some
        /\ listing.listed = g.listed /\ listing.access = g.access /\ listing.hit = g.hit
        /\ listing.browser = g.browser /\ listing.presented = g.presented /\ listing.asked = g.asked
    BY <1>0 DEF LogoutRecord
  <2>2. listing \in LogoutRecord
    BY <1>0, <1>3 DEF LogoutRecord, Doing
  <2> HIDE DEF listing
  <2>3. Sound(listing, info, access, refresh, idtoken)
    BY <1>0, <1>1, <1>3, <2>1 DEF Sound, Doing, Listed
  <2>4. QED
    BY <1>1, <1>4, <2>2, <2>3, OnlyTheLogout
<1>5. CASE logout' = [logout EXCEPT ![l] = leaving]
  <2>1. /\ leaving.phase = "sign_out" /\ leaving.begun = g.begun /\ leaving.refresh = g.refresh
        /\ leaving.listed = g.listed /\ leaving.access = g.access /\ leaving.hit = g.hit
        /\ leaving.browser = g.browser /\ leaving.presented = g.presented /\ leaving.asked = g.asked
    BY <1>0 DEF LogoutRecord
  <2>2. leaving \in LogoutRecord
    BY <1>0 DEF LogoutRecord, Doing
  <2> HIDE DEF leaving
  <2>3. Sound(leaving, info, access, refresh, idtoken)
    BY <1>0, <1>1, <2>1 DEF Sound, Doing, Listed
  <2>4. QED
    BY <1>1, <1>5, <2>2, <2>3, OnlyTheLogout
<1>6. QED
  BY <1>2, <1>4, <1>5

\* The access tokens are listed: what was there when the refresh tokens were
\* listed is still there, or gone.
LEMMA ListAccessStep ==
  ASSUME SessionInv, NEW l \in Logout, ListAccess(l)
  PROVE  SessionInv' /\ RowsLater
<1> DEFINE g == logout[l]
           all == ToDelete(l)
           k == [g EXCEPT !.phase = "loop", !.access = all, !.listed = all]
<1>0. /\ g \in LogoutRecord /\ logout \in [Logout -> LogoutRecord] /\ Sound(g, info, access, refresh, idtoken)
  BY Known
<1>1. g.phase = "list_access" /\ UNCHANGED tokens /\ UNCHANGED <<now, session>>
  BY DEF ListAccess
<1>2. logout' = [logout EXCEPT ![l] = k]
  BY <1>0 DEF ListAccess
<1>3. /\ all \subseteq Issue
      /\ \A i \in all : info[i] # None /\ info[i].owner = UserToLogOut(g.browser, g.presented)
  BY Known DEF ToDelete, Subject, RowsInv
<1>4. \A i \in g.begun : i \in all \/ access[i] = "gone"
  <2>1. ASSUME NEW i \in g.begun PROVE i \in all \/ access[i] = "gone"
    <3>1. /\ i \in Issue /\ info[i] # None /\ info[i].owner = UserToLogOut(g.browser, g.presented)
          /\ info[i].app \in Deletable
      BY <1>0, <1>1 DEF Sound, LogoutRecord
    <3>2. access[i] \in {"live", "gone"}
      BY <3>1, Known
    <3>3. QED
      BY <3>1, <3>2 DEF ToDelete, Subject
  <2>2. QED
    BY <2>1
<1> HIDE DEF all
<1>5. /\ k.phase = "loop" /\ k.begun = g.begun /\ k.refresh = g.refresh
      /\ k.listed = all /\ k.access = all /\ k.hit = g.hit
      /\ k.browser = g.browser /\ k.presented = g.presented /\ k.asked = g.asked
  BY <1>0 DEF LogoutRecord
<1>6. k \in LogoutRecord
  BY <1>0, <1>3 DEF LogoutRecord, Doing
<1> HIDE DEF k
<1>7. Sound(k, info, access, refresh, idtoken)
  BY <1>0, <1>1, <1>3, <1>4, <1>5 DEF Sound, Doing, Listed
<1>8. QED
  BY <1>1, <1>2, <1>6, <1>7, OnlyTheLogout

\* The next token of the list, or none.
LEMMA NextTokenStep ==
  ASSUME SessionInv, NEW l \in Logout, NextToken(l)
  PROVE  SessionInv' /\ RowsLater
<1> DEFINE g == logout[l]
<1>0. /\ g \in LogoutRecord /\ logout \in [Logout -> LogoutRecord] /\ Sound(g, info, access, refresh, idtoken)
  BY Known
<1>1. g.phase = "loop" /\ UNCHANGED tokens /\ UNCHANGED <<now, session>>
  BY DEF NextToken
<1>2. ASSUME NEW i \in g.access, NEW phase \in {"drop_access", "drop_id", "server_error"},
             phase = "drop_access" => idtoken[i] # "live",
             logout' = [logout EXCEPT ![l] = [g EXCEPT !.row = i, !.access = @ \ {i}, !.phase = phase]]
      PROVE  SessionInv' /\ RowsLater
  <2> DEFINE k == [g EXCEPT !.row = i, !.access = @ \ {i}, !.phase = phase]
  <2>1. /\ k.phase = phase /\ k.begun = g.begun /\ k.refresh = g.refresh /\ k.row = i
        /\ k.listed = g.listed /\ k.access = g.access \ {i} /\ k.hit = g.hit
        /\ k.browser = g.browser /\ k.presented = g.presented /\ k.asked = g.asked
    BY <1>0 DEF LogoutRecord
  <2>2. i \in Issue /\ g.access \ {i} \in SUBSET Issue
    BY <1>0 DEF LogoutRecord
  <2>3. k \in LogoutRecord
    BY <1>0, <2>2 DEF LogoutRecord, Doing, Answer
  <2>4. logout' = [logout EXCEPT ![l] = k]
    BY <1>2
  <2> HIDE DEF k
  <2>5. Sound(k, info, access, refresh, idtoken)
    BY <1>0, <1>1, <1>2, <2>1 DEF Sound, Doing, Listed
  <2>6. QED
    BY <1>1, <2>3, <2>4, <2>5, OnlyTheLogout
<1>3. CASE g.access = {} /\ logout' = [logout EXCEPT ![l] = [g EXCEPT !.phase = "revoke", !.row = None]]
  <2> DEFINE k == [g EXCEPT !.phase = "revoke", !.row = None]
  <2>1. /\ k.phase = "revoke" /\ k.begun = g.begun /\ k.refresh = g.refresh
        /\ k.listed = g.listed /\ k.access = {} /\ k.hit = g.hit
        /\ k.browser = g.browser /\ k.presented = g.presented /\ k.asked = g.asked
    BY <1>0, <1>3 DEF LogoutRecord
  <2>2. k \in LogoutRecord
    BY <1>0 DEF LogoutRecord, Doing
  <2>3. logout' = [logout EXCEPT ![l] = k]
    BY <1>3
  <2> HIDE DEF k
  <2>4. Sound(k, info, access, refresh, idtoken)
    BY <1>0, <1>1, <1>3, <2>1 DEF Sound, Doing, Listed
  <2>5. QED
    BY <1>1, <2>2, <2>3, <2>4, OnlyTheLogout
<1>4. CASE \E i \in g.access :
        logout' = [logout EXCEPT ![l] = [g EXCEPT !.row = i, !.access = @ \ {i},
          !.phase = CASE idtoken[i] = "none" -> "drop_access"
                      [] idtoken[i] = "live" -> "drop_id"
                      [] idtoken[i] = "gone" -> "server_error"]]
  <2>1. PICK i \in g.access :
        logout' = [logout EXCEPT ![l] = [g EXCEPT !.row = i, !.access = @ \ {i},
          !.phase = CASE idtoken[i] = "none" -> "drop_access"
                      [] idtoken[i] = "live" -> "drop_id"
                      [] idtoken[i] = "gone" -> "server_error"]]
    BY <1>4, Zenon
  <2> DEFINE phase == CASE idtoken[i] = "none" -> "drop_access"
                        [] idtoken[i] = "live" -> "drop_id"
                        [] idtoken[i] = "gone" -> "server_error"
  <2>2. idtoken[i] \in {"none", "live", "gone"}
    BY <1>0, Known DEF RowTypes, LogoutRecord
  <2>3. phase \in {"drop_access", "drop_id", "server_error"} /\ (phase = "drop_access" => idtoken[i] # "live")
    BY <2>2
  <2>4. logout' = [logout EXCEPT ![l] = [g EXCEPT !.row = i, !.access = @ \ {i}, !.phase = phase]]
    BY <2>1, Zenon
  <2> HIDE DEF phase
  <2>5. QED
    BY <2>3, <2>4, <1>2
<1>5. QED
  BY <1>0, <1>3, <1>4 DEF NextToken

\* The ID token goes, and its access token with it.
LEMMA RevokeIdTokenStep ==
  ASSUME SessionInv, NEW l \in Logout, RevokeIdToken(l)
  PROVE  SessionInv' /\ RowsLater
<1> DEFINE g == logout[l]
           i == g.row
           k == [g EXCEPT !.phase = "drop_access", !.hit = @ \cup {i}]
<1>0. /\ g \in LogoutRecord /\ logout \in [Logout -> LogoutRecord] /\ Sound(g, info, access, refresh, idtoken)
      /\ RowTypes /\ RowsInv
  BY Known
<1>1. /\ g.phase = "drop_id" /\ UNCHANGED <<now, info, refresh, revoked, session>>
      /\ logout' = [logout EXCEPT ![l] = k] /\ DropIdToken(i)
  BY <1>0 DEF RevokeIdToken
<1>2. i \in g.listed /\ i \in Issue /\ info[i] # None
  BY <1>0, <1>1 DEF Sound, LogoutRecord
<1>3. /\ idtoken' \in [Issue -> {"none", "live", "gone"}] /\ idtoken'[i] # "live"
      /\ \A m \in Issue : idtoken'[m] = idtoken[m] \/ (idtoken[m] # "none" /\ idtoken'[m] = "gone")
  BY <1>0, <1>1, <1>2 DEF DropIdToken, RowTypes
<1>4. /\ access' \in [Issue -> {"none", "live", "gone"}]
      /\ \A m \in Issue : access'[m] = access[m] \/ (access[m] # "none" /\ access'[m] = "gone")
  BY <1>0, <1>1, <1>2 DEF DropIdToken, DropAccess, RowTypes
<1>5. RowTypes' /\ RowsInv' /\ RowsLater
  <2>1. /\ \A m \in Issue : refresh'[m] = refresh[m]
        /\ refresh' \in [Issue -> {"none", "live", "revoked", "gone"}]
    BY <1>0, <1>1 DEF RowTypes
  <2>2. QED
    BY <1>0, <1>1, <1>3, <1>4, <2>1, RowsDeleted
<1>6. Sound(g, info', access', refresh', idtoken')
  BY <1>0, <1>5, SoundCarried DEF RowsLater
<1>7. /\ k.phase = "drop_access" /\ k.begun = g.begun /\ k.refresh = g.refresh /\ k.row = i
      /\ k.listed = g.listed /\ k.access = g.access /\ k.hit = g.hit \cup {i}
      /\ k.browser = g.browser /\ k.presented = g.presented /\ k.asked = g.asked
  BY <1>0 DEF LogoutRecord
<1>8. k \in LogoutRecord
  <2>1. g.hit \cup {i} \in SUBSET Issue
    BY <1>0, <1>2 DEF LogoutRecord
  <2>2. QED
    BY <1>0, <2>1 DEF LogoutRecord, Doing
<1> HIDE DEF k
<1>9. Sound(k, info', access', refresh', idtoken')
  BY <1>1, <1>2, <1>3, <1>6, <1>7 DEF Sound, Doing, Listed
<1>10. QED
  BY <1>0, <1>1, <1>5, <1>8, <1>9, Known, OneLogout

\* The access token goes.
LEMMA RevokeAccessStep ==
  ASSUME SessionInv, NEW l \in Logout, RevokeAccess(l)
  PROVE  SessionInv' /\ RowsLater
<1> DEFINE g == logout[l]
           i == g.row
           k == [g EXCEPT !.phase = "loop", !.hit = @ \cup {i}]
<1>0. /\ g \in LogoutRecord /\ logout \in [Logout -> LogoutRecord] /\ Sound(g, info, access, refresh, idtoken)
      /\ RowTypes /\ RowsInv
  BY Known
<1>1. /\ g.phase = "drop_access" /\ UNCHANGED <<now, info, refresh, revoked, idtoken, session>>
      /\ logout' = [logout EXCEPT ![l] = k] /\ DropAccess(i)
  BY <1>0 DEF RevokeAccess
<1>2. i \in g.listed /\ i \in Issue /\ info[i] # None /\ access[i] # "none" /\ idtoken[i] # "live"
  BY <1>0, <1>1 DEF Sound, LogoutRecord, RowsInv
<1>3. /\ access' \in [Issue -> {"none", "live", "gone"}] /\ access'[i] = "gone"
      /\ \A m \in Issue : access'[m] = access[m] \/ (access[m] # "none" /\ access'[m] = "gone")
  BY <1>0, <1>1, <1>2 DEF DropAccess, RowTypes
<1>4. RowTypes' /\ RowsInv' /\ RowsLater
  <2>1. /\ \A m \in Issue : refresh'[m] = refresh[m] /\ idtoken'[m] = idtoken[m]
        /\ refresh' \in [Issue -> {"none", "live", "revoked", "gone"}]
        /\ idtoken' \in [Issue -> {"none", "live", "gone"}]
    BY <1>0, <1>1 DEF RowTypes
  <2>2. QED
    BY <1>0, <1>1, <1>3, <2>1, RowsDeleted
<1>5. Sound(g, info', access', refresh', idtoken')
  BY <1>0, <1>4, SoundCarried DEF RowsLater
<1>6. /\ k.phase = "loop" /\ k.begun = g.begun /\ k.refresh = g.refresh /\ k.row = i
      /\ k.listed = g.listed /\ k.access = g.access /\ k.hit = g.hit \cup {i}
      /\ k.browser = g.browser /\ k.presented = g.presented /\ k.asked = g.asked
  BY <1>0 DEF LogoutRecord
<1>7. k \in LogoutRecord
  <2>1. g.hit \cup {i} \in SUBSET Issue
    BY <1>0, <1>2 DEF LogoutRecord
  <2>2. QED
    BY <1>0, <2>1 DEF LogoutRecord, Doing
<1> HIDE DEF k
<1>8. idtoken'[i] # "live"
  BY <1>1, <1>2
<1>9. Sound(k, info', access', refresh', idtoken')
  BY <1>1, <1>2, <1>3, <1>5, <1>6, <1>8 DEF Sound, Doing, Listed
<1>10. QED
  BY <1>0, <1>1, <1>4, <1>7, <1>9, Known, OneLogout

\* A refresh token of the list is revoked, or the list is empty.
LEMMA RevokeRefreshStep ==
  ASSUME SessionInv, NEW l \in Logout, RevokeRefresh(l)
  PROVE  SessionInv' /\ RowsLater
<1> DEFINE g == logout[l]
<1>0. /\ g \in LogoutRecord /\ logout \in [Logout -> LogoutRecord] /\ Sound(g, info, access, refresh, idtoken)
      /\ RowTypes /\ RowsInv /\ now \in Nat
  BY Known
<1>1. g.phase = "revoke" /\ UNCHANGED <<now, info, idtoken, session>>
  BY DEF RevokeRefresh
<1>2. ASSUME NEW i \in g.refresh, RevokeRow(i),
             logout' = [logout EXCEPT ![l] = [g EXCEPT !.refresh = @ \ {i}, !.hit = @ \cup {i}]]
      PROVE  SessionInv' /\ RowsLater
  <2> DEFINE k == [g EXCEPT !.refresh = @ \ {i}, !.hit = @ \cup {i}]
  <2>1. i \in Issue
    BY <1>0 DEF LogoutRecord
  <2>2. RowTypes' /\ RowsInv' /\ RowsLater /\ refresh'[i] # "live"
    BY <1>0, <1>1, <1>2, <2>1, RowsRevoked
  <2>3. Sound(g, info', access', refresh', idtoken')
    BY <1>0, <2>2, SoundCarried DEF RowsLater
  <2>4. /\ k.phase = g.phase /\ k.begun = g.begun /\ k.refresh = g.refresh \ {i} /\ k.row = g.row
        /\ k.listed = g.listed /\ k.access = g.access /\ k.hit = g.hit \cup {i}
        /\ k.browser = g.browser /\ k.presented = g.presented /\ k.asked = g.asked
    BY <1>0 DEF LogoutRecord
  <2>5. k \in LogoutRecord
    <3>1. g.hit \cup {i} \in SUBSET Issue /\ g.refresh \ {i} \in SUBSET Issue
      BY <1>0, <2>1 DEF LogoutRecord
    <3>2. QED
      BY <1>0, <3>1 DEF LogoutRecord
  <2>6. logout' = [logout EXCEPT ![l] = k]
    BY <1>2
  <2> HIDE DEF k
  <2>7. Sound(k, info', access', refresh', idtoken')
    BY <1>1, <1>2, <2>2, <2>3, <2>4 DEF Sound, Doing, Listed
  <2>8. QED
    BY <1>0, <1>1, <2>2, <2>5, <2>6, <2>7, Known, OneLogout
<1>3. CASE /\ g.refresh = {} /\ logout' = [logout EXCEPT ![l] = [g EXCEPT !.phase = "sign_out"]]
           /\ UNCHANGED <<access, refresh, revoked>>
  <2> DEFINE k == [g EXCEPT !.phase = "sign_out"]
  <2>1. /\ k.phase = "sign_out" /\ k.begun = g.begun /\ k.refresh = {}
        /\ k.listed = g.listed /\ k.access = g.access /\ k.hit = g.hit
        /\ k.browser = g.browser /\ k.presented = g.presented /\ k.asked = g.asked
    BY <1>0, <1>3 DEF LogoutRecord
  <2>2. k \in LogoutRecord
    BY <1>0 DEF LogoutRecord, Doing
  <2>3. logout' = [logout EXCEPT ![l] = k] /\ UNCHANGED tokens
    BY <1>1, <1>3 DEF tokens
  <2> HIDE DEF k
  <2>4. Sound(k, info, access, refresh, idtoken)
    BY <1>0, <1>1, <1>3, <2>1 DEF Sound, Doing, Listed
  <2>5. QED
    BY <1>1, <2>2, <2>3, <2>4, OnlyTheLogout
<1>4. QED
  BY <1>0, <1>2, <1>3 DEF RevokeRefresh

\* The session ends.
LEMMA SignOutStep ==
  ASSUME SessionInv, NEW l \in Logout, SignOut(l)
  PROVE  SessionInv' /\ RowsLater
<1> DEFINE g == logout[l]
           k == [g EXCEPT !.phase = "logged_out"]
<1>0. /\ g \in LogoutRecord /\ logout \in [Logout -> LogoutRecord] /\ Sound(g, info, access, refresh, idtoken)
      /\ session \in [Session -> User \cup {Anonymous}]
  BY Known
<1>1. /\ g.phase = "sign_out" /\ UNCHANGED tokens /\ now' = now
      /\ logout' = [logout EXCEPT ![l] = k] /\ session' = [session EXCEPT ![g.session] = Anonymous]
  BY <1>0 DEF SignOut
<1>2. session' \in [Session -> User \cup {Anonymous}]
  BY <1>0, <1>1
<1>3. /\ k.phase = "logged_out" /\ k.begun = g.begun /\ k.refresh = g.refresh
      /\ k.listed = g.listed /\ k.access = g.access /\ k.hit = g.hit
      /\ k.browser = g.browser /\ k.presented = g.presented /\ k.asked = g.asked
  BY <1>0 DEF LogoutRecord
<1>4. k \in LogoutRecord
  BY <1>0 DEF LogoutRecord, Answer
<1> HIDE DEF k
<1>5. Sound(k, info, access, refresh, idtoken)
  BY <1>0, <1>1, <1>3 DEF Sound, Doing, Listed
<1>6. Sound(k, info', access', refresh', idtoken')
  BY <1>1, <1>5, RowsStay
<1>7. QED
  BY <1>1, <1>2, <1>4, <1>6, RowsStay, OneLogout

-----------------------------------------------------------------------------
(* The clear_expired job. *)

\* What a batch may hold is still outdated when it is deleted; what was dead
\* when the job started stays dead until its stage comes.
Swept(s, inf, acc, ref, rev, idt, t) ==
  /\ s.batch # {} => s.stage \in Stage
  /\ s.stage # "idle" => s.start <= t
  /\ \A i \in s.batch : /\ inf[i] # None
                        /\ s.stage = "access" => ref[i] # "live" /\ inf[i].born + AccessLife < s.start
                        /\ s.stage = "id" => inf[i].born + IdLife < s.start
  /\ \A i \in s.dead.refresh : inf[i] # None /\ (s.stage = "idle" \/ ref[i] = "gone"
       \/ (s.stage = "revoked" /\ ref[i] = "revoked" /\ rev[i] < s.start - RefreshExpire))
  /\ \A i \in s.dead.access : inf[i] # None /\ (s.stage = "idle" \/ acc[i] = "gone"
       \/ (/\ s.stage \in {"revoked", "expired", "access"} /\ inf[i].born + AccessLife < s.start
           /\ ref[i] = "live" => /\ s.stage \in {"revoked", "expired"}
                                 /\ inf[i].born + AccessLife < s.start - RefreshExpire))
  /\ \A i \in s.dead.id : inf[i] # None /\ (s.stage = "idle" \/ idt[i] # "live"
       \/ (/\ s.stage \in Stage /\ inf[i].born + IdLife < s.start
           /\ acc[i] = "live" => i \in s.dead.access))

SweepInv == sweep \in SweepRecord /\ Swept(sweep, info, access, refresh, revoked, idtoken, now)

\* What others do to the rows, and the time that passes, leave it so.
LEMMA SweptCarried ==
  ASSUME NEW s \in SweepRecord, NEW inf, NEW acc, NEW ref, NEW rev, NEW idt, NEW t \in Nat, NEW t2 \in Nat, t <= t2,
         NEW inf2, NEW acc2, NEW ref2, NEW rev2, NEW idt2,
         Later(inf, acc, ref, rev, idt, inf2, acc2, ref2, rev2, idt2), Swept(s, inf, acc, ref, rev, idt, t)
  PROVE  Swept(s, inf2, acc2, ref2, rev2, idt2, t2)
<1>0. /\ s.batch \subseteq Issue /\ s.dead.refresh \subseteq Issue /\ s.dead.access \subseteq Issue
      /\ s.dead.id \subseteq Issue /\ s.start \in Nat
  BY DEF SweepRecord
<1>1. s.stage # "idle" => s.start <= t2
  BY <1>0 DEF Swept
<1>2. ASSUME NEW i \in s.batch
      PROVE  /\ inf2[i] # None
             /\ s.stage = "access" => ref2[i] # "live" /\ inf2[i].born + AccessLife < s.start
             /\ s.stage = "id" => inf2[i].born + IdLife < s.start
  BY <1>0 DEF Swept, Later
<1>3. ASSUME NEW i \in s.dead.refresh
      PROVE  inf2[i] # None /\ (s.stage = "idle" \/ ref2[i] = "gone"
               \/ (s.stage = "revoked" /\ ref2[i] = "revoked" /\ rev2[i] < s.start - RefreshExpire))
  BY <1>0 DEF Swept, Later
<1>4. ASSUME NEW i \in s.dead.access
      PROVE  inf2[i] # None /\ (s.stage = "idle" \/ acc2[i] = "gone"
               \/ (/\ s.stage \in {"revoked", "expired", "access"} /\ inf2[i].born + AccessLife < s.start
                   /\ ref2[i] = "live" => /\ s.stage \in {"revoked", "expired"}
                                          /\ inf2[i].born + AccessLife < s.start - RefreshExpire))
  BY <1>0 DEF Swept, Later
<1>5. ASSUME NEW i \in s.dead.id
      PROVE  inf2[i] # None /\ (s.stage = "idle" \/ idt2[i] # "live"
               \/ (/\ s.stage \in Stage /\ inf2[i].born + IdLife < s.start
                   /\ acc2[i] = "live" => i \in s.dead.access))
  BY <1>0 DEF Swept, Later
<1>6. s.batch # {} => s.stage \in Stage
  BY DEF Swept
<1>7. QED
  BY <1>1, <1>2, <1>3, <1>4, <1>5, <1>6 DEF Swept

\* What the job does not know when it starts does not matter.
LEMMA StartStep ==
  ASSUME SessionInv, SweepInv, StartSweep
  PROVE  SweepInv'
<1> DEFINE old == now - RefreshExpire
           oldRefresh == {i \in Issue : RefreshExpire # 0 /\ refresh[i] = "revoked" /\ revoked[i] < old}
           oldAccess == {i \in Issue : /\ access[i] = "live" /\ AccessExpires(i) < now
                                       /\ Bound(i) => RefreshExpire # 0 /\ AccessExpires(i) < old}
           oldId == {i \in Issue : /\ idtoken[i] = "live" /\ IdExpires(i) < now
                                   /\ access[i] = "live" => i \in oldAccess}
           dead == [refresh |-> oldRefresh, access |-> oldAccess, id |-> oldId]
           stage == IF RefreshExpire = 0 THEN "access" ELSE "revoked"
           s == [stage |-> stage, start |-> now, batch |-> {}, dead |-> dead]
<1>0. RowTypes /\ RowsInv /\ now \in Nat
  BY DEF SessionInv
<1>1. UNCHANGED <<now, session, logout>> /\ UNCHANGED <<info, access, refresh, revoked, idtoken>>
  BY DEF StartSweep, tokens
<1>2. Doomed(now) = dead
  BY DEF Doomed
<1>3. sweep' = s
  BY <1>2 DEF StartSweep
<1>4. /\ oldRefresh \subseteq Issue /\ oldAccess \subseteq Issue /\ oldId \subseteq Issue
      /\ \A i \in oldRefresh : info[i] # None /\ RefreshExpire # 0 /\ refresh[i] = "revoked" /\ revoked[i] < old
      /\ \A i \in oldAccess : /\ info[i] # None /\ access[i] = "live" /\ info[i].born + AccessLife < now
                              /\ refresh[i] = "live" => RefreshExpire # 0 /\ info[i].born + AccessLife < old
      /\ \A i \in oldId : /\ info[i] # None /\ info[i].born + IdLife < now
                          /\ access[i] = "live" => i \in oldAccess
  BY <1>0 DEF RowsInv, AccessExpires, IdExpires, Bound
<1> HIDE DEF oldRefresh, oldAccess, oldId
<1>5. /\ stage \in Stage /\ stage # "idle" /\ (RefreshExpire # 0 => stage = "revoked")
      /\ stage \in {"revoked", "access"}
  BY DEF Stage
<1> HIDE DEF stage
<1>6. s \in SweepRecord
  BY <1>0, <1>4, <1>5 DEF SweepRecord
<1>7. Swept(s, info, access, refresh, revoked, idtoken, now)
  BY <1>0, <1>4, <1>5 DEF Swept
<1>8. QED
  BY <1>1, <1>3, <1>6, <1>7 DEF SweepInv

\* A batch holds only rows of the query; an empty query ends its stage.
LEMMA ReadStep ==
  ASSUME SessionInv, SweepInv, ReadBatch
  PROVE  SweepInv'
<1> DEFINE s == sweep
           rows == Matching(s.stage)
<1>0. /\ RowTypes /\ RowsInv /\ now \in Nat /\ s \in SweepRecord
      /\ Swept(s, info, access, refresh, revoked, idtoken, now)
  BY DEF SessionInv, SweepInv
<1>1. UNCHANGED <<now, session, logout>> /\ UNCHANGED <<info, access, refresh, revoked, idtoken>>
  BY DEF ReadBatch, tokens
<1>2. s.stage \in Stage /\ s.batch = {} /\ s.start \in Nat
  BY <1>0 DEF ReadBatch, SweepRecord
<1>3. CASE rows # {}
  <2>1. PICK batch \in Batches(rows) : sweep' = [s EXCEPT !.batch = batch]
    BY <1>3 DEF ReadBatch
  <2>2. batch \subseteq rows
    BY <2>1 DEF Batches, kSubset
  <2>3. rows \subseteq Issue
    BY <1>2 DEF Matching, Stage
  <2>4. ASSUME NEW i \in batch
        PROVE  /\ info[i] # None
               /\ s.stage = "access" => refresh[i] # "live" /\ info[i].born + AccessLife < s.start
               /\ s.stage = "id" => info[i].born + IdLife < s.start
    <3>1. i \in rows /\ i \in Issue
      BY <2>2, <2>3
    <3>2. CASE s.stage = "revoked"
      BY <1>0, <3>1, <3>2 DEF Matching, IsRevoked, RowsInv
    <3>3. CASE s.stage = "expired"
      BY <1>0, <3>1, <3>3 DEF Matching, IsOutdated, Bound, RowsInv
    <3>4. CASE s.stage = "access"
      BY <1>0, <3>1, <3>4 DEF Matching, AccessIsDead, AccessExpires, Bound, RowsInv
    <3>5. CASE s.stage = "id"
      BY <1>0, <3>1, <3>5 DEF Matching, IdIsDead, IdExpires, RowsInv
    <3>6. QED
      BY <1>2, <3>2, <3>3, <3>4, <3>5 DEF Stage
  <2> DEFINE k == [s EXCEPT !.batch = batch]
  <2>5. k.stage = s.stage /\ k.start = s.start /\ k.batch = batch /\ k.dead = s.dead
    BY <1>0 DEF SweepRecord
  <2>6. k \in SweepRecord
    BY <1>0, <2>2, <2>3 DEF SweepRecord
  <2> HIDE DEF k, rows
  <2>7. Swept(k, info, access, refresh, revoked, idtoken, now)
    BY <1>0, <1>2, <2>4, <2>5 DEF Swept
  <2>8. sweep' = k
    BY <2>1 DEF k
  <2>9. QED
    BY <1>1, <2>6, <2>7, <2>8 DEF SweepInv
<1>4. CASE rows = {}
  <2> DEFINE k == [s EXCEPT !.stage = StageAfter(@)]
  <2>1. sweep' = k
    BY <1>4 DEF ReadBatch
  <2>2. /\ k.stage = StageAfter(s.stage) /\ k.start = s.start /\ k.batch = {} /\ k.dead = s.dead
    BY <1>0, <1>2 DEF SweepRecord
  <2>3. StageAfter(s.stage) \in {"expired", "access", "id", "done"}
    BY <1>2 DEF Stage, StageAfter
  <2>4. k \in SweepRecord
    BY <1>0, <2>3 DEF SweepRecord, Stage
  <2> HIDE DEF k
  <2>5. s.start <= now
    BY <1>0, <1>2 DEF Swept, Stage
  <2>6. /\ s.dead.refresh \subseteq Issue /\ s.dead.access \subseteq Issue /\ s.dead.id \subseteq Issue
    BY <1>0 DEF SweepRecord
  <2>7. CASE s.stage = "revoked"
    <3>1. k.stage = "expired"
      BY <2>2, <2>7 DEF StageAfter
    <3>2. \A i \in Issue : ~(refresh[i] = "revoked" /\ revoked[i] < s.start - RefreshExpire)
      BY <1>4, <2>7 DEF Matching, IsRevoked, RefreshExpireAt
    <3>3. Swept(k, info, access, refresh, revoked, idtoken, now)
      BY <1>0, <2>2, <2>5, <2>6, <2>7, <3>1, <3>2 DEF Swept, Stage
    <3>4. QED
      BY <1>1, <2>1, <2>4, <3>3 DEF SweepInv
  <2>8. CASE s.stage = "expired"
    <3>1. k.stage = "access"
      BY <2>2, <2>8 DEF StageAfter
    <3>2. \A i \in Issue : ~(refresh[i] = "live" /\ access[i] = "live"
                             /\ info[i].born + AccessLife < s.start - RefreshExpire)
      BY <1>4, <2>8 DEF Matching, IsOutdated, RefreshExpireAt, Bound, AccessExpires
    <3>3. \A i \in s.dead.access : access[i] \in {"live", "gone"}
      BY <1>0, <2>6 DEF RowTypes, RowsInv, Swept
    <3>4. Swept(k, info, access, refresh, revoked, idtoken, now)
      BY <1>0, <2>2, <2>5, <2>6, <2>8, <3>1, <3>2, <3>3 DEF Swept, Stage
    <3>5. QED
      BY <1>1, <2>1, <2>4, <3>4 DEF SweepInv
  <2>9. CASE s.stage = "access"
    <3>1. k.stage = "id"
      BY <2>2, <2>9 DEF StageAfter
    <3>2. \A i \in Issue : ~(access[i] = "live" /\ refresh[i] # "live" /\ info[i].born + AccessLife < s.start)
      BY <1>4, <2>9 DEF Matching, AccessIsDead, Bound, AccessExpires
    <3>3. \A i \in s.dead.access : access[i] \in {"live", "gone"}
      BY <1>0, <2>6 DEF RowTypes, RowsInv, Swept
    <3>4. Swept(k, info, access, refresh, revoked, idtoken, now)
      BY <1>0, <2>2, <2>5, <2>6, <2>9, <3>1, <3>2, <3>3 DEF Swept, Stage
    <3>5. QED
      BY <1>1, <2>1, <2>4, <3>4 DEF SweepInv
  <2>10. CASE s.stage = "id"
    <3>1. k.stage = "done"
      BY <2>2, <2>10 DEF StageAfter
    <3>2. \A i \in Issue : ~(idtoken[i] = "live" /\ access[i] # "live" /\ info[i].born + IdLife < s.start)
      BY <1>4, <2>10 DEF Matching, IdIsDead, IdExpires
    <3>3. Swept(k, info, access, refresh, revoked, idtoken, now)
      BY <1>0, <2>2, <2>5, <2>6, <2>10, <3>1, <3>2 DEF Swept, Stage
    <3>4. QED
      BY <1>1, <2>1, <2>4, <3>3 DEF SweepInv
  <2>11. QED
    BY <1>2, <2>7, <2>8, <2>9, <2>10 DEF Stage
<1>5. QED
  BY <1>3, <1>4

\* What deleting a batch does to each table.
LEMMA DeletedRows ==
  ASSUME RowTypes, sweep \in SweepRecord, DeleteBatch
  PROVE  /\ UNCHANGED <<now, info, revoked, session, logout>> /\ sweep' = [sweep EXCEPT !.batch = {}]
         /\ access' \in [Issue -> {"none", "live", "gone"}] /\ idtoken' \in [Issue -> {"none", "live", "gone"}]
         /\ refresh' \in [Issue -> {"none", "live", "revoked", "gone"}]
         /\ \A i \in Issue :
              /\ access'[i] = access[i]
                 \/ (sweep.stage = "access" /\ i \in sweep.batch /\ access[i] # "none" /\ access'[i] = "gone")
              /\ idtoken'[i] = idtoken[i]
                 \/ (sweep.stage = "id" /\ i \in sweep.batch /\ idtoken[i] # "none" /\ idtoken'[i] = "gone")
              /\ refresh'[i] = refresh[i]
                 \/ (sweep.stage \in {"revoked", "expired"} /\ refresh[i] # "none" /\ refresh'[i] = "gone")
<1>1. UNCHANGED <<now, info, revoked, session, logout>> /\ sweep' = [sweep EXCEPT !.batch = {}]
  BY DEF DeleteBatch
<1>2. access' = IF sweep.stage \in {"access"}
                THEN [i \in Issue |-> IF i \in sweep.batch /\ access[i] # "none" THEN "gone" ELSE access[i]]
                ELSE access
  BY DEF DeleteBatch
<1>3. idtoken' = IF sweep.stage \in {"id"}
                 THEN [i \in Issue |-> IF i \in sweep.batch /\ idtoken[i] # "none" THEN "gone" ELSE idtoken[i]]
                 ELSE idtoken
  BY DEF DeleteBatch
<1>4. refresh' = IF sweep.stage \in {"revoked", "expired"}
                 THEN [i \in Issue |-> IF i \in sweep.batch /\ refresh[i] # "none" THEN "gone" ELSE refresh[i]]
                 ELSE refresh
  BY DEF DeleteBatch
<1>5. QED
  BY <1>1, <1>2, <1>3, <1>4 DEF RowTypes

\* A deleted batch leaves every invariant.
LEMMA DeleteStep ==
  ASSUME SessionInv, SweepInv, DeleteBatch
  PROVE  SessionInv' /\ SweepInv'
<1> DEFINE k == [sweep EXCEPT !.batch = {}]
<1>0. /\ RowTypes /\ RowsInv /\ now \in Nat /\ sweep \in SweepRecord
      /\ Swept(sweep, info, access, refresh, revoked, idtoken, now)
  BY DEF SessionInv, SweepInv
<1>1. /\ UNCHANGED <<now, info, revoked, session, logout>> /\ sweep' = k
      /\ access' \in [Issue -> {"none", "live", "gone"}] /\ idtoken' \in [Issue -> {"none", "live", "gone"}]
      /\ refresh' \in [Issue -> {"none", "live", "revoked", "gone"}]
      /\ \A i \in Issue : /\ access'[i] = access[i] \/ (access[i] # "none" /\ access'[i] = "gone")
                          /\ idtoken'[i] = idtoken[i] \/ (idtoken[i] # "none" /\ idtoken'[i] = "gone")
                          /\ refresh'[i] = refresh[i] \/ (refresh[i] # "none" /\ refresh'[i] = "gone")
  BY <1>0, DeletedRows
<1>2. RowTypes' /\ RowsInv' /\ RowsLater
  BY <1>0, <1>1, RowsDeleted
<1>3. SessionInv'
  BY <1>0, <1>1, <1>2, NoLogout
<1>4. Swept(sweep, info', access', refresh', revoked', idtoken', now)
  BY <1>0, <1>2, SweptCarried DEF RowsLater
<1>5. k.stage = sweep.stage /\ k.start = sweep.start /\ k.batch = {} /\ k.dead = sweep.dead /\ k \in SweepRecord
  BY <1>0 DEF SweepRecord
<1> HIDE DEF k
<1>6. Swept(k, info', access', refresh', revoked', idtoken', now)
  BY <1>4, <1>5 DEF Swept
<1>7. QED
  BY <1>1, <1>3, <1>5, <1>6 DEF SweepInv

-----------------------------------------------------------------------------
(* The invariant. *)

Inv == SessionInv /\ SweepInv

\* It holds to begin with.
LEMMA InvInit ==
  ASSUME Init
  PROVE  Inv
<1>1. now \in Nat /\ RowTypes /\ RowsInv /\ session \in [Session -> User \cup {Anonymous}]
  BY DEF Init, RowTypes, RowsInv
<1>2. NewLogout \in LogoutRecord
  BY RequestFields
<1>3. NewLogout.phase = "idle" /\ NewLogout.begun = {} /\ NewLogout.listed = {} /\ NewLogout.access = {}
      /\ NewLogout.refresh = {} /\ NewLogout.hit = {}
  BY DEF NewLogout
<1>4. Sound(NewLogout, info, access, refresh, idtoken)
  BY <1>3 DEF Sound, Doing, Listed
<1>5. logout \in [Logout -> LogoutRecord] /\ LogoutInv
  BY <1>2, <1>4 DEF Init, LogoutInv
<1>6. SweepInv
  <2>1. sweep = [stage |-> "idle", start |-> 0, batch |-> {},
                 dead |-> [access |-> {}, refresh |-> {}, id |-> {}]]
    BY DEF Init
  <2>2. sweep \in SweepRecord
    BY <2>1 DEF SweepRecord
  <2>3. sweep.stage = "idle" /\ sweep.batch = {} /\ sweep.dead.refresh = {} /\ sweep.dead.access = {}
        /\ sweep.dead.id = {}
    BY <2>1
  <2>4. QED
    BY <2>2, <2>3 DEF SweepInv, Swept
<1>7. QED
  BY <1>1, <1>5, <1>6 DEF Inv, SessionInv

\* The steps that leave the job alone.
LEMMA SweepAside ==
  ASSUME SessionInv, SweepInv, SessionInv', RowsLater, sweep' = sweep, now <= now'
  PROVE  Inv'
<1>1. now \in Nat /\ now' \in Nat
  BY DEF SessionInv
<1>2. Swept(sweep, info', access', refresh', revoked', idtoken', now')
  BY <1>1, SweptCarried DEF SweepInv, RowsLater
<1>3. QED
  BY <1>2 DEF Inv, SweepInv

\* A step of a logout.
LEMMA LogoutStep ==
  ASSUME SessionInv, NEW l \in Logout, RequestLogout(l) \/ DoLogout(l)
  PROVE  SessionInv' /\ RowsLater /\ sweep' = sweep /\ now' = now
<1>1. SessionInv' /\ RowsLater
  BY RequestStep, ListRefreshStep, ListAccessStep, NextTokenStep, RevokeIdTokenStep, RevokeAccessStep,
     RevokeRefreshStep, SignOutStep DEF DoLogout
<1>2. CASE RequestLogout(l)
  BY <1>1, <1>2 DEF RequestLogout
<1>3. CASE ListRefresh(l) \/ ListAccess(l) \/ NextToken(l)
  BY <1>1, <1>3 DEF ListRefresh, ListAccess, NextToken
<1>4. CASE RevokeIdToken(l) \/ RevokeAccess(l) \/ RevokeRefresh(l) \/ SignOut(l)
  BY <1>1, <1>4 DEF RevokeIdToken, RevokeAccess, RevokeRefresh, SignOut
<1>5. QED
  BY <1>1, <1>2, <1>3, <1>4 DEF DoLogout

\* A step of anybody else than a logout or the job.
LEMMA OtherStep ==
  ASSUME SessionInv, NEW i \in Issue, NEW j \in Issue,
         IssueTokens(i) \/ DeleteAccess(i) \/ RevokeToken(i) \/ Rotate(i, j)
  PROVE  SessionInv' /\ RowsLater /\ sweep' = sweep /\ now' = now
<1>0. RowTypes /\ RowsInv /\ now \in Nat
  BY DEF SessionInv
<1>1. CASE IssueTokens(i)
  <2>1. UNCHANGED <<now, session, logout, sweep>>
    BY <1>1 DEF IssueTokens
  <2>2. QED
    BY <1>0, <1>1, <2>1, RowsIssued, NoLogout
<1>2. CASE DeleteAccess(i)
  <2>1. UNCHANGED <<now, info, refresh, revoked, idtoken, session, logout, sweep>> /\ DropAccess(i) /\ access[i] = "live"
    BY <1>2 DEF DeleteAccess
  <2>2. /\ access' \in [Issue -> {"none", "live", "gone"}]
        /\ \A m \in Issue : access'[m] = access[m] \/ (access[m] # "none" /\ access'[m] = "gone")
    BY <1>0, <2>1 DEF DropAccess, RowTypes
  <2>3. RowTypes' /\ RowsInv' /\ RowsLater
    <3>1. /\ \A m \in Issue : refresh'[m] = refresh[m] /\ idtoken'[m] = idtoken[m]
          /\ refresh' \in [Issue -> {"none", "live", "revoked", "gone"}]
          /\ idtoken' \in [Issue -> {"none", "live", "gone"}]
      BY <1>0, <2>1 DEF RowTypes
    <3>2. QED
      BY <1>0, <2>1, <2>2, <3>1, RowsDeleted
  <2>4. QED
    BY <1>0, <2>1, <2>3, NoLogout
<1>3. CASE RevokeToken(i)
  <2>1. UNCHANGED <<now, info, idtoken, session, logout, sweep>> /\ RevokeRow(i)
    BY <1>3 DEF RevokeToken
  <2>2. QED
    BY <1>0, <2>1, RowsRevoked, NoLogout
<1>4. CASE Rotate(i, j)
  <2>1. UNCHANGED <<now, session, logout, sweep>>
    BY <1>4 DEF Rotate
  <2>2. QED
    BY <1>0, <1>4, <2>1, RowsRotated, NoLogout
<1>5. QED
  BY <1>1, <1>2, <1>3, <1>4

\* Every step preserves the invariant.
LEMMA InvStep ==
  ASSUME Inv, [Next]_vars
  PROVE  Inv'
<1>0. SessionInv /\ SweepInv /\ now \in Nat
  BY DEF Inv, SessionInv
<1>1. ASSUME NEW i \in Issue, NEW j \in Issue,
             IssueTokens(i) \/ DeleteAccess(i) \/ RevokeToken(i) \/ Rotate(i, j)
      PROVE  Inv'
  BY <1>0, <1>1, OtherStep, SweepAside
<1>2. ASSUME NEW l \in Logout, RequestLogout(l) \/ DoLogout(l) PROVE Inv'
  BY <1>0, <1>2, LogoutStep, SweepAside
<1>3. ASSUME UNCHANGED tokens, UNCHANGED <<logout, session>>, now' \in Nat PROVE SessionInv' /\ RowsLater
  BY <1>0, <1>3, RowsStay, NoLogout
<1>4. CASE StartSweep \/ ReadBatch
  <2>1. UNCHANGED tokens /\ UNCHANGED <<now, logout, session>>
    BY <1>4 DEF StartSweep, ReadBatch
  <2>2. SessionInv'
    BY <1>0, <1>3, <2>1
  <2>3. SweepInv'
    BY <1>0, <1>4, StartStep, ReadStep
  <2>4. QED
    BY <2>2, <2>3 DEF Inv
<1>5. CASE DeleteBatch
  BY <1>0, <1>5, DeleteStep DEF Inv
<1>6. CASE Tick
  <2>1. UNCHANGED tokens /\ UNCHANGED <<logout, session, sweep>> /\ now' \in Nat /\ now <= now'
    BY <1>0, <1>6, NumbersAreNat DEF Tick
  <2>2. QED
    BY <1>0, <1>3, <2>1, SweepAside
<1>7. CASE UNCHANGED vars
  <2>1. UNCHANGED tokens /\ UNCHANGED <<now, logout, session, sweep>>
    BY <1>7 DEF vars, tokens
  <2>2. QED
    BY <1>0, <1>3, <2>1, SweepAside
<1>8. QED
  BY <1>1, <1>2, <1>4, <1>5, <1>6, <1>7 DEF Next, Sweep

\* The invariant holds in every behaviour.
THEOREM InvCorrect == Spec => []Inv
<1>1. Init => Inv
  BY InvInit
<1>2. Inv /\ [Next]_vars => Inv'
  BY InvStep
<1>3. QED
  BY <1>1, <1>2, PTL DEF Spec

\* The rows, the sessions, the requests and the job stay well typed.
THEOREM TypeCorrect == Spec => []TypeOK
<1>1. Inv => TypeOK
  BY DEF Inv, SessionInv, SweepInv, RowTypes, TypeOK, LogoutRecord, SweepRecord
<1>2. QED
  BY <1>1, InvCorrect, PTL

\* A logout touches only tokens of the user it is for, whatever is issued,
\* revoked or rotated between its statements.
THEOREM OthersKeep == Spec => []OthersKeepTheirTokens
<1>1. Inv => OthersKeepTheirTokens
  BY DEF Inv, SessionInv, LogoutInv, Sound, UserToLogOut, OthersKeepTheirTokens
<1>2. QED
  BY <1>1, InvCorrect, PTL

\* A signed-in user is logged out only after agreeing, or with an ID token of
\* that same user.
THEOREM Consented == Spec => []LogoutIsConsented
<1>1. Inv => LogoutIsConsented
  BY DEF Inv, SessionInv, LogoutInv, Sound, LogoutIsConsented
<1>2. QED
  BY <1>1, InvCorrect, PTL

\* A logout that ends leaves nothing of what it could see, although others
\* delete, revoke and rotate between its statements.
THEOREM LogoutComplete == Spec => []LogoutIsComplete
<1>1. Inv => LogoutIsComplete
  <2>1. SUFFICES ASSUME Inv, NEW l \in Logout, Ended(l)
                 PROVE  /\ \A i \in logout[l].begun : access[i] = "gone" /\ refresh[i] # "live"
                        /\ \A i \in logout[l].listed : idtoken[i] # "live"
    BY DEF LogoutIsComplete
  <2>2. Sound(logout[l], info, access, refresh, idtoken) /\ logout[l].phase = "logged_out"
    BY <2>1 DEF Inv, SessionInv, LogoutInv, Ended
  <2>3. logout[l].access = {} /\ logout[l].refresh = {}
    BY <2>2 DEF Sound
  <2>4. \A i \in logout[l].listed : access[i] = "gone" /\ idtoken[i] # "live"
    BY <2>2, <2>3 DEF Sound, Listed
  <2>5. \A i \in logout[l].begun : refresh[i] # "live" /\ (i \in logout[l].listed \/ access[i] = "gone")
    BY <2>2, <2>3 DEF Sound, Listed
  <2>6. QED
    BY <2>4, <2>5
<1>2. QED
  BY <1>1, InvCorrect, PTL

\* When the job is done, nothing is left of what was outdated when it started.
THEOREM SweepComplete == Spec => []SweepIsComplete
<1>1. Inv => SweepIsComplete
  BY DEF Inv, SweepInv, Swept, Stage, SweepIsComplete
<1>2. QED
  BY <1>1, InvCorrect, PTL

\* The job never takes a token that has not expired, nor the access token of a
\* refresh token that can still be used.
THEOREM SweepSpares == Spec => SweepSparesTheLiving
<1>1. Inv /\ [Next]_vars => [\A i \in Issue : sweep.stage \in Stage /\ sweep' # sweep =>
        /\ Bound(i) /\ access'[i] = "gone" => refresh'[i] # "live"
        /\ access[i] = "live" /\ access'[i] = "gone" => AccessExpires(i) < now
        /\ idtoken[i] = "live" /\ idtoken'[i] = "gone" => IdExpires(i) < now]_vars
  <2>1. SUFFICES ASSUME Inv, Next, NEW i \in Issue, sweep.stage \in Stage, sweep' # sweep
                 PROVE  /\ Bound(i) /\ access'[i] = "gone" => refresh'[i] # "live"
                        /\ access[i] = "live" /\ access'[i] = "gone" => AccessExpires(i) < now
                        /\ idtoken[i] = "live" /\ idtoken'[i] = "gone" => IdExpires(i) < now
    OBVIOUS
  <2>2. SessionInv /\ RowTypes /\ RowsInv /\ now \in Nat /\ sweep \in SweepRecord
        /\ Swept(sweep, info, access, refresh, revoked, idtoken, now)
    BY <2>1 DEF Inv, SessionInv, SweepInv
  <2>3. ReadBatch \/ DeleteBatch
    <3>1. ~StartSweep
      BY <2>1 DEF StartSweep, Stage
    <3>2. ASSUME NEW j \in Issue, NEW m \in Issue,
                 IssueTokens(j) \/ DeleteAccess(j) \/ RevokeToken(j) \/ Rotate(j, m)
          PROVE  FALSE
      BY <2>1, <2>2, <3>2, OtherStep
    <3>3. ASSUME NEW l \in Logout, RequestLogout(l) \/ DoLogout(l) PROVE FALSE
      BY <2>1, <2>2, <3>3, LogoutStep
    <3>4. ~Tick
      BY <2>1 DEF Tick
    <3>5. QED
      BY <2>1, <3>1, <3>2, <3>3, <3>4 DEF Next, Sweep
  <2>4. CASE ReadBatch
    <3>1. UNCHANGED <<access, idtoken>>
      BY <2>4 DEF ReadBatch, tokens
    <3>2. QED
      BY <3>1 DEF Bound
  <2>5. CASE DeleteBatch
    <3>1. /\ access[i] = "live" /\ access'[i] = "gone" => /\ sweep.stage = "access" /\ i \in sweep.batch
                                                          /\ refresh'[i] = refresh[i]
          /\ idtoken[i] = "live" /\ idtoken'[i] = "gone" => sweep.stage = "id" /\ i \in sweep.batch
      BY <2>2, <2>5, DeletedRows
    <3>2. sweep.start <= now /\ sweep.start \in Nat
      BY <2>1, <2>2 DEF Swept, SweepRecord, Stage
    <3>3. \A m \in sweep.batch : m \in Issue /\ info[m] # None /\ info[m].born + AccessLife \in Nat
                                 /\ info[m].born + IdLife \in Nat
      BY <2>2, NumbersAreNat DEF SweepRecord, Swept, RowTypes, Info
    <3>4. access[i] = "live" /\ access'[i] = "gone" => refresh[i] # "live" /\ AccessExpires(i) < now
      BY <2>2, <3>1, <3>2, <3>3 DEF Swept, AccessExpires
    <3>5. idtoken[i] = "live" /\ idtoken'[i] = "gone" => IdExpires(i) < now
      BY <2>2, <3>1, <3>2, <3>3 DEF Swept, IdExpires
    <3>6. QED
      BY <3>1, <3>4, <3>5 DEF Bound
  <2>6. QED
    BY <2>3, <2>4, <2>5
<1>2. QED
  BY <1>1, InvCorrect, PTL DEF Spec, SweepSparesTheLiving
=============================================================================
