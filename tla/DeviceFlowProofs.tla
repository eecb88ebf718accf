--------------------------- MODULE DeviceFlowProofs ---------------------------
(***************************************************************************)
(* Proofs about DeviceFlow, for any number of devices, user codes, users,  *)
(* browser requests, polls and applications.                               *)
(***************************************************************************)
EXTENDS DeviceFlow, TLAPS

\* Whatever secrets are stored, blank ones included, and whatever a request
\* carries in its header and its body: the client that authenticate_client leaves
\* in request.client exists, and the request has the secret stored for it, in the
\* place the client was taken from; so one with a secret that is not blank showed
\* it.  Only a public client that polls with a device code may do without.
THEOREM ClientIsProven ==
  ASSUME NEW Secrets, NEW Grants, NEW stored \in [Application -> Secrets \cup {NoSecret}],
         NEW request \in [basic : Credentials(Secrets), body : Credentials(Secrets), grant : Grants],
         AuthenticateClient(request, stored)
  PROVE  LET used == AuthenticatingCredentials(request, stored)
         IN /\ used.id \in Application
            /\ \/ used.secret = stored[used.id]
               \/ used.id \in Public /\ request.grant = DeviceCodeGrant
<1>1. CASE AuthenticateBasicAuth(request, stored)
  <2>1. AuthenticatingCredentials(request, stored) = request.basic
    BY <1>1 DEF AuthenticatingCredentials
  <2>2. LoadApplication(request.basic.id) # NoClient
    BY <1>1 DEF AuthenticateBasicAuth
  <2>3. request.basic.id \in Application /\ LoadApplication(request.basic.id) = request.basic.id
    BY <2>2 DEF LoadApplication
  <2>4. NeedsNoSecret(request, request.basic.id) \/ CheckSecret(request.basic.secret, stored[request.basic.id])
    BY <1>1, <2>3 DEF AuthenticateBasicAuth
  <2>5. QED
    BY <2>1, <2>3, <2>4 DEF NeedsNoSecret, CheckSecret, Credentials
<1>2. CASE ~AuthenticateBasicAuth(request, stored)
  <2>1. AuthenticatingCredentials(request, stored) = request.body /\ AuthenticateRequestBody(request, stored)
    BY <1>2 DEF AuthenticatingCredentials, AuthenticateClient
  <2>2. LoadApplication(request.body.id) # NoClient
    BY <2>1 DEF AuthenticateRequestBody
  <2>3. request.body.id \in Application /\ LoadApplication(request.body.id) = request.body.id
    BY <2>2 DEF LoadApplication
  <2>4. NeedsNoSecret(request, request.body.id) \/ CheckSecret(request.body.secret, stored[request.body.id])
    BY <2>1, <2>3 DEF AuthenticateRequestBody
  <2>5. QED
    BY <2>1, <2>3, <2>4 DEF NeedsNoSecret, CheckSecret, Credentials
<1>3. QED
  BY <1>1, <1>2

\* A poll that is accepted comes from a client that is public or sent its own secret.
LEMMA AcceptedIsProven ==
  ASSUME NEW sent \in Sent, DeviceClientAccepted(sent, OwnSecret)
  PROVE  Proven(sent)
  BY NoClientIsNone DEF Sent, DeviceClientAccepted, AuthenticateClient, AuthenticateBasicAuth,
     AuthenticateRequestBody, AuthenticatingCredentials, Proven, LoadApplication, NeedsNoSecret,
     CheckSecret, Credentials

\* What PollClient makes of a poll.
LEMMA VerdictCases ==
  ASSUME NEW sent \in Sent
  PROVE  \/ Verdict(sent)[1] = "pre_token" /\ Verdict(sent)[2] = TRUE
         \/ Verdict(sent)[1] = "invalid_client" /\ Verdict(sent)[2] = FALSE
<1>1. Proven(sent) \in BOOLEAN
  BY DEF Proven
<1>2. QED
  BY <1>1, AcceptedIsProven DEF Verdict

-----------------------------------------------------------------------------
(* Type correctness. *)

\* An answered browser request keeps nothing.
LEMMA TabAnswered ==
  ASSUME tab \in [Tab -> TabState], NEW t \in Tab,
         NEW a \in {"form_error", "bad_request", "not_found", "error", "to_confirm", "to_status"},
         AnswerTab(t, a)
  PROVE  tab' \in [Tab -> TabState]
  BY DEF AnswerTab, NewTab, TabState, TabPhase, Action

\* What a poll holds after the look-up of its device.
Begun(d) == [NewPoll EXCEPT !.phase = StatusAnswer(d), !.device = d, !.late = d \in refused]

LEMMA PollBegun ==
  ASSUME NEW d \in Device, StatusAnswer(d) \in PollPhase
  PROVE  Begun(d) \in PollState
<1> DEFINE late == d \in refused
<1>1. late \in BOOLEAN
  OBVIOUS
<1>2. Begun(d) = [NewPoll EXCEPT !.phase = StatusAnswer(d), !.device = d, !.late = late]
  BY DEF Begun
<1> HIDE DEF late
<1>3. [NewPoll EXCEPT !.phase = StatusAnswer(d), !.device = d, !.late = late] \in PollState
  BY <1>1 DEF NewPoll, PollState, PollPhase
<1>4. QED
  BY <1>2, <1>3

\* PreToken fills in the user and the scope.
LEMMA PollFilled ==
  ASSUME poll \in [Poll -> PollState], NEW p \in Poll,
         NEW a \in PollPhase, NEW u \in User \cup {Nobody}, NEW s \in Scope \cup {NoScope},
         poll' = [poll EXCEPT ![p].phase = a, ![p].user = u, ![p].scope = s]
  PROVE  poll' \in [Poll -> PollState]
<1>1. poll[p] \in PollState
  OBVIOUS
<1>2. [poll[p] EXCEPT !.phase = a, !.user = u, !.scope = s] \in PollState
  BY <1>1 DEF PollState
<1>3. poll' = [poll EXCEPT ![p] = [poll[p] EXCEPT !.phase = a, !.user = u, !.scope = s]]
  OBVIOUS
<1>4. QED
  BY <1>2, <1>3

\* A phase of a poll changes.
LEMMA PollAnswered ==
  ASSUME poll \in [Poll -> PollState], NEW p \in Poll, NEW a \in PollPhase, AnswerPoll(p, a)
  PROVE  poll' \in [Poll -> PollState]
  BY DEF AnswerPoll, PollState

\* A column of a row that is there changes.
LEMMA RowColumns ==
  ASSUME row \in [Device -> Row \cup {NoRow}], NEW d \in Device, row[d] # NoRow,
         NEW s \in Status, NEW u \in User \cup {Nobody},
         row' = [row EXCEPT ![d].status = s] \/ row' = [row EXCEPT ![d].user = u]
  PROVE  /\ row' \in [Device -> Row \cup {NoRow}]
         /\ \A e \in Device : row[e] # NoRow => /\ row'[e] # NoRow
                                                /\ row'[e].expires = row[e].expires
                                                /\ row'[e].scope = row[e].scope
<1>1. row[d] \in Row
  OBVIOUS
<1>2. [row[d] EXCEPT !.status = s] \in Row /\ [row[d] EXCEPT !.user = u] \in Row
  BY <1>1 DEF Row
<1>3. \A e \in Device \ {d} : row'[e] = row[e]
  OBVIOUS
<1>4. row'[d] = [row[d] EXCEPT !.status = s] \/ row'[d] = [row[d] EXCEPT !.user = u]
  OBVIOUS
<1>5. row'[d] \in Row /\ row'[d].expires = row[d].expires /\ row'[d].scope = row[d].scope
  BY <1>1, <1>2, <1>4 DEF Row
<1>6. DOMAIN row' = Device /\ row' = [e \in Device |-> row'[e]]
  OBVIOUS
<1>7. QED
  BY <1>3, <1>5, <1>6, NoRowIsNone

\* What a browser request holds after each form.
Entered(d, ph, u) ==
  [NewTab EXCEPT !.phase = ph, !.device = d, !.copy = row[d], !.user = u, !.at = now]
Opened(d, a) == [NewTab EXCEPT !.phase = "decide", !.device = d, !.copy = row[d], !.action = a]

\* What posting the user code comes to.
LEMMA EnteredCases ==
  ASSUME NEW t \in Tab, EnterUserCode(t)
  PROVE  \/ \E a \in {"form_error", "error"} : AnswerTab(t, a)
         \/ \E d \in Device, u \in User, ph \in {"expire", "claim"} :
              /\ row[d] # NoRow
              /\ ph = "expire" => now >= row[d].expires
              /\ ph = "claim" => ~(now >= row[d].expires) /\ row[d].status = Pending
              /\ tab' = [tab EXCEPT ![t] = Entered(d, ph, u)]
<1>1. PICK c \in UserCode, u \in User :
       \/ WithCode(c) = {} /\ AnswerTab(t, "form_error")
       \/ Cardinality(WithCode(c)) > 1 /\ AnswerTab(t, "error")
       \/ \E d \in Device :
            /\ WithCode(c) = {d}
            /\ IF CheckUserCode(d) = "form_error" THEN AnswerTab(t, "form_error")
               ELSE tab' = [tab EXCEPT ![t] = Entered(d, CheckUserCode(d), u)]
  BY DEF EnterUserCode, Entered
<1>2. ASSUME NEW d \in Device, WithCode(c) = {d}, CheckUserCode(d) # "form_error",
             tab' = [tab EXCEPT ![t] = Entered(d, CheckUserCode(d), u)]
      PROVE  \E e \in Device, v \in User, ph \in {"expire", "claim"} :
              /\ row[e] # NoRow
              /\ ph = "expire" => now >= row[e].expires
              /\ ph = "claim" => ~(now >= row[e].expires) /\ row[e].status = Pending
              /\ tab' = [tab EXCEPT ![t] = Entered(e, ph, v)]
  <2>1. row[d] # NoRow
    BY <1>2 DEF WithCode
  <2>2. /\ CheckUserCode(d) \in {"expire", "claim"}
        /\ CheckUserCode(d) = "expire" => now >= row[d].expires
        /\ CheckUserCode(d) = "claim" => ~(now >= row[d].expires) /\ row[d].status = Pending
    BY <1>2 DEF CheckUserCode, PastDeadline
  <2>3. QED
    BY <1>2, <2>1, <2>2
<1>3. QED
  BY <1>1, <1>2

\* What posting the decision comes to.
LEMMA OpenedCases ==
  ASSUME NEW t \in Tab, OpenDecision(t)
  PROVE  \/ \E a \in {"not_found", "error", "bad_request"} : AnswerTab(t, a)
         \/ \E d \in Device, a \in Action :
              /\ row[d] # NoRow /\ row[d].status = Pending
              /\ tab' = [tab EXCEPT ![t] = Opened(d, a)]
  BY DEF OpenDecision, PendingWithCode, WithCode, Opened

-----------------------------------------------------------------------------
(* The inductive invariant behind the safety properties. *)

\* A row's user is nobody, or looked the user code up in time.
CameInTime(d, u) == u = Nobody \/ \E at \in 0 .. (row[d].expires - 1) : <<d, u, at>> \in entered

\* A browser request that will save something holds a row that is there: one
\* it read as pending, in time, or one whose deadline has passed.
TabInv == \A t \in Tab : tab[t].phase \in {"expire", "claim", "decide"} =>
  /\ tab[t].device \in Device /\ row[tab[t].device] # NoRow
  /\ tab[t].phase = "expire" => row[tab[t].device].expires <= now
  /\ tab[t].phase = "claim" => tab[t].user \in User /\ tab[t].at < row[tab[t].device].expires
  /\ tab[t].phase \in {"claim", "decide"} => tab[t].copy.status = Pending

\* An authorized device was approved, and its user came in time.
RowInv == \A d \in Device : row[d] # NoRow =>
  /\ row[d].status = "authorized" => d \in approved
  /\ CameInTime(d, row[d].user)

\* What a poll has passed, it has passed for good.
PollInv == \A p \in Poll : poll[p].phase \in {"client", "pre_token", "save", "ok"} =>
  /\ poll[p].device \in approved /\ row[poll[p].device] # NoRow
  /\ poll[p].phase # "client" => poll[p].proved
  /\ poll[p].phase \in {"save", "ok"} =>
       poll[p].scope = row[poll[p].device].scope /\ CameInTime(poll[p].device, poll[p].user)

\* A refused device stays refused: nobody is about to decide it.
RefusedInv == \A d \in refused :
  row[d] # NoRow /\ row[d].status \in {"denied", "expired"} /\ ~Deciding(d)

\* A poll of a refused device gets no further than the status.
LateInv == \A p \in Poll : poll[p].late =>
  poll[p].device \in refused /\ poll[p].phase \notin {"client", "pre_token", "save", "ok"}

DeviceInv == TypeOK /\ TabInv /\ RowInv /\ PollInv /\ RefusedInv /\ LateInv

-----------------------------------------------------------------------------
\* What the history variables and rows keep in a step.
Kept ==
  /\ now <= now' /\ entered \subseteq entered' /\ approved \subseteq approved' /\ refused \subseteq refused'
  /\ \A d \in Device : row[d] # NoRow => /\ row'[d] # NoRow
                                         /\ row'[d].expires = row[d].expires
                                         /\ row'[d].scope = row[d].scope

\* Every step keeps the state well-typed and forgets nothing.
LEMMA TypeStep == DeviceInv /\ [Next]_vars => TypeOK' /\ Kept
<1> SUFFICES ASSUME DeviceInv, [Next]_vars PROVE TypeOK' /\ Kept
  OBVIOUS
<1>0. /\ now \in Nat
      /\ row \in [Device -> Row \cup {NoRow}]
      /\ tab \in [Tab -> TabState]
      /\ poll \in [Poll -> PollState]
      /\ entered \subseteq (Device \X User \X Nat)
      /\ approved \subseteq Device
      /\ refused \subseteq Device
  BY DEF DeviceInv, TypeOK
<1>1. ASSUME NEW d \in Device, Authorize(d) PROVE TypeOK' /\ Kept
  <2>1. PICK c \in UserCode, asked \in Scope \cup {NoScope} : CreateDeviceGrant(d, c, ScopeToStore(asked))
    BY <1>1 DEF Authorize
  <2>2. row' \in [Device -> Row \cup {NoRow}] /\ \A e \in Device \ {d} : row'[e] = row[e]
    BY <1>0, <2>1, LifetimeIsNat, DefaultIsScope DEF CreateDeviceGrant, ScopeToStore, Row, Status, Pending
  <2>3. QED
    BY <1>0, <1>1, <2>2 DEF Authorize, TypeOK, Kept
<1>2. ASSUME NEW t \in Tab, EnterUserCode(t) PROVE TypeOK' /\ Kept
  <2>1. tab' \in [Tab -> TabState]
    <3>1. CASE \E a \in {"form_error", "error"} : AnswerTab(t, a)
      BY <1>0, <3>1, TabAnswered
    <3>2. ASSUME NEW d \in Device, NEW u \in User, NEW ph \in {"expire", "claim"},
                 tab' = [tab EXCEPT ![t] = Entered(d, ph, u)]
          PROVE  tab' \in [Tab -> TabState]
      <4>2. Entered(d, ph, u) \in TabState
        BY <1>0 DEF Entered, NewTab, TabState, TabPhase, Action
      <4>3. QED
        BY <1>0, <3>2, <4>2
    <3>3. QED
      BY <1>2, <3>1, <3>2, EnteredCases
  <2>2. UNCHANGED <<now, row, poll, entered, approved, refused>>
    BY <1>2 DEF EnterUserCode
  <2>3. QED
    BY <1>0, <2>1, <2>2 DEF TypeOK, Kept
<1>3. ASSUME NEW t \in Tab, SaveExpired(t) PROVE TypeOK' /\ Kept
  <2>1. tab[t].device \in Device /\ row[tab[t].device] # NoRow
    BY <1>3 DEF SaveExpired, DeviceInv, TabInv
  <2>2. row' = [row EXCEPT ![tab[t].device].status = "expired"] /\ "expired" \in Status
    BY <1>3 DEF SaveExpired, Status
  <2>3. /\ row' \in [Device -> Row \cup {NoRow}]
        /\ \A e \in Device : row[e] # NoRow => /\ row'[e] # NoRow
                                               /\ row'[e].expires = row[e].expires
                                               /\ row'[e].scope = row[e].scope
    BY <1>0, <2>1, <2>2, RowColumns
  <2>4. tab' \in [Tab -> TabState]
    BY <1>0, <1>3, TabAnswered DEF SaveExpired
  <2>5. QED
    BY <1>0, <1>3, <2>3, <2>4 DEF SaveExpired, TypeOK, Kept
<1>4. ASSUME NEW t \in Tab, SaveUser(t) PROVE TypeOK' /\ Kept
  <2>1. tab[t].device \in Device /\ row[tab[t].device] # NoRow /\ tab[t].user \in User /\ tab[t].at \in Nat
    BY <1>0, <1>4 DEF SaveUser, DeviceInv, TabInv, TabState
  <2>2. row' = [row EXCEPT ![tab[t].device].user = tab[t].user]
    BY <1>4 DEF SaveUser
  <2>3. /\ row' \in [Device -> Row \cup {NoRow}]
        /\ \A e \in Device : row[e] # NoRow => /\ row'[e] # NoRow
                                               /\ row'[e].expires = row[e].expires
                                               /\ row'[e].scope = row[e].scope
    BY <1>0, <2>1, <2>2, RowColumns DEF Status
  <2>4. tab' \in [Tab -> TabState]
    BY <1>0, <1>4, TabAnswered DEF SaveUser
  <2>5. QED
    BY <1>0, <1>4, <2>1, <2>3, <2>4 DEF SaveUser, TypeOK, Kept
<1>5. ASSUME NEW t \in Tab, OpenDecision(t) PROVE TypeOK' /\ Kept
  <2>1. tab' \in [Tab -> TabState]
    <3>1. CASE \E a \in {"not_found", "error", "bad_request"} : AnswerTab(t, a)
      BY <1>0, <3>1, TabAnswered
    <3>2. ASSUME NEW d \in Device, NEW a \in Action,
                 tab' = [tab EXCEPT ![t] = Opened(d, a)]
          PROVE  tab' \in [Tab -> TabState]
      <4>2. Opened(d, a) \in TabState
        BY <1>0 DEF Opened, NewTab, TabState, TabPhase
      <4>3. QED
        BY <1>0, <3>2, <4>2
    <3>3. QED
      BY <1>5, <3>1, <3>2, OpenedCases
  <2>2. UNCHANGED <<now, row, poll, entered, approved, refused>>
    BY <1>5 DEF OpenDecision
  <2>3. QED
    BY <1>0, <2>1, <2>2 DEF TypeOK, Kept
<1>6. ASSUME NEW t \in Tab, SaveDecision(t) PROVE TypeOK' /\ Kept
  <2>1. tab[t].device \in Device /\ row[tab[t].device] # NoRow
    BY <1>6 DEF SaveDecision, DeviceInv, TabInv
  <2>2. \E s \in Status : row' = [row EXCEPT ![tab[t].device].status = s]
    BY <1>6 DEF SaveDecision, Status
  <2>3. /\ row' \in [Device -> Row \cup {NoRow}]
        /\ \A e \in Device : row[e] # NoRow => /\ row'[e] # NoRow
                                               /\ row'[e].expires = row[e].expires
                                               /\ row'[e].scope = row[e].scope
    BY <1>0, <2>1, <2>2, RowColumns
  <2>4. tab' \in [Tab -> TabState]
    BY <1>0, <1>6, TabAnswered DEF SaveDecision
  <2>5. QED
    BY <1>0, <1>6, <2>1, <2>3, <2>4 DEF SaveDecision, TypeOK, Kept
<1>7. ASSUME NEW p \in Poll, PollStatus(p) PROVE TypeOK' /\ Kept
  <2>1. PICK d \in Device :
          \/ row[d] = NoRow /\ AnswerPoll(p, "device_not_found") /\ UNCHANGED refused
          \/ /\ row[d] # NoRow
             /\ poll' = [poll EXCEPT ![p] = Begun(d)]
             /\ refused' = IF row[d].status = "denied" /\ ~Deciding(d) THEN refused \cup {d} ELSE refused
    BY <1>7 DEF PollStatus, Begun
  <2>2. poll' \in [Poll -> PollState]
    <3>1. CASE AnswerPoll(p, "device_not_found")
      BY <1>0, <3>1, PollAnswered DEF PollPhase
    <3>2. CASE /\ row[d] # NoRow
               /\ poll' = [poll EXCEPT ![p] = Begun(d)]
      <4>1. StatusAnswer(d) \in PollPhase
        BY <1>0, <3>2 DEF StatusAnswer, PollPhase, Row, Status, Pending
      <4>2. Begun(d) \in PollState
        BY <4>1, PollBegun
      <4>3. QED
        BY <1>0, <3>2, <4>2
    <3>3. QED
      BY <2>1, <3>1, <3>2
  <2>3. QED
    BY <1>0, <1>7, <2>1, <2>2 DEF PollStatus, TypeOK, Kept
<1>8. ASSUME NEW p \in Poll, PollClient(p) PROVE TypeOK' /\ Kept
  <2>1. PICK sent \in Sent :
          poll' = [poll EXCEPT ![p].phase = Verdict(sent)[1], ![p].proved = Verdict(sent)[2]]
    BY <1>8 DEF PollClient
  <2>2. Verdict(sent)[1] \in PollPhase
    BY VerdictCases DEF PollPhase
  <2>5. Verdict(sent)[2] \in BOOLEAN
    BY VerdictCases
  <2>3. poll' \in [Poll -> PollState]
    BY <1>0, <2>1, <2>2, <2>5 DEF PollState
  <2>4. QED
    BY <1>0, <1>8, <2>3 DEF PollClient, TypeOK, Kept
<1>9. ASSUME NEW p \in Poll, PreToken(p) PROVE TypeOK' /\ Kept
  <2>1. row[poll[p].device] \in Row
    BY <1>0, <1>9 DEF PreToken, DeviceInv, PollInv
  <2>4. row[poll[p].device].user \in User \cup {Nobody} /\ row[poll[p].device].scope \in Scope
    BY <2>1 DEF Row
  <2>5. "save" \in PollPhase
    BY DEF PollPhase
  <2>2. poll' \in [Poll -> PollState]
    BY <1>0, <1>9, <2>4, <2>5, PollFilled DEF PreToken
  <2>3. QED
    BY <1>0, <1>9, <2>2 DEF PreToken, TypeOK, Kept
<1>10. ASSUME NEW p \in Poll, SaveToken(p) PROVE TypeOK' /\ Kept
  <2>1. poll' \in [Poll -> PollState]
    BY <1>0, <1>10, PollAnswered DEF SaveToken, PollPhase
  <2>2. QED
    BY <1>0, <1>10, <2>1 DEF SaveToken, TypeOK, Kept
<1>11. CASE Tick
  BY <1>0, <1>11 DEF Tick, TypeOK, Kept
<1>12. CASE UNCHANGED vars
  BY <1>0, <1>12 DEF vars, TypeOK, Kept
<1>13. QED
  BY <1>1, <1>2, <1>3, <1>4, <1>5, <1>6, <1>7, <1>8, <1>9, <1>10, <1>11, <1>12
     DEF Next, BrowserStep, PollStep

-----------------------------------------------------------------------------
(* What a step does to each table. *)

Saving == {"expire", "claim", "decide"}

\* A browser request that will save something has just read its row.
JustEntered(t) == \E d \in Device, u \in User, ph \in {"expire", "claim"} :
  /\ row[d] # NoRow
  /\ ph = "expire" => now >= row[d].expires
  /\ ph = "claim" => ~(now >= row[d].expires) /\ row[d].status = Pending
  /\ tab'[t] = Entered(d, ph, u)
  /\ UNCHANGED <<row, now>>

JustOpened(t) == \E d \in Device, a \in Action :
  /\ row[d] # NoRow /\ row[d].status = Pending
  /\ tab'[t] = Opened(d, a)
  /\ UNCHANGED <<row, now>>

\* An answered request saves nothing any more.
LEMMA TabAnswerChange ==
  ASSUME tab \in [Tab -> TabState], NEW t \in Tab,
         NEW a \in {"form_error", "bad_request", "not_found", "error", "to_confirm", "to_status"},
         AnswerTab(t, a)
  PROVE  \A q \in Tab : tab'[q] = tab[q] \/ tab'[q].phase \notin Saving
  BY DEF AnswerTab, NewTab, Saving

\* A browser request comes to save something only by the two forms.
LEMMA TabChange ==
  ASSUME DeviceInv, [Next]_vars, NEW q \in Tab
  PROVE  \/ tab'[q] = tab[q]
         \/ tab'[q].phase \notin Saving
         \/ JustEntered(q)
         \/ JustOpened(q)
<1>0. tab \in [Tab -> TabState]
  BY DEF DeviceInv, TypeOK
<1> DEFINE Goal == \/ tab'[q] = tab[q]
                   \/ tab'[q].phase \notin Saving
                   \/ JustEntered(q)
                   \/ JustOpened(q)
<1>1. ASSUME NEW t \in Tab, EnterUserCode(t) PROVE Goal
  <2>0. UNCHANGED <<now, row>>
    BY <1>1 DEF EnterUserCode
  <2>1. CASE \E a \in {"form_error", "error"} : AnswerTab(t, a)
    BY <1>0, <2>1, TabAnswerChange
  <2>2. ASSUME NEW d \in Device, NEW u \in User, NEW ph \in {"expire", "claim"},
               row[d] # NoRow,
               ph = "expire" => now >= row[d].expires,
               ph = "claim" => ~(now >= row[d].expires) /\ row[d].status = Pending,
               tab' = [tab EXCEPT ![t] = Entered(d, ph, u)]
        PROVE  Goal
    <3>1. tab'[t] = Entered(d, ph, u) /\ (q # t => tab'[q] = tab[q])
      BY <1>0, <2>2
    <3>2. JustEntered(t)
      BY <2>0, <2>2, <3>1 DEF JustEntered
    <3>3. QED
      BY <3>1, <3>2
  <2>3. QED
    BY <1>1, <2>1, <2>2, EnteredCases
<1>2. ASSUME NEW t \in Tab, OpenDecision(t) PROVE Goal
  <2>0. UNCHANGED <<now, row>>
    BY <1>2 DEF OpenDecision
  <2>1. CASE \E a \in {"not_found", "error", "bad_request"} : AnswerTab(t, a)
    BY <1>0, <2>1, TabAnswerChange
  <2>2. ASSUME NEW d \in Device, NEW a \in Action, row[d] # NoRow, row[d].status = Pending,
               tab' = [tab EXCEPT ![t] = Opened(d, a)]
        PROVE  Goal
    <3>1. tab'[t] = Opened(d, a) /\ (q # t => tab'[q] = tab[q])
      BY <1>0, <2>2
    <3>2. JustOpened(t)
      BY <2>0, <2>2, <3>1 DEF JustOpened
    <3>3. QED
      BY <3>1, <3>2
  <2>3. QED
    BY <1>2, <2>1, <2>2, OpenedCases
<1>3. ASSUME NEW t \in Tab, SaveExpired(t) \/ SaveUser(t) \/ SaveDecision(t) PROVE Goal
  <2>1. \E a \in {"form_error", "to_confirm", "to_status"} : AnswerTab(t, a)
    BY <1>3 DEF SaveExpired, SaveUser, SaveDecision
  <2>2. QED
    BY <1>0, <2>1, TabAnswerChange
<1>4. ASSUME UNCHANGED tab PROVE Goal
  BY <1>4
<1>5. QED
  BY <1>1, <1>2, <1>3, <1>4
     DEF Next, BrowserStep, PollStep, Authorize, PollStatus, PollClient, PreToken, SaveToken, Tick, vars

\* How a row may change: it is handed out, its deadline has passed, it is
\* decided or claimed by a tab that read it as pending.
HandedOut(d) == row[d] = NoRow /\ row'[d].status = Pending /\ row'[d].user = Nobody
RunsOut(d) == row[d].expires <= now /\ row'[d] = [row[d] EXCEPT !.status = "expired"]
Decided(d) == /\ Deciding(d)
              /\ \/ row'[d] = [row[d] EXCEPT !.status = "authorized"] /\ d \in approved'
                 \/ row'[d] = [row[d] EXCEPT !.status = "denied"]
Claimed(d) == /\ Claiming(d)
              /\ \E u \in User : row'[d] = [row[d] EXCEPT !.user = u]
                   /\ \E at \in 0 .. (row[d].expires - 1) : <<d, u, at>> \in entered'

\* Every change of a row is one of these four.
LEMMA RowChange ==
  ASSUME DeviceInv, [Next]_vars, NEW d \in Device
  PROVE  \/ row'[d] = row[d]
         \/ HandedOut(d)
         \/ row[d] # NoRow /\ (RunsOut(d) \/ Decided(d) \/ Claimed(d))
<1>0. row \in [Device -> Row \cup {NoRow}] /\ tab \in [Tab -> TabState]
  BY DEF DeviceInv, TypeOK
<1> DEFINE Goal == \/ row'[d] = row[d]
                   \/ HandedOut(d)
                   \/ row[d] # NoRow /\ (RunsOut(d) \/ Decided(d) \/ Claimed(d))
<1>1. ASSUME NEW e \in Device, Authorize(e) PROVE Goal
  <2>1. PICK c \in UserCode, asked \in Scope \cup {NoScope} : CreateDeviceGrant(e, c, ScopeToStore(asked))
    BY <1>1 DEF Authorize
  <2>2. CASE d = e
    BY <1>0, <1>1, <2>1, <2>2 DEF Authorize, CreateDeviceGrant, HandedOut
  <2>3. CASE d # e
    BY <1>0, <2>1, <2>3 DEF CreateDeviceGrant
  <2>4. QED
    BY <2>2, <2>3
<1>2. ASSUME NEW t \in Tab, SaveExpired(t) PROVE Goal
  <2>1. CASE d = tab[t].device
    BY <1>0, <1>2, <2>1 DEF SaveExpired, DeviceInv, TabInv, RunsOut
  <2>2. CASE d # tab[t].device
    BY <1>0, <1>2, <2>2 DEF SaveExpired
  <2>3. QED
    BY <2>1, <2>2
<1>3. ASSUME NEW t \in Tab, SaveUser(t) PROVE Goal
  <2>1. CASE d = tab[t].device
    <3>1. /\ row[d] # NoRow /\ tab[t].user \in User /\ tab[t].at \in Nat
          /\ tab[t].at < row[d].expires /\ tab[t].copy.status = Pending /\ row[d].expires \in Nat
      BY <1>0, <1>3, <2>1 DEF SaveUser, DeviceInv, TabInv, TabState, Row
    <3>2. row'[d] = [row[d] EXCEPT !.user = tab[t].user] /\ <<d, tab[t].user, tab[t].at>> \in entered'
      BY <1>0, <1>3, <2>1 DEF SaveUser
    <3>3. tab[t].at \in 0 .. (row[d].expires - 1)
      BY <3>1
    <3>4. Claiming(d)
      BY <1>3, <2>1, <3>1 DEF Claiming, SaveUser
    <3>5. QED
      BY <3>1, <3>2, <3>3, <3>4 DEF Claimed
  <2>2. CASE d # tab[t].device
    BY <1>0, <1>3, <2>2 DEF SaveUser
  <2>3. QED
    BY <2>1, <2>2
<1>4. ASSUME NEW t \in Tab, SaveDecision(t) PROVE Goal
  <2>1. CASE d = tab[t].device
    <3>1. row[d] # NoRow /\ Deciding(d)
      BY <1>4, <2>1 DEF SaveDecision, DeviceInv, TabInv, Deciding
    <3>2. QED
      BY <1>0, <1>4, <2>1, <3>1 DEF SaveDecision, Decided
  <2>2. CASE d # tab[t].device
    BY <1>0, <1>4, <2>2 DEF SaveDecision
  <2>3. QED
    BY <2>1, <2>2
<1>5. ASSUME UNCHANGED row PROVE Goal
  BY <1>5
<1>6. QED
  BY <1>1, <1>2, <1>3, <1>4, <1>5
     DEF Next, BrowserStep, PollStep, EnterUserCode, OpenDecision, PollStatus, PollClient, PreToken,
         SaveToken, Tick, vars

-----------------------------------------------------------------------------
(* Every step preserves the invariant. *)

\* Who came in time stays so.
LEMMA StillInTime ==
  ASSUME Kept, NEW d \in Device, row[d] # NoRow, NEW u, CameInTime(d, u)
  PROVE  u = Nobody \/ \E at \in 0 .. (row'[d].expires - 1) : <<d, u, at>> \in entered'
  BY DEF Kept, CameInTime

\* Browser requests keep the facts they read: rows keep their deadlines.
LEMMA TabStep == DeviceInv /\ [Next]_vars => TabInv'
<1> SUFFICES ASSUME DeviceInv, [Next]_vars PROVE TabInv'
  OBVIOUS
<1>0. /\ Kept /\ now \in Nat /\ now' \in Nat /\ row \in [Device -> Row \cup {NoRow}]
      /\ row' \in [Device -> Row \cup {NoRow}]
  BY TypeStep DEF DeviceInv, TypeOK
<1> SUFFICES ASSUME NEW t \in Tab, tab'[t].phase \in Saving
             PROVE  /\ tab'[t].device \in Device /\ row'[tab'[t].device] # NoRow
                    /\ tab'[t].phase = "expire" => row'[tab'[t].device].expires <= now'
                    /\ tab'[t].phase = "claim" =>
                         tab'[t].user \in User /\ tab'[t].at < row'[tab'[t].device].expires
                    /\ tab'[t].phase \in {"claim", "decide"} => tab'[t].copy.status = Pending
  BY DEF TabInv, Saving
<1>1. CASE tab'[t] = tab[t]
  <2>1. /\ tab[t].device \in Device /\ row[tab[t].device] # NoRow
        /\ tab[t].phase = "expire" => row[tab[t].device].expires <= now
        /\ tab[t].phase = "claim" => tab[t].user \in User /\ tab[t].at < row[tab[t].device].expires
        /\ tab[t].phase \in {"claim", "decide"} => tab[t].copy.status = Pending
    BY <1>1 DEF DeviceInv, TabInv, Saving
  <2>2. /\ row'[tab[t].device] # NoRow /\ row'[tab[t].device].expires = row[tab[t].device].expires
        /\ now <= now' /\ row[tab[t].device].expires \in Nat
    BY <1>0, <2>1 DEF Kept, Row
  <2>3. QED
    BY <1>0, <1>1, <2>1, <2>2
<1>2. CASE JustEntered(t)
  <2>1. PICK d \in Device, u \in User, ph \in {"expire", "claim"} :
          /\ row[d] # NoRow
          /\ ph = "expire" => now >= row[d].expires
          /\ ph = "claim" => ~(now >= row[d].expires) /\ row[d].status = Pending
          /\ tab'[t] = Entered(d, ph, u)
          /\ UNCHANGED <<row, now>>
    BY <1>2 DEF JustEntered
  <2>2. /\ Entered(d, ph, u).device = d /\ Entered(d, ph, u).phase = ph /\ Entered(d, ph, u).user = u
        /\ Entered(d, ph, u).at = now /\ Entered(d, ph, u).copy = row[d]
    BY DEF Entered, NewTab
  <2>3. row[d].expires \in Nat
    BY <1>0, <2>1 DEF Row
  <2>4. QED
    BY <1>0, <2>1, <2>2, <2>3
<1>3. CASE JustOpened(t)
  <2>1. PICK d \in Device, a \in Action :
          /\ row[d] # NoRow /\ row[d].status = Pending
          /\ tab'[t] = Opened(d, a)
          /\ UNCHANGED <<row, now>>
    BY <1>3 DEF JustOpened
  <2>2. Opened(d, a).device = d /\ Opened(d, a).phase = "decide" /\ Opened(d, a).copy = row[d]
    BY DEF Opened, NewTab
  <2>3. QED
    BY <2>1, <2>2
<1>4. QED
  BY <1>1, <1>2, <1>3, TabChange

\* Rows keep their approval and their punctual user.
LEMMA RowStep == DeviceInv /\ [Next]_vars => RowInv'
<1> SUFFICES ASSUME DeviceInv, [Next]_vars PROVE RowInv'
  OBVIOUS
<1>0. Kept /\ row \in [Device -> Row \cup {NoRow}]
  BY TypeStep DEF DeviceInv, TypeOK
<1> SUFFICES ASSUME NEW d \in Device, row'[d] # NoRow
             PROVE  /\ row'[d].status = "authorized" => d \in approved'
                    /\ \/ row'[d].user = Nobody
                       \/ \E at \in 0 .. (row'[d].expires - 1) : <<d, row'[d].user, at>> \in entered'
  BY DEF RowInv, CameInTime
<1>1. CASE row[d] = NoRow
  BY <1>1, RowChange DEF HandedOut, Pending
<1>2. CASE row[d] # NoRow
  <2>1. /\ row[d].status = "authorized" => d \in approved'
        /\ \/ row[d].user = Nobody
           \/ \E at \in 0 .. (row'[d].expires - 1) : <<d, row[d].user, at>> \in entered'
    BY <1>0, <1>2, StillInTime DEF DeviceInv, RowInv, Kept
  <2>2. row[d] \in Row /\ row'[d].expires = row[d].expires
    BY <1>0, <1>2 DEF Kept
  <2>3. CASE row'[d] = row[d]
    BY <2>1, <2>3
  <2>4. CASE RunsOut(d)
    BY <2>1, <2>2, <2>4 DEF RunsOut, Row
  <2>5. CASE Decided(d)
    BY <2>1, <2>2, <2>5 DEF Decided, Row
  <2>6. CASE Claimed(d)
    BY <2>1, <2>2, <2>6 DEF Claimed, Row
  <2>7. QED
    BY <1>2, <2>3, <2>4, <2>5, <2>6, RowChange DEF HandedOut
<1>3. QED
  BY <1>1, <1>2

\* A refused device stays refused: no new decision is opened on it.
LEMMA RefusedStep == DeviceInv /\ [Next]_vars => RefusedInv'
<1> SUFFICES ASSUME DeviceInv, [Next]_vars PROVE RefusedInv'
  OBVIOUS
<1>0. /\ Kept /\ row \in [Device -> Row \cup {NoRow}] /\ refused \subseteq Device /\ refused' \subseteq Device
      /\ tab \in [Tab -> TabState]
  BY TypeStep DEF DeviceInv, TypeOK
<1>1. ASSUME NEW d \in Device, row[d] # NoRow, row[d].status # Pending, ~Deciding(d) PROVE ~Deciding(d)'
  <2>1. SUFFICES ASSUME NEW t \in Tab, tab'[t].phase = "decide", tab'[t].device = d PROVE FALSE
    BY DEF Deciding
  <2>2. CASE tab'[t] = tab[t]
    BY <1>1, <2>1, <2>2 DEF Deciding, DeviceInv, TabInv
  <2>3. CASE JustEntered(t)
    BY <2>1, <2>3 DEF JustEntered, Entered, NewTab
  <2>4. CASE JustOpened(t)
    BY <1>1, <2>1, <2>4 DEF JustOpened, Opened, NewTab
  <2>5. QED
    BY <2>1, <2>2, <2>3, <2>4, TabChange DEF Saving
<1>2. ASSUME NEW d \in Device, row[d] # NoRow, row[d].status \in {"denied", "expired"}, ~Deciding(d)
      PROVE  row'[d] # NoRow /\ row'[d].status \in {"denied", "expired"}
  <2>1. row[d] \in Row /\ row'[d] # NoRow
    BY <1>0, <1>2 DEF Kept
  <2>2. CASE RunsOut(d)
    BY <2>1, <2>2 DEF RunsOut, Row
  <2>3. CASE Claimed(d)
    BY <1>2, <2>1, <2>3 DEF Claimed, Row
  <2>4. QED
    BY <1>2, <2>1, <2>2, <2>3, RowChange DEF HandedOut, Decided
<1>3. \A d \in refused' : /\ row[d] # NoRow /\ row[d].status \in {"denied", "expired"} /\ ~Deciding(d)
  <2>1. \A d \in refused : row[d] # NoRow /\ row[d].status \in {"denied", "expired"} /\ ~Deciding(d)
    BY DEF DeviceInv, RefusedInv
  <2>2. ASSUME NEW p \in Poll, PollStatus(p)
        PROVE  \A d \in refused' : d \in refused \/ (row[d] # NoRow /\ row[d].status = "denied" /\ ~Deciding(d))
    BY <2>2 DEF PollStatus
  <2>3. \/ refused' = refused
        \/ \E p \in Poll : PollStatus(p)
    BY DEF Next, BrowserStep, PollStep, Authorize, EnterUserCode, SaveExpired, SaveUser, OpenDecision,
       SaveDecision, PollClient, PreToken, SaveToken, Tick, vars
  <2>4. QED
    BY <2>1, <2>2, <2>3
<1>4. QED
  BY <1>0, <1>1, <1>2, <1>3 DEF RefusedInv, Pending

\* How a poll may change: its device is looked up, its client authenticated,
\* the row read again, the token saved.
LookedUp(p) == \E d \in Device :
  /\ row[d] # NoRow /\ poll'[p] = Begun(d) /\ row' = row
  /\ refused' = IF row[d].status = "denied" /\ ~Deciding(d) THEN refused \cup {d} ELSE refused
Authenticated(p) ==
  /\ poll[p].phase = "client"
  /\ \E a \in {"pre_token", "invalid_client"} :
       poll'[p] = [poll[p] EXCEPT !.phase = a, !.proved = (a = "pre_token")]
ReadAgain(p) ==
  /\ poll[p].phase = "pre_token" /\ row' = row
  /\ poll'[p] = [poll[p] EXCEPT !.phase = "save", !.user = row[poll[p].device].user,
                                !.scope = row[poll[p].device].scope]
Saved(p) == poll[p].phase = "save" /\ poll'[p] = [poll[p] EXCEPT !.phase = "ok"]
NotFound(p) == poll[p].phase = "idle" /\ poll'[p] = [poll[p] EXCEPT !.phase = "device_not_found"]

\* Every change of a poll is one of these.
LEMMA PollChange ==
  ASSUME DeviceInv, [Next]_vars, NEW q \in Poll
  PROVE  poll'[q] = poll[q] \/ LookedUp(q) \/ Authenticated(q) \/ ReadAgain(q) \/ Saved(q) \/ NotFound(q)
<1>0. poll \in [Poll -> PollState]
  BY DEF DeviceInv, TypeOK
<1> DEFINE Goal == poll'[q] = poll[q] \/ LookedUp(q) \/ Authenticated(q) \/ ReadAgain(q) \/ Saved(q) \/ NotFound(q)
<1>1. ASSUME NEW p \in Poll, PollStatus(p) PROVE Goal
  <2>1. PICK d \in Device :
          \/ row[d] = NoRow /\ AnswerPoll(p, "device_not_found") /\ UNCHANGED refused
          \/ /\ row[d] # NoRow
             /\ poll' = [poll EXCEPT ![p] = Begun(d)]
             /\ refused' = IF row[d].status = "denied" /\ ~Deciding(d) THEN refused \cup {d} ELSE refused
    BY <1>1 DEF PollStatus, Begun
  <2>2. row' = row /\ poll[p].phase = "idle"
    BY <1>1 DEF PollStatus
  <2>3. CASE AnswerPoll(p, "device_not_found")
    BY <1>0, <2>2, <2>3 DEF AnswerPoll, NotFound
  <2>4. CASE /\ row[d] # NoRow
             /\ poll' = [poll EXCEPT ![p] = Begun(d)]
             /\ refused' = IF row[d].status = "denied" /\ ~Deciding(d) THEN refused \cup {d} ELSE refused
    <3>1. poll'[p] = Begun(d) /\ (q # p => poll'[q] = poll[q])
      BY <1>0, <2>4
    <3>2. LookedUp(p)
      BY <2>2, <2>4, <3>1 DEF LookedUp
    <3>3. QED
      BY <3>1, <3>2
  <2>5. QED
    BY <2>1, <2>3, <2>4
<1>2. ASSUME NEW p \in Poll, PollClient(p) PROVE Goal
  <2>1. PICK sent \in Sent :
          poll' = [poll EXCEPT ![p].phase = Verdict(sent)[1], ![p].proved = Verdict(sent)[2]]
    BY <1>2 DEF PollClient
  <2>2. poll[p].phase = "client"
    BY <1>2 DEF PollClient
  <2>3. poll'[p] = [poll[p] EXCEPT !.phase = Verdict(sent)[1], !.proved = Verdict(sent)[2]]
    BY <1>0, <2>1
  <2>4. Verdict(sent)[1] \in {"pre_token", "invalid_client"}
        /\ Verdict(sent)[2] = (Verdict(sent)[1] = "pre_token")
    BY VerdictCases
  <2>5. Authenticated(p)
    BY <2>2, <2>3, <2>4 DEF Authenticated
  <2>6. q # p => poll'[q] = poll[q]
    BY <1>0, <2>1
  <2>7. QED
    BY <2>5, <2>6
<1>3. ASSUME NEW p \in Poll, PreToken(p) PROVE Goal
  <2>1. ReadAgain(p)
    BY <1>0, <1>3 DEF PreToken, ReadAgain
  <2>2. q # p => poll'[q] = poll[q]
    BY <1>0, <1>3 DEF PreToken
  <2>3. QED
    BY <2>1, <2>2
<1>4. ASSUME NEW p \in Poll, SaveToken(p) PROVE Goal
  BY <1>0, <1>4 DEF SaveToken, AnswerPoll, Saved
<1>5. ASSUME UNCHANGED poll PROVE Goal
  BY <1>5
<1>6. QED
  BY <1>1, <1>2, <1>3, <1>4, <1>5
     DEF Next, BrowserStep, PollStep, Authorize, EnterUserCode, SaveExpired, SaveUser, OpenDecision,
         SaveDecision, Tick, vars

\* Polls keep what they passed.
LEMMA PollsStep == DeviceInv /\ [Next]_vars => PollInv'
<1> SUFFICES ASSUME DeviceInv, [Next]_vars PROVE PollInv'
  OBVIOUS
<1>0. /\ Kept /\ poll \in [Poll -> PollState] /\ row \in [Device -> Row \cup {NoRow}]
      /\ approved \subseteq Device
  BY TypeStep DEF DeviceInv, TypeOK
<1> SUFFICES ASSUME NEW p \in Poll, poll'[p].phase \in {"client", "pre_token", "save", "ok"}
             PROVE  /\ poll'[p].device \in approved' /\ row'[poll'[p].device] # NoRow
                    /\ poll'[p].phase # "client" => poll'[p].proved
                    /\ poll'[p].phase \in {"save", "ok"} =>
                         /\ poll'[p].scope = row'[poll'[p].device].scope
                         /\ \/ poll'[p].user = Nobody
                            \/ \E at \in 0 .. (row'[poll'[p].device].expires - 1) :
                                 <<poll'[p].device, poll'[p].user, at>> \in entered'
  BY DEF PollInv, CameInTime
<1>1. poll[p] \in PollState
  BY <1>0
<1>2. ASSUME poll[p].phase \in {"client", "pre_token", "save", "ok"}
      PROVE  /\ poll[p].device \in approved' /\ row'[poll[p].device] # NoRow /\ row[poll[p].device] # NoRow
             /\ poll[p].device \in Device
             /\ row'[poll[p].device].scope = row[poll[p].device].scope
             /\ poll[p].phase # "client" => poll[p].proved
             /\ poll[p].phase \in {"save", "ok"} =>
                  /\ poll[p].scope = row[poll[p].device].scope
                  /\ \/ poll[p].user = Nobody
                     \/ \E at \in 0 .. (row'[poll[p].device].expires - 1) :
                          <<poll[p].device, poll[p].user, at>> \in entered'
  <2>1. poll[p].device \in approved /\ row[poll[p].device] # NoRow
    BY <1>2 DEF DeviceInv, PollInv
  <2>2. QED
    BY <1>0, <1>2, <2>1, StillInTime DEF DeviceInv, PollInv, Kept
<1>3. CASE poll'[p] = poll[p]
  BY <1>2, <1>3
<1>4. CASE LookedUp(p)
  <2>1. PICK d \in Device : row[d] # NoRow /\ poll'[p] = Begun(d) /\ row' = row
    BY <1>4 DEF LookedUp
  <2>2. Begun(d).phase = StatusAnswer(d) /\ Begun(d).device = d
    BY DEF Begun, NewPoll
  <2>3. StatusAnswer(d) = "client" /\ row[d].status = "authorized"
    BY <1>0, <2>1, <2>2 DEF StatusAnswer, Row, Status, Pending
  <2>4. d \in approved'
    BY <1>0, <2>1, <2>3 DEF DeviceInv, RowInv, Kept
  <2>5. QED
    BY <2>1, <2>2, <2>3, <2>4
<1>5. CASE Authenticated(p)
  BY <1>1, <1>2, <1>5 DEF Authenticated, PollState
<1>6. CASE ReadAgain(p)
  <2>1. /\ poll'[p].phase = "save" /\ poll'[p].device = poll[p].device /\ poll'[p].proved = poll[p].proved
        /\ poll'[p].user = row[poll[p].device].user /\ poll'[p].scope = row[poll[p].device].scope
    BY <1>1, <1>6 DEF ReadAgain, PollState
  <2>2. CameInTime(poll[p].device, row[poll[p].device].user)
    BY <1>2, <1>6 DEF ReadAgain, DeviceInv, RowInv
  <2>3. \/ row[poll[p].device].user = Nobody
        \/ \E at \in 0 .. (row'[poll[p].device].expires - 1) :
             <<poll[p].device, row[poll[p].device].user, at>> \in entered'
    BY <1>0, <1>2, <1>6, <2>2, StillInTime DEF ReadAgain
  <2>4. QED
    BY <1>2, <1>6, <2>1, <2>3 DEF ReadAgain
<1>7. CASE Saved(p)
  <2>1. /\ poll'[p].phase = "ok" /\ poll'[p].device = poll[p].device /\ poll'[p].proved = poll[p].proved
        /\ poll'[p].user = poll[p].user /\ poll'[p].scope = poll[p].scope /\ poll[p].phase = "save"
    BY <1>1, <1>7 DEF Saved, PollState
  <2>2. QED
    BY <1>2, <2>1
<1>8. CASE NotFound(p)
  BY <1>1, <1>8 DEF NotFound, PollState
<1>9. QED
  BY <1>3, <1>4, <1>5, <1>6, <1>7, <1>8, PollChange

\* A late poll stays without a token.
LEMMA LateStep == DeviceInv /\ [Next]_vars => LateInv'
<1> SUFFICES ASSUME DeviceInv, [Next]_vars, NEW p \in Poll, poll'[p].late
             PROVE  /\ poll'[p].device \in refused'
                    /\ poll'[p].phase \notin {"client", "pre_token", "save", "ok"}
  BY DEF LateInv
<1>0. Kept /\ poll[p] \in PollState /\ refused \subseteq Device
  BY TypeStep DEF DeviceInv, TypeOK
<1>1. poll[p].late => /\ poll[p].device \in refused'
                      /\ poll[p].phase \notin {"client", "pre_token", "save", "ok"}
  BY <1>0 DEF DeviceInv, LateInv, Kept
<1>2. CASE LookedUp(p)
  <2>1. PICK d \in Device : poll'[p] = Begun(d)
    BY <1>2 DEF LookedUp
  <2>2. Begun(d).phase = StatusAnswer(d) /\ Begun(d).device = d /\ Begun(d).late = (d \in refused)
    BY DEF Begun, NewPoll
  <2>3. d \in refused
    BY <2>1, <2>2
  <2>4. row[d].status \in {"denied", "expired"}
    BY <2>3 DEF DeviceInv, RefusedInv
  <2>5. QED
    BY <1>0, <2>1, <2>2, <2>3, <2>4 DEF Kept, StatusAnswer
<1>3. CASE Authenticated(p)
  BY <1>0, <1>1, <1>3 DEF Authenticated, PollState
<1>4. CASE ReadAgain(p)
  BY <1>0, <1>1, <1>4 DEF ReadAgain, PollState
<1>5. CASE Saved(p)
  BY <1>0, <1>1, <1>5 DEF Saved, PollState
<1>6. CASE NotFound(p)
  BY <1>0, <1>1, <1>6 DEF NotFound, PollState
<1>7. QED
  BY <1>1, <1>2, <1>3, <1>4, <1>5, <1>6, PollChange

\* The initial state satisfies the invariant.
LEMMA InvInit == Init => DeviceInv
<1> SUFFICES ASSUME Init PROVE DeviceInv
  OBVIOUS
<1>1. TypeOK
  BY DEF Init, TypeOK, NewTab, NewPoll, TabState, PollState, TabPhase, PollPhase, Action
<1>2. TabInv /\ RowInv /\ PollInv /\ RefusedInv /\ LateInv
  BY DEF Init, TabInv, RowInv, PollInv, RefusedInv, LateInv, NewTab, NewPoll
<1>3. QED
  BY <1>1, <1>2 DEF DeviceInv

\* The invariant holds throughout.
THEOREM InvCorrect == Spec => []DeviceInv
<1>1. DeviceInv /\ [Next]_vars => DeviceInv'
  BY TypeStep, TabStep, RowStep, PollsStep, RefusedStep, LateStep DEF DeviceInv
<1>2. QED
  BY InvInit, <1>1, PTL DEF Spec

-----------------------------------------------------------------------------
(* What follows. *)

\* The rows, browser requests and polls are well-typed.
THEOREM TypeCorrect == Spec => []TypeOK
<1>1. DeviceInv => TypeOK
  BY DEF DeviceInv
<1>2. QED
  BY <1>1, InvCorrect, PTL

\* A token is given only for an approved device, to a proven client, with the
\* scope of the row and for a user who came in time: the row keeps its scope
\* and deadline, and each step of a poll adds one of these facts for good.
THEOREM Entitlement == Spec => []TokenIsEntitled
<1>1. DeviceInv => TokenIsEntitled
  BY DEF DeviceInv, PollInv, TokenIsEntitled, CameInTime
<1>2. QED
  BY <1>1, InvCorrect, PTL

\* A denial that was told while no tab was deciding keeps every later poll
\* from a token: a tab opens a decision only on a pending row.
THEOREM Denial == Spec => []DenialHolds
<1>1. DeviceInv => DenialHolds
  BY DEF DeviceInv, LateInv, DenialHolds
<1>2. QED
  BY <1>1, InvCorrect, PTL

\* A decision changes only by a tab that read the row as pending, or when the
\* deadline has passed: whatever else is saved touches another column.
THEOREM Decision == Spec => DecisionStands
<1>1. ASSUME DeviceInv, [Next]_vars, NEW d \in Device, Settled(d), ~Deciding(d)
      PROVE  row'[d].status = row[d].status \/ (row'[d].status = "expired" /\ now >= row[d].expires)
  <2>1. row[d] \in Row /\ row[d] # NoRow /\ row[d].expires \in Nat /\ now \in Nat
    BY <1>1 DEF DeviceInv, TypeOK, Settled, Row
  <2>2. QED
    BY <1>1, <2>1, RowChange DEF HandedOut, RunsOut, Decided, Claimed, Row
<1>2. DeviceInv /\ [Next]_vars => [\A d \in Device : Settled(d) /\ ~Deciding(d) =>
        \/ row'[d].status = row[d].status
        \/ row'[d].status = "expired" /\ now >= row[d].expires]_vars
  BY <1>1
<1>3. QED
  BY <1>2, InvCorrect, PTL DEF Spec, DecisionStands

\* The user of a decided device changes only by a tab that read it as pending.
THEOREM Owner == Spec => OwnerStands
<1>1. ASSUME DeviceInv, [Next]_vars, NEW d \in Device, Settled(d), ~Claiming(d)
      PROVE  row'[d].user = row[d].user
  <2>1. row[d] \in Row /\ row[d] # NoRow
    BY <1>1 DEF DeviceInv, TypeOK, Settled
  <2>2. QED
    BY <1>1, <2>1, RowChange DEF HandedOut, RunsOut, Decided, Claimed, Row
<1>2. DeviceInv /\ [Next]_vars =>
        [\A d \in Device : Settled(d) /\ ~Claiming(d) => row'[d].user = row[d].user]_vars
  BY <1>1
<1>3. QED
  BY <1>2, InvCorrect, PTL DEF Spec, OwnerStands
=============================================================================
