----------------------------- MODULE DeviceFlow -----------------------------
(***************************************************************************)
(* The device authorization grant.  A device obtains a device code and a   *)
(* user code, and polls the token endpoint with the first; the user types  *)
(* the second into DeviceUserCodeView and decides in DeviceConfirmView.    *)
(* All of them share one DeviceGrant row and none of them locks it: a      *)
(* browser request reads the row in one step and saves one column of it in *)
(* a later one, and a poll reads it twice before it saves the token.       *)
(*                                                                         *)
(* A Tab is one POST of a logged-in user's browser, a Poll is one POST of  *)
(* the token endpoint, by a client that authenticates as ClientAuth says;  *)
(* the code does not compare it with the client_id of the row.             *)
(***************************************************************************)
EXTENDS Integers, FiniteSets, ClientAuth

CONSTANTS
  BlankSecret,   \* the applications whose client_secret is blank
  Device,        \* device codes (device_code is unique)
  UserCode,      \* user codes (user_code is not)
  User,          \* users who are logged in
  Scope,         \* what a device can ask for
  DefaultScope,  \* get_default_scopes of the scopes backend
  Tab,           \* browser requests
  Poll,          \* requests of the token endpoint
  Nobody,        \* the user of a row nobody has claimed, or of a request without one
  NoScope,       \* no scope in the authorization request
  NoDevice,      \* a request that holds no row
  NoRow,         \* a device code that was not handed out yet
  Lifetime,      \* expires_in of the device authorization response
  MaxTime        \* bound: the clock stops here

ASSUME LifetimeIsNat == Lifetime \in Nat
ASSUME MaxTimeIsNat == MaxTime \in Nat
ASSUME DefaultIsScope == DefaultScope \in Scope
ASSUME NoDeviceIsNone == NoDevice \notin Device
ASSUME NobodyIsNone == Nobody \notin User

Pending == "authorization-pending"
Status == {"authorized", Pending, "expired", "denied"}
Row == [code : UserCode, status : Status, user : User \cup {Nobody}, scope : Scope, expires : Nat]

ASSUME NoRowIsNone == NoRow \notin Row

Action == {"accept", "deny"}
TabPhase == {"idle", "expire", "claim", "decide"} \cup
            {"form_error", "bad_request", "not_found", "error", "to_confirm", "to_status"}
PollPhase == {"idle", "client", "pre_token", "save"} \cup
             {"device_not_found", Pending, "denied", "expired", "invalid_client", "ok"}

VARIABLES
  now,      \* datetime.now()
  row,      \* the DeviceGrant table, by device code
  tab,      \* each browser request, with the row instance it read
  poll,     \* each poll, with the user and scope it read; "late" and "proved" are history
  entered,  \* history: who saved himself as the user of which device, and when he read it
  approved, \* history: devices for which an approval was saved
  refused   \* history: devices that were told of a denial nobody was about to change

vars == <<now, row, tab, poll, entered, approved, refused>>

TabState == [phase : TabPhase, device : Device \cup {NoDevice}, copy : Row \cup {NoRow},
             user : User \cup {Nobody}, action : Action, at : Nat]
PollState == [phase : PollPhase, device : Device \cup {NoDevice}, user : User \cup {Nobody},
              scope : Scope \cup {NoScope}, late : BOOLEAN, proved : BOOLEAN]

TypeOK ==
  /\ now \in Nat
  /\ row \in [Device -> Row \cup {NoRow}]
  /\ tab \in [Tab -> TabState]
  /\ poll \in [Poll -> PollState]
  /\ entered \subseteq (Device \X User \X Nat)
  /\ approved \subseteq Device
  /\ refused \subseteq Device

NewTab == [phase |-> "idle", device |-> NoDevice, copy |-> NoRow,
           user |-> Nobody, action |-> "deny", at |-> 0]
NewPoll == [phase |-> "idle", device |-> NoDevice, user |-> Nobody,
            scope |-> NoScope, late |-> FALSE, proved |-> FALSE]

Init ==
  /\ now = 0
  /\ row = [d \in Device |-> NoRow]
  /\ tab = [t \in Tab |-> NewTab]
  /\ poll = [p \in Poll |-> NewPoll]
  /\ entered = {}
  /\ approved = {}
  /\ refused = {}

AnswerTab(t, a) == tab' = [tab EXCEPT ![t] = [NewTab EXCEPT !.phase = a]]
AnswerPoll(p, a) == poll' = [poll EXCEPT ![p].phase = a]

\* A browser request is about to save its decision on a row it read as pending.
Deciding(d) == \E t \in Tab :
  tab[t].phase = "decide" /\ tab[t].device = d /\ tab[t].copy.status = Pending

\* A browser request is about to save its user on a row it read as pending.
Claiming(d) == \E t \in Tab :
  tab[t].phase = "claim" /\ tab[t].device = d /\ tab[t].copy.status = Pending

-----------------------------------------------------------------------------
(* The device asks for its codes. *)

ScopeToStore(asked) == IF asked = NoScope THEN DefaultScope ELSE asked

\* create_device_grant.  Nothing keeps a user code from being drawn twice.
CreateDeviceGrant(d, c, scope) ==
  row' = [row EXCEPT ![d] =
    [code |-> c, status |-> Pending, user |-> Nobody, scope |-> scope, expires |-> now + Lifetime]]

\* DeviceAuthorizationView: the default scopes are resolved here, once.
Authorize(d) ==
  /\ row[d] = NoRow
  /\ \E c \in UserCode, asked \in Scope \cup {NoScope} :
       CreateDeviceGrant(d, c, ScopeToStore(asked))
  /\ UNCHANGED <<now, tab, poll, entered, approved, refused>>

-----------------------------------------------------------------------------
(* The user's browser. *)

WithCode(c) == {d \in Device : row[d] # NoRow /\ row[d].code = c}

PastDeadlineLate(d) == now > row[d].expires           \* mutant: the deadline itself is in time
\* is_expired; the caller saves "expired" over whatever status it read.
PastDeadline(d) == now >= row[d].expires

CheckUserCodeAgain(d) ==                              \* mutant: a used code is accepted
  IF row[d].status = "expired" THEN "form_error"
  ELSE IF PastDeadline(d) THEN "expire" ELSE "claim"

\* clean_user_code of one row: what the request does next.
CheckUserCode(d) ==
  IF row[d].status = "expired" THEN "form_error"
  ELSE IF PastDeadline(d) THEN "expire"
  ELSE IF row[d].status # Pending THEN "form_error"
  ELSE "claim"

\* The form looks the code up: none is an error of the form, two are
\* MultipleObjectsReturned, which nobody catches.
EnterUserCode(t) ==
  /\ tab[t].phase = "idle"
  /\ \E c \in UserCode, u \in User :
       \/ WithCode(c) = {} /\ AnswerTab(t, "form_error")
       \/ Cardinality(WithCode(c)) > 1 /\ AnswerTab(t, "error")
       \/ \E d \in Device :
            /\ WithCode(c) = {d}
            /\ IF CheckUserCode(d) = "form_error" THEN AnswerTab(t, "form_error")
               ELSE tab' = [tab EXCEPT ![t] =
                 [NewTab EXCEPT !.phase = CheckUserCode(d), !.device = d, !.copy = row[d],
                                !.user = u, !.at = now]]
  /\ UNCHANGED <<now, row, poll, entered, approved, refused>>

\* is_expired saves the status.
SaveExpired(t) ==
  /\ tab[t].phase = "expire"
  /\ row' = [row EXCEPT ![tab[t].device].status = "expired"]
  /\ AnswerTab(t, "form_error")
  /\ UNCHANGED <<now, poll, entered, approved, refused>>

SaveWholeRow(t) ==                                    \* mutant: save() without update_fields
  /\ tab[t].phase = "claim"
  /\ row' = [row EXCEPT ![tab[t].device] = [tab[t].copy EXCEPT !.user = tab[t].user]]
  /\ entered' = entered \cup {<<tab[t].device, tab[t].user, tab[t].at>>}
  /\ AnswerTab(t, "to_confirm")
  /\ UNCHANGED <<now, poll, approved, refused>>

\* DeviceUserCodeView.form_valid saves the user column and redirects.
SaveUser(t) ==
  /\ tab[t].phase = "claim"
  /\ row' = [row EXCEPT ![tab[t].device].user = tab[t].user]
  /\ entered' = entered \cup {<<tab[t].device, tab[t].user, tab[t].at>>}
  /\ AnswerTab(t, "to_confirm")
  /\ UNCHANGED <<now, poll, approved, refused>>

AnyWithCode(c) == WithCode(c)                         \* mutant: no filter on the status
\* DeviceConfirmView.get_object: pending rows only, whatever their deadline
\* and whoever entered the code.
PendingWithCode(c) == {d \in WithCode(c) : row[d].status = Pending}

\* The decision is posted: 404 without a pending row, 400 for an action that
\* is neither, otherwise the row is read and the decision will be saved.
OpenDecision(t) ==
  /\ tab[t].phase = "idle"
  /\ \E c \in UserCode :
       \/ PendingWithCode(c) = {} /\ AnswerTab(t, "not_found")
       \/ Cardinality(PendingWithCode(c)) > 1 /\ AnswerTab(t, "error")
       \/ \E d \in Device :
            /\ PendingWithCode(c) = {d}
            /\ \/ AnswerTab(t, "bad_request")
               \/ \E a \in Action : tab' = [tab EXCEPT ![t] =
                    [NewTab EXCEPT !.phase = "decide", !.device = d, !.copy = row[d], !.action = a]]
  /\ UNCHANGED <<now, row, poll, entered, approved, refused>>

\* DeviceConfirmView.form_valid saves the status column.
SaveDecision(t) ==
  /\ tab[t].phase = "decide"
  /\ IF tab[t].action = "accept"
     THEN /\ row' = [row EXCEPT ![tab[t].device].status = "authorized"]
          /\ approved' = approved \cup {tab[t].device}
     ELSE /\ row' = [row EXCEPT ![tab[t].device].status = "denied"]
          /\ UNCHANGED approved
  /\ AnswerTab(t, "to_status")
  /\ UNCHANGED <<now, poll, entered, refused>>

-----------------------------------------------------------------------------
(* The device polls. *)

\* device_flow_token_response: the stored status decides, not the deadline.
StatusAnswer(d) == IF row[d].status = "authorized" THEN "client" ELSE row[d].status

PollStatus(p) ==
  /\ poll[p].phase = "idle"
  /\ \E d \in Device :
       \/ row[d] = NoRow /\ AnswerPoll(p, "device_not_found") /\ UNCHANGED refused
       \/ /\ row[d] # NoRow
          /\ poll' = [poll EXCEPT ![p] =
               [NewPoll EXCEPT !.phase = StatusAnswer(d), !.device = d, !.late = d \in refused]]
          /\ refused' = IF row[d].status = "denied" /\ ~Deciding(d) THEN refused \cup {d} ELSE refused
  /\ UNCHANGED <<now, row, tab, entered, approved>>

\* oauthlib authenticates the client of the poll.  A secret that is not blank is
\* named by the application it belongs to.
OwnSecret == [a \in Application |-> IF a \in BlankSecret THEN NoSecret ELSE a]

Sent == [basic : Credentials(Application), body : Credentials(Application),
         grant : {DeviceCodeGrant}]

Proven(sent) ==
  LET used == AuthenticatingCredentials(sent, OwnSecret)
  IN used.id \in Public \/ (used.id \in Application /\ used.secret = OwnSecret[used.id])

\* What the poll's credentials come to: its next phase, and whether they prove the client.
Verdict(sent) ==
  IF DeviceClientAccepted(sent, OwnSecret) THEN <<"pre_token", Proven(sent)>>
  ELSE <<"invalid_client", FALSE>>

PollClient(p) ==
  /\ poll[p].phase = "client"
  /\ \E v \in {Verdict(sent) : sent \in Sent} :
       poll' = [poll EXCEPT ![p].phase = v[1], ![p].proved = v[2]]
  /\ UNCHANGED <<now, row, tab, entered, approved, refused>>

DefaultAtPreToken(p) ==                               \* mutant: defaults resolved again
  /\ poll[p].phase = "pre_token"
  /\ poll' = [poll EXCEPT ![p].phase = "save", ![p].user = row[poll[p].device].user,
                          ![p].scope = DefaultScope]
  /\ UNCHANGED <<now, row, tab, entered, approved, refused>>

\* set_oauthlib_user_to_device_request_user reads the row a second time.
PreToken(p) ==
  /\ poll[p].phase = "pre_token"
  /\ poll' = [poll EXCEPT ![p].phase = "save", ![p].user = row[poll[p].device].user,
                          ![p].scope = row[poll[p].device].scope]
  /\ UNCHANGED <<now, row, tab, entered, approved, refused>>

SaveTokenForgets(p) ==                                \* mutant: the answer carries no scope
  /\ poll[p].phase = "save"
  /\ poll' = [poll EXCEPT ![p].phase = "ok", ![p].scope = NoDevice]
  /\ UNCHANGED <<now, row, tab, entered, approved, refused>>

\* oauthlib creates a token without a refresh token and save_bearer_token
\* stores it; the device grant is left as it is.
SaveToken(p) ==
  /\ poll[p].phase = "save"
  /\ AnswerPoll(p, "ok")
  /\ UNCHANGED <<now, row, tab, entered, approved, refused>>

-----------------------------------------------------------------------------
Tick == now < MaxTime /\ now' = now + 1 /\ UNCHANGED <<row, tab, poll, entered, approved, refused>>

BrowserStep(t) ==
  EnterUserCode(t) \/ SaveExpired(t) \/ SaveUser(t) \/ OpenDecision(t) \/ SaveDecision(t)
PollStep(p) == PollStatus(p) \/ PollClient(p) \/ PreToken(p) \/ SaveToken(p)

Next ==
  \/ \E d \in Device : Authorize(d)
  \/ \E t \in Tab : BrowserStep(t)
  \/ \E p \in Poll : PollStep(p)
  \/ Tick

Spec == Init /\ [][Next]_vars

-----------------------------------------------------------------------------
(* Properties. *)

\* A token is given only for a device an approval was saved for, to a client
\* that is public or sent the secret stored for it (or none, if that is blank),
\* with the scope stored when the device asked for its codes, and in the name of
\* nobody or of a user who looked the user code up before the deadline: whatever
\* the tabs saved between the two reads of the poll.
TokenIsEntitled == \A p \in Poll : poll[p].phase = "ok" =>
  LET d == poll[p].device IN
  /\ d \in approved
  /\ poll[p].proved
  /\ poll[p].scope = row[d].scope
  /\ poll[p].user = Nobody \/ \E at \in 0 .. (row[d].expires - 1) : <<d, poll[p].user, at>> \in entered

\* Once a device was told of a denial while no tab was about to change it, no
\* later poll of that device obtains a token.
DenialHolds == \A p \in Poll : poll[p].late => poll[p].phase # "ok"

\* A saved decision changes only by a tab that read the row as pending, or to
\* "expired" once the deadline has passed: no stale copy is written back.
Settled(d) == row[d] # NoRow /\ row[d].status # Pending

DecisionStands == [][\A d \in Device : Settled(d) /\ ~Deciding(d) =>
  \/ row'[d].status = row[d].status
  \/ row'[d].status = "expired" /\ now >= row[d].expires]_vars

\* The user of a decided device changes only by a tab that read the row as pending.
OwnerStands == [][\A d \in Device : Settled(d) /\ ~Claiming(d) => row'[d].user = row[d].user]_vars
=============================================================================
