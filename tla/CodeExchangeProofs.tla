-------------------------- MODULE CodeExchangeProofs --------------------------
(***************************************************************************)
(* Proofs about CodeExchange, for any sets of codes, requests and clients. *)
(***************************************************************************)
EXTENDS CodeExchange, TLAPS

\* Every step of the exchange keeps its state well-typed.
LEMMA TypeStep == TypeOK /\ [Next]_vars => TypeOK'
<1> SUFFICES ASSUME TypeOK, [Next]_vars PROVE TypeOK'
  OBVIOUS
<1> USE DEF TypeOK, Goto, At, Phase, InFlight, Answers
<1>1. ASSUME NEW c \in Code, CreateGrant(c) PROVE TypeOK'
  BY <1>1, LifetimeIsNat DEF CreateGrant, Grant
<1>2. ASSUME NEW c \in Code, ClearGrant(c) PROVE TypeOK'
  BY <1>2 DEF ClearGrant
<1>3. ASSUME NEW r \in Request, Arrive(r) PROVE TypeOK'
  BY <1>3 DEF Arrive
<1>4. ASSUME NEW r \in Request, ValidateCode(r) PROVE TypeOK'
  BY <1>4 DEF ValidateCode
<1>5. ASSUME NEW r \in Request, CheckChallenge(r) PROVE TypeOK'
  BY <1>5 DEF CheckChallenge
<1>6. ASSUME NEW r \in Request, ConfirmRedirect(r) PROVE TypeOK'
  BY <1>6 DEF ConfirmRedirect
<1>7. ASSUME NEW r \in Request, SaveToken(r) PROVE TypeOK'
  BY <1>7 DEF SaveToken
<1>8. ASSUME NEW r \in Request, InvalidateCode(r) PROVE TypeOK'
  BY <1>8 DEF InvalidateCode, DeleteCode, RowOf
<1>9. ASSUME NEW r \in Request, Respond(r) PROVE TypeOK'
  BY <1>9 DEF Respond
<1>10. ASSUME NEW r \in Request, Crash(r) PROVE TypeOK'
  BY <1>10 DEF Crash
<1>11. ASSUME NEW r \in Request, DeleteToken(r) PROVE TypeOK'
  BY <1>11 DEF DeleteToken
<1>12. CASE Tick
  BY <1>12 DEF Tick
<1>13. CASE UNCHANGED vars
  BY <1>13 DEF vars
<1>14. QED
  BY <1>1, <1>2, <1>3, <1>4, <1>5, <1>6, <1>7, <1>8, <1>9, <1>10, <1>11, <1>12, <1>13
     DEF Next, Serve

\* The state of the exchange is well-typed: every action writes values of the types
\* its columns and request attributes have.
THEOREM TypeCorrect == Spec => []TypeOK
<1>1. Init => TypeOK
  BY DEF Init, TypeOK, Phase
<1>2. QED
  BY <1>1, TypeStep, PTL DEF Spec

-----------------------------------------------------------------------------
(* The inductive invariant behind the safety properties. *)

AfterCode == {"challenge", "redirect", "save", "invalidate", "respond", "ok"}
AfterChallenge == {"redirect", "save", "invalidate", "respond", "ok"}
AfterRedirect == {"save", "invalidate", "respond", "ok"}
AfterSave == {"invalidate", "respond", "ok"}
Unsaved == {"idle", "validate", "challenge", "redirect", "save"}

\* A request that arrived has parameters, and arrived in the past.
ArrivedInv ==
  \A r \in Request : phase[r] # "idle" => params[r] \in Params /\ arrival[r].at <= now

\* Rows of the table were issued.
TableInv == \A c \in table : issued[c] # NotIssued

\* What a request has passed, it has passed for good: the row's contents never change.
VettedInv ==
  \A r \in Request :
    LET g == issued[params[r].code]
        saved == token[r] # "none"
    IN
    /\ phase[r] \in AfterCode \/ saved =>
         g # NotIssued /\ g.client = params[r].client /\ arrival[r].at < g.expires
    /\ phase[r] \in AfterChallenge \/ saved => g.challenge \in {NoVerifier, params[r].verifier}
    /\ phase[r] \in AfterRedirect \/ saved => g.uri = params[r].uri

\* Tokens are there exactly after the save.
SavedInv ==
  \A r \in Request :
    /\ phase[r] \in AfterSave => token[r] # "none"
    /\ phase[r] \in Unsaved => token[r] = "none"

\* A redeemed code is gone, and its redeemer is past the deletion.
RedeemedInv ==
  /\ \A c \in Code, r \in Request : redeemer[c] = r =>
       /\ params[r].code = c
       /\ c \notin table /\ issued[c] # NotIssued
       /\ token[r] # "none"
  /\ \A r \in Request : phase[r] \in {"respond", "ok"} => redeemer[params[r].code] = r

\* A late request gets no further than validate_code.
LateInv ==
  \A r \in Request : arrival[r].late =>
    /\ phase[r] # "idle" /\ phase[r] \notin AfterCode
    /\ redeemer[params[r].code] # Nobody
    /\ token[r] = "none"

ExchangeInv ==
  TypeOK /\ ArrivedInv /\ TableInv /\ VettedInv /\ SavedInv /\ RedeemedInv /\ LateInv
-----------------------------------------------------------------------------
\* The initial state satisfies the invariant.
LEMMA InvInit == Init => ExchangeInv
  BY NobodyIsNoRequest DEF Init, ExchangeInv, TypeOK, Phase, ArrivedInv, TableInv, VettedInv, SavedInv,
     RedeemedInv, LateInv, AfterCode, AfterChallenge, AfterRedirect, AfterSave, Unsaved

\* Every action preserves the invariant.
LEMMA InvStep == ExchangeInv /\ [Next]_vars => ExchangeInv'
<1> SUFFICES ASSUME ExchangeInv, [Next]_vars PROVE ExchangeInv'
  OBVIOUS
<1>0. TypeOK /\ TypeOK'
  BY TypeStep DEF ExchangeInv
<1> USE DEF ExchangeInv, TypeOK, Goto, At, ArrivedInv, TableInv, VettedInv, SavedInv,
     RedeemedInv, LateInv, AfterCode, AfterChallenge, AfterRedirect, AfterSave, Unsaved
<1>1. ASSUME NEW c \in Code, CreateGrant(c) PROVE ExchangeInv'
  BY <1>0, <1>1, LifetimeIsNat, NotIssuedIsNoGrant, NobodyIsNoRequest DEF CreateGrant, Grant
<1>2. ASSUME NEW c \in Code, ClearGrant(c) PROVE ExchangeInv'
  BY <1>0, <1>2 DEF ClearGrant
<1>3. ASSUME NEW r \in Request, Arrive(r) PROVE ExchangeInv'
  BY <1>0, <1>3, NobodyIsNoRequest DEF Arrive, Params
<1>4. ASSUME NEW r \in Request, ValidateCode(r) PROVE ExchangeInv'
  BY <1>0, <1>4 DEF ValidateCode, RowOf, IsExpired, Params, Grant
<1>5. ASSUME NEW r \in Request, CheckChallenge(r) PROVE ExchangeInv'
  BY <1>0, <1>5 DEF CheckChallenge, ChallengeMet, RowOf
<1>6. ASSUME NEW r \in Request, ConfirmRedirect(r) PROVE ExchangeInv'
  BY <1>0, <1>6 DEF ConfirmRedirect, RowOf
<1>7. ASSUME NEW r \in Request, SaveToken(r) PROVE ExchangeInv'
  BY <1>0, <1>7 DEF SaveToken
<1>8. ASSUME NEW r \in Request, InvalidateCode(r) PROVE ExchangeInv'
  BY <1>0, <1>8, NobodyIsNoRequest DEF InvalidateCode, DeleteCode, RowOf, Params
<1>9. ASSUME NEW r \in Request, Respond(r) PROVE ExchangeInv'
  BY <1>0, <1>9 DEF Respond
<1>10. ASSUME NEW r \in Request, Crash(r) PROVE ExchangeInv'
  BY <1>0, <1>10 DEF Crash, InFlight
<1>11. ASSUME NEW r \in Request, DeleteToken(r) PROVE ExchangeInv'
  BY <1>0, <1>11 DEF DeleteToken
<1>12. CASE Tick
  BY <1>0, <1>12 DEF Tick
<1>13. CASE UNCHANGED vars
  BY <1>0, <1>13 DEF vars
<1>14. QED
  BY <1>1, <1>2, <1>3, <1>4, <1>5, <1>6, <1>7, <1>8, <1>9, <1>10, <1>11, <1>12, <1>13
     DEF Next, Serve
-----------------------------------------------------------------------------
\* The invariant holds throughout.
THEOREM InvCorrect == Spec => []ExchangeInv
  BY InvInit, InvStep, PTL DEF Spec

\* At most one request per code is answered with tokens, however many workers race:
\* an answered request is the redeemer of its code, and a code has one redeemer.
THEOREM Delivery == Spec => []AtMostOneDelivery
<1>1. ExchangeInv => AtMostOneDelivery
  BY DEF ExchangeInv, RedeemedInv, AtMostOneDelivery
<1>2. QED
  BY <1>1, InvCorrect, PTL

\* Tokens are saved only for requests that matched the grant before it expired,
\* although the checks are separate queries on a row that may disappear.
THEOREM Entitlement == Spec => []EntitledToken
<1>1. ExchangeInv => EntitledToken
  BY DEF ExchangeInv, VettedInv, EntitledToken
<1>2. QED
  BY <1>1, InvCorrect, PTL

\* A code that was redeemed has bought its redeemer committed tokens, whenever the
\* worker is killed.
THEOREM CrashSafety == Spec => []NothingSpentForNothing
<1>1. ExchangeInv => NothingSpentForNothing
  BY DEF ExchangeInv, RedeemedInv, NothingSpentForNothing
<1>2. QED
  BY <1>1, InvCorrect, PTL

\* A replay of a redeemed code leaves no token behind.
THEOREM Replay == Spec => []LateGetsNothing
<1>1. ExchangeInv => LateGetsNothing
  BY DEF ExchangeInv, LateInv, LateGetsNothing
<1>2. QED
  BY <1>1, InvCorrect, PTL

-----------------------------------------------------------------------------
(* The refinement. *)

\* An exchange starts where the one-shot code starts.
LEMMA RefinesInit == Init => OneShot!Init
  BY NobodyIsNoRequest DEF Init, OneShot!Init

\* Every step of the exchange is a step of the one-shot code, or changes nothing of it.
LEMMA RefinesStep == ExchangeInv /\ [Next]_vars => [OneShot!Next]_(OneShot!vars)
<1> SUFFICES ASSUME ExchangeInv, [Next]_vars PROVE [OneShot!Next]_(OneShot!vars)
  OBVIOUS
<1> USE DEF ExchangeInv, TypeOK, Goto, At, OneShot!vars
<1>1. ASSUME NEW c \in Code, CreateGrant(c) PROVE OneShot!HandOut(c)
  <2>1. issued'[c] # NotIssued /\ \A d \in Code \ {c} : issued'[d] = issued[d]
    BY <1>1, LifetimeIsNat, NotIssuedIsNoGrant DEF CreateGrant, Grant
  <2>2. QED
    BY <1>1, <2>1 DEF CreateGrant, OneShot!HandOut
<1>2. ASSUME NEW c \in Code, ClearGrant(c) PROVE OneShot!Lapse(c)
  BY <1>2 DEF ClearGrant, OneShot!Lapse
<1>3. ASSUME NEW r \in Request, Arrive(r) PROVE UNCHANGED OneShot!vars
  BY <1>3 DEF Arrive
<1>4. ASSUME NEW r \in Request, ValidateCode(r) PROVE UNCHANGED OneShot!vars
  BY <1>4 DEF ValidateCode
<1>5. ASSUME NEW r \in Request, CheckChallenge(r) PROVE UNCHANGED OneShot!vars
  BY <1>5 DEF CheckChallenge
<1>6. ASSUME NEW r \in Request, ConfirmRedirect(r) PROVE UNCHANGED OneShot!vars
  BY <1>6 DEF ConfirmRedirect
<1>7. ASSUME NEW r \in Request, SaveToken(r) PROVE UNCHANGED OneShot!vars
  BY <1>7 DEF SaveToken
<1>8. ASSUME NEW r \in Request, InvalidateCode(r)
      PROVE  UNCHANGED OneShot!vars \/ \E c \in Code : OneShot!Redeem(c, r)
  <2>1. {q \in Request : phase[q] = "ok"}' = {q \in Request : phase[q] = "ok"}
    BY <1>8 DEF InvalidateCode
  <2>2. QED
    BY <1>8, <2>1 DEF InvalidateCode, DeleteCode, RowOf, OneShot!Redeem
<1>9. ASSUME NEW r \in Request, Respond(r)
      PROVE  UNCHANGED OneShot!vars \/ \E c \in Code : OneShot!Deliver(c, r)
  <2>1. redeemer[params[r].code] = r /\ params[r].code \in Code
    BY <1>9 DEF Respond, RedeemedInv, ArrivedInv, Params
  <2>2. QED
    BY <1>9, <2>1 DEF Respond, OneShot!Deliver
<1>10. ASSUME NEW r \in Request, Crash(r) PROVE UNCHANGED OneShot!vars
  BY <1>10 DEF Crash, InFlight
<1>11. ASSUME NEW r \in Request, DeleteToken(r) PROVE UNCHANGED OneShot!vars
  BY <1>11 DEF DeleteToken
<1>12. CASE Tick
  BY <1>12 DEF Tick
<1>13. CASE UNCHANGED vars
  BY <1>13 DEF vars
<1>14. QED
  BY <1>1, <1>2, <1>3, <1>4, <1>5, <1>6, <1>7, <1>8, <1>9, <1>10, <1>11, <1>12, <1>13
     DEF Next, Serve, OneShot!Next

\* The exchange implements the one-shot code: handed out once, redeemed once, and
\* only the redeemer is answered with tokens.
THEOREM Refinement == Spec => ImplementsOneShot
  BY RefinesInit, RefinesStep, InvCorrect, PTL DEF Spec, ImplementsOneShot, OneShot!Spec
=============================================================================
