--------------------------- MODULE RefreshFlowProofs ---------------------------
(***************************************************************************)
(* Proofs about RefreshFlow, for any set of requests and any settings.     *)
(***************************************************************************)
EXTENDS RefreshFlow, WellFoundedInduction, TLAPS

-----------------------------------------------------------------------------
(* The helpers. *)

\* QuerySet.first() on a non-empty result returns its row with the least primary key.
LEMMA FirstIn ==
  ASSUME NEW S, S \subseteq Id, S # {}
  PROVE  First(S) \in S /\ \A j \in S : First(S) <= j
<1>1. S \subseteq Nat
  BY BoundsAreNat DEF Id
<1>2. \E x \in S : \A y \in S : ~(<<y, x>> \in OpToRel(<, Nat))
  BY <1>1, NatLessThanWellFounded, WFMin, Zenon
<1>3. \A x, y \in Nat : x < y => <<x, y>> \in OpToRel(<, Nat)
  BY DEF OpToRel
<1>4. \E x \in S : \A y \in S : ~(y < x)
  BY <1>1, <1>2, <1>3, Zenon
<1>5. \E x \in S : \A y \in S : x <= y
  BY <1>1, <1>4
<1>6. QED
  BY <1>5 DEF First

\* The scope a refresh may grant is a set of scopes.
LEMMA OriginalScopeType ==
  ASSUME TypeOK, NEW r \in Request
  PROVE  OriginalScope(r) \subseteq Scope
<1>1. ctx[r].scope \subseteq Scope
  BY DEF TypeOK, Context
<1>2. \A a \in Stored : at[a].scope \subseteq Scope
  BY DEF TypeOK, Stored, AccessRow
<1>3. UNION {at[a].scope : a \in RefreshedFrom(ctx[r].row)} \subseteq Scope
  BY <1>2 DEF RefreshedFrom
<1>4. QED
  BY <1>1, <1>3 DEF OriginalScope

\* The successor of a token is a string.
LEMMA NextTokenType ==
  ASSUME TypeOK, NEW r \in Request
  PROVE  NextToken(r) \in Nat
  BY DEF TypeOK, Context, NextToken

\* Revoking a row leaves both tables well-typed.
LEMMA RevokeType ==
  ASSUME TypeOK, NEW i \in Live
  PROVE  /\ RtAfterRevoke(i) \in [Id -> RefreshRow \cup {NoRow}]
         /\ AtAfterRevoke(i) \in [Id -> AccessRow \cup {NoRow}]
  BY DEF TypeOK, Live, RtAfterRevoke, AtAfterRevoke, RefreshRow, None, Id

\* A revoked row stays in its table.
LEMMA RevokedStays ==
  ASSUME TypeOK, NEW i \in Live
  PROVE  \A j \in Id : rt[j] # NoRow => RtAfterRevoke(i)[j] # NoRow
<1>1. i \in Id /\ rt[i] \in RefreshRow /\ now \in Nat /\ None \in Id \cup {None}
  BY DEF TypeOK, Live
<1>2. [rt[i] EXCEPT !.at = None, !.revoked = now] \in RefreshRow
  BY <1>1 DEF RefreshRow
<1>3. [rt EXCEPT ![i].at = None, ![i].revoked = now][i] = [rt[i] EXCEPT !.at = None, !.revoked = now]
  BY <1>1 DEF TypeOK
<1>4. QED
  BY <1>1, <1>2, <1>3, NoRowIsNoRow DEF RtAfterRevoke, TypeOK

\* Inserting a pair of rows leaves the tables well-typed.
LEMMA InsertType ==
  ASSUME TypeOK, NEW r \in [Id -> RefreshRow \cup {NoRow}], NEW a \in [Id -> AccessRow \cup {NoRow}],
         NEW tok \in Nat, NEW family \in Id, NEW source \in Id \cup {None},
         NEW scope \in SUBSET Scope, NEW expires \in Nat,
         Insert(r, a, tok, family, source, scope, expires)
  PROVE  /\ rt' \in [Id -> RefreshRow \cup {NoRow}]
         /\ at' \in [Id -> AccessRow \cup {NoRow}]
         /\ born' \in [Id -> Origin]
         /\ last' \in 0..MaxRow
         /\ fresh' \in Nat
<1>1. last + 1 \in Id /\ last' \in 0..MaxRow /\ fresh' \in Nat
  BY BoundsAreNat DEF TypeOK, Insert, Id
<1>2. rt' \in [Id -> RefreshRow \cup {NoRow}]
  BY <1>1 DEF Insert, RefreshRow, NotRevoked
<1>3. at' \in [Id -> AccessRow \cup {NoRow}]
  BY <1>1 DEF TypeOK, Insert, AccessRow, NewAccess
<1>4. born' \in [Id -> Origin]
  BY <1>1, BoundsAreNat DEF TypeOK, Insert, Origin, Id
<1>5. QED
  BY <1>1, <1>2, <1>3, <1>4

\* What a request stores in memory keeps its record well-typed.
LEMMA ContextType ==
  ASSUME NEW c \in Context, NEW i \in Id \cup {None}, NEW j \in Id \cup {None},
         NEW m \in Nat, NEW n \in Nat, NEW S \in SUBSET Scope, NEW T \in SUBSET Id,
         NEW b \in BOOLEAN
  PROVE  /\ [c EXCEPT !.tok = m, !.want = S, !.own = b] \in Context
         /\ [c EXCEPT !.row = i, !.cached = j, !.scope = S] \in Context
         /\ [c EXCEPT !.row = i] \in Context
         /\ [c EXCEPT !.todo = T] \in Context
         /\ [c EXCEPT !.todo = T, !.upto = i] \in Context
         /\ [c EXCEPT !.until = m, !.scope = S] \in Context
         /\ [c EXCEPT !.prev = i, !.access = m] \in Context
         /\ [c EXCEPT !.access = m, !.refresh = n] \in Context
<1> USE DEF Context
<1>1. [c EXCEPT !.row = i, !.cached = j, !.scope = S] \in Context
  OBVIOUS
<1>2. [c EXCEPT !.row = i] \in Context
  OBVIOUS
<1>3. [c EXCEPT !.todo = T] \in Context /\ [c EXCEPT !.todo = T, !.upto = i] \in Context
  OBVIOUS
<1>4. [c EXCEPT !.until = m, !.scope = S] \in Context
  OBVIOUS
<1>5. [c EXCEPT !.prev = i, !.access = m] \in Context
  OBVIOUS
<1>6. [c EXCEPT !.access = m, !.refresh = n] \in Context
  OBVIOUS
<1>7. [c EXCEPT !.tok = m, !.want = S, !.own = b] \in Context
  OBVIOUS
<1>8. QED
  BY <1>1, <1>2, <1>3, <1>4, <1>5, <1>6, <1>7

-----------------------------------------------------------------------------
(* The inductive invariant of the tables and the row locks. *)

\* Numbers above the last one were never used.
UnusedIn(r, a) == \A i \in Id : i > last => r[i] = NoRow /\ a[i] = NoRow
UnusedInv == UnusedIn(rt, at)

\* A bound access token is stored, and bound to one refresh token that is not revoked.
BoundIn(r, a) ==
  \A i \in Id : r[i] # NoRow /\ r[i].at # None =>
    /\ r[i].revoked = NotRevoked
    /\ a[r[i].at] # NoRow
    /\ \A j \in Id : r[j] # NoRow /\ r[j].at = r[i].at => i = j
BoundInv == BoundIn(rt, at)

\* A row lock belongs to the request that is about to commit on that row, which exists.
LockInv ==
  /\ \A r \in Request : phase[r] = "commit" => ctx[r].row \in Live /\ lock[ctx[r].row] = r
  /\ \A i \in Id : lock[i] # Nobody => phase[lock[i]] = "commit" /\ ctx[lock[i]].row = i

\* What a transaction read under its lock is still true: nothing was made from the token.
UntakenInv ==
  \A r \in Request : phase[r] = "commit" /\ ctx[r].prev = None => ~Taken(ctx[r].row)

RefreshInv ==
  /\ TypeOK /\ UnusedInv /\ BoundInv /\ LockInv /\ UntakenInv
  /\ ConstraintNeverFires

-----------------------------------------------------------------------------
(* Type correctness.  TypeOK alone is not inductive: that a transaction finds its     *)
(* row, and that a bound access token can be read, comes from LockInv and BoundInv.   *)

\* Every step keeps the state well-typed.
LEMMA TypeStep == RefreshInv /\ [Next]_vars => TypeOK'
<1> SUFFICES ASSUME RefreshInv, [Next]_vars PROVE TypeOK'
  OBVIOUS
<1> USE DEF TypeOK, tables, Goto, Refuse, Remember, Phase, InFlight, Refusals
<1>0. Blank \in Context /\ TypeOK
  BY DEF Blank, Context, RefreshInv
<1>1. CASE StartSession
  <2>1. last + 1 \in Id
    BY <1>0, <1>1, BoundsAreNat DEF StartSession, Insert, Id
  <2>2. fresh + 1 \in Nat /\ now + TokenLifetime \in Nat /\ None \in Id \cup {None}
    BY <1>0, BoundsAreNat
  <2>3. Insert(rt, at, fresh + 1, last + 1, None, Scope, now + TokenLifetime)
    BY <1>1 DEF StartSession
  <2>4. /\ rt' \in [Id -> RefreshRow \cup {NoRow}]
        /\ at' \in [Id -> AccessRow \cup {NoRow}]
        /\ born' \in [Id -> Origin] /\ last' \in 0..MaxRow /\ fresh' \in Nat
    BY <1>0, <2>1, <2>2, <2>3, InsertType
  <2>5. QED
    BY <1>0, <1>1, <2>4 DEF StartSession
<1>2. CASE ListOutdated
  BY <1>0, <1>2 DEF ListOutdated, Live
<1>3. CASE DeleteSwept
  BY <1>0, <1>3 DEF DeleteSwept, Stored, AccessRow
<1>4. CASE Tick
  BY <1>0, <1>4 DEF Tick
<1>5. ASSUME NEW i \in Id, RevokeToken(i) PROVE TypeOK'
  BY <1>0, <1>5, RevokeType DEF RevokeToken
<1>6. ASSUME NEW a \in Id, DeleteAccess(a) PROVE TypeOK'
  BY <1>0, <1>6 DEF DeleteAccess, BoundTo, Live, RefreshRow
<1>7. ASSUME NEW r \in Request, Arrive(r) PROVE TypeOK'
  <2>1. Known \subseteq Nat
    <3>1. \A i \in Roots : born[i].tok \in Nat
      BY <1>0, BoundsAreNat DEF Roots, Origin, Id
    <3>2. \A q \in Request : ctx[q].refresh \in Nat
      BY <1>0 DEF Context
    <3>3. QED
      BY <3>1, <3>2 DEF Known
  <2>2. \A tok \in Known, want \in SUBSET Scope, own \in BOOLEAN :
          [Blank EXCEPT !.tok = tok, !.want = want, !.own = own] \in Context
    BY <1>0, <2>1, ContextType
  <2>3. PICK c \in Context : Remember(r, c)
    BY <1>7, <2>2 DEF Arrive
  <2>4. ctx' \in [Request -> Context]
    BY <1>0, <2>3
  <2>5. phase' \in [Request -> Phase]
    BY <1>0, <1>7 DEF Arrive
  <2>6. QED
    BY <1>0, <1>7, <2>4, <2>5 DEF Arrive
<1>8. ASSUME NEW r \in Request, Validate(r) PROVE TypeOK'
  <2> DEFINE rows == WithToken(ctx[r].tok)
             i == First(rows)
             scope == IF rt[i].at = None THEN {} ELSE at[rt[i].at].scope
             admitted == [ctx[r] EXCEPT !.row = i, !.cached = rt[i].at, !.scope = scope]
             reused == [ctx[r] EXCEPT !.row = i]
  <2>1. rows # {} => i \in Live /\ i \in Id \cup {None}
    BY FirstIn DEF WithToken, Live
  <2>2. rows # {} => rt[i].at \in Id \cup {None} /\ scope \in SUBSET Scope
    BY <1>0, <2>1 DEF Live, RefreshRow, Stored, AccessRow, RefreshInv, BoundInv, BoundIn
  <2>3. ctx[r] \in Context
    BY <1>0
  <2>4. rows # {} => admitted \in Context /\ reused \in Context
    <3> HIDE DEF i, scope
    <3>1. QED
      BY <2>1, <2>2, <2>3, ContextType
  <2>5. QED
    BY <1>0, <1>8, <2>4 DEF Validate, Admit
<1>9. ASSUME NEW r \in Request, ListFamily(r) PROVE TypeOK'
  <2> DEFINE family == Family(ctx[r].row)
  <2>1. ctx[r] \in Context /\ family \in SUBSET Id /\ last \in Id \cup {None}
    BY <1>0, BoundsAreNat DEF Family, Live, Id, None
  <2>2. [ctx[r] EXCEPT !.todo = family, !.upto = last] \in Context
    <3> HIDE DEF family
    <3>1. QED
      BY <2>1, ContextType
  <2>3. ctx' \in [Request -> Context]
    BY <1>0, <1>9, <2>2 DEF ListFamily
  <2>4. phase' \in [Request -> Phase]
    BY <1>0, <1>9 DEF ListFamily
  <2>5. QED
    BY <1>0, <1>9, <2>3, <2>4 DEF ListFamily
<1>10. ASSUME NEW r \in Request, RevokeMember(r) PROVE TypeOK'
  <2>1. PICK j \in ctx[r].todo :
          /\ Remember(r, [ctx[r] EXCEPT !.todo = ctx[r].todo \ {j}])
          /\ rt' = IF j \in Live THEN RtAfterRevoke(j) ELSE rt
          /\ at' = IF j \in Live THEN AtAfterRevoke(j) ELSE at
    BY <1>10 DEF RevokeMember
  <2>2. ctx[r] \in Context /\ ctx[r].todo \ {j} \in SUBSET Id
    BY <1>0 DEF Context
  <2>3. [ctx[r] EXCEPT !.todo = ctx[r].todo \ {j}] \in Context
    BY <2>2, ContextType
  <2>4. QED
    BY <1>0, <1>10, <2>1, <2>3, RevokeType DEF RevokeMember
<1>11. ASSUME NEW r \in Request, EndReuse(r) PROVE TypeOK'
  BY <1>0, <1>11 DEF EndReuse
<1>12. ASSUME NEW r \in Request, CheckScope(r) PROVE TypeOK'
  <2> DEFINE scope == IF ctx[r].want = {} THEN OriginalScope(r) ELSE ctx[r].want
  <2>1. now + TokenLifetime \in Nat /\ OriginalScope(r) \subseteq Scope
    BY <1>0, OriginalScopeType, BoundsAreNat
  <2>2. ctx[r] \in Context /\ scope \in SUBSET Scope
    BY <1>0, <2>1 DEF Context
  <2>3. [ctx[r] EXCEPT !.until = now + TokenLifetime, !.scope = scope] \in Context
    BY <2>1, <2>2, ContextType
  <2>4. QED
    BY <1>0, <1>12, <2>3 DEF CheckScope
<1>13. ASSUME NEW r \in Request, OverwriteAccess(r) PROVE TypeOK'
  <2>1. ctx[r] \in Context /\ ctx[r].tok \in Nat /\ fresh + 1 \in Nat
    BY <1>0 DEF Context
  <2>2. [ctx[r] EXCEPT !.access = fresh + 1, !.refresh = ctx[r].tok] \in Context
    BY <2>1, ContextType
  <2>3. ctx' \in [Request -> Context]
    BY <1>0, <1>13, <2>2 DEF OverwriteAccess, Answer
  <2>4. ctx[r].cached \in Stored =>
          NewAccess(fresh + 1, at[ctx[r].cached].source, ctx[r].scope, ctx[r].until) \in AccessRow
    BY <1>0 DEF Context, Stored, AccessRow, NewAccess
  <2>5. at' \in [Id -> AccessRow \cup {NoRow}]
    BY <1>0, <1>13, <2>4 DEF OverwriteAccess, Stored
  <2>6. QED
    BY <1>0, <1>13, <2>3, <2>5 DEF OverwriteAccess
<1>14. ASSUME NEW r \in Request, LockToken(r) PROVE TypeOK'
  <2> DEFINE i == ctx[r].row
             a == First(RefreshedFrom(i))
  <2>1. RefreshedFrom(i) # {} => a \in Stored
    BY FirstIn DEF RefreshedFrom, Stored
  <2>2. RefreshedFrom(i) # {} => a \in Id \cup {None} /\ at[a].tok \in Nat
    BY <1>0, <2>1 DEF Stored, AccessRow
  <2>3. RefreshedFrom(i) # {} => [ctx[r] EXCEPT !.prev = a, !.access = at[a].tok] \in Context
    <3> HIDE DEF a
    <3>1. ctx[r] \in Context
      BY <1>0
    <3>2. QED
      BY <2>2, <3>1, ContextType
  <2>4. QED
    BY <1>0, <1>14, <2>3 DEF LockToken, Live
<1>15. ASSUME NEW r \in Request, Rotated(r) PROVE TypeOK'
  <2> DEFINE i == ctx[r].row
  <2>1. i \in Live /\ rt[i].family \in Id /\ i \in Id \cup {None}
    BY <1>0, <1>15 DEF Rotated, RefreshInv, LockInv, Live, RefreshRow
  <2>2. ctx[r] \in Context /\ ctx[r].scope \in SUBSET Scope /\ ctx[r].until \in Nat
        /\ fresh + 1 \in Nat /\ NextToken(r) \in Nat
    BY <1>0, NextTokenType DEF Context
  <2>3. [ctx[r] EXCEPT !.access = fresh + 1, !.refresh = NextToken(r)] \in Context
    BY <2>2, ContextType
  <2>4. CASE ~Taken(i)
    <3>1. Insert(RtAfterRevoke(i), AtAfterRevoke(i), NextToken(r), rt[i].family,
                 i, ctx[r].scope, ctx[r].until)
      BY <1>15, <2>4 DEF Rotated
    <3>2. /\ rt' \in [Id -> RefreshRow \cup {NoRow}]
          /\ at' \in [Id -> AccessRow \cup {NoRow}]
          /\ born' \in [Id -> Origin] /\ last' \in 0..MaxRow /\ fresh' \in Nat
      BY <1>0, <2>1, <2>2, <3>1, RevokeType, InsertType
    <3>3. QED
      BY <1>0, <1>15, <2>3, <2>4, <3>2 DEF Rotated, Answer, Unlock
  <2>5. CASE Taken(i)
    BY <1>0, <1>15, <2>5 DEF Rotated, Rollback, Unlock
  <2>6. QED
    BY <2>4, <2>5
<1>16. ASSUME NEW r \in Request, Repeated(r) PROVE TypeOK'
  <2> DEFINE i == ctx[r].row
             pair == BoundTo(ctx[r].prev) \ {i}
  <2>1. i \in Live
    BY <1>16 DEF Repeated, RefreshInv, LockInv
  <2>2. pair # {} => StoredToken(pair) \in Nat
    <3>1. pair # {} => First(pair) \in Live
      BY FirstIn DEF BoundTo, Live
    <3>2. QED
      BY <1>0, <3>1 DEF Live, RefreshRow, StoredToken
  <2>3. ctx[r] \in Context /\ ctx[r].access \in Nat
    BY <1>0 DEF Context
  <2>4. pair # {} => [ctx[r] EXCEPT !.access = ctx[r].access, !.refresh = StoredToken(pair)] \in Context
    BY <2>2, <2>3, ContextType
  <2>5. QED
    BY <1>0, <1>16, <2>1, <2>4, RevokeType DEF Repeated, Rollback, Unlock, Answer
<1>17. ASSUME NEW r \in Request, Respond(r) PROVE TypeOK'
  BY <1>0, <1>17 DEF Respond
<1>18. ASSUME NEW r \in Request, Crash(r) PROVE TypeOK'
  BY <1>0, <1>18 DEF Crash
<1>19. CASE UNCHANGED vars
  BY <1>0, <1>19 DEF vars
<1>20. QED
  BY <1>1, <1>2, <1>3, <1>4, <1>5, <1>6, <1>7, <1>8, <1>9, <1>10, <1>11, <1>12, <1>13, <1>14,
     <1>15, <1>16, <1>17, <1>18, <1>19 DEF Next, Serve

-----------------------------------------------------------------------------
(* The tables: UnusedInv and BoundInv. *)

\* The rows of the two tables, as a step of the model leaves them.
RowsGood(r, a) ==
  /\ r \in [Id -> RefreshRow \cup {NoRow}]
  /\ a \in [Id -> AccessRow \cup {NoRow}]
  /\ UnusedIn(r, a) /\ BoundIn(r, a)

\* revoke() deletes the bound access token and unbinds it, whichever row it is called on.
LEMMA RevokeRows ==
  ASSUME RefreshInv, NEW i \in Live
  PROVE  RowsGood(RtAfterRevoke(i), AtAfterRevoke(i))
<1> DEFINE r == RtAfterRevoke(i)
           a == AtAfterRevoke(i)
<1>1. TypeOK /\ UnusedIn(rt, at) /\ BoundIn(rt, at) /\ i \in Id
  BY DEF RefreshInv, UnusedInv, BoundInv, Live
<1>2. r \in [Id -> RefreshRow \cup {NoRow}] /\ a \in [Id -> AccessRow \cup {NoRow}]
  BY <1>1, RevokeType
<1>3. UnusedIn(r, a)
  BY <1>1 DEF UnusedIn, RtAfterRevoke, AtAfterRevoke, Live, TypeOK
<1>4. CASE Revocable(i)
  <2>1. \A j \in Id : j # i => r[j] = rt[j]
    BY <1>1, <1>4 DEF RtAfterRevoke, TypeOK
  <2>2. r[i].at = None
    BY <1>1, <1>4 DEF RtAfterRevoke, TypeOK, RefreshRow, Live
  <2>3. \A b \in Id : b # rt[i].at => a[b] = at[b]
    BY <1>1, <1>4 DEF AtAfterRevoke, TypeOK
  <2>4. ASSUME NEW j \in Id, r[j] # NoRow, r[j].at # None
        PROVE  /\ r[j].revoked = NotRevoked
               /\ a[r[j].at] # NoRow
               /\ \A k \in Id : r[k] # NoRow /\ r[k].at = r[j].at => j = k
    <3>1. j # i /\ rt[j] # NoRow /\ rt[j].at # None /\ r[j] = rt[j]
      BY <2>1, <2>2, <2>4
    <3>2. rt[j].at # rt[i].at
      BY <1>1, <3>1 DEF BoundIn, Live
    <3>3. rt[j].at \in Id
      BY <1>1, <3>1 DEF TypeOK, RefreshRow
    <3>4. a[r[j].at] # NoRow /\ r[j].revoked = NotRevoked
      BY <1>1, <2>3, <3>1, <3>2, <3>3 DEF BoundIn
    <3>5. \A k \in Id : r[k] # NoRow /\ r[k].at = r[j].at => k # i /\ rt[k] # NoRow /\ rt[k].at = rt[j].at
      BY <2>1, <2>2, <3>1
    <3>6. QED
      BY <1>1, <3>1, <3>4, <3>5 DEF BoundIn
  <2>5. QED
    BY <1>2, <1>3, <2>4 DEF RowsGood, BoundIn
<1>5. CASE ~Revocable(i)
  BY <1>1, <1>2, <1>5 DEF RowsGood, RtAfterRevoke, AtAfterRevoke
<1>6. QED
  BY <1>4, <1>5

\* Inserting a pair of rows binds the new refresh token to the new access token.
LEMMA InsertRows ==
  ASSUME TypeOK, NEW r, NEW a, RowsGood(r, a),
         NEW tok \in Nat, NEW family \in Id, NEW source \in Id \cup {None},
         NEW scope \in SUBSET Scope, NEW expires \in Nat,
         Insert(r, a, tok, family, source, scope, expires)
  PROVE  UnusedInv' /\ BoundInv'
<1> DEFINE n == last + 1
<1>1. n \in Id /\ last' = n /\ n # None /\ last \in Nat /\ Id \subseteq Nat
  BY BoundsAreNat DEF TypeOK, Insert, Id, None
<1>2. /\ rt' = [r EXCEPT ![n] = [tok |-> tok, family |-> family, at |-> n, revoked |-> NotRevoked]]
      /\ at' = [a EXCEPT ![n] = NewAccess(fresh + 1, source, scope, expires)]
      /\ r \in [Id -> RefreshRow \cup {NoRow}]
      /\ a \in [Id -> AccessRow \cup {NoRow}]
  BY DEF Insert, RowsGood
<1>3. \A j \in Id : j # n => rt'[j] = r[j] /\ at'[j] = a[j]
  BY <1>2
<1>4. rt'[n] = [tok |-> tok, family |-> family, at |-> n, revoked |-> NotRevoked]
  BY <1>1, <1>2
<1>5. at'[n] # NoRow
  <2>1. NewAccess(fresh + 1, source, scope, expires) \in AccessRow
    BY DEF TypeOK, NewAccess, AccessRow
  <2>2. QED
    BY <1>1, <1>2, <2>1, NoRowIsNoRow
<1>6. r[n] = NoRow /\ a[n] = NoRow
  BY <1>1 DEF RowsGood, UnusedIn
<1>7. \A j \in Id : j # n /\ r[j] # NoRow => r[j].at # n
  BY <1>1, <1>6 DEF RowsGood, BoundIn
<1>8. UnusedInv'
  <2>1. \A j \in Id : j > n => j > last /\ j # n
    BY <1>1
  <2>2. QED
    BY <1>1, <1>3, <2>1 DEF UnusedInv, UnusedIn, RowsGood
<1>9. ASSUME NEW j \in Id, rt'[j] # NoRow, rt'[j].at # None
      PROVE  /\ rt'[j].revoked = NotRevoked
             /\ at'[rt'[j].at] # NoRow
             /\ \A k \in Id : rt'[k] # NoRow /\ rt'[k].at = rt'[j].at => j = k
  <2>1. CASE j = n
    BY <1>3, <1>4, <1>5, <1>7, <2>1
  <2>2. CASE j # n
    <3>1. rt'[j] = r[j] /\ r[j].at # n /\ r[j].at \in Id
      BY <1>2, <1>3, <1>7, <1>9, <2>2 DEF RefreshRow
    <3>2. r[j].revoked = NotRevoked /\ a[r[j].at] # NoRow
      BY <1>9, <3>1 DEF RowsGood, BoundIn
    <3>3. \A k \in Id : rt'[k] # NoRow /\ rt'[k].at = r[j].at => k # n /\ rt'[k] = r[k]
      BY <1>3, <1>4, <3>1
    <3>4. \A k \in Id : r[k] # NoRow /\ r[k].at = r[j].at => j = k
      BY <1>9, <3>1 DEF RowsGood, BoundIn
    <3>5. QED
      BY <1>3, <3>1, <3>2, <3>3, <3>4
  <2>3. QED
    BY <2>1, <2>2
<1>10. QED
  BY <1>8, <1>9 DEF BoundInv, BoundIn

-----------------------------------------------------------------------------
(* The transactions: LockInv, UntakenInv and ConstraintNeverFires. *)

\* An access token of table a was made from refresh token i.
MadeFrom(a, i) == \E b \in Id : a[b] # NoRow /\ a[b].source = i

\* What every action keeps that is not part of a rotation: a locked row stays in its
\* table, and no access token is made from a refresh token.
RowsKept ==
  /\ UnusedInv' /\ BoundInv'
  /\ \A i \in Id : rt[i] # NoRow /\ lock[i] # Nobody => rt'[i] # NoRow
  /\ \A i \in Id : MadeFrom(at', i) => MadeFrom(at, i)

\* What every action keeps that neither begins nor ends a transaction.
Calm ==
  /\ lock' = lock
  /\ \A q \in Request : phase'[q] = "commit" <=> phase[q] = "commit"
  /\ \A q \in Request : phase[q] = "commit" => ctx'[q] = ctx[q]
  /\ \A q \in Request : phase'[q] = "integrity" => phase[q] = "integrity"

\* Such a step leaves the open transactions what they rely on.
LEMMA CalmStep ==
  ASSUME RefreshInv, RowsKept, Calm
  PROVE  UnusedInv' /\ BoundInv' /\ LockInv' /\ UntakenInv' /\ ConstraintNeverFires'
<1>0. TypeOK /\ LockInv /\ UntakenInv /\ ConstraintNeverFires
  BY DEF RefreshInv
<1>1. \A q \in Request : phase'[q] = "commit" => ctx'[q].row \in Live' /\ lock'[ctx'[q].row] = q
  <2> SUFFICES ASSUME NEW q \in Request, phase'[q] = "commit"
               PROVE  ctx'[q].row \in Live' /\ lock'[ctx'[q].row] = q
    OBVIOUS
  <2>1. phase[q] = "commit" /\ ctx'[q] = ctx[q]
    BY DEF Calm
  <2>2. ctx[q].row \in Id /\ rt[ctx[q].row] # NoRow /\ lock[ctx[q].row] = q
    BY <1>0, <2>1 DEF LockInv, Live
  <2>3. rt'[ctx[q].row] # NoRow
    BY <2>2, NobodyIsNoRequest DEF RowsKept
  <2>4. QED
    BY <2>1, <2>2, <2>3 DEF Calm, Live
<1>2. \A i \in Id : lock'[i] # Nobody => phase'[lock'[i]] = "commit" /\ ctx'[lock'[i]].row = i
  BY <1>0 DEF LockInv, Calm, TypeOK
<1>3. UntakenInv'
  <2> SUFFICES ASSUME NEW q \in Request, phase'[q] = "commit", ctx'[q].prev = None
               PROVE  ~MadeFrom(at', ctx'[q].row)
    BY DEF UntakenInv, Taken, Stored, MadeFrom
  <2>1. phase[q] = "commit" /\ ctx'[q] = ctx[q]
    BY DEF Calm
  <2>2. ctx[q].row \in Id /\ ~MadeFrom(at, ctx[q].row)
    BY <1>0, <2>1 DEF UntakenInv, LockInv, Live, Taken, Stored, MadeFrom
  <2>3. QED
    BY <2>1, <2>2 DEF RowsKept
<1>4. ConstraintNeverFires'
  BY <1>0 DEF ConstraintNeverFires, Calm
<1>5. QED
  BY <1>1, <1>2, <1>3, <1>4 DEF RowsKept, LockInv

\* A step that leaves the tables alone keeps them.
LEMMA TablesKept ==
  ASSUME RefreshInv, UNCHANGED <<rt, at, last>>
  PROVE  RowsKept
  BY DEF RefreshInv, RowsKept, UnusedInv, UnusedIn, BoundInv, BoundIn, MadeFrom

\* A step that moves one request, into and out of phases outside the transaction, is calm.
LEMMA MoveCalm ==
  ASSUME TypeOK, NEW r \in Request, phase[r] # "commit", lock' = lock,
         NEW p, Goto(r, p), p \notin {"commit", "integrity"},
         \A q \in Request : q # r => ctx'[q] = ctx[q]
  PROVE  Calm
  BY DEF TypeOK, Goto, Calm

\* A revocation keeps every row in its table and makes no access token.
LEMMA RevokeKept ==
  ASSUME RefreshInv, NEW i \in Live, rt' = RtAfterRevoke(i), at' = AtAfterRevoke(i), last' = last
  PROVE  RowsKept
<1>1. RowsGood(rt', at') /\ TypeOK /\ i \in Id
  BY RevokeRows DEF RefreshInv, Live
<1>2. UnusedInv' /\ BoundInv'
  BY <1>1 DEF RowsGood, UnusedInv, UnusedIn, BoundInv, BoundIn
<1>3. \A j \in Id : rt[j] # NoRow => rt'[j] # NoRow
  BY <1>1, RevokedStays
<1>4. \A a \in Id : at'[a] = at[a] \/ at'[a] = NoRow
  BY <1>1 DEF AtAfterRevoke, TypeOK
<1>5. \A j \in Id : MadeFrom(at', j) => MadeFrom(at, j)
  BY <1>4 DEF MadeFrom
<1>6. QED
  BY <1>2, <1>3, <1>5 DEF RowsKept

\* Deleting an access token unbinds it where it was bound.
LEMMA DeleteKept ==
  ASSUME RefreshInv, NEW a \in Id, DeleteAccess(a)
  PROVE  RowsKept
<1>1. TypeOK /\ UnusedIn(rt, at) /\ BoundIn(rt, at)
  BY DEF RefreshInv, UnusedInv, BoundInv
<1>2. \A j \in Id : rt[j] # NoRow => rt'[j] # NoRow
  <2> SUFFICES ASSUME NEW j \in Id, rt[j] # NoRow PROVE rt'[j] # NoRow
    OBVIOUS
  <2>1. [rt[j] EXCEPT !.at = None] \in RefreshRow
    BY <1>1 DEF TypeOK, RefreshRow
  <2>2. QED
    BY <2>1, NoRowIsNoRow DEF DeleteAccess
<1>3. \A j \in Id : j \notin BoundTo(a) => rt'[j] = rt[j]
  BY DEF DeleteAccess
<1>4. \A j \in BoundTo(a) : rt'[j].at = None
  BY <1>1 DEF DeleteAccess, BoundTo, Live, TypeOK, RefreshRow
<1>5. \A b \in Id : at'[b] = IF b = a THEN NoRow ELSE at[b]
  BY <1>1 DEF DeleteAccess, TypeOK
<1>6. UnusedInv'
  BY <1>1, <1>3, <1>5 DEF UnusedInv, UnusedIn, DeleteAccess, BoundTo, Live
<1>7. BoundInv'
  <2>1. ASSUME NEW i \in Id, rt'[i] # NoRow, rt'[i].at # None
        PROVE  /\ rt'[i].revoked = NotRevoked
               /\ at'[rt'[i].at] # NoRow
               /\ \A k \in Id : rt'[k] # NoRow /\ rt'[k].at = rt'[i].at => i = k
    <3>1. i \notin BoundTo(a) /\ rt'[i] = rt[i] /\ rt[i].at # a
      BY <1>3, <1>4, <2>1 DEF BoundTo, Live
    <3>2. rt[i].at \in Id
      BY <1>1, <2>1, <3>1 DEF TypeOK, RefreshRow
    <3>3. at'[rt[i].at] # NoRow /\ rt[i].revoked = NotRevoked
      BY <1>1, <1>5, <2>1, <3>1, <3>2 DEF BoundIn
    <3>4. \A k \in Id : rt'[k] # NoRow /\ rt'[k].at = rt[i].at => k \notin BoundTo(a)
      BY <1>4, <2>1, <3>1
    <3>5. QED
      BY <1>1, <1>3, <2>1, <3>1, <3>3, <3>4 DEF BoundIn
  <2>2. QED
    BY <2>1 DEF BoundInv, BoundIn
<1>8. \A i \in Id : MadeFrom(at', i) => MadeFrom(at, i)
  BY <1>5 DEF MadeFrom
<1>9. QED
  BY <1>2, <1>6, <1>7, <1>8 DEF RowsKept

\* cleartokens deletes unlocked rows only, and forgets what was made from them.
LEMMA SweepKept ==
  ASSUME RefreshInv, DeleteSwept
  PROVE  RowsKept
<1>1. TypeOK /\ UnusedIn(rt, at) /\ BoundIn(rt, at)
  BY DEF RefreshInv, UnusedInv, BoundInv
<1>2. \A i \in Id : rt'[i] = IF i \in sweep THEN NoRow ELSE rt[i]
  BY DEF DeleteSwept
<1>3. \A a \in Id : at[a] # NoRow => [at[a] EXCEPT !.source = None] \in AccessRow
  BY <1>1 DEF TypeOK, AccessRow
<1>4. \A a \in Id : at[a] = NoRow <=> at'[a] = NoRow
  BY <1>3, NoRowIsNoRow DEF DeleteSwept, Stored
<1>5. \A a \in Id : at[a] # NoRow => at'[a].source = at[a].source \/ at'[a].source = None
  BY <1>1 DEF DeleteSwept, Stored, TypeOK, AccessRow
<1>6. UnusedInv'
  BY <1>1, <1>2, <1>4 DEF UnusedInv, UnusedIn, DeleteSwept
<1>7. BoundInv'
  <2>1. ASSUME NEW i \in Id, rt'[i] # NoRow, rt'[i].at # None
        PROVE  /\ rt'[i].revoked = NotRevoked
               /\ at'[rt'[i].at] # NoRow
               /\ \A k \in Id : rt'[k] # NoRow /\ rt'[k].at = rt'[i].at => i = k
    <3>1. rt'[i] = rt[i] /\ rt[i].at \in Id
      BY <1>1, <1>2, <2>1 DEF TypeOK, RefreshRow
    <3>2. QED
      BY <1>1, <1>2, <1>4, <2>1, <3>1 DEF BoundIn
  <2>2. QED
    BY <2>1 DEF BoundInv, BoundIn
<1>8. \A i \in Id : MadeFrom(at', i) => MadeFrom(at, i)
  <2>1. None \notin Id
    BY BoundsAreNat DEF None, Id
  <2>2. QED
    BY <1>4, <1>5, <2>1 DEF MadeFrom
<1>9. \A i \in Id : rt[i] # NoRow /\ lock[i] # Nobody => rt'[i] # NoRow
  BY <1>2 DEF DeleteSwept, Unlocked
<1>10. QED
  BY <1>6, <1>7, <1>8, <1>9 DEF RowsKept

\* A new session is made from no refresh token.
LEMMA SessionKept ==
  ASSUME RefreshInv, StartSession
  PROVE  RowsKept
<1>1. TypeOK /\ RowsGood(rt, at)
  BY DEF RefreshInv, UnusedInv, BoundInv, RowsGood, TypeOK
<1>2. Insert(rt, at, fresh + 1, last + 1, None, Scope, now + TokenLifetime)
  BY DEF StartSession
<1>3. last + 1 \in Id /\ fresh + 1 \in Nat /\ now + TokenLifetime \in Nat /\ None \in Id \cup {None}
  BY <1>1, <1>2, BoundsAreNat DEF TypeOK, Insert, Id
<1>4. UnusedInv' /\ BoundInv'
  BY <1>1, <1>2, <1>3, InsertRows
<1>5. rt[last + 1] = NoRow /\ at[last + 1] = NoRow
  BY <1>1, <1>3 DEF RowsGood, UnusedIn, TypeOK
<1>6. \A i \in Id : rt[i] # NoRow => rt'[i] = rt[i]
  BY <1>1, <1>2, <1>5 DEF Insert, TypeOK
<1>7. at'[last + 1].source = None /\ \A b \in Id : b # last + 1 => at'[b] = at[b]
  BY <1>1, <1>2, <1>3 DEF Insert, TypeOK, NewAccess
<1>8. \A i \in Id : MadeFrom(at', i) => MadeFrom(at, i)
  <2>1. None \notin Id
    BY BoundsAreNat DEF None, Id
  <2>2. QED
    BY <1>7, <2>1 DEF MadeFrom
<1>9. QED
  BY <1>4, <1>6, <1>8 DEF RowsKept

\* Without rotation an access token is overwritten in its own row.
LEMMA OverwriteKept ==
  ASSUME RefreshInv, NEW r \in Request, OverwriteAccess(r)
  PROVE  RowsKept
<1> DEFINE a == ctx[r].cached
<1>1. TypeOK /\ UnusedIn(rt, at) /\ BoundIn(rt, at) /\ UNCHANGED <<rt, last, lock>>
  BY DEF RefreshInv, UnusedInv, BoundInv, OverwriteAccess
<1>2. CASE a \notin Stored
  BY <1>2, TablesKept, <1>1 DEF OverwriteAccess
<1>3. CASE a \in Stored
  <2>1. NewAccess(fresh + 1, at[a].source, ctx[r].scope, ctx[r].until) # NoRow
    <3>1. NewAccess(fresh + 1, at[a].source, ctx[r].scope, ctx[r].until) \in AccessRow
      BY <1>1, <1>3 DEF TypeOK, Context, Stored, AccessRow, NewAccess
    <3>2. QED
      BY <3>1, NoRowIsNoRow
  <2>2. \A b \in Id : /\ at[b] = NoRow <=> at'[b] = NoRow
                      /\ at[b] # NoRow => at'[b].source = at[b].source
    BY <1>1, <1>3, <2>1 DEF OverwriteAccess, NewAccess, Stored, TypeOK
  <2>3. UnusedInv' /\ (\A i \in Id : MadeFrom(at', i) => MadeFrom(at, i))
    BY <1>1, <2>2 DEF UnusedInv, UnusedIn, MadeFrom
  <2>4. BoundInv'
    BY <1>1, <2>2 DEF BoundInv, BoundIn, TypeOK, RefreshRow
  <2>5. QED
    BY <1>1, <2>3, <2>4 DEF RowsKept
<1>4. QED
  BY <1>2, <1>3

\* The lock is taken on a stored row, and whether the token was used is read under it.
LEMMA LockStep ==
  ASSUME RefreshInv, NEW r \in Request, LockToken(r)
  PROVE  UnusedInv' /\ BoundInv' /\ LockInv' /\ UntakenInv' /\ ConstraintNeverFires'
<1> DEFINE i == ctx[r].row
<1>1. TypeOK /\ LockInv /\ UntakenInv /\ ConstraintNeverFires /\ UNCHANGED <<rt, at, last>>
  BY DEF RefreshInv, LockToken, tables
<1>2. UnusedInv' /\ BoundInv'
  BY <1>1, TablesKept DEF RowsKept
<1>3. phase[r] = "save" /\ \A j \in Id : lock[j] # r
  BY <1>1, NobodyIsNoRequest DEF LockToken, LockInv
<1>4. CASE i \notin Live
  <2>1. Calm
    BY <1>1, <1>3, <1>4, MoveCalm DEF LockToken, Refuse, Remember, TypeOK
  <2>2. QED
    BY <2>1, <1>1, TablesKept, CalmStep
<1>5. CASE i \in Live
  <2>1. /\ lock[i] = Nobody /\ lock' = [lock EXCEPT ![i] = r]
        /\ phase' = [phase EXCEPT ![r] = "commit"] /\ i \in Id
    BY <1>5 DEF LockToken, Acquirable, Unlocked, Goto, Live
  <2>2. \A q \in Request : q # r => ctx'[q] = ctx[q] /\ phase'[q] = phase[q]
    BY <1>1, <1>5, <2>1 DEF LockToken, Remember, TypeOK
  <2> DEFINE a == First(RefreshedFrom(i))
             locked == [ctx[r] EXCEPT !.prev = a, !.access = at[a].tok]
  <2>3. locked.row = i /\ locked.prev = a
    <3> HIDE DEF a
    <3>1. ctx[r] \in Context
      BY <1>1 DEF TypeOK
    <3>2. QED
      BY <3>1 DEF Context
  <2>4. ctx' = IF RefreshedFrom(i) = {} THEN ctx ELSE [ctx EXCEPT ![r] = locked]
    BY <1>5 DEF LockToken, Remember
  <2>5. ctx'[r].row = i
    <3> HIDE DEF locked
    <3>1. QED
      BY <1>1, <2>3, <2>4 DEF TypeOK
  <2>6. ctx'[r].prev = None => RefreshedFrom(i) = {}
    <3>1. CASE RefreshedFrom(i) = {}
      BY <3>1
    <3>2. CASE RefreshedFrom(i) # {}
      <4>1. First(RefreshedFrom(i)) # None
        BY <3>2, FirstIn, BoundsAreNat DEF RefreshedFrom, Stored, Id, None
      <4>2. ctx'[r].prev = a
        <5> HIDE DEF locked, a
        <5>1. QED
          BY <1>1, <2>3, <2>4, <3>2 DEF TypeOK
      <4>3. QED
        BY <4>1, <4>2
    <3>3. QED
      BY <3>1, <3>2
  <2>7. LockInv'
    <3>1. \A q \in Request : phase'[q] = "commit" => ctx'[q].row \in Live' /\ lock'[ctx'[q].row] = q
      <4> SUFFICES ASSUME NEW q \in Request, phase'[q] = "commit"
                   PROVE  ctx'[q].row \in Live /\ lock'[ctx'[q].row] = q
        BY <1>1 DEF Live
      <4>1. CASE q = r
        BY <1>1, <1>5, <2>1, <2>5, <4>1 DEF TypeOK
      <4>2. CASE q # r
        BY <1>1, <2>1, <2>2, <4>2, NobodyIsNoRequest DEF LockInv, TypeOK, Live
      <4>3. QED
        BY <4>1, <4>2
    <3>2. \A j \in Id : lock'[j] # Nobody => phase'[lock'[j]] = "commit" /\ ctx'[lock'[j]].row = j
      <4> SUFFICES ASSUME NEW j \in Id, lock'[j] # Nobody
                   PROVE  phase'[lock'[j]] = "commit" /\ ctx'[lock'[j]].row = j
        OBVIOUS
      <4>1. CASE j = i
        BY <1>1, <2>1, <2>5, <4>1 DEF TypeOK
      <4>2. CASE j # i
        <5>1. lock'[j] = lock[j] /\ lock[j] \in Request /\ lock[j] # r
          BY <1>1, <1>3, <2>1, <4>2 DEF TypeOK
        <5>2. QED
          BY <1>1, <2>2, <5>1 DEF LockInv
      <4>3. QED
        BY <4>1, <4>2
    <3>3. QED
      BY <3>1, <3>2 DEF LockInv
  <2>8. UntakenInv'
    <3> SUFFICES ASSUME NEW q \in Request, phase'[q] = "commit", ctx'[q].prev = None
                 PROVE  ~MadeFrom(at, ctx'[q].row)
      BY <1>1 DEF UntakenInv, Taken, Stored, MadeFrom
    <3>1. CASE q = r
      BY <2>5, <2>6, <3>1 DEF RefreshedFrom, MadeFrom, Stored
    <3>2. CASE q # r
      BY <1>1, <2>2, <3>2 DEF UntakenInv, Taken, Stored, MadeFrom
    <3>3. QED
      BY <3>1, <3>2
  <2>9. ConstraintNeverFires'
    BY <1>1, <2>1 DEF ConstraintNeverFires, TypeOK
  <2>10. QED
    BY <1>2, <2>7, <2>8, <2>9
<1>6. QED
  BY <1>4, <1>5

\* A transaction ends: its row is unlocked, and the other transactions go on.
LEMMA EndLock ==
  ASSUME RefreshInv, NEW r \in Request, phase[r] = "commit",
         NEW p, p \notin {"commit", "integrity"}, Goto(r, p), Unlock(r),
         \A q \in Request : q # r => ctx'[q] = ctx[q],
         \A i \in Id : rt[i] # NoRow => rt'[i] # NoRow,
         \A i \in Id : i # ctx[r].row => (MadeFrom(at', i) => MadeFrom(at, i))
  PROVE  LockInv' /\ UntakenInv' /\ ConstraintNeverFires'
<1> DEFINE i == ctx[r].row
<1>1. TypeOK /\ LockInv /\ UntakenInv /\ ConstraintNeverFires
  BY DEF RefreshInv
<1>2. i \in Live /\ i \in Id /\ lock[i] = r /\ lock' = [lock EXCEPT ![i] = Nobody]
  BY <1>1 DEF LockInv, Live, Unlock
<1>3. \A q \in Request : phase'[q] = "commit" => q # r /\ phase[q] = "commit" /\ ctx'[q] = ctx[q]
  BY <1>1 DEF Goto, TypeOK
<1>4. \A q \in Request : phase[q] = "commit" /\ q # r => ctx[q].row # i
  BY <1>1, <1>2 DEF LockInv
<1>5. LockInv'
  <2>1. \A q \in Request : phase'[q] = "commit" => ctx'[q].row \in Live' /\ lock'[ctx'[q].row] = q
    BY <1>1, <1>2, <1>3, <1>4 DEF LockInv, Live, TypeOK
  <2>2. ASSUME NEW j \in Id, lock'[j] # Nobody
        PROVE  phase'[lock'[j]] = "commit" /\ ctx'[lock'[j]].row = j
    <3>1. j # i /\ lock'[j] = lock[j]
      BY <1>1, <1>2, <2>2 DEF TypeOK
    <3>2. lock[j] \in Request /\ phase[lock[j]] = "commit" /\ ctx[lock[j]].row = j
      BY <1>1, <2>2, <3>1 DEF LockInv, TypeOK
    <3>3. lock[j] # r
      BY <3>1, <3>2
    <3>4. QED
      BY <1>1, <3>1, <3>2, <3>3 DEF Goto, TypeOK
  <2>3. QED
    BY <2>1, <2>2 DEF LockInv
<1>6. UntakenInv'
  <2> SUFFICES ASSUME NEW q \in Request, phase'[q] = "commit", ctx'[q].prev = None
               PROVE  ~MadeFrom(at', ctx'[q].row)
    BY DEF UntakenInv, Taken, Stored, MadeFrom
  <2>1. ctx[q].row \in Id /\ ctx[q].row # i /\ ~MadeFrom(at, ctx[q].row)
    BY <1>1, <1>3, <1>4 DEF UntakenInv, LockInv, Live, Taken, Stored, MadeFrom
  <2>2. QED
    BY <1>3, <2>1
<1>7. ConstraintNeverFires'
  BY <1>1 DEF ConstraintNeverFires, Goto, TypeOK
<1>8. QED
  BY <1>5, <1>6, <1>7

\* A rotation finds its token unused, as it did when it took the lock, and commits.
LEMMA RotateStep ==
  ASSUME RefreshInv, NEW r \in Request, Rotated(r)
  PROVE  UnusedInv' /\ BoundInv' /\ LockInv' /\ UntakenInv' /\ ConstraintNeverFires'
<1> DEFINE i == ctx[r].row
           rv == RtAfterRevoke(i)
           av == AtAfterRevoke(i)
<1>1. TypeOK /\ phase[r] = "commit" /\ ~Taken(i) /\ i \in Live /\ i \in Id
  BY DEF RefreshInv, Rotated, UntakenInv, LockInv, Live
<1>2. Insert(rv, av, NextToken(r), rt[i].family, i, ctx[r].scope, ctx[r].until)
  BY <1>1 DEF Rotated
<1>3. RowsGood(rv, av)
  BY <1>1, RevokeRows
<1>4. /\ NextToken(r) \in Nat /\ rt[i].family \in Id /\ i \in Id \cup {None}
      /\ ctx[r].scope \in SUBSET Scope /\ ctx[r].until \in Nat
  <2>1. ctx[r] \in Context /\ rt[i] \in RefreshRow
    BY <1>1 DEF TypeOK, Live
  <2>2. QED
    BY <1>1, <2>1, NextTokenType DEF Context, RefreshRow
<1>5. UnusedInv' /\ BoundInv'
  <2> HIDE DEF i, rv, av
  <2>1. QED
    BY <1>1, <1>2, <1>3, <1>4, InsertRows
<1>6. last + 1 \in Id /\ rt[last + 1] = NoRow /\ at[last + 1] = NoRow
  BY <1>1, <1>2, BoundsAreNat DEF RefreshInv, UnusedInv, UnusedIn, Insert, TypeOK, Id
<1>7. \A j \in Id : rt[j] # NoRow => rt'[j] # NoRow
  <2>1. \A j \in Id : rt[j] # NoRow => rv[j] # NoRow
    BY <1>1, RevokedStays
  <2>2. \A j \in Id : j # last + 1 => rt'[j] = rv[j]
    BY <1>2, <1>3 DEF Insert, RowsGood
  <2>3. QED
    BY <1>6, <2>1, <2>2
<1>8. \A j \in Id : j # i => (MadeFrom(at', j) => MadeFrom(at, j))
  <2>1. \A b \in Id : av[b] = at[b] \/ av[b] = NoRow
    BY <1>1 DEF AtAfterRevoke, TypeOK
  <2>2. \A b \in Id : b # last + 1 => at'[b] = av[b]
    BY <1>2, <1>3 DEF Insert, RowsGood
  <2>3. at'[last + 1].source = i
    BY <1>2, <1>3, <1>6 DEF Insert, RowsGood, NewAccess
  <2>4. QED
    BY <2>1, <2>2, <2>3 DEF MadeFrom
<1>9. LockInv' /\ UntakenInv' /\ ConstraintNeverFires'
  <2>1. Goto(r, "respond") /\ Unlock(r) /\ \A q \in Request : q # r => ctx'[q] = ctx[q]
    BY <1>1 DEF Rotated, Answer, Remember, TypeOK
  <2>2. QED
    BY <1>1, <1>7, <1>8, <2>1, EndLock
<1>10. QED
  BY <1>5, <1>9

\* A repeated use revokes the token again, or rolls back; nothing is inserted.
LEMMA RepeatStep ==
  ASSUME RefreshInv, NEW r \in Request, Repeated(r)
  PROVE  UnusedInv' /\ BoundInv' /\ LockInv' /\ UntakenInv' /\ ConstraintNeverFires'
<1> DEFINE i == ctx[r].row
           pair == BoundTo(ctx[r].prev) \ {i}
<1>1. TypeOK /\ phase[r] = "commit" /\ i \in Live /\ i \in Id
  BY DEF RefreshInv, Repeated, LockInv, Live
<1>2. RowsKept /\ \A j \in Id : rt[j] # NoRow => rt'[j] # NoRow
  <2>1. CASE pair # {}
    <3>1. rt' = RtAfterRevoke(i) /\ at' = AtAfterRevoke(i) /\ last' = last
      BY <2>1 DEF Repeated
    <3>2. RowsKept
      BY <1>1, <3>1, RevokeKept
    <3>3. \A j \in Id : rt[j] # NoRow => rt'[j] # NoRow
      BY <1>1, <3>1, RevokedStays
    <3>4. QED
      BY <3>2, <3>3
  <2>2. CASE pair = {}
    BY <2>2, TablesKept DEF Repeated, Rollback, tables
  <2>3. QED
    BY <2>1, <2>2
<1>3. LockInv' /\ UntakenInv' /\ ConstraintNeverFires'
  <2>1. Unlock(r) /\ \A q \in Request : q # r => ctx'[q] = ctx[q]
    BY <1>1 DEF Repeated, Answer, Rollback, Refuse, Remember, TypeOK
  <2>2. Goto(r, "respond") \/ Goto(r, "error")
    BY DEF Repeated, Rollback, Refuse
  <2>3. \A j \in Id : j # i => (MadeFrom(at', j) => MadeFrom(at, j))
    BY <1>2 DEF RowsKept
  <2>4. QED
    BY <1>1, <1>2, <2>1, <2>2, <2>3, EndLock
<1>4. QED
  BY <1>2, <1>3 DEF RowsKept

\* A killed worker's transaction is rolled back.
LEMMA CrashStep ==
  ASSUME RefreshInv, NEW r \in Request, Crash(r)
  PROVE  UnusedInv' /\ BoundInv' /\ LockInv' /\ UntakenInv' /\ ConstraintNeverFires'
<1>1. TypeOK /\ LockInv /\ UNCHANGED <<rt, at, last>> /\ Goto(r, "lost")
  BY DEF RefreshInv, Crash, Refuse, tables
<1>2. RowsKept
  BY <1>1, TablesKept
<1>3. \A q \in Request : q # r => ctx'[q] = ctx[q]
  BY <1>1 DEF Crash, Refuse, Remember, TypeOK
<1>4. \A j \in Id : lock[j] = r => phase[r] = "commit" /\ ctx[r].row = j
  BY <1>1, NobodyIsNoRequest DEF LockInv
<1>5. CASE phase[r] = "commit"
  <2>1. Unlock(r)
    <3>1. ctx[r].row \in Id /\ lock[ctx[r].row] = r
      BY <1>1, <1>5 DEF LockInv, Live
    <3>2. lock' = [j \in Id |-> IF j = ctx[r].row THEN Nobody ELSE lock[j]]
      BY <1>4, <3>1 DEF Crash
    <3>3. QED
      BY <1>1, <3>1, <3>2 DEF Unlock, TypeOK
  <2>2. LockInv' /\ UntakenInv' /\ ConstraintNeverFires'
    BY <1>1, <1>2, <1>3, <1>5, <2>1, EndLock DEF RowsKept
  <2>3. QED
    BY <1>2, <2>2 DEF RowsKept
<1>6. CASE phase[r] # "commit"
  <2>1. lock' = lock
    BY <1>1, <1>4, <1>6 DEF Crash, TypeOK
  <2>2. Calm
    BY <1>1, <1>3, <1>6, <2>1, MoveCalm
  <2>3. QED
    BY <1>2, <2>2, CalmStep
<1>7. QED
  BY <1>5, <1>6

-----------------------------------------------------------------------------
(* The invariant. *)

\* It holds initially ...
LEMMA InvInit == Init => RefreshInv
<1> SUFFICES ASSUME Init PROVE RefreshInv
  OBVIOUS
<1>1. TypeOK
  <2>1. Blank \in Context /\ Unborn \in Origin
    BY DEF Blank, Unborn, Context, Origin
  <2>2. QED
    BY <2>1, BoundsAreNat DEF Init, TypeOK, Phase
<1>2. UnusedInv /\ BoundInv /\ LockInv /\ UntakenInv /\ ConstraintNeverFires
  BY DEF Init, UnusedInv, UnusedIn, BoundInv, BoundIn, LockInv, UntakenInv, ConstraintNeverFires
<1>3. QED
  BY <1>1, <1>2 DEF RefreshInv

\* ... and every step keeps it.
LEMMA InvStep == RefreshInv /\ [Next]_vars => RefreshInv'
<1> SUFFICES ASSUME RefreshInv, [Next]_vars PROVE RefreshInv'
  OBVIOUS
<1> DEFINE Kept == UnusedInv' /\ BoundInv' /\ LockInv' /\ UntakenInv' /\ ConstraintNeverFires'
<1>0. TypeOK /\ TypeOK'
  BY TypeStep DEF RefreshInv
<1> SUFFICES Kept
  BY <1>0 DEF RefreshInv
<1> USE DEF tables
<1>1. CASE StartSession
  BY <1>1, SessionKept, CalmStep DEF StartSession, Calm
<1>2. CASE ListOutdated
  BY <1>2, TablesKept, CalmStep DEF ListOutdated, Calm
<1>3. CASE DeleteSwept
  BY <1>3, SweepKept, CalmStep DEF DeleteSwept, Calm
<1>4. CASE Tick
  BY <1>4, TablesKept, CalmStep DEF Tick, Calm
<1>5. ASSUME NEW i \in Id, RevokeToken(i) PROVE Kept
  BY <1>5, RevokeKept, CalmStep DEF RevokeToken, Calm
<1>6. ASSUME NEW a \in Id, DeleteAccess(a) PROVE Kept
  BY <1>6, DeleteKept, CalmStep DEF DeleteAccess, Calm
<1>7. ASSUME NEW r \in Request, Arrive(r) PROVE Kept
  <2>1. Calm
    BY <1>0, <1>7, MoveCalm DEF Arrive, Remember, TypeOK
  <2>2. QED
    BY <1>7, <2>1, TablesKept, CalmStep DEF Arrive
<1>8. ASSUME NEW r \in Request, Validate(r) PROVE Kept
  <2>1. Calm
    <3>1. phase[r] # "commit" /\ lock' = lock /\ \A q \in Request : q # r => ctx'[q] = ctx[q]
      BY <1>0, <1>8 DEF Validate, Admit, Refuse, Remember, TypeOK
    <3>2. Goto(r, "invalid_grant") \/ Goto(r, "scope") \/ Goto(r, "list")
      BY <1>8 DEF Validate, Admit, Refuse
    <3>3. QED
      BY <1>0, <3>1, <3>2, MoveCalm
  <2>2. QED
    BY <1>8, <2>1, TablesKept, CalmStep DEF Validate
<1>9. ASSUME NEW r \in Request, ListFamily(r) PROVE Kept
  <2>1. Calm
    BY <1>0, <1>9, MoveCalm DEF ListFamily, Remember, TypeOK
  <2>2. QED
    BY <1>9, <2>1, TablesKept, CalmStep DEF ListFamily
<1>10. ASSUME NEW r \in Request, RevokeMember(r) PROVE Kept
  <2>1. Calm
    BY <1>0, <1>10 DEF RevokeMember, Remember, TypeOK, Calm
  <2>2. RowsKept
    <3>1. PICK j \in ctx[r].todo : /\ rt' = IF j \in Live THEN RtAfterRevoke(j) ELSE rt
                                   /\ at' = IF j \in Live THEN AtAfterRevoke(j) ELSE at
      BY <1>10 DEF RevokeMember
    <3>2. CASE j \in Live
      BY <1>10, <3>1, <3>2, RevokeKept DEF RevokeMember
    <3>3. CASE j \notin Live
      BY <1>10, <3>1, <3>3, TablesKept DEF RevokeMember
    <3>4. QED
      BY <3>2, <3>3
  <2>3. QED
    BY <2>1, <2>2, CalmStep
<1>11. ASSUME NEW r \in Request, EndReuse(r) PROVE Kept
  <2>1. Calm
    BY <1>0, <1>11, MoveCalm DEF EndReuse
  <2>2. QED
    BY <1>11, <2>1, TablesKept, CalmStep DEF EndReuse
<1>12. ASSUME NEW r \in Request, CheckScope(r) PROVE Kept
  <2>1. Calm
    <3>1. phase[r] # "commit" /\ lock' = lock /\ \A q \in Request : q # r => ctx'[q] = ctx[q]
      BY <1>0, <1>12 DEF CheckScope, Refuse, Remember, TypeOK
    <3>2. Goto(r, "save") \/ Goto(r, "invalid_scope")
      BY <1>12 DEF CheckScope, Refuse
    <3>3. QED
      BY <1>0, <3>1, <3>2, MoveCalm
  <2>2. QED
    BY <1>12, <2>1, TablesKept, CalmStep DEF CheckScope
<1>13. ASSUME NEW r \in Request, OverwriteAccess(r) PROVE Kept
  <2>1. Calm
    <3>1. phase[r] # "commit" /\ lock' = lock /\ \A q \in Request : q # r => ctx'[q] = ctx[q]
      BY <1>0, <1>13 DEF OverwriteAccess, Answer, Refuse, Remember, TypeOK
    <3>2. Goto(r, "respond") \/ Goto(r, "error")
      BY <1>13 DEF OverwriteAccess, Refuse
    <3>3. QED
      BY <1>0, <3>1, <3>2, MoveCalm
  <2>2. QED
    BY <1>13, <2>1, OverwriteKept, CalmStep
<1>14. ASSUME NEW r \in Request, Respond(r) PROVE Kept
  <2>1. Calm
    <3>1. phase[r] # "commit" /\ lock' = lock /\ \A q \in Request : q # r => ctx'[q] = ctx[q]
      BY <1>0, <1>14 DEF Respond, Refuse, Remember, TypeOK
    <3>2. Goto(r, "ok") \/ Goto(r, "error")
      BY <1>14 DEF Respond, Refuse
    <3>3. QED
      BY <1>0, <3>1, <3>2, MoveCalm
  <2>2. QED
    BY <1>14, <2>1, TablesKept, CalmStep DEF Respond
<1>15. CASE UNCHANGED vars
  BY <1>15, TablesKept, CalmStep DEF vars, Calm
<1>16. QED
  BY <1>1, <1>2, <1>3, <1>4, <1>5, <1>6, <1>7, <1>8, <1>9, <1>10, <1>11, <1>12, <1>13, <1>14, <1>15,
     LockStep, RotateStep, RepeatStep, CrashStep DEF Next, Serve

\* Every reachable state satisfies the invariant.
THEOREM InvCorrect == Spec => []RefreshInv
<1>1. QED
  BY InvInit, InvStep, PTL DEF Spec

\* No step changes the date of a revocation: revoke() does nothing on a revoked row, and
\* an insertion takes a number that no row has.
LEMMA DateStep ==
  RefreshInv /\ [Next]_vars =>
    \A i \in Live : Revoked(i) /\ rt'[i] # NoRow => rt'[i].revoked = rt[i].revoked
<1> SUFFICES ASSUME RefreshInv, [Next]_vars, NEW i \in Live, Revoked(i), rt'[i] # NoRow
             PROVE  rt'[i].revoked = rt[i].revoked
  OBVIOUS
<1>0. TypeOK /\ i \in Id /\ rt[i] \in RefreshRow
  BY DEF RefreshInv, TypeOK, Live
<1>1. \A j \in Id : RtAfterRevoke(j)[i] = rt[i]
  BY <1>0 DEF RtAfterRevoke, Revocable, TypeOK
<1>2. i # last + 1
  BY <1>0 DEF RefreshInv, UnusedInv, UnusedIn, Live, TypeOK, Id
<1>3. rt' = rt => rt'[i] = rt[i]
  OBVIOUS
<1>4. CASE StartSession
  BY <1>2, <1>4, <1>0 DEF StartSession, Insert, TypeOK
<1>5. CASE DeleteSwept
  BY <1>0, <1>5 DEF DeleteSwept
<1>6. ASSUME NEW j \in Id, RevokeToken(j) PROVE rt'[i] = rt[i]
  BY <1>1, <1>6 DEF RevokeToken
<1>7. ASSUME NEW a \in Id, DeleteAccess(a) PROVE rt'[i].revoked = rt[i].revoked
  <2>1. rt'[i] = rt[i] \/ rt'[i] = [rt[i] EXCEPT !.at = None]
    BY <1>0, <1>7 DEF DeleteAccess
  <2>2. [rt[i] EXCEPT !.at = None].revoked = rt[i].revoked
    BY <1>0 DEF RefreshRow
  <2>3. QED
    BY <2>1, <2>2
<1>8. ASSUME NEW r \in Request, RevokeMember(r) PROVE rt'[i] = rt[i]
  BY <1>1, <1>8 DEF RevokeMember, Live
<1>9. ASSUME NEW r \in Request, Rotated(r) PROVE rt'[i] = rt[i]
  <2>1. CASE Taken(ctx[r].row)
    BY <1>9, <2>1 DEF Rotated, Rollback, tables
  <2>2. CASE ~Taken(ctx[r].row)
    <3>1. ctx[r].row \in Id
      BY <1>9 DEF RefreshInv, LockInv, Rotated, Live
    <3>2. rt'[i] = RtAfterRevoke(ctx[r].row)[i]
      BY <1>0, <1>2, <1>9, <2>2 DEF Rotated, Insert, RtAfterRevoke, TypeOK
    <3>3. QED
      BY <1>1, <3>1, <3>2
  <2>3. QED
    BY <2>1, <2>2
<1>10. ASSUME NEW r \in Request, Repeated(r) PROVE rt'[i] = rt[i]
  <2>1. ctx[r].row \in Id
    BY <1>10 DEF RefreshInv, LockInv, Repeated, Live
  <2>2. rt' = RtAfterRevoke(ctx[r].row) \/ rt' = rt
    BY <1>10 DEF Repeated, Rollback, tables
  <2>3. QED
    BY <1>1, <2>1, <2>2
<1>11. ASSUME NEW r \in Request,
              \/ Arrive(r) \/ Validate(r) \/ ListFamily(r) \/ EndReuse(r) \/ CheckScope(r)
              \/ OverwriteAccess(r) \/ LockToken(r) \/ Respond(r) \/ Crash(r)
       PROVE  rt' = rt
  BY <1>11 DEF Arrive, Validate, ListFamily, EndReuse, CheckScope, OverwriteAccess, LockToken,
               Respond, Crash, tables
<1>12. ListOutdated \/ Tick \/ UNCHANGED vars => rt' = rt
  BY DEF ListOutdated, Tick, vars
<1>13. QED
  BY <1>3, <1>4, <1>5, <1>6, <1>7, <1>8, <1>9, <1>10, <1>11, <1>12 DEF Next, Serve

-----------------------------------------------------------------------------
(* The theorems. *)

\* The state is well-typed in every reachable state.
THEOREM TypeCorrect == Spec => []TypeOK
<1>1. RefreshInv => TypeOK
  BY DEF RefreshInv
<1>2. QED
  BY <1>1, InvCorrect, PTL

\* However many requests use one refresh token at once, the transaction's row lock keeps
\* them from the unique constraint on source_refresh_token.
THEOREM NoConflict == Spec => []ConstraintNeverFires
<1>1. RefreshInv => ConstraintNeverFires
  BY DEF RefreshInv
<1>2. QED
  BY <1>1, InvCorrect, PTL

\* A revoked refresh token holds no access token, and a held one is stored and held once.
THEOREM Unbinding == Spec => []RevokedHoldsNothing
<1>1. RefreshInv => RevokedHoldsNothing
  <2> SUFFICES ASSUME RefreshInv, NEW i \in Live
               PROVE  /\ Revoked(i) => rt[i].at = None
                      /\ rt[i].at # None => rt[i].at \in Stored /\ BoundTo(rt[i].at) = {i}
    BY DEF RevokedHoldsNothing
  <2>1. TypeOK /\ BoundIn(rt, at) /\ i \in Id /\ rt[i] # NoRow
    BY DEF RefreshInv, BoundInv, Live
  <2>2. Revoked(i) => rt[i].at = None
    BY <2>1 DEF BoundIn, Revoked
  <2>3. ASSUME rt[i].at # None PROVE rt[i].at \in Stored /\ BoundTo(rt[i].at) = {i}
    BY <2>1, <2>3 DEF BoundIn, BoundTo, Stored, Live, TypeOK, RefreshRow
  <2>4. QED
    BY <2>2, <2>3
<1>2. QED
  BY <1>1, InvCorrect, PTL

\* The date of a revocation never changes: no retry restarts the grace period.
THEOREM Finality == Spec => RevokedOnce
<1>1. RefreshInv /\ [Next]_vars =>
        [\A i \in Live : Revoked(i) /\ rt'[i] # NoRow => rt'[i].revoked = rt[i].revoked]_vars
  BY DateStep
<1>2. QED
  BY <1>1, InvCorrect, PTL DEF Spec, RevokedOnce
=============================================================================
