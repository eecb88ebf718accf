-------------------------- MODULE RefreshHistoryProofs --------------------------
(***************************************************************************)
(* Proofs about RefreshFlow that look back at what every pair of tokens    *)
(* was when it was inserted: no second usable successor, no wider scope.   *)
(***************************************************************************)
EXTENDS RefreshFlowProofs

-----------------------------------------------------------------------------
(* The inductive invariant. *)

\* Parents and families are rows inserted before; a refresh never widens the scope.
BirthInv ==
  \A i \in 1..last :
    /\ born[i].parent < i
    /\ born[i].family \in 1..last
    /\ born[i].parent # None => born[i].scope \subseteq born[born[i].parent].scope

\* A refresh token keeps its family, and holds the access token it was inserted with.
RowIn(r) ==
  \A i \in Id : r[i] # NoRow => r[i].at \in {None, i} /\ r[i].family = born[i].family

\* An access token keeps its source for as long as the source is stored.
SourceIn(r, a) ==
  \A b \in Id : a[b] # NoRow =>
    /\ a[b].source \in {None, born[b].parent}
    /\ born[b].parent # None /\ a[b].source = None => r[born[b].parent] = NoRow
    /\ a[b].scope \subseteq born[b].scope

\* Two stored access tokens were not made from one refresh token.
SiblingIn(a) ==
  \A b, c \in Id :
    a[b] # NoRow /\ a[c] # NoRow /\ born[b].parent # None /\ born[b].parent = born[c].parent
    => b = c

HistoryIn(r, a) == RowIn(r) /\ SourceIn(r, a) /\ SiblingIn(a)

\* What a request carries from validation to the commit is within its token's birth.
Carries == {"scope", "save", "commit"}
Carried(c) ==
  /\ c.row \in 1..last
  /\ c.cached \in {None, c.row}
  /\ c.scope \subseteq born[c.row].scope
RequestInv == \A r \in Request : phase[r] \in Carries => Carried(ctx[r])

HistoryInv == RefreshInv /\ BirthInv /\ HistoryIn(rt, at) /\ RequestInv

-----------------------------------------------------------------------------
(* The tables. *)

\* Tables that lost rows, references and dates of revocation, but gained nothing.
Shrunk(r, a) ==
  /\ \A i \in Id : r[i] # NoRow =>
       rt[i] # NoRow /\ r[i].at \in {None, rt[i].at} /\ r[i].family = rt[i].family
  /\ \A b \in Id : a[b] # NoRow =>
       /\ at[b] # NoRow
       /\ a[b].scope = at[b].scope \/ a[b].scope \subseteq born[b].scope
       /\ \/ a[b].source = at[b].source
          \/ a[b].source = None /\ (at[b].source # None => r[at[b].source] = NoRow)

\* The history holds of such tables.
LEMMA ShrunkHistory ==
  ASSUME TypeOK, HistoryIn(rt, at), NEW r, NEW a, Shrunk(r, a)
  PROVE  HistoryIn(r, a)
<1>1. RowIn(r)
  BY DEF HistoryIn, RowIn, Shrunk
<1>2. SourceIn(r, a)
  <2> SUFFICES ASSUME NEW b \in Id, a[b] # NoRow
               PROVE  /\ a[b].source \in {None, born[b].parent}
                      /\ born[b].parent # None /\ a[b].source = None => r[born[b].parent] = NoRow
                      /\ a[b].scope \subseteq born[b].scope
    BY DEF SourceIn
  <2>1. at[b] # NoRow /\ born[b].parent \in Id \cup {None}
    BY DEF Shrunk, TypeOK, Origin
  <2>2. /\ at[b].source \in {None, born[b].parent} /\ at[b].scope \subseteq born[b].scope
        /\ born[b].parent # None /\ at[b].source = None => rt[born[b].parent] = NoRow
    BY <2>1 DEF HistoryIn, SourceIn
  <2>3. a[b].source \in {None, born[b].parent} /\ a[b].scope \subseteq born[b].scope
    BY <2>2 DEF Shrunk
  <2>4. ASSUME born[b].parent # None, a[b].source = None PROVE r[born[b].parent] = NoRow
    BY <2>1, <2>2, <2>4 DEF Shrunk
  <2>5. QED
    BY <2>3, <2>4
<1>3. SiblingIn(a)
  BY DEF HistoryIn, SiblingIn, Shrunk
<1>4. QED
  BY <1>1, <1>2, <1>3 DEF HistoryIn

\* revoke() only takes away.
LEMMA RevokeShrunk ==
  ASSUME TypeOK, NEW i \in Live
  PROVE  Shrunk(RtAfterRevoke(i), AtAfterRevoke(i))
<1>1. i \in Id /\ rt[i] \in RefreshRow /\ now \in Nat
  BY DEF TypeOK, Live
<1>2. /\ [rt[i] EXCEPT !.at = None, !.revoked = now].at = None
      /\ [rt[i] EXCEPT !.at = None, !.revoked = now].family = rt[i].family
  BY <1>1 DEF RefreshRow
<1>3. [rt EXCEPT ![i].at = None, ![i].revoked = now][i] = [rt[i] EXCEPT !.at = None, !.revoked = now]
  BY <1>1 DEF TypeOK
<1>4. \A j \in Id : RtAfterRevoke(i)[j] # NoRow =>
        /\ rt[j] # NoRow /\ RtAfterRevoke(i)[j].at \in {None, rt[j].at}
        /\ RtAfterRevoke(i)[j].family = rt[j].family
  BY <1>1, <1>2, <1>3 DEF RtAfterRevoke, TypeOK, Live
<1>5. \A b \in Id : AtAfterRevoke(i)[b] = at[b] \/ AtAfterRevoke(i)[b] = NoRow
  BY DEF AtAfterRevoke, TypeOK
<1>6. QED
  BY <1>4, <1>5 DEF Shrunk

\* So does the deletion of an access token.
LEMMA DeleteShrunk ==
  ASSUME TypeOK, NEW a \in Id, DeleteAccess(a)
  PROVE  Shrunk(rt', at')
<1>1. \A i \in Id : rt[i] # NoRow => /\ [rt[i] EXCEPT !.at = None].at = None
                                     /\ [rt[i] EXCEPT !.at = None].family = rt[i].family
  BY DEF TypeOK, RefreshRow
<1>2. \A i \in Id : rt'[i] # NoRow =>
        rt[i] # NoRow /\ rt'[i].at \in {None, rt[i].at} /\ rt'[i].family = rt[i].family
  BY <1>1 DEF DeleteAccess, BoundTo, Live
<1>3. \A b \in Id : at'[b] = at[b] \/ at'[b] = NoRow
  BY DEF DeleteAccess, TypeOK
<1>4. QED
  BY <1>2, <1>3 DEF Shrunk

\* So does cleartokens, which clears the references to the rows it deletes.
LEMMA SweepShrunk ==
  ASSUME TypeOK, DeleteSwept
  PROVE  Shrunk(rt', at')
<1>1. \A i \in Id : rt'[i] = IF i \in sweep THEN NoRow ELSE rt[i]
  BY DEF DeleteSwept
<1>2. \A b \in Id : at[b] # NoRow => /\ [at[b] EXCEPT !.source = None].source = None
                                     /\ [at[b] EXCEPT !.source = None].scope = at[b].scope
  BY DEF TypeOK, AccessRow
<1>3. \A b \in Id : \/ at'[b] = at[b]
                    \/ /\ at[b] # NoRow /\ at[b].source \in sweep
                       /\ at'[b] = [at[b] EXCEPT !.source = None]
  BY DEF DeleteSwept, Stored
<1>4. \A b \in Id : at'[b] # NoRow =>
        /\ at[b] # NoRow /\ at'[b].scope = at[b].scope
        /\ \/ at'[b].source = at[b].source
           \/ at'[b].source = None /\ rt'[at[b].source] = NoRow
  <2> SUFFICES ASSUME NEW b \in Id, at'[b] # NoRow, at'[b] # at[b]
               PROVE  /\ at[b] # NoRow /\ at'[b].scope = at[b].scope
                      /\ at'[b].source = None /\ rt'[at[b].source] = NoRow
    OBVIOUS
  <2>1. at[b] # NoRow /\ at[b].source \in sweep /\ at'[b] = [at[b] EXCEPT !.source = None]
    BY <1>3
  <2>2. rt'[at[b].source] = NoRow
    BY <1>1, <2>1 DEF TypeOK
  <2>3. QED
    BY <1>2, <2>1, <2>2
<1>5. QED
  BY <1>1, <1>4 DEF Shrunk

\* Overwriting an access token keeps its source and stays within its birth.
LEMMA OverwriteShrunk ==
  ASSUME HistoryInv, NEW r \in Request, OverwriteAccess(r)
  PROVE  Shrunk(rt', at')
<1> DEFINE a == ctx[r].cached
<1>1. TypeOK /\ rt' = rt
  BY DEF HistoryInv, RefreshInv, OverwriteAccess
<1>2. a \in Stored => ctx[r].scope \subseteq born[a].scope
  <2>1. phase[r] = "save" /\ a # None
    BY DEF OverwriteAccess, KeepsToken
  <2>2. QED
    BY <2>1 DEF HistoryInv, RequestInv, Carries, Carried
<1>3. \A b \in Id : b # a \/ a \notin Stored => at'[b] = at[b]
  BY <1>1 DEF OverwriteAccess, TypeOK, Stored
<1>4. a \in Stored => /\ at[a] # NoRow /\ at'[a].source = at[a].source
                      /\ at'[a].scope \subseteq born[a].scope
  BY <1>1, <1>2 DEF OverwriteAccess, TypeOK, Stored, NewAccess
<1>5. QED
  BY <1>1, <1>3, <1>4 DEF Shrunk

\* What was born stays as it was.
BornKept ==
  /\ last \in Nat /\ last' \in Nat /\ last <= last'
  /\ \A i \in 1..last : born'[i] = born[i]

\* Inserting the first pair of a session, or the only stored successor of a stored row,
\* keeps the history.
LEMMA InsertHistory ==
  ASSUME TypeOK, BirthInv, NEW r, NEW a, RowsGood(r, a), HistoryIn(r, a),
         NEW tok, NEW family, NEW source \in Id \cup {None}, NEW scope, NEW expires,
         Insert(r, a, tok, family, source, scope, expires),
         \/ source = None /\ family = last + 1
         \/ /\ source \in 1..last /\ r[source] # NoRow /\ ~MadeFrom(a, source)
            /\ family \in 1..last /\ scope \subseteq born[source].scope
  PROVE  BirthInv' /\ HistoryIn(rt, at)' /\ BornKept
<1> DEFINE n == last + 1
           row == [tok |-> tok, family |-> family, at |-> n, revoked |-> NotRevoked]
           birth == [parent |-> source, family |-> family, tok |-> tok, scope |-> scope]
           access == NewAccess(fresh + 1, source, scope, expires)
<1>1. n \in Id /\ last \in Nat /\ last' = n /\ Id \subseteq Nat /\ None \notin Id
  BY BoundsAreNat DEF TypeOK, Insert, Id, None
<1>2. /\ \A i \in Id : i # n => rt'[i] = r[i] /\ at'[i] = a[i] /\ born'[i] = born[i]
      /\ rt'[n] = row /\ at'[n] = access /\ born'[n] = birth
  BY <1>1 DEF Insert, RowsGood, TypeOK
<1>3. \A i \in 1..last : i \in Id /\ i # n /\ born'[i] = born[i]
  BY <1>1, <1>2, BoundsAreNat DEF TypeOK, Id
<1>4. BornKept
  BY <1>1, <1>3 DEF BornKept
<1>5. \A i \in Id : i # n /\ (r[i] # NoRow \/ a[i] # NoRow) => i \in 1..last
  BY <1>1 DEF RowsGood, UnusedIn, Id
<1>6. \A i \in 1..last : born[i].parent \in {None} \cup 1..last
  BY <1>1, <1>3 DEF BirthInv, TypeOK, Origin, Id
<1>7. BirthInv'
  <2> SUFFICES ASSUME NEW i \in 1..n
               PROVE  /\ born'[i].parent < i
                      /\ born'[i].family \in 1..n
                      /\ born'[i].parent # None => born'[i].scope \subseteq born'[born'[i].parent].scope
    BY <1>1 DEF BirthInv
  <2>1. CASE i = n
    <3>1. born'[i].parent = source /\ born'[i].family = family /\ born'[i].scope = scope
      BY <1>2, <2>1
    <3>2. CASE source = None /\ family = last + 1
      BY <1>1, <2>1, <3>1, <3>2 DEF None
    <3>3. CASE source \in 1..last /\ family \in 1..last /\ scope \subseteq born[source].scope
      BY <1>1, <1>3, <2>1, <3>1, <3>3
    <3>4. QED
      BY <3>2, <3>3
  <2>2. CASE i # n
    <3>1. i \in 1..last /\ born'[i] = born[i]
      BY <1>1, <1>3, <2>2
    <3>2. born[i].parent < i /\ born[i].family \in 1..n
      BY <1>1, <3>1 DEF BirthInv
    <3>3. born[i].parent # None => born'[born[i].parent] = born[born[i].parent]
      BY <1>3, <1>6, <3>1
    <3>4. QED
      BY <3>1, <3>2, <3>3 DEF BirthInv
  <2>3. QED
    BY <2>1, <2>2
<1>8. RowIn(rt)'
  <2>1. rt'[n].at = n /\ rt'[n].family = born'[n].family
    BY <1>2
  <2>2. \A i \in Id : i # n /\ rt'[i] # NoRow => rt'[i].at \in {None, i} /\ rt'[i].family = born'[i].family
    BY <1>2 DEF RowIn, HistoryIn
  <2>3. QED
    BY <2>1, <2>2 DEF RowIn
<1>9. SourceIn(rt, at)'
  <2> SUFFICES ASSUME NEW b \in Id, at'[b] # NoRow
               PROVE  /\ at'[b].source \in {None, born'[b].parent}
                      /\ born'[b].parent # None /\ at'[b].source = None => rt'[born'[b].parent] = NoRow
                      /\ at'[b].scope \subseteq born'[b].scope
    BY DEF SourceIn
  <2>1. CASE b = n
    BY <1>2, <2>1 DEF NewAccess
  <2>2. CASE b # n
    <3>1. at'[b] = a[b] /\ born'[b] = born[b] /\ b \in 1..last
      BY <1>2, <1>5, <2>2
    <3>2. born[b].parent # None => rt'[born[b].parent] = r[born[b].parent]
      BY <1>2, <1>3, <1>6, <3>1
    <3>3. QED
      BY <3>1, <3>2 DEF HistoryIn, SourceIn
  <2>3. QED
    BY <2>1, <2>2
<1>10. SiblingIn(at)'
  <2>1. \A b \in Id : b # n /\ a[b] # NoRow /\ source # None => born[b].parent # source
    BY <1>1 DEF HistoryIn, SourceIn, MadeFrom
  <2>2. \A b, c \in Id : at'[b] # NoRow /\ at'[c] # NoRow /\ born'[b].parent # None
                         /\ born'[b].parent = born'[c].parent => b = c
    BY <1>2, <2>1 DEF HistoryIn, SiblingIn
  <2>3. QED
    BY <2>2 DEF SiblingIn
<1>11. QED
  BY <1>4, <1>7, <1>8, <1>9, <1>10 DEF HistoryIn

-----------------------------------------------------------------------------
(* The requests. *)

\* Steps that keep the births and bring no request closer to its commit.
LEMMA RequestKept ==
  ASSUME HistoryInv, BornKept,
         \A q \in Request : phase'[q] \in Carries =>
           /\ phase[q] \in Carries
           /\ ctx'[q].row = ctx[q].row /\ ctx'[q].cached = ctx[q].cached /\ ctx'[q].scope = ctx[q].scope
  PROVE  RequestInv'
<1> SUFFICES ASSUME NEW q \in Request, phase'[q] \in Carries
             PROVE  /\ ctx'[q].row \in 1..last'
                    /\ ctx'[q].cached \in {None, ctx'[q].row}
                    /\ ctx'[q].scope \subseteq born'[ctx'[q].row].scope
  BY DEF RequestInv, Carried
<1>1. /\ ctx'[q].row \in 1..last /\ ctx'[q].cached \in {None, ctx'[q].row}
      /\ ctx'[q].scope \subseteq born[ctx'[q].row].scope
  BY DEF HistoryInv, RequestInv, Carried
<1>2. QED
  BY <1>1 DEF BornKept

\* Steps that leave all requests alone.
LEMMA RequestsAlone ==
  ASSUME HistoryInv, BornKept, UNCHANGED <<phase, ctx>>
  PROVE  RequestInv'
  BY RequestKept

\* Births are kept by every step that inserts nothing.
LEMMA BornAlone ==
  ASSUME TypeOK, UNCHANGED <<last, born>>
  PROVE  BornKept
  BY BoundsAreNat DEF BornKept, TypeOK

\* A step that shrinks the tables and inserts nothing keeps what is said of the tables.
LEMMA ShrinkStep ==
  ASSUME HistoryInv, Shrunk(rt', at'), UNCHANGED <<last, born>>
  PROVE  BirthInv' /\ HistoryIn(rt, at)' /\ BornKept
<1>1. TypeOK /\ HistoryIn(rt, at) /\ BirthInv
  BY DEF HistoryInv, RefreshInv
<1>2. HistoryIn(rt', at')
  BY <1>1, ShrunkHistory
<1>3. HistoryIn(rt, at)'
  BY <1>2 DEF HistoryIn, RowIn, SourceIn, SiblingIn
<1>4. BirthInv'
  BY <1>1 DEF BirthInv
<1>5. QED
  BY <1>1, <1>3, <1>4, BornAlone

\* So does a step that leaves the tables alone.
LEMMA StillStep ==
  ASSUME HistoryInv, UNCHANGED <<rt, at, last, born>>
  PROVE  BirthInv' /\ HistoryIn(rt, at)' /\ BornKept
<1>1. TypeOK
  BY DEF HistoryInv, RefreshInv
<1>2. Shrunk(rt', at')
  BY DEF Shrunk
<1>3. QED
  BY <1>2, ShrinkStep

\* The rows a request finds were inserted before.
LEMMA LiveIsOld ==
  ASSUME RefreshInv, NEW i \in Live
  PROVE  i \in 1..last
  BY BoundsAreNat DEF RefreshInv, UnusedInv, UnusedIn, Live, TypeOK, Id

\* The scope that get_original_scopes finds is within the birth of the presented token.
LEMMA OriginalWithin ==
  ASSUME HistoryInv, NEW r \in Request, phase[r] = "scope"
  PROVE  OriginalScope(r) \subseteq born[ctx[r].row].scope
<1> DEFINE i == ctx[r].row
<1>1. i \in 1..last /\ ctx[r].scope \subseteq born[i].scope
  BY DEF HistoryInv, RequestInv, Carries, Carried
<1>2. \A a \in RefreshedFrom(i) : at[a].scope \subseteq born[i].scope
  <2> SUFFICES ASSUME NEW a \in Id, at[a] # NoRow, at[a].source = i
               PROVE  at[a].scope \subseteq born[i].scope
    BY DEF RefreshedFrom, Stored
  <2>1. i # None
    BY <1>1 DEF HistoryInv, RefreshInv, TypeOK, None
  <2>2. born[a].parent = i /\ at[a].scope \subseteq born[a].scope
    BY <2>1 DEF HistoryInv, HistoryIn, SourceIn
  <2>3. a \in 1..last
    BY BoundsAreNat DEF HistoryInv, RefreshInv, UnusedInv, UnusedIn, TypeOK, Id
  <2>4. born[a].scope \subseteq born[i].scope
    BY <2>1, <2>2, <2>3 DEF HistoryInv, BirthInv
  <2>5. QED
    BY <2>2, <2>4
<1>3. UNION {at[a].scope : a \in RefreshedFrom(i)} \subseteq born[i].scope
  BY <1>2
<1>4. QED
  BY <1>1, <1>3 DEF OriginalScope

\* What an update of a request's memory leaves as it was, and what it writes.
LEMMA ContextRead ==
  ASSUME NEW c \in Context, NEW i, NEW j, NEW m, NEW S
  PROVE  /\ LET d == [c EXCEPT !.row = i, !.cached = j, !.scope = S]
            IN d.row = i /\ d.cached = j /\ d.scope = S
         /\ LET d == [c EXCEPT !.until = m, !.scope = S]
            IN d.row = c.row /\ d.cached = c.cached /\ d.scope = S
         /\ LET d == [c EXCEPT !.prev = i, !.access = m]
            IN d.row = c.row /\ d.cached = c.cached /\ d.scope = c.scope
         /\ LET d == [c EXCEPT !.todo = S]
            IN d.row = c.row /\ d.cached = c.cached /\ d.scope = c.scope
  BY DEF Context

\* A request is admitted with a row that exists, and the scope of its own access token.
LEMMA AdmitStep ==
  ASSUME HistoryInv, NEW r \in Request, Validate(r)
  PROVE  RequestInv'
<1> DEFINE rows == WithToken(ctx[r].tok)
           i == First(rows)
           scope == IF rt[i].at = None THEN {} ELSE at[rt[i].at].scope
           admitted == [ctx[r] EXCEPT !.row = i, !.cached = rt[i].at, !.scope = scope]
<1>1. TypeOK /\ UNCHANGED <<last, born>>
  BY DEF HistoryInv, RefreshInv, Validate, tables
<1>2. \A q \in Request : q # r => phase'[q] = phase[q] /\ ctx'[q] = ctx[q]
  BY <1>1 DEF Validate, Admit, Refuse, Goto, Remember, TypeOK
<1>3. phase'[r] \in Carries => rows # {} /\ ctx'[r] = admitted
  BY <1>1 DEF Validate, Admit, Refuse, Goto, Remember, TypeOK, Carries
<1>4. rows # {} => i \in Live
  BY FirstIn DEF WithToken, Live
<1>5. i \in Live => /\ i \in 1..last /\ rt[i].at \in {None, i} /\ scope \subseteq born[i].scope
  <2> SUFFICES ASSUME i \in Live
               PROVE  i \in 1..last /\ rt[i].at \in {None, i} /\ scope \subseteq born[i].scope
    OBVIOUS
  <2> HIDE DEF i
  <2>1. i \in 1..last
    BY LiveIsOld DEF HistoryInv
  <2>2. i \in Id /\ rt[i] # NoRow /\ rt[i].at \in {None, i}
    BY DEF HistoryInv, HistoryIn, RowIn, Live
  <2>3. rt[i].at # None => at[i] # NoRow /\ rt[i].at = i
    BY <2>2 DEF HistoryInv, RefreshInv, BoundInv, BoundIn
  <2>4. rt[i].at # None => at[rt[i].at].scope \subseteq born[i].scope
    BY <2>2, <2>3 DEF HistoryInv, HistoryIn, SourceIn
  <2>5. QED
    BY <2>1, <2>2, <2>4
<1>6. admitted.row = i /\ admitted.cached = rt[i].at /\ admitted.scope = scope
  <2> HIDE DEF i, scope
  <2>1. ctx[r] \in Context
    BY <1>1 DEF TypeOK
  <2>2. QED
    BY <2>1, ContextRead
<1>7. phase'[r] \in Carries => Carried(ctx[r])'
  <2> HIDE DEF i, scope, admitted, rows
  <2>1. QED
    BY <1>1, <1>3, <1>4, <1>5, <1>6 DEF Carried
<1>8. \A q \in Request : q # r /\ phase'[q] \in Carries => Carried(ctx[q])'
  BY <1>1, <1>2 DEF HistoryInv, RequestInv, Carried
<1>9. QED
  BY <1>7, <1>8 DEF RequestInv

\* oauthlib replaces the scope by the wanted one when it is within the original one.
LEMMA ScopeStep ==
  ASSUME HistoryInv, NEW r \in Request, CheckScope(r)
  PROVE  RequestInv'
<1> DEFINE i == ctx[r].row
           scope == IF ctx[r].want = {} THEN OriginalScope(r) ELSE ctx[r].want
           checked == [ctx[r] EXCEPT !.until = now + TokenLifetime, !.scope = scope]
<1>1. TypeOK /\ UNCHANGED <<last, born>> /\ phase[r] = "scope"
  BY DEF HistoryInv, RefreshInv, CheckScope, tables
<1>2. \A q \in Request : q # r => phase'[q] = phase[q] /\ ctx'[q] = ctx[q]
  BY <1>1 DEF CheckScope, Refuse, Goto, Remember, TypeOK
<1>3. phase'[r] \in Carries => ctx[r].want \subseteq OriginalScope(r) /\ ctx'[r] = checked
  BY <1>1 DEF CheckScope, Refuse, Goto, Remember, TypeOK, Carries
<1>4. ctx[r].want \subseteq OriginalScope(r) => scope \subseteq born[i].scope
  BY <1>1, OriginalWithin
<1>5. checked.row = i /\ checked.cached = ctx[r].cached /\ checked.scope = scope
  <2> HIDE DEF scope
  <2>1. ctx[r] \in Context
    BY <1>1 DEF TypeOK
  <2>2. QED
    BY <2>1, ContextRead
<1>6. i \in 1..last /\ ctx[r].cached \in {None, i}
  BY <1>1 DEF HistoryInv, RequestInv, Carries, Carried
<1>7. phase'[r] \in Carries => Carried(ctx[r])'
  <2> HIDE DEF scope, checked
  <2>1. QED
    BY <1>1, <1>3, <1>4, <1>5, <1>6 DEF Carried
<1>8. \A q \in Request : q # r /\ phase'[q] \in Carries => Carried(ctx[q])'
  BY <1>1, <1>2 DEF HistoryInv, RequestInv, Carried
<1>9. QED
  BY <1>7, <1>8 DEF RequestInv

\* A rotation gives its token the only stored successor, with the request's scope.
LEMMA RotateHistory ==
  ASSUME HistoryInv, NEW r \in Request, Rotated(r)
  PROVE  BirthInv' /\ HistoryIn(rt, at)' /\ RequestInv'
<1> DEFINE i == ctx[r].row
           rv == RtAfterRevoke(i)
           av == AtAfterRevoke(i)
<1>1. /\ RefreshInv /\ TypeOK /\ BirthInv /\ HistoryIn(rt, at)
      /\ phase[r] = "commit" /\ ~Taken(i) /\ i \in Live /\ i \in Id
  BY DEF HistoryInv, RefreshInv, Rotated, UntakenInv, LockInv, Live
<1>2. Insert(rv, av, NextToken(r), rt[i].family, i, ctx[r].scope, ctx[r].until)
  BY <1>1 DEF Rotated
<1>3. RowsGood(rv, av) /\ HistoryIn(rv, av)
  BY <1>1, RevokeRows, RevokeShrunk, ShrunkHistory
<1>4. i \in 1..last /\ i \in Id \cup {None} /\ rv[i] # NoRow
  BY <1>1, LiveIsOld, RevokedStays DEF Live
<1>5. ~MadeFrom(av, i)
  BY <1>1, RevokeShrunk DEF Taken, Stored, MadeFrom, AtAfterRevoke, TypeOK
<1>6. rt[i].family \in 1..last /\ ctx[r].scope \subseteq born[i].scope
  BY <1>1, <1>4 DEF HistoryInv, HistoryIn, RowIn, BirthInv, RequestInv, Carries, Carried, Live
<1>7. BirthInv' /\ HistoryIn(rt, at)' /\ BornKept
  <2> HIDE DEF i, rv, av
  <2>1. QED
    BY <1>1, <1>2, <1>3, <1>4, <1>5, <1>6, InsertHistory
<1>8. \A q \in Request : phase'[q] \in Carries => phase[q] \in Carries /\ ctx'[q] = ctx[q]
  BY <1>1 DEF Rotated, Answer, Remember, Goto, TypeOK, Carries
<1>9. RequestInv'
  BY <1>7, <1>8, RequestKept
<1>10. QED
  BY <1>7, <1>9

\* A retry revokes its token again, or rolls back.
LEMMA RepeatHistory ==
  ASSUME HistoryInv, NEW r \in Request, Repeated(r)
  PROVE  BirthInv' /\ HistoryIn(rt, at)' /\ RequestInv'
<1> DEFINE i == ctx[r].row
<1>1. TypeOK /\ i \in Live /\ UNCHANGED <<last, born>>
  BY DEF HistoryInv, RefreshInv, LockInv, Repeated, Rollback, tables
<1>2. \/ rt' = RtAfterRevoke(i) /\ at' = AtAfterRevoke(i)
      \/ rt' = rt /\ at' = at
  BY DEF Repeated, Rollback, tables
<1>3. BirthInv' /\ HistoryIn(rt, at)' /\ BornKept
  BY <1>1, <1>2, RevokeShrunk, ShrinkStep, StillStep
<1>4. \A q \in Request : phase'[q] \in Carries => phase[q] \in Carries /\ ctx'[q] = ctx[q]
  BY <1>1 DEF Repeated, Rollback, Refuse, Answer, Remember, Goto, TypeOK, Carries
<1>5. QED
  BY <1>3, <1>4, RequestKept

\* Taking the lock keeps what the request carries.
LEMMA LockHistory ==
  ASSUME HistoryInv, NEW r \in Request, LockToken(r)
  PROVE  RequestInv'
<1> DEFINE a == First(RefreshedFrom(ctx[r].row))
           locked == [ctx[r] EXCEPT !.prev = a, !.access = at[a].tok]
<1>1. TypeOK /\ UNCHANGED <<last, born>> /\ phase[r] = "save"
  BY DEF HistoryInv, RefreshInv, LockToken, tables
<1>2. \A q \in Request : q # r => phase'[q] = phase[q] /\ ctx'[q] = ctx[q]
  BY <1>1 DEF LockToken, Refuse, Goto, Remember, TypeOK
<1>3. phase'[r] \in Carries => ctx'[r] = ctx[r] \/ ctx'[r] = locked
  BY <1>1 DEF LockToken, Refuse, Goto, Remember, TypeOK, Carries
<1>4. locked.row = ctx[r].row /\ locked.cached = ctx[r].cached /\ locked.scope = ctx[r].scope
  <2> HIDE DEF a
  <2>1. ctx[r] \in Context
    BY <1>1 DEF TypeOK
  <2>2. QED
    BY <2>1, ContextRead
<1>5. \A q \in Request : phase'[q] \in Carries =>
        /\ phase[q] \in Carries
        /\ ctx'[q].row = ctx[q].row /\ ctx'[q].cached = ctx[q].cached /\ ctx'[q].scope = ctx[q].scope
  <2> HIDE DEF locked
  <2>1. QED
    BY <1>1, <1>2, <1>3, <1>4 DEF Carries
<1>6. QED
  BY <1>1, <1>5, BornAlone, RequestKept

\* The invariant holds initially ...
LEMMA HistoryInit == Init => HistoryInv
<1> SUFFICES ASSUME Init PROVE HistoryInv
  OBVIOUS
<1>1. RefreshInv
  BY InvInit
<1>2. 1..last = {}
  BY DEF Init
<1>3. BirthInv /\ HistoryIn(rt, at) /\ RequestInv
  BY <1>2 DEF Init, BirthInv, HistoryIn, RowIn, SourceIn, SiblingIn, RequestInv, Carries
<1>4. QED
  BY <1>1, <1>3 DEF HistoryInv

\* ... and every step keeps it.
LEMMA HistoryStep == HistoryInv /\ [Next]_vars => HistoryInv'
<1> SUFFICES ASSUME HistoryInv, [Next]_vars PROVE HistoryInv'
  OBVIOUS
<1> DEFINE Kept == BirthInv' /\ HistoryIn(rt, at)' /\ RequestInv'
<1>0. RefreshInv' /\ TypeOK /\ RefreshInv
  BY InvStep DEF HistoryInv, RefreshInv
<1> SUFFICES Kept
  BY <1>0 DEF HistoryInv
<1> USE DEF tables
<1>1. CASE StartSession
  <2>1. Insert(rt, at, fresh + 1, last + 1, None, Scope, now + TokenLifetime)
    BY <1>1 DEF StartSession
  <2>2. RowsGood(rt, at) /\ HistoryIn(rt, at) /\ BirthInv /\ None \in Id \cup {None}
    BY <1>0 DEF HistoryInv, RefreshInv, UnusedInv, BoundInv, RowsGood, TypeOK
  <2>3. BirthInv' /\ HistoryIn(rt, at)' /\ BornKept
    BY <1>0, <2>1, <2>2, InsertHistory
  <2>4. QED
    BY <1>1, <2>3, RequestsAlone DEF StartSession
<1>2. CASE ListOutdated
  BY <1>2, StillStep, RequestsAlone DEF ListOutdated
<1>3. CASE DeleteSwept
  BY <1>0, <1>3, SweepShrunk, ShrinkStep, RequestsAlone DEF DeleteSwept
<1>4. CASE Tick
  BY <1>4, StillStep, RequestsAlone DEF Tick
<1>5. ASSUME NEW i \in Id, RevokeToken(i) PROVE Kept
  BY <1>0, <1>5, RevokeShrunk, ShrinkStep, RequestsAlone DEF RevokeToken
<1>6. ASSUME NEW a \in Id, DeleteAccess(a) PROVE Kept
  BY <1>0, <1>6, DeleteShrunk, ShrinkStep, RequestsAlone DEF DeleteAccess
<1>7. ASSUME NEW r \in Request, Arrive(r) PROVE Kept
  <2>1. \A q \in Request : phase'[q] \in Carries => phase[q] \in Carries /\ ctx'[q] = ctx[q]
    BY <1>0, <1>7 DEF Arrive, Remember, Goto, TypeOK, Carries
  <2>2. QED
    BY <1>7, <2>1, StillStep, RequestKept DEF Arrive
<1>8. ASSUME NEW r \in Request, Validate(r) PROVE Kept
  BY <1>8, StillStep, AdmitStep DEF Validate
<1>9. ASSUME NEW r \in Request, ListFamily(r) PROVE Kept
  <2>1. \A q \in Request : phase'[q] \in Carries => phase[q] \in Carries /\ ctx'[q] = ctx[q]
    BY <1>0, <1>9 DEF ListFamily, Remember, Goto, TypeOK, Carries
  <2>2. QED
    BY <1>9, <2>1, StillStep, RequestKept DEF ListFamily
<1>10. ASSUME NEW r \in Request, RevokeMember(r) PROVE Kept
  <2>1. \A q \in Request : phase'[q] \in Carries => phase[q] \in Carries /\ ctx'[q] = ctx[q]
    BY <1>0, <1>10 DEF RevokeMember, Remember, TypeOK, Carries
  <2>2. PICK j \in ctx[r].todo : /\ rt' = IF j \in Live THEN RtAfterRevoke(j) ELSE rt
                                 /\ at' = IF j \in Live THEN AtAfterRevoke(j) ELSE at
    BY <1>10 DEF RevokeMember
  <2>3. BirthInv' /\ HistoryIn(rt, at)' /\ BornKept
    BY <1>0, <1>10, <2>2, RevokeShrunk, ShrinkStep, StillStep DEF RevokeMember
  <2>4. QED
    BY <2>1, <2>3, RequestKept
<1>11. ASSUME NEW r \in Request, EndReuse(r) PROVE Kept
  <2>1. \A q \in Request : phase'[q] \in Carries => phase[q] \in Carries /\ ctx'[q] = ctx[q]
    BY <1>0, <1>11 DEF EndReuse, Goto, TypeOK, Carries
  <2>2. QED
    BY <1>11, <2>1, StillStep, RequestKept DEF EndReuse
<1>12. ASSUME NEW r \in Request, CheckScope(r) PROVE Kept
  BY <1>12, StillStep, ScopeStep DEF CheckScope
<1>13. ASSUME NEW r \in Request, OverwriteAccess(r) PROVE Kept
  <2>1. \A q \in Request : phase'[q] \in Carries => phase[q] \in Carries /\ ctx'[q] = ctx[q]
    BY <1>0, <1>13 DEF OverwriteAccess, Answer, Refuse, Remember, Goto, TypeOK, Carries
  <2>2. QED
    BY <1>13, <2>1, OverwriteShrunk, ShrinkStep, RequestKept DEF OverwriteAccess
<1>14. ASSUME NEW r \in Request, LockToken(r) PROVE Kept
  BY <1>14, StillStep, LockHistory DEF LockToken
<1>15. ASSUME NEW r \in Request, Respond(r) PROVE Kept
  <2>1. \A q \in Request : phase'[q] \in Carries => phase[q] \in Carries /\ ctx'[q] = ctx[q]
    BY <1>0, <1>15 DEF Respond, Refuse, Remember, Goto, TypeOK, Carries
  <2>2. QED
    BY <1>15, <2>1, StillStep, RequestKept DEF Respond
<1>16. ASSUME NEW r \in Request, Crash(r) PROVE Kept
  <2>1. \A q \in Request : phase'[q] \in Carries => phase[q] \in Carries /\ ctx'[q] = ctx[q]
    BY <1>0, <1>16 DEF Crash, Refuse, Remember, Goto, TypeOK, Carries
  <2>2. QED
    BY <1>16, <2>1, StillStep, RequestKept DEF Crash
<1>17. CASE UNCHANGED vars
  BY <1>17, StillStep, RequestsAlone DEF vars
<1>18. QED
  BY <1>1, <1>2, <1>3, <1>4, <1>5, <1>6, <1>7, <1>8, <1>9, <1>10, <1>11, <1>12, <1>13, <1>14, <1>15,
     <1>16, <1>17, RotateHistory, RepeatHistory DEF Next, Serve

\* Every reachable state satisfies the invariant.
THEOREM HistoryCorrect == Spec => []HistoryInv
<1>1. QED
  BY HistoryInit, HistoryStep, PTL DEF Spec

-----------------------------------------------------------------------------
(* The theorems. *)

\* Of all the pairs ever inserted in exchange for one refresh token, however it was used
\* and retried, at most one still has both of its tokens.
THEOREM OneSuccessor == Spec => []OneUsableSuccessor
<1>1. HistoryInv => OneUsableSuccessor
  <2> SUFFICES ASSUME HistoryInv, NEW i \in Live, NEW j \in Live, rt[i].at # None, rt[j].at # None,
                      born[i].parent # None, born[i].parent = born[j].parent
               PROVE  i = j
    BY DEF OneUsableSuccessor
  <2>1. i \in Id /\ j \in Id /\ rt[i].at = i /\ rt[j].at = j
    BY DEF HistoryInv, HistoryIn, RowIn, Live
  <2>2. at[i] # NoRow /\ at[j] # NoRow
    BY <2>1 DEF HistoryInv, RefreshInv, BoundInv, BoundIn, Live
  <2>3. QED
    BY <2>1, <2>2 DEF HistoryInv, HistoryIn, SiblingIn
<1>2. QED
  BY <1>1, HistoryCorrect, PTL

\* No chain of refreshes, retries, deletions and lost rows widens what was granted.
THEOREM NoWidening == Spec => []ScopeNeverWidens
<1>1. HistoryInv => ScopeNeverWidens
  <2> SUFFICES ASSUME HistoryInv, NEW a \in Stored
               PROVE  /\ at[a].scope \subseteq born[a].scope
                      /\ born[a].parent # None => born[a].scope \subseteq born[born[a].parent].scope
    BY DEF ScopeNeverWidens
  <2>1. a \in Id /\ at[a] # NoRow
    BY DEF Stored
  <2>2. a \in 1..last
    BY <2>1, BoundsAreNat DEF HistoryInv, RefreshInv, UnusedInv, UnusedIn, TypeOK, Id
  <2>3. QED
    BY <2>1, <2>2 DEF HistoryInv, HistoryIn, SourceIn, BirthInv
<1>2. QED
  BY <1>1, HistoryCorrect, PTL

-----------------------------------------------------------------------------
(* Sessions that are over. *)

\* A refresh token comes from a stored one, or it is the new row of a session that is not
\* older than this step, or of a rotation that was about to commit.
RowsContinue ==
  \A i \in Id : rt'[i] # NoRow =>
    \/ rt[i] # NoRow /\ rt'[i].family = rt[i].family
    \/ i = last + 1 /\ rt'[i].family = last + 1
    \/ /\ i = last + 1
       /\ \E r \in Request : phase[r] = "commit" /\ rt'[i].family = born[ctx[r].row].family

\* A request that carries a token has carried it before, or was just admitted with it.
RequestsContinue ==
  \A q \in Request : phase'[q] \in Carries =>
    \/ phase[q] \in Carries /\ ctx'[q].row = ctx[q].row
    \/ ctx'[q].row \in Live /\ ~Reused(ctx'[q].row)

\* Tables that shrink continue.
LEMMA ShrunkContinue == Shrunk(rt', at') => RowsContinue
  BY DEF Shrunk, RowsContinue

\* Requests that stay where they are, or leave, continue.
LEMMA QuietContinue ==
  ASSUME \A q \in Request : phase'[q] \in Carries => phase[q] \in Carries /\ ctx'[q].row = ctx[q].row
  PROVE  RequestsContinue
  BY DEF RequestsContinue

\* Every step continues the rows.
LEMMA RowsStep == HistoryInv /\ [Next]_vars => RowsContinue
<1> SUFFICES ASSUME HistoryInv, [Next]_vars PROVE RowsContinue
  OBVIOUS
<1> USE DEF tables
<1>0. TypeOK /\ (rt' = rt => RowsContinue)
  BY DEF HistoryInv, RefreshInv, RowsContinue
<1>1. CASE StartSession
  BY <1>0, <1>1 DEF StartSession, Insert, TypeOK, RowsContinue
<1>2. CASE DeleteSwept
  BY <1>0, <1>2, SweepShrunk, ShrunkContinue
<1>3. ASSUME NEW i \in Id, RevokeToken(i) PROVE RowsContinue
  BY <1>0, <1>3, RevokeShrunk, ShrunkContinue DEF RevokeToken
<1>4. ASSUME NEW a \in Id, DeleteAccess(a) PROVE RowsContinue
  BY <1>0, <1>4, DeleteShrunk, ShrunkContinue
<1>5. ASSUME NEW r \in Request, RevokeMember(r) PROVE RowsContinue
  BY <1>0, <1>5, RevokeShrunk, ShrunkContinue DEF RevokeMember
<1>6. ASSUME NEW r \in Request, Repeated(r) PROVE RowsContinue
  <2>1. ctx[r].row \in Live
    BY <1>6 DEF HistoryInv, RefreshInv, LockInv, Repeated
  <2>2. \/ rt' = RtAfterRevoke(ctx[r].row) /\ at' = AtAfterRevoke(ctx[r].row)
        \/ rt' = rt
    BY <1>6 DEF Repeated, Rollback
  <2>3. QED
    BY <1>0, <2>1, <2>2, RevokeShrunk, ShrunkContinue
<1>7. ASSUME NEW r \in Request, Rotated(r) PROVE RowsContinue
  <2> DEFINE i == ctx[r].row
  <2>1. /\ phase[r] = "commit" /\ ~Taken(i) /\ i \in Live
        /\ rt[i].family = born[i].family
    BY <1>7 DEF HistoryInv, RefreshInv, Rotated, UntakenInv, LockInv, Live, HistoryIn, RowIn
  <2>2. Insert(RtAfterRevoke(i), AtAfterRevoke(i), NextToken(r), rt[i].family, i, ctx[r].scope, ctx[r].until)
    BY <1>7, <2>1 DEF Rotated
  <2>3. Shrunk(RtAfterRevoke(i), AtAfterRevoke(i)) /\ RtAfterRevoke(i) \in [Id -> RefreshRow \cup {NoRow}]
    BY <1>0, <2>1, RevokeShrunk, RevokeType
  <2>4. \A j \in Id : j # last + 1 => rt'[j] = RtAfterRevoke(i)[j]
    BY <2>2, <2>3 DEF Insert
  <2>5. last + 1 \in Id => rt'[last + 1].family = rt[i].family
    BY <2>2, <2>3 DEF Insert
  <2>6. QED
    BY <2>1, <2>3, <2>4, <2>5 DEF Shrunk, RowsContinue
<1>8. ASSUME NEW r \in Request,
             \/ Arrive(r) \/ Validate(r) \/ ListFamily(r) \/ EndReuse(r) \/ CheckScope(r)
             \/ OverwriteAccess(r) \/ LockToken(r) \/ Respond(r) \/ Crash(r)
      PROVE  RowsContinue
  BY <1>0, <1>8 DEF Arrive, Validate, ListFamily, EndReuse, CheckScope, OverwriteAccess, LockToken,
                    Respond, Crash
<1>9. ListOutdated \/ Tick \/ UNCHANGED vars => RowsContinue
  BY <1>0 DEF ListOutdated, Tick, vars
<1>10. QED
  BY <1>1, <1>2, <1>3, <1>4, <1>5, <1>6, <1>7, <1>8, <1>9 DEF Next, Serve

\* Only validate_refresh_token brings a request to a token, and not to a reused one.
LEMMA AdmitContinue ==
  ASSUME TypeOK, NEW r \in Request, Validate(r)
  PROVE  RequestsContinue
<1> DEFINE rows == WithToken(ctx[r].tok)
           i == First(rows)
           scope == IF rt[i].at = None THEN {} ELSE at[rt[i].at].scope
           admitted == [ctx[r] EXCEPT !.row = i, !.cached = rt[i].at, !.scope = scope]
<1>1. \A q \in Request : q # r => phase'[q] = phase[q] /\ ctx'[q] = ctx[q]
  BY DEF Validate, Admit, Refuse, Goto, Remember, TypeOK
<1>2. phase'[r] \in Carries => rows # {} /\ ~Reused(i) /\ ctx'[r] = admitted
  BY DEF Validate, Admit, Refuse, Goto, Remember, TypeOK, Carries
<1>3. rows # {} => i \in Live
  BY FirstIn DEF WithToken, Live
<1>4. admitted.row = i
  <2> HIDE DEF i, scope
  <2>1. ctx[r] \in Context
    BY DEF TypeOK
  <2>2. QED
    BY <2>1, ContextRead
<1>5. QED
  <2> HIDE DEF i, admitted
  <2>1. QED
    BY <1>1, <1>2, <1>3, <1>4 DEF RequestsContinue

\* Every step continues the requests.
LEMMA RequestsStep == HistoryInv /\ [Next]_vars => RequestsContinue
<1> SUFFICES ASSUME HistoryInv, [Next]_vars PROVE RequestsContinue
  OBVIOUS
<1>0. TypeOK /\ (UNCHANGED <<phase, ctx>> => RequestsContinue)
  BY DEF HistoryInv, RefreshInv, RequestsContinue
<1>1. StartSession \/ ListOutdated \/ DeleteSwept \/ Tick \/ UNCHANGED vars => RequestsContinue
  BY <1>0 DEF StartSession, ListOutdated, DeleteSwept, Tick, vars
<1>2. ASSUME NEW i \in Id, RevokeToken(i) \/ DeleteAccess(i) PROVE RequestsContinue
  BY <1>0, <1>2 DEF RevokeToken, DeleteAccess
<1>3. ASSUME NEW r \in Request, Arrive(r) \/ ListFamily(r) \/ RevokeMember(r) \/ EndReuse(r)
      PROVE  RequestsContinue
  BY <1>0, <1>3, QuietContinue DEF Arrive, ListFamily, RevokeMember, EndReuse, Remember, Goto, TypeOK, Carries
<1>4. ASSUME NEW r \in Request, OverwriteAccess(r) \/ Respond(r) \/ Crash(r)
      PROVE  RequestsContinue
  BY <1>0, <1>4, QuietContinue DEF OverwriteAccess, Respond, Crash, Answer, Refuse, Remember, Goto, TypeOK, Carries
<1>5. ASSUME NEW r \in Request, Rotated(r) \/ Repeated(r)
      PROVE  RequestsContinue
  BY <1>0, <1>5, QuietContinue DEF Rotated, Repeated, Rollback, Answer, Refuse, Remember, Goto, TypeOK, Carries
<1>6. ASSUME NEW r \in Request, LockToken(r) PROVE RequestsContinue
  <2> DEFINE a == First(RefreshedFrom(ctx[r].row))
             locked == [ctx[r] EXCEPT !.prev = a, !.access = at[a].tok]
  <2>1. \A q \in Request : q # r => phase'[q] = phase[q] /\ ctx'[q] = ctx[q]
    BY <1>0, <1>6 DEF LockToken, Refuse, Goto, Remember, TypeOK
  <2>2. phase'[r] \in Carries => phase[r] = "save" /\ (ctx'[r] = ctx[r] \/ ctx'[r] = locked)
    BY <1>0, <1>6 DEF LockToken, Refuse, Goto, Remember, TypeOK, Carries
  <2>3. locked.row = ctx[r].row
    BY <1>0, ContextRead DEF TypeOK
  <2>4. QED
    <3> HIDE DEF locked
    <3>1. QED
      BY <2>1, <2>2, <2>3, QuietContinue DEF Carries
<1>7. ASSUME NEW r \in Request, CheckScope(r) PROVE RequestsContinue
  <2> DEFINE scope == IF ctx[r].want = {} THEN OriginalScope(r) ELSE ctx[r].want
             checked == [ctx[r] EXCEPT !.until = now + TokenLifetime, !.scope = scope]
  <2>1. \A q \in Request : q # r => phase'[q] = phase[q] /\ ctx'[q] = ctx[q]
    BY <1>0, <1>7 DEF CheckScope, Refuse, Goto, Remember, TypeOK
  <2>2. phase'[r] \in Carries => phase[r] = "scope" /\ ctx'[r] = checked
    BY <1>0, <1>7 DEF CheckScope, Refuse, Goto, Remember, TypeOK, Carries
  <2>3. checked.row = ctx[r].row
    <3> HIDE DEF scope
    <3>1. QED
      BY <1>0, ContextRead DEF TypeOK
  <2>4. QED
    <3> HIDE DEF checked
    <3>1. QED
      BY <2>1, <2>2, <2>3, QuietContinue DEF Carries
<1>8. QED
  BY <1>0, <1>1, <1>2, <1>3, <1>4, <1>5, <1>6, <1>7, AdmitContinue DEF Next, Serve

\* Births are kept, and time does not go back.
LEMMA BornStep == HistoryInv /\ [Next]_vars => BornKept /\ now \in Nat /\ now' \in Nat /\ now <= now'
<1> SUFFICES ASSUME HistoryInv, [Next]_vars PROVE BornKept /\ now \in Nat /\ now' \in Nat /\ now <= now'
  OBVIOUS
<1> USE DEF tables
<1>0. TypeOK
  BY DEF HistoryInv, RefreshInv
<1> DEFINE Inserts == last' = last + 1 /\ \E o : born' = [born EXCEPT ![last + 1] = o]
<1>1. UNCHANGED <<last, born>> \/ Inserts
  <2>1. StartSession => Inserts
    BY DEF StartSession, Insert
  <2>2. ASSUME NEW r \in Request, Rotated(r) PROVE UNCHANGED <<last, born>> \/ Inserts
    BY <2>2 DEF Rotated, Rollback, Insert
  <2>3. ASSUME NEW r \in Request, Repeated(r) PROVE UNCHANGED <<last, born>>
    BY <2>3 DEF Repeated, Rollback
  <2>4. ASSUME NEW r \in Request,
               \/ Arrive(r) \/ Validate(r) \/ ListFamily(r) \/ RevokeMember(r) \/ EndReuse(r)
               \/ CheckScope(r) \/ OverwriteAccess(r) \/ LockToken(r) \/ Respond(r) \/ Crash(r)
        PROVE  UNCHANGED <<last, born>>
    BY <2>4 DEF Arrive, Validate, ListFamily, RevokeMember, EndReuse, CheckScope, OverwriteAccess,
                LockToken, Respond, Crash
  <2>5. ASSUME NEW i \in Id, RevokeToken(i) \/ DeleteAccess(i) PROVE UNCHANGED <<last, born>>
    BY <2>5 DEF RevokeToken, DeleteAccess
  <2>6. ListOutdated \/ DeleteSwept \/ Tick \/ UNCHANGED vars => UNCHANGED <<last, born>>
    BY DEF ListOutdated, DeleteSwept, Tick, vars
  <2>7. QED
    BY <2>1, <2>2, <2>3, <2>4, <2>5, <2>6 DEF Next, Serve
<1>2. BornKept
  <2>1. CASE UNCHANGED <<last, born>>
    BY <1>0, <2>1, BornAlone
  <2>2. CASE Inserts
    <3>1. last \in Nat /\ last' \in Nat /\ last <= last' /\ \A i \in 1..last : i # last + 1 /\ i \in Id
      BY <1>0, <2>2, BoundsAreNat DEF TypeOK, Id
    <3>2. \A i \in 1..last : born'[i] = born[i]
      BY <1>0, <2>2, <3>1 DEF TypeOK
    <3>3. QED
      BY <3>1, <3>2 DEF BornKept
  <2>3. QED
    BY <1>1, <2>1, <2>2
<1>3. now' = now \/ now' = now + 1
  BY DEF Next, Serve, StartSession, ListOutdated, DeleteSwept, Tick, RevokeToken, DeleteAccess, Arrive,
         Validate, ListFamily, RevokeMember, EndReuse, CheckScope, OverwriteAccess, LockToken, Rotated,
         Repeated, Respond, Crash, vars
<1>4. QED
  BY <1>0, <1>2, <1>3 DEF TypeOK

\* A session that is over is over after any step.
LEMMA OverStep ==
  HistoryInv /\ [Next]_vars =>
    \A f \in {born[i].family : i \in Roots} : SessionOver(f) => SessionOver(f)'
<1> SUFFICES ASSUME HistoryInv, [Next]_vars, NEW f \in {born[i].family : i \in Roots}, SessionOver(f)
             PROVE  SessionOver(f)'
  OBVIOUS
<1>0. TypeOK /\ BornKept /\ now \in Nat /\ now' \in Nat /\ now <= now'
  BY BornStep DEF HistoryInv, RefreshInv
<1>1. f \in 1..last
  BY DEF HistoryInv, BirthInv, Roots
<1>2. ASSUME NEW i \in Id, rt'[i] # NoRow, rt'[i].family = f
      PROVE  rt'[i].revoked # NotRevoked /\ rt'[i].revoked + GracePeriod <= now'
  <2>1. rt'[i].family # last + 1
    BY <1>0, <1>1, <1>2 DEF BornKept
  <2>2. \A r \in Request : phase[r] = "commit" => rt'[i].family # born[ctx[r].row].family
    BY <1>2 DEF SessionOver
  <2>3. rt[i] # NoRow /\ rt[i].family = f
    BY <1>2, <2>1, <2>2, RowsStep DEF RowsContinue
  <2>4. Revoked(i) /\ rt[i].revoked + GracePeriod <= now
    BY <2>3 DEF SessionOver, Live
  <2>5. rt'[i].revoked = rt[i].revoked
    BY <1>2, <2>3, <2>4, DateStep DEF HistoryInv, Live
  <2>6. rt[i].revoked \in Nat
    BY <1>0, <2>3, <2>4 DEF TypeOK, RefreshRow, Revoked
  <2>7. QED
    BY <1>0, <2>4, <2>5, <2>6, BoundsAreNat DEF Revoked
<1>3. ASSUME NEW q \in Request, phase'[q] \in {"scope", "save", "commit"}
      PROVE  born'[ctx'[q].row].family # f
  <2>1. CASE phase[q] \in Carries /\ ctx'[q].row = ctx[q].row
    <3>1. ctx[q].row \in 1..last /\ born[ctx[q].row].family # f
      BY <2>1 DEF HistoryInv, RequestInv, Carried, SessionOver, Carries
    <3>2. QED
      BY <1>0, <2>1, <3>1 DEF BornKept
  <2>2. CASE ctx'[q].row \in Live /\ ~Reused(ctx'[q].row)
    <3> DEFINE i == ctx'[q].row
    <3> HIDE DEF i
    <3>1. i \in Live /\ ~Reused(i) /\ i \in Id /\ rt[i] # NoRow
      BY <2>2 DEF i, Live
    <3>2. i \in 1..last
      BY <3>1, LiveIsOld DEF HistoryInv
    <3>3. rt[i].family = born[i].family /\ rt[i].revoked \in Nat \cup {NotRevoked}
      BY <1>0, <3>1 DEF HistoryInv, HistoryIn, RowIn, TypeOK, RefreshRow
    <3>4. rt[i].family # f
      <4> SUFFICES ASSUME rt[i].family = f PROVE FALSE
        OBVIOUS
      <4>1. Revoked(i) /\ rt[i].revoked + GracePeriod <= now
        BY <3>1 DEF SessionOver
      <4>2. rt[i].revoked <= now - GracePeriod
        BY <1>0, <3>3, <4>1, BoundsAreNat DEF Revoked
      <4>3. QED
        BY <3>1, <4>1, <4>2 DEF Reused
    <3>5. born'[i] = born[i]
      BY <1>0, <3>2 DEF BornKept
    <3>6. QED
      BY <3>3, <3>4, <3>5 DEF i
  <2>3. QED
    BY <1>3, <2>1, <2>2, RequestsStep DEF RequestsContinue, Carries
<1>4. QED
  BY <1>1, <1>2, <1>3 DEF SessionOver, Live, Revoked

\* A session that is over stays over: no step brings a token of it back.
THEOREM SessionsEnd == Spec => EndedSessionStaysEnded
<1>1. HistoryInv /\ [Next]_vars =>
        [\A f \in {born[i].family : i \in Roots} : SessionOver(f) => SessionOver(f)']_vars
  BY OverStep
<1>2. QED
  BY <1>1, HistoryCorrect, PTL DEF Spec, EndedSessionStaysEnded

-----------------------------------------------------------------------------
(* Reuse protection. *)

\* The rows that a request has listed and still has to revoke.
Pending(q) == IF phase[q] = "revoke" THEN ctx[q].todo ELSE {}

\* Of the session whose listing a request holds, every older token is revoked or pending.
Listed(q) ==
  /\ ctx[q].row \in 1..last
  /\ ctx[q].upto <= last
  /\ \A i \in Live :
       i <= ctx[q].upto /\ rt[i].family = born[ctx[q].row].family => Revoked(i) \/ i \in Pending(q)

Lists == {"revoke", "invalid_grant"}
ReuseOf(q) ==
  /\ phase[q] = "list" => ctx[q].row \in 1..last
  /\ phase[q] \in Lists /\ ctx[q].upto # None => Listed(q)
  /\ phase[q] = "revoke" => ctx[q].upto # None
ReuseInv == HistoryInv /\ \A q \in Request : ReuseOf(q)

\* The old rows of a table: none comes back, changes its family, or is no longer revoked.
OldRows ==
  \A i \in 1..last : rt'[i] # NoRow =>
    /\ rt[i] # NoRow /\ rt'[i].family = rt[i].family
    /\ Revoked(i) => Revoked(i)'

LEMMA OldStep == HistoryInv /\ [Next]_vars => OldRows
<1> SUFFICES ASSUME HistoryInv, [Next]_vars, NEW i \in 1..last, rt'[i] # NoRow
             PROVE  /\ rt[i] # NoRow /\ rt'[i].family = rt[i].family
                    /\ Revoked(i) => Revoked(i)'
  BY DEF OldRows
<1>1. i \in Id /\ i # last + 1
  BY BoundsAreNat DEF HistoryInv, RefreshInv, TypeOK, Id
<1>2. rt[i] # NoRow /\ rt'[i].family = rt[i].family
  BY <1>1, RowsStep DEF RowsContinue
<1>3. Revoked(i) => rt'[i].revoked = rt[i].revoked
  BY <1>1, <1>2, DateStep DEF HistoryInv, Live
<1>4. QED
  BY <1>2, <1>3 DEF Revoked

\* A request that is not about a reuse, or waits, keeps what it has listed.
LEMMA WaitingReuse ==
  ASSUME HistoryInv, BornKept, OldRows, NEW q \in Request, ReuseOf(q),
         \/ phase'[q] = phase[q] /\ ctx'[q] = ctx[q]
         \/ phase'[q] \notin {"list", "revoke"} /\ (phase'[q] = "invalid_grant" => ctx'[q] = Blank)
  PROVE  ReuseOf(q)'
<1>1. CASE phase'[q] = phase[q] /\ ctx'[q] = ctx[q]
  <2>1. ctx[q].upto \in Nat /\ last \in Nat /\ last' \in Nat /\ last <= last' /\ Id \subseteq Nat
    BY BoundsAreNat DEF BornKept, HistoryInv, RefreshInv, TypeOK, Context, Id, None
  <2>2. Listed(q) => Listed(q)'
    <3> SUFFICES ASSUME Listed(q), NEW i \in Id, rt'[i] # NoRow, i <= ctx[q].upto,
                        rt'[i].family = born'[ctx[q].row].family
                 PROVE  Revoked(i)' \/ i \in Pending(q)'
      BY <1>1, <2>1 DEF Listed, Live
    <3>1. i \in 1..last /\ ctx[q].row \in 1..last
      BY <2>1 DEF Listed, Id
    <3>2. rt[i] # NoRow /\ rt[i].family = born[ctx[q].row].family /\ (Revoked(i) => Revoked(i)')
      BY <3>1 DEF OldRows, BornKept
    <3>3. Revoked(i) \/ i \in Pending(q)
      BY <3>2 DEF Listed, Live
    <3>4. QED
      BY <1>1, <3>2, <3>3 DEF Pending
  <2>3. QED
    BY <1>1, <2>1, <2>2 DEF ReuseOf
<1>2. CASE phase'[q] \notin {"list", "revoke"} /\ (phase'[q] = "invalid_grant" => ctx'[q] = Blank)
  BY <1>2 DEF ReuseOf, Lists, Blank
<1>3. QED
  BY <1>1, <1>2

\* validate_refresh_token finds the reused token in its table.
LEMMA DetectReuse ==
  ASSUME HistoryInv, NEW r \in Request, Validate(r)
  PROVE  ReuseOf(r)'
<1> DEFINE rows == WithToken(ctx[r].tok)
           i == First(rows)
           found == [ctx[r] EXCEPT !.row = i]
<1>1. TypeOK /\ UNCHANGED <<rt, last, born>>
  BY DEF HistoryInv, RefreshInv, Validate, tables
<1>2. phase'[r] # "revoke" /\ (phase'[r] = "invalid_grant" => ctx'[r] = Blank)
  BY <1>1 DEF Validate, Admit, Refuse, Goto, Remember, TypeOK
<1>3. phase'[r] = "list" => rows # {} /\ ctx'[r] = found
  BY <1>1 DEF Validate, Admit, Refuse, Goto, Remember, TypeOK
<1>4. rows # {} => i \in 1..last
  <2>1. rows # {} => i \in Live
    BY FirstIn DEF WithToken, Live
  <2>2. QED
    BY <2>1, LiveIsOld DEF HistoryInv
<1>5. found.row = i
  BY <1>1 DEF TypeOK, Context
<1>6. QED
  <2> HIDE DEF rows, i, found
  <2>1. QED
    BY <1>1, <1>2, <1>3, <1>4, <1>5 DEF ReuseOf, Lists, Blank

\* The listing holds all the family that is stored.
LEMMA ListReuse ==
  ASSUME ReuseInv, NEW r \in Request, ListFamily(r)
  PROVE  ReuseOf(r)'
<1> DEFINE listed == [ctx[r] EXCEPT !.todo = Family(ctx[r].row), !.upto = last]
<1>1. TypeOK /\ UNCHANGED <<rt, last, born>> /\ ctx[r].row \in 1..last
  BY DEF ReuseInv, ReuseOf, HistoryInv, RefreshInv, ListFamily, tables
<1>2. phase'[r] = "revoke" /\ ctx'[r] = listed
  BY <1>1 DEF ListFamily, Goto, Remember, TypeOK
<1>3. listed.row = ctx[r].row /\ listed.upto = last /\ listed.todo = Family(ctx[r].row)
  BY <1>1 DEF TypeOK, Context
<1>4. last \in Nat /\ last # None
  BY <1>1 DEF TypeOK, None
<1>5. QED
  <2> HIDE DEF listed
  <2>1. QED
    BY <1>1, <1>2, <1>3, <1>4 DEF ReuseOf, Lists, Listed, Pending, Family, Live

\* A member leaves the listing when it is revoked, or gone.
LEMMA MemberReuse ==
  ASSUME ReuseInv, OldRows, NEW r \in Request, RevokeMember(r)
  PROVE  ReuseOf(r)'
<1>1. /\ TypeOK /\ UNCHANGED <<last, born, phase>> /\ phase[r] = "revoke"
      /\ Listed(r) /\ ctx[r].upto # None
  BY DEF ReuseInv, ReuseOf, Lists, HistoryInv, RefreshInv, RevokeMember
<1>2. PICK j \in ctx[r].todo : /\ Remember(r, [ctx[r] EXCEPT !.todo = ctx[r].todo \ {j}])
                               /\ rt' = IF j \in Live THEN RtAfterRevoke(j) ELSE rt
  BY DEF RevokeMember
<1> DEFINE left == [ctx[r] EXCEPT !.todo = ctx[r].todo \ {j}]
<1>3. ctx'[r] = left
  BY <1>1, <1>2 DEF Remember, TypeOK
<1>4. left.row = ctx[r].row /\ left.upto = ctx[r].upto /\ left.todo = ctx[r].todo \ {j}
  BY <1>1 DEF TypeOK, Context
<1>5. j \in Live => Revoked(j)'
  <2> SUFFICES ASSUME j \in Live PROVE rt'[j].revoked # NotRevoked
    BY DEF Revoked
  <2>1. j \in Id /\ rt[j] \in RefreshRow /\ now \in Nat /\ rt' = RtAfterRevoke(j)
    BY <1>1, <1>2 DEF TypeOK, Live
  <2>2. [rt[j] EXCEPT !.at = None, !.revoked = now].revoked = now
    BY <2>1 DEF RefreshRow
  <2>3. [rt EXCEPT ![j].at = None, ![j].revoked = now][j] = [rt[j] EXCEPT !.at = None, !.revoked = now]
    BY <1>1, <2>1 DEF TypeOK
  <2>4. CASE Revocable(j)
    <3>1. rt'[j].revoked = now
      BY <2>1, <2>2, <2>3, <2>4 DEF RtAfterRevoke
    <3>2. QED
      BY <2>1, <3>1 DEF NotRevoked
  <2>5. CASE ~Revocable(j)
    BY <2>1, <2>5 DEF RtAfterRevoke, Revocable, Revoked
  <2>6. QED
    BY <2>4, <2>5
<1>6. ASSUME NEW i \in Id, rt'[i] # NoRow, i <= ctx[r].upto, rt'[i].family = born[ctx[r].row].family
      PROVE  Revoked(i)' \/ i \in ctx[r].todo \ {j}
  <2>1. i \in 1..last
    BY <1>1, <1>6, BoundsAreNat DEF Listed, TypeOK, Context, Id, None
  <2>2. rt[i] # NoRow /\ rt[i].family = born[ctx[r].row].family /\ (Revoked(i) => Revoked(i)')
    BY <1>6, <2>1 DEF OldRows
  <2>3. Revoked(i) \/ i \in ctx[r].todo
    BY <1>1, <1>6, <2>2 DEF Listed, Pending, Live
  <2>4. QED
    BY <1>5, <2>2, <2>3 DEF Live
<1>7. QED
  <2> HIDE DEF left
  <2>1. QED
    BY <1>1, <1>3, <1>4, <1>6 DEF ReuseOf, Lists, Listed, Pending, Live

\* A reuse is refused when nothing is pending.
LEMMA EndedReuse ==
  ASSUME ReuseInv, NEW r \in Request, EndReuse(r)
  PROVE  ReuseOf(r)'
<1>1. TypeOK /\ UNCHANGED <<rt, last, born, ctx>> /\ phase[r] = "revoke" /\ ctx[r].todo = {}
  BY DEF ReuseInv, HistoryInv, RefreshInv, EndReuse, tables
<1>2. phase'[r] = "invalid_grant"
  BY <1>1 DEF EndReuse, Goto, TypeOK
<1>3. Listed(r)
  BY <1>1 DEF ReuseInv, ReuseOf, Lists
<1>4. QED
  BY <1>1, <1>2, <1>3 DEF ReuseOf, Lists, Listed, Pending, Live, Revoked

\* Every step keeps what the requests have listed.
LEMMA ReuseStep == ReuseInv /\ [Next]_vars => ReuseInv'
<1> SUFFICES ASSUME ReuseInv, [Next]_vars PROVE ReuseInv'
  OBVIOUS
<1>0. HistoryInv /\ HistoryInv' /\ TypeOK /\ BornKept /\ OldRows /\ \A q \in Request : ReuseOf(q)
  BY HistoryStep, BornStep, OldStep DEF ReuseInv, HistoryInv, RefreshInv
<1>1. CASE UNCHANGED <<phase, ctx>>
  BY <1>0, <1>1, WaitingReuse DEF ReuseInv
<1>2. ASSUME NEW r \in Request, ReuseOf(r)',
             \A q \in Request : q # r => phase'[q] = phase[q] /\ ctx'[q] = ctx[q]
      PROVE  ReuseInv'
  BY <1>0, <1>2, WaitingReuse DEF ReuseInv
<1>3. StartSession \/ ListOutdated \/ DeleteSwept \/ Tick \/ UNCHANGED vars => ReuseInv'
  BY <1>1 DEF StartSession, ListOutdated, DeleteSwept, Tick, vars
<1>4. ASSUME NEW i \in Id, RevokeToken(i) \/ DeleteAccess(i) PROVE ReuseInv'
  BY <1>1, <1>4 DEF RevokeToken, DeleteAccess
<1>5. ASSUME NEW r \in Request, Arrive(r) \/ Serve(r) \/ Crash(r) PROVE ReuseInv'
  <2>1. \A q \in Request : q # r => phase'[q] = phase[q] /\ ctx'[q] = ctx[q]
    <3>1. CASE Arrive(r) \/ Validate(r) \/ ListFamily(r) \/ RevokeMember(r) \/ EndReuse(r) \/ CheckScope(r)
      BY <1>0, <3>1 DEF Arrive, Validate, Admit, ListFamily, RevokeMember, EndReuse, CheckScope,
                        Refuse, Remember, Goto, TypeOK
    <3>2. CASE OverwriteAccess(r) \/ LockToken(r) \/ Rotated(r) \/ Repeated(r) \/ Respond(r) \/ Crash(r)
      BY <1>0, <3>2 DEF OverwriteAccess, LockToken, Rotated, Repeated, Respond, Crash, Rollback, Answer,
                        Refuse, Remember, Goto, TypeOK
    <3>3. QED
      BY <1>5, <3>1, <3>2 DEF Serve
  <2>2. CASE Arrive(r) \/ CheckScope(r) \/ OverwriteAccess(r) \/ LockToken(r) \/ Rotated(r)
             \/ Repeated(r) \/ Respond(r) \/ Crash(r)
    <3>1. phase'[r] \notin {"list", "revoke", "invalid_grant"}
      BY <1>0, <2>2 DEF Arrive, CheckScope, OverwriteAccess, LockToken, Rotated, Repeated, Respond, Crash,
                        Rollback, Refuse, Goto, TypeOK
    <3>2. ReuseOf(r)'
      BY <1>0, <3>1, WaitingReuse
    <3>3. QED
      BY <1>2, <2>1, <3>2
  <2>3. CASE Validate(r)
    BY <1>0, <1>2, <2>1, <2>3, DetectReuse
  <2>4. CASE ListFamily(r)
    BY <1>2, <2>1, <2>4, ListReuse
  <2>5. CASE RevokeMember(r)
    BY <1>0, <1>2, <2>1, <2>5, MemberReuse
  <2>6. CASE EndReuse(r)
    BY <1>2, <2>1, <2>6, EndedReuse
  <2>7. QED
    BY <1>5, <2>2, <2>3, <2>4, <2>5, <2>6 DEF Serve
<1>6. QED
  BY <1>3, <1>4, <1>5 DEF Next

\* A reuse is refused only after every older refresh token of its session was revoked,
\* whatever the other requests did between the transactions that revoke them.
THEOREM ReuseProtected == Spec => []ReuseRevokesFamily
<1>1. Init => ReuseInv
  BY HistoryInit DEF Init, ReuseInv, ReuseOf, Lists
<1>2. ReuseInv => ReuseRevokesFamily
  <2> SUFFICES ASSUME ReuseInv, NEW r \in Request, phase[r] = "invalid_grant", NEW i \in Live,
                      i <= ctx[r].upto, rt[i].family = born[ctx[r].row].family
               PROVE  Revoked(i)
    BY DEF ReuseRevokesFamily
  <2>1. ctx[r].upto # None
    BY BoundsAreNat DEF Live, Id, None
  <2>2. QED
    BY <2>1 DEF ReuseInv, ReuseOf, Lists, Listed, Pending
<1>3. QED
  BY <1>1, <1>2, ReuseStep, PTL DEF Spec
=============================================================================
