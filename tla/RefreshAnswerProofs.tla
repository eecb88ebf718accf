--------------------------- MODULE RefreshAnswerProofs ---------------------------
(***************************************************************************)
(* Proofs about RefreshFlow that follow the strings: which pair a request  *)
(* is answered with, and what a session holds when tokens are kept.        *)
(***************************************************************************)
EXTENDS RefreshHistoryProofs

-----------------------------------------------------------------------------
(* The inductive invariant. *)

\* A row keeps the string it was inserted with.  Rotation numbers strings and pairs
\* alike; without it a family has one string, that of its first token.
RowStrings == \A i \in Id : rt[i] # NoRow => rt[i].tok = born[i].tok
RotatedStrings ==
  /\ fresh = last
  /\ \A i \in 1..last : born[i].tok = i
  /\ \A a \in Id : at[a] # NoRow => at[a].tok = a
KeptStrings ==
  \A i \in 1..last :
    /\ born[i].family <= i
    /\ born[i].tok = born[born[i].family].tok
    /\ born[i].parent # None =>
         born[i].family = born[born[i].parent].family /\ born[i].tok = born[born[i].parent].tok

\* A stored access token of a stored refresh token is bound to it, and gone when the
\* refresh token has a successor.
BoundRows ==
  \A a \in Id : at[a] # NoRow =>
    /\ rt[a] # NoRow => rt[a].at = a
    /\ born[a].parent # None /\ rt[born[a].parent] # NoRow => at[born[a].parent] = NoRow

\* While the first refresh token of a session is stored, all of it comes from that one.
FirstIsParent ==
  \A b \in Id : at[b] # NoRow /\ rt[born[b].family] # NoRow =>
    b = born[b].family \/ born[b].parent = born[b].family

TableInv ==
  /\ RowStrings /\ BoundRows
  /\ Rotate => RotatedStrings
  /\ ~Rotate => KeptStrings /\ FirstIsParent

\* What a request in flight has presented, found, and is about to answer.
Presented(c) ==
  /\ born[c.row].tok = c.tok
  /\ ~Rotate /\ rt[born[c.row].family] # NoRow => c.row = born[c.row].family
FoundPair(c) ==
  c.prev # None => c.prev \in 1..last /\ born[c.prev].parent = c.row /\ (Rotate => c.access = c.prev)
SuccessorOf(p, q) == q \in 1..last /\ born[q].parent = p
Answered(c) ==
  IF Rotate THEN c.access = c.refresh /\ SuccessorOf(c.tok, c.refresh) ELSE c.refresh = c.tok

Early == {"validate", "scope", "save"}
AnswerOf(q) ==
  /\ phase[q] \in Early => ctx[q].prev = None
  /\ phase[q] \in Carries => Presented(ctx[q])
  /\ phase[q] = "commit" => FoundPair(ctx[q])
  /\ phase[q] \in {"respond", "ok"} => Answered(ctx[q])
AnswerInv == \A q \in Request : AnswerOf(q)

PairInv == HistoryInv /\ TableInv /\ AnswerInv

-----------------------------------------------------------------------------
(* Steps that insert nothing. *)

\* Tables that lost rows, but no string, and no binding of an access token they keep.
Lessened(r, a) ==
  /\ \A i \in Id : r[i] # NoRow => rt[i] # NoRow /\ r[i].tok = rt[i].tok
  /\ \A b \in Id : a[b] # NoRow =>
       /\ at[b] # NoRow
       /\ Rotate => a[b].tok = at[b].tok
       /\ r[b] # NoRow => r[b].at = rt[b].at

\* What is said of the tables holds of such tables.
LEMMA LessenedTables ==
  ASSUME RefreshInv, BirthInv, TableInv, Lessened(rt', at'), UNCHANGED <<last, born>>, Rotate => fresh' = fresh
  PROVE  TableInv'
<1>0. TypeOK /\ \A b \in Id : at[b] # NoRow => b \in 1..last
  BY BoundsAreNat DEF RefreshInv, UnusedInv, UnusedIn, TypeOK, Id
<1>1. RowStrings'
  BY DEF TableInv, RowStrings, Lessened
<1>2. BoundRows'
  <2> SUFFICES ASSUME NEW a \in Id, at'[a] # NoRow
               PROVE  /\ rt'[a] # NoRow => rt'[a].at = a
                      /\ born[a].parent # None /\ rt'[born[a].parent] # NoRow
                           => at'[born[a].parent] = NoRow
    BY DEF BoundRows
  <2>1. at[a] # NoRow /\ born[a].parent \in Id \cup {None}
    BY <1>0 DEF Lessened, TypeOK, Origin
  <2>2. QED
    BY <2>1 DEF Lessened, TableInv, BoundRows
<1>3. Rotate => RotatedStrings'
  BY DEF TableInv, RotatedStrings, Lessened
<1>4. ~Rotate => KeptStrings' /\ FirstIsParent'
  <2>1. ~Rotate => KeptStrings'
    BY DEF TableInv, KeptStrings
  <2>2. \A b \in Id : born[b].family \in Id /\ rt'[born[b].family] # NoRow => rt[born[b].family] # NoRow
    BY DEF Lessened
  <2>3. ASSUME ~Rotate, NEW b \in Id, at'[b] # NoRow, rt'[born[b].family] # NoRow
        PROVE  b = born[b].family \/ born[b].parent = born[b].family
    <3>1. at[b] # NoRow
      BY <2>3 DEF Lessened
    <3>2. born[b].family \in Id
      BY <1>0, <3>1, BoundsAreNat DEF BirthInv, TypeOK, Id
    <3>3. QED
      BY <2>2, <2>3, <3>1, <3>2 DEF TableInv, FirstIsParent
  <2>4. QED
    BY <2>1, <2>3 DEF FirstIsParent
<1>5. QED
  BY <1>1, <1>2, <1>3, <1>4 DEF TableInv

\* revoke() takes the access token with its binding.
LEMMA RevokeLessened ==
  ASSUME HistoryInv, NEW i \in Live
  PROVE  Lessened(RtAfterRevoke(i), AtAfterRevoke(i))
<1>0. TypeOK /\ i \in Id /\ rt[i] \in RefreshRow /\ rt[i].at \in {None, i}
  BY DEF HistoryInv, RefreshInv, HistoryIn, RowIn, TypeOK, Live
<1>1. /\ [rt[i] EXCEPT !.at = None, !.revoked = now].at = None
      /\ [rt[i] EXCEPT !.at = None, !.revoked = now].tok = rt[i].tok
  BY <1>0 DEF RefreshRow
<1>2. [rt EXCEPT ![i].at = None, ![i].revoked = now][i] = [rt[i] EXCEPT !.at = None, !.revoked = now]
  BY <1>0 DEF TypeOK
<1>3. /\ \A j \in Id : j # i => RtAfterRevoke(i)[j] = rt[j]
      /\ RtAfterRevoke(i)[i].tok = rt[i].tok
      /\ Revocable(i) => RtAfterRevoke(i)[i].at = None
      /\ ~Revocable(i) => RtAfterRevoke(i)[i].at = rt[i].at
  BY <1>0, <1>1, <1>2 DEF RtAfterRevoke, TypeOK
<1>4. /\ \A b \in Id : AtAfterRevoke(i)[b] \in {at[b], NoRow}
      /\ Revocable(i) /\ rt[i].at # None => AtAfterRevoke(i)[i] = NoRow
  BY <1>0 DEF AtAfterRevoke, TypeOK
<1>5. \A j \in Id : RtAfterRevoke(i)[j] # NoRow => rt[j] # NoRow /\ RtAfterRevoke(i)[j].tok = rt[j].tok
  BY <1>3 DEF Live
<1>6. \A b \in Id : AtAfterRevoke(i)[b] # NoRow =>
        at[b] # NoRow /\ AtAfterRevoke(i)[b] = at[b] /\ RtAfterRevoke(i)[b].at = rt[b].at
  BY <1>0, <1>3, <1>4
<1>7. QED
  BY <1>5, <1>6 DEF Lessened

\* So does the deletion of an access token.
LEMMA DeleteLessened ==
  ASSUME HistoryInv, NEW a \in Id, DeleteAccess(a)
  PROVE  Lessened(rt', at')
<1>0. TypeOK /\ \A i \in BoundTo(a) : i = a
  BY DEF HistoryInv, RefreshInv, HistoryIn, RowIn, BoundTo, Live, DeleteAccess, Stored, None, Id
<1>1. \A i \in Id : rt[i] # NoRow => [rt[i] EXCEPT !.at = None].tok = rt[i].tok
  BY <1>0 DEF TypeOK, RefreshRow
<1>2. \A i \in Id : rt'[i] # NoRow => rt[i] # NoRow /\ rt'[i].tok = rt[i].tok
  BY <1>1 DEF DeleteAccess, BoundTo, Live
<1>3. \A b \in Id : at'[b] # NoRow => b # a /\ at'[b] = at[b]
  BY <1>0 DEF DeleteAccess, TypeOK
<1>4. \A b \in Id : b # a => rt'[b] = rt[b]
  BY <1>0 DEF DeleteAccess
<1>5. QED
  BY <1>2, <1>3, <1>4 DEF Lessened

\* So does cleartokens.
LEMMA SweepLessened ==
  ASSUME HistoryInv, DeleteSwept
  PROVE  Lessened(rt', at')
<1>0. TypeOK
  BY DEF HistoryInv, RefreshInv
<1>1. \A i \in Id : rt'[i] # NoRow => rt'[i] = rt[i]
  BY DEF DeleteSwept
<1>2. \A b \in Id : at[b] # NoRow => [at[b] EXCEPT !.source = None].tok = at[b].tok
  BY <1>0 DEF TypeOK, AccessRow
<1>3. \A b \in Id : at'[b] # NoRow => at[b] # NoRow /\ at'[b].tok = at[b].tok
  BY <1>2 DEF DeleteSwept, Stored
<1>4. QED
  BY <1>1, <1>3 DEF Lessened

\* So does overwriting an access token, which happens only without rotation.
LEMMA OverwriteLessened ==
  ASSUME HistoryInv, NEW r \in Request, OverwriteAccess(r)
  PROVE  Lessened(rt', at') /\ ~Rotate /\ UNCHANGED <<last, born>>
<1>0. TypeOK /\ ~Rotate /\ UNCHANGED <<rt, last, born>>
  BY DEF HistoryInv, RefreshInv, OverwriteAccess, KeepsToken
<1>1. \A b \in Id : at'[b] # NoRow => at[b] # NoRow
  BY <1>0 DEF OverwriteAccess, TypeOK, Stored
<1>2. QED
  BY <1>0, <1>1 DEF Lessened

\* So does a step that leaves the tables alone.
LEMMA SameLessened == ASSUME UNCHANGED <<rt, at>> PROVE Lessened(rt', at')
  BY DEF Lessened

-----------------------------------------------------------------------------
(* Insertions. *)

\* The first pair of a session, and the only successor of a token that was just revoked
\* with its access token, keep what is said of the tables.
LEMMA InsertTables ==
  ASSUME HistoryInv, HistoryInv', NEW r, NEW a, RowsGood(r, a),
         NEW tok \in Nat, NEW family, NEW source \in Id \cup {None}, NEW scope, NEW expires,
         Insert(r, a, tok, family, source, scope, expires),
         TableInv, Lessened(r, a),
         Rotate => tok = fresh + 1,
         \/ source = None /\ family = last + 1
         \/ /\ source \in 1..last /\ a[source] = NoRow /\ family = born[source].family
            /\ ~Rotate => tok = born[source].tok /\ (r[family] # NoRow => source = family)
  PROVE  TableInv'
<1> DEFINE n == last + 1
           row == [tok |-> tok, family |-> family, at |-> n, revoked |-> NotRevoked]
           birth == [parent |-> source, family |-> family, tok |-> tok, scope |-> scope]
           access == NewAccess(fresh + 1, source, scope, expires)
<1>1. /\ TypeOK /\ n \in Id /\ last \in Nat /\ last' = n /\ None \notin Id
      /\ fresh \in Nat /\ fresh' = fresh + 1 /\ n \notin 1..last
  BY BoundsAreNat DEF HistoryInv, RefreshInv, TypeOK, Insert, Id, None
<1>2. /\ \A i \in Id : i # n => rt'[i] = r[i] /\ at'[i] = a[i] /\ born'[i] = born[i]
      /\ rt'[n] = row /\ at'[n] = access /\ born'[n] = birth
  BY <1>1 DEF Insert, RowsGood, TypeOK
<1>3. \A i \in Id : i # n /\ (r[i] # NoRow \/ a[i] # NoRow) => i \in 1..last
  BY <1>1 DEF RowsGood, UnusedIn, Id
<1>4. \A i \in 1..last : /\ i \in Id /\ i # n
                         /\ born[i].parent \in {None} \cup 1..last /\ born[i].family \in 1..last
  BY <1>1, BoundsAreNat DEF HistoryInv, BirthInv, TypeOK, Origin, Id
<1>5. RowStrings'
  BY <1>2 DEF RowStrings, TableInv, Lessened
<1>6. BoundRows'
  <2> SUFFICES ASSUME NEW b \in Id, at'[b] # NoRow
               PROVE  /\ rt'[b] # NoRow => rt'[b].at = b
                      /\ born'[b].parent # None /\ rt'[born'[b].parent] # NoRow
                           => at'[born'[b].parent] = NoRow
    BY DEF BoundRows
  <2>1. CASE b = n
    <3>1. rt'[b].at = b /\ born'[b].parent = source
      BY <1>2, <2>1
    <3>2. source # None => at'[source] = NoRow
      BY <1>1, <1>2, <1>4
    <3>3. QED
      BY <3>1, <3>2
  <2>2. CASE b # n
    <3>1. a[b] # NoRow /\ rt'[b] = r[b] /\ born'[b] = born[b] /\ b \in 1..last /\ at[b] # NoRow
      BY <1>2, <1>3, <2>2 DEF Lessened
    <3>2. r[b] # NoRow => r[b].at = rt[b].at /\ rt[b] # NoRow
      BY <3>1 DEF Lessened
    <3>3. rt[b] # NoRow => rt[b].at = b
      BY <3>1 DEF TableInv, BoundRows
    <3>4. ASSUME born[b].parent # None, rt'[born[b].parent] # NoRow PROVE at'[born[b].parent] = NoRow
      <4> DEFINE p == born[b].parent
      <4>1. p \in Id /\ p # n /\ r[p] # NoRow
        BY <1>2, <1>4, <3>1, <3>4
      <4>2. rt[p] # NoRow
        BY <4>1 DEF Lessened
      <4>3. at[p] = NoRow
        BY <3>1, <3>4, <4>2 DEF TableInv, BoundRows
      <4>4. a[p] = NoRow
        BY <4>1, <4>3 DEF Lessened
      <4>5. QED
        BY <1>2, <4>1, <4>4
    <3>5. QED
      BY <3>1, <3>2, <3>3, <3>4
  <2>3. QED
    BY <2>1, <2>2
<1>7. ASSUME Rotate PROVE RotatedStrings'
  <2>1. RotatedStrings /\ tok = fresh + 1
    BY <1>7 DEF TableInv
  <2>2. fresh' = last' /\ tok = n
    BY <1>1, <2>1 DEF RotatedStrings
  <2>3. \A i \in 1..n : born'[i].tok = i
    BY <1>1, <1>2, <1>4, <2>1, <2>2 DEF RotatedStrings
  <2>4. \A b \in Id : at'[b] # NoRow => at'[b].tok = b
    <3>1. access.tok = n
      BY <1>1, <2>1 DEF NewAccess, RotatedStrings
    <3>2. \A b \in Id : a[b] # NoRow => a[b].tok = b
      BY <1>7, <2>1 DEF RotatedStrings, Lessened
    <3>3. QED
      BY <1>2, <3>1, <3>2
  <2>5. QED
    BY <1>1, <2>2, <2>3, <2>4 DEF RotatedStrings
<1>8. ASSUME ~Rotate PROVE KeptStrings'
  <2>1. KeptStrings
    BY <1>8 DEF TableInv
  <2> SUFFICES ASSUME NEW i \in 1..n
               PROVE  /\ born'[i].family <= i
                      /\ born'[i].tok = born'[born'[i].family].tok
                      /\ born'[i].parent # None =>
                           /\ born'[i].family = born'[born'[i].parent].family
                           /\ born'[i].tok = born'[born'[i].parent].tok
    BY <1>1 DEF KeptStrings
  <2>2. CASE i \in 1..last
    <3>1. born'[i] = born[i] /\ born'[born[i].family] = born[born[i].family]
      BY <1>2, <1>4, <2>2
    <3>2. born[i].parent # None => born'[born[i].parent] = born[born[i].parent]
      BY <1>2, <1>4, <2>2
    <3>3. QED
      BY <2>1, <2>2, <3>1, <3>2 DEF KeptStrings
  <2>3. CASE i = n /\ source = None /\ family = n
    BY <1>1, <1>2, <2>3
  <2>4. CASE i = n /\ source \in 1..last /\ family = born[source].family /\ tok = born[source].tok
    <3>1. born'[i] = birth /\ born'[source] = born[source] /\ born'[family] = born[family]
          /\ family \in 1..last
      BY <1>2, <1>4, <2>4
    <3>2. born[source].tok = born[family].tok /\ family <= n
      BY <1>1, <2>1, <2>4, <3>1 DEF KeptStrings
    <3>3. QED
      BY <1>1, <2>4, <3>1, <3>2
  <2>5. QED
    BY <1>1, <1>8, <2>2, <2>3, <2>4
<1>9. ASSUME ~Rotate PROVE FirstIsParent'
  <2> SUFFICES ASSUME NEW b \in Id, at'[b] # NoRow, rt'[born'[b].family] # NoRow
               PROVE  b = born'[b].family \/ born'[b].parent = born'[b].family
    BY DEF FirstIsParent
  <2>1. CASE b = n
    <3>1. born'[b].family = family /\ born'[b].parent = source
      BY <1>2, <2>1
    <3>2. source \in 1..last => rt'[born[source].family] = r[born[source].family]
      BY <1>2, <1>4
    <3>3. QED
      BY <1>9, <2>1, <3>1, <3>2
  <2>2. CASE b # n
    <3>1. a[b] # NoRow /\ born'[b] = born[b] /\ b \in 1..last /\ at[b] # NoRow
      BY <1>2, <1>3, <2>2 DEF Lessened
    <3>2. r[born[b].family] # NoRow /\ born[b].family \in Id
      BY <1>2, <1>4, <3>1
    <3>3. rt[born[b].family] # NoRow
      BY <3>2 DEF Lessened
    <3>4. QED
      BY <1>9, <3>1, <3>3 DEF TableInv, FirstIsParent
  <2>3. QED
    BY <2>1, <2>2
<1>10. QED
  BY <1>5, <1>6, <1>7, <1>8, <1>9 DEF TableInv

-----------------------------------------------------------------------------
(* The requests. *)

\* The past stays: births are kept and no row comes back.
PastKept ==
  /\ BornKept
  /\ \A i \in 1..last : rt'[i] # NoRow => rt[i] # NoRow

\* A request that goes no further, or from one check to the next, stays as it was.
Undisturbed(q) ==
  /\ phase'[q] \in Early => phase[q] \in Early /\ ctx'[q].prev = ctx[q].prev
  /\ phase'[q] \in Carries =>
       phase[q] \in Carries /\ ctx'[q].row = ctx[q].row /\ ctx'[q].tok = ctx[q].tok
  /\ phase'[q] = "commit" => phase[q] = "commit" /\ ctx'[q] = ctx[q]
  /\ phase'[q] \in {"respond", "ok"} => phase[q] \in {"respond", "ok"} /\ ctx'[q] = ctx[q]

LEMMA UndisturbedAnswer ==
  ASSUME HistoryInv, PastKept, NEW q \in Request, AnswerOf(q), Undisturbed(q)
  PROVE  AnswerOf(q)'
<1>0. phase'[q] \in Early => ctx'[q].prev = None
  BY DEF Undisturbed, AnswerOf
<1>1. phase'[q] \in Carries => Presented(ctx[q])'
  <2> SUFFICES ASSUME phase'[q] \in Carries PROVE Presented(ctx[q])'
    OBVIOUS
  <2>1. /\ ctx'[q].row = ctx[q].row /\ ctx'[q].tok = ctx[q].tok /\ ctx[q].row \in 1..last
        /\ Presented(ctx[q])
    BY DEF Undisturbed, AnswerOf, HistoryInv, RequestInv, Carried
  <2>2. born'[ctx[q].row] = born[ctx[q].row] /\ born[ctx[q].row].family \in 1..last
    BY <2>1 DEF PastKept, BornKept, HistoryInv, BirthInv
  <2>3. QED
    BY <2>1, <2>2 DEF Presented, PastKept
<1>2. phase'[q] = "commit" => FoundPair(ctx[q])'
  BY DEF Undisturbed, AnswerOf, FoundPair, PastKept, BornKept
<1>3. phase'[q] \in {"respond", "ok"} => Answered(ctx[q])'
  BY DEF Undisturbed, AnswerOf, Answered, SuccessorOf, PastKept, BornKept
<1>4. QED
  BY <1>0, <1>1, <1>2, <1>3 DEF AnswerOf

\* Tables that lose rows or gain a new one keep the past.
LEMMA LessenedPast ==
  ASSUME TypeOK, Lessened(rt', at'), UNCHANGED <<last, born>>
  PROVE  PastKept
<1>1. \A i \in 1..last : i \in Id
  BY BoundsAreNat DEF TypeOK, Id
<1>2. QED
  BY <1>1, BornAlone DEF PastKept, Lessened

LEMMA InsertPast ==
  ASSUME TypeOK, NEW r, NEW a, RowsGood(r, a), Lessened(r, a),
         NEW tok, NEW family, NEW source, NEW scope, NEW expires,
         Insert(r, a, tok, family, source, scope, expires)
  PROVE  PastKept
<1>1. \A i \in 1..last : i \in Id /\ i # last + 1
  BY BoundsAreNat DEF TypeOK, Id
<1>2. last \in Nat /\ last' = last + 1
  BY BoundsAreNat DEF TypeOK, Insert
<1>3. \A i \in 1..last : rt'[i] = r[i] /\ born'[i] = born[i]
  BY <1>1 DEF Insert, RowsGood, TypeOK
<1>4. QED
  BY <1>1, <1>2, <1>3 DEF PastKept, BornKept, Lessened

\* What an update of a request's memory says of the strings.
LEMMA ContextStrings ==
  ASSUME NEW c \in Context, NEW i, NEW j, NEW m, NEW S
  PROVE  /\ LET d == [c EXCEPT !.row = i, !.cached = j, !.scope = S]
            IN d.tok = c.tok /\ d.prev = c.prev
         /\ LET d == [c EXCEPT !.until = m, !.scope = S]
            IN d.tok = c.tok /\ d.prev = c.prev
         /\ LET d == [c EXCEPT !.prev = i, !.access = m]
            IN d.tok = c.tok /\ d.prev = i /\ d.access = m
         /\ LET d == [c EXCEPT !.access = i, !.refresh = m]
            IN d.tok = c.tok /\ d.access = i /\ d.refresh = m
  BY DEF Context

\* A request finds the first row with its string: without rotation that is the first
\* row of the session, if it is stored, since all rows of a session have one string.
LEMMA ValidateAnswer ==
  ASSUME PairInv, NEW r \in Request, Validate(r)
  PROVE  AnswerOf(r)'
<1> DEFINE rows == WithToken(ctx[r].tok)
           i == First(rows)
           scope == IF rt[i].at = None THEN {} ELSE at[rt[i].at].scope
           admitted == [ctx[r] EXCEPT !.row = i, !.cached = rt[i].at, !.scope = scope]
<1>1. TypeOK /\ UNCHANGED <<rt, last, born>> /\ rows \subseteq Id
  BY DEF PairInv, HistoryInv, RefreshInv, Validate, tables, WithToken, Live
<1>2. phase'[r] \in Carries => phase'[r] = "scope" /\ rows # {} /\ ctx'[r] = admitted
  BY <1>1 DEF Validate, Admit, Refuse, Goto, Remember, TypeOK, Carries
<1>3. phase'[r] \notin {"commit", "respond", "ok"} /\ (phase'[r] \in Early => phase'[r] \in Carries)
      /\ ctx[r].prev = None
  BY <1>1 DEF Validate, Admit, Refuse, Goto, Remember, TypeOK, Early, Carries, PairInv, AnswerInv, AnswerOf
<1>4. ASSUME rows # {} PROVE Presented(admitted) /\ admitted.prev = ctx[r].prev
  <2>1. i \in rows /\ \A j \in rows : i <= j
    BY <1>1, <1>4, FirstIn
  <2> HIDE DEF i, scope
  <2>2. admitted.row = i /\ admitted.tok = ctx[r].tok /\ admitted.prev = ctx[r].prev
    <3>1. ctx[r] \in Context
      BY <1>1 DEF TypeOK
    <3>2. QED
      BY <3>1, ContextRead, ContextStrings
  <2>3. i \in Live /\ rt[i].tok = ctx[r].tok
    BY <2>1 DEF WithToken
  <2>4. i \in 1..last /\ i \in Id /\ born[i].tok = ctx[r].tok
    BY <2>3, LiveIsOld DEF PairInv, HistoryInv, TableInv, RowStrings, Live
  <2>5. ASSUME ~Rotate, rt[born[i].family] # NoRow PROVE i = born[i].family
    <3> DEFINE f == born[i].family
    <3>1. f \in 1..last /\ f <= i /\ born[f].tok = ctx[r].tok
      BY <2>4, <2>5 DEF PairInv, HistoryInv, BirthInv, TableInv, KeptStrings
    <3>2. f \in Id /\ f \in Live
      BY <1>1, <2>5, <3>1, BoundsAreNat DEF TypeOK, Id, Live
    <3>3. f \in rows
      BY <3>1, <3>2 DEF PairInv, TableInv, RowStrings, WithToken, Live
    <3>4. i <= f
      BY <2>1, <3>3
    <3>5. QED
      BY <2>4, <3>1, <3>4
  <2>6. QED
    BY <2>2, <2>4, <2>5 DEF Presented
<1>5. QED
  <2> HIDE DEF rows, admitted
  <2>1. phase'[r] \in Carries => Presented(ctx[r])'
    BY <1>1, <1>2, <1>4 DEF Presented
  <2>2. QED
    BY <1>2, <1>3, <1>4, <2>1 DEF AnswerOf

\* An access token found under the lock was made from the locked token.
LEMMA LockAnswer ==
  ASSUME PairInv, NEW r \in Request, LockToken(r)
  PROVE  AnswerOf(r)'
<1> DEFINE i == ctx[r].row
           a == First(RefreshedFrom(i))
           locked == [ctx[r] EXCEPT !.prev = a, !.access = at[a].tok]
<1>1. /\ TypeOK /\ HistoryInv /\ UNCHANGED <<rt, last, born>> /\ phase[r] = "save"
      /\ i \in 1..last /\ None \notin 1..last /\ Presented(ctx[r])
  BY DEF PairInv, HistoryInv, RefreshInv, LockToken, tables, RequestInv, Carries, Carried, AnswerInv,
     AnswerOf, None
<1>2. phase'[r] \notin {"respond", "ok", "scope", "save", "validate"}
  BY <1>1 DEF LockToken, Refuse, Goto, TypeOK
<1>3. phase'[r] = "commit" =>
        \/ RefreshedFrom(i) = {} /\ ctx'[r] = ctx[r]
        \/ RefreshedFrom(i) # {} /\ ctx'[r] = locked
  BY <1>1 DEF LockToken, Refuse, Goto, Remember, TypeOK
<1>4. locked.row = i /\ locked.tok = ctx[r].tok /\ locked.prev = a /\ locked.access = at[a].tok
  <2> HIDE DEF a
  <2>1. ctx[r] \in Context
    BY <1>1 DEF TypeOK
  <2>2. QED
    BY <2>1, ContextRead, ContextStrings
<1>5. ASSUME RefreshedFrom(i) # {}
      PROVE  a \in 1..last /\ born[a].parent = i /\ (Rotate => at[a].tok = a)
  <2>1. a \in RefreshedFrom(i)
    BY <1>5, FirstIn DEF RefreshedFrom, Stored
  <2> HIDE DEF a
  <2>2. a \in Id /\ at[a] # NoRow /\ at[a].source = i
    BY <2>1 DEF RefreshedFrom, Stored
  <2>3. a \in 1..last
    BY <1>1, <2>2, BoundsAreNat DEF HistoryInv, RefreshInv, UnusedInv, UnusedIn, TypeOK, Id
  <2>4. born[a].parent = i
    BY <1>1, <2>2 DEF HistoryInv, HistoryIn, SourceIn
  <2>5. QED
    BY <2>2, <2>3, <2>4 DEF PairInv, TableInv, RotatedStrings
<1>6. CASE phase'[r] = "commit" /\ RefreshedFrom(i) # {}
  <2> HIDE DEF a, locked
  <2>1. QED
    BY <1>1, <1>3, <1>4, <1>5, <1>6 DEF AnswerOf, Presented, FoundPair, Early
<1>7. CASE phase'[r] = "commit" /\ RefreshedFrom(i) = {}
  <2>1. ctx'[r] = ctx[r]
    BY <1>3, <1>7
  <2>2. ctx[r].prev = None
    BY <1>1 DEF PairInv, AnswerInv, AnswerOf, Early
  <2>3. QED
    BY <1>1, <1>7, <2>1, <2>2 DEF AnswerOf, Presented, FoundPair, Early
<1>8. QED
  BY <1>2, <1>6, <1>7 DEF AnswerOf, Carries, Early

\* An overwritten access token is returned with the presented refresh token.
LEMMA OverwriteAnswer ==
  ASSUME PairInv, NEW r \in Request, OverwriteAccess(r)
  PROVE  AnswerOf(r)'
<1> DEFINE answered == [ctx[r] EXCEPT !.access = fresh + 1, !.refresh = ctx[r].tok]
<1>1. TypeOK /\ ~Rotate
  BY DEF PairInv, HistoryInv, RefreshInv, OverwriteAccess, KeepsToken
<1>2. phase'[r] \in {"respond", "error"} /\ (phase'[r] = "respond" => ctx'[r] = answered)
  BY <1>1 DEF OverwriteAccess, Answer, Refuse, Goto, Remember, TypeOK
<1>3. answered.refresh = answered.tok
  <2>1. ctx[r] \in Context
    BY <1>1 DEF TypeOK
  <2>2. QED
    BY <2>1, ContextStrings
<1>4. QED
  <2> HIDE DEF answered
  <2>1. QED
    BY <1>1, <1>2, <1>3 DEF AnswerOf, Answered, Carries, Early

\* A rotation answers with the pair it inserts.
LEMMA RotateAnswer ==
  ASSUME PairInv, HistoryInv', NEW r \in Request, Rotated(r)
  PROVE  TableInv' /\ AnswerOf(r)' /\ PastKept
<1> DEFINE i == ctx[r].row
           rv == RtAfterRevoke(i)
           av == AtAfterRevoke(i)
           answered == [ctx[r] EXCEPT !.access = fresh + 1, !.refresh = NextToken(r)]
<1>1. /\ HistoryInv /\ RefreshInv /\ TypeOK /\ TableInv
      /\ phase[r] = "commit" /\ ~Taken(i) /\ i \in Live /\ i \in Id
  BY DEF PairInv, HistoryInv, RefreshInv, Rotated, UntakenInv, LockInv, Live
<1>2. Insert(rv, av, NextToken(r), rt[i].family, i, ctx[r].scope, ctx[r].until)
  BY <1>1 DEF Rotated
<1>3. RowsGood(rv, av) /\ Lessened(rv, av)
  BY <1>1, RevokeRows, RevokeLessened
<1>4. /\ i \in 1..last /\ i \in Id \cup {None} /\ rt[i].family = born[i].family
      /\ born[i].family \in 1..last /\ Presented(ctx[r]) /\ NextToken(r) \in Nat
  BY <1>1, LiveIsOld, NextTokenType
     DEF PairInv, HistoryInv, HistoryIn, RowIn, BirthInv, AnswerInv, AnswerOf, Carries, Live
<1>5. av[i] = NoRow
  <2>1. at[i] # NoRow => rt[i].at = i /\ rt[i].at # None
    BY <1>1, BoundsAreNat DEF TableInv, BoundRows, Live, Id, None
  <2>2. at[i] # NoRow => Revocable(i)
    BY <1>1, <2>1 DEF RefreshInv, BoundInv, BoundIn, Live, Revocable, Revoked
  <2>3. QED
    BY <1>1, <2>1, <2>2 DEF AtAfterRevoke, TypeOK
<1>6. ~Rotate => /\ NextToken(r) = born[i].tok
                 /\ rv[rt[i].family] # NoRow => i = rt[i].family
  <2>1. born[i].family \in Id
    BY <1>1, <1>4, BoundsAreNat DEF TypeOK, Id
  <2>2. rv[born[i].family] # NoRow => rt[born[i].family] # NoRow
    BY <1>3, <2>1 DEF Lessened
  <2>3. QED
    BY <1>4, <2>2 DEF Presented, NextToken
<1>7. Rotate => NextToken(r) = fresh + 1
  BY DEF NextToken
<1>8. TableInv'
  <2> HIDE DEF i, rv, av
  <2>1. QED
    BY <1>1, <1>2, <1>3, <1>4, <1>5, <1>6, <1>7, InsertTables
<1>9. PastKept
  <2> HIDE DEF i, rv, av
  <2>1. QED
    BY <1>1, <1>2, <1>3, InsertPast
<1>10. phase'[r] = "respond" /\ ctx'[r] = answered
  BY <1>1 DEF Rotated, Answer, Goto, Remember, TypeOK
<1>11. answered.access = fresh + 1 /\ answered.refresh = NextToken(r) /\ answered.tok = ctx[r].tok
  <2>1. ctx[r] \in Context
    BY <1>1 DEF TypeOK
  <2>2. QED
    BY <2>1, ContextStrings
<1>12. AnswerOf(r)'
  <2> HIDE DEF answered
  <2>1. Rotate => fresh + 1 = last' /\ born'[last'].parent = ctx[r].tok
    <3>1. last + 1 \in Id /\ last' = last + 1 /\ last \in Nat
      BY <1>1, <1>2, BoundsAreNat DEF Insert, TypeOK, Id
    <3>2. born'[last + 1].parent = i
      BY <1>1, <1>2, <3>1 DEF Insert, TypeOK
    <3>3. Rotate => fresh = last /\ ctx[r].tok = i
      BY <1>1, <1>4 DEF Presented, TableInv, RotatedStrings
    <3>4. QED
      BY <3>1, <3>2, <3>3
  <2>2. last' \in 1..last'
    BY <1>1, <1>2, BoundsAreNat DEF Insert, TypeOK
  <2>3. QED
    BY <1>7, <1>10, <1>11, <2>1, <2>2 DEF AnswerOf, Answered, SuccessorOf, NextToken, Carries, Early
<1>13. QED
  BY <1>8, <1>9, <1>12

\* A retry answers with the pair it found: the one refresh token bound to the access token.
LEMMA RepeatAnswer ==
  ASSUME PairInv, NEW r \in Request, Repeated(r)
  PROVE  AnswerOf(r)'
<1> DEFINE i == ctx[r].row
           prev == ctx[r].prev
           pair == BoundTo(prev) \ {i}
           answered == [ctx[r] EXCEPT !.access = ctx[r].access, !.refresh = StoredToken(pair)]
<1>1. /\ TypeOK /\ phase[r] = "commit" /\ prev \in 1..last /\ born[prev].parent = i
      /\ Rotate => ctx[r].access = prev
      /\ Presented(ctx[r]) /\ i # None
  BY DEF PairInv, HistoryInv, RefreshInv, Repeated, AnswerInv, AnswerOf, FoundPair, Carries, RequestInv,
     Carried, None
<1>2. phase'[r] \in {"respond", "error"} /\ (phase'[r] = "respond" => pair # {} /\ ctx'[r] = answered)
  BY <1>1 DEF Repeated, Rollback, Answer, Refuse, Goto, Remember, TypeOK
<1>3. ASSUME pair # {} PROVE StoredToken(pair) = born[prev].tok
  <2>1. First(pair) \in pair
    BY <1>3, FirstIn DEF BoundTo, Live
  <2>2. First(pair) = prev /\ rt[prev] # NoRow /\ prev \in Id
    BY <1>1, <2>1, BoundsAreNat DEF BoundTo, Live, PairInv, HistoryInv, HistoryIn, RowIn, TypeOK, Id, None
  <2>3. QED
    BY <2>2 DEF StoredToken, PairInv, TableInv, RowStrings
<1>4. Rotate => born[prev].tok = prev /\ SuccessorOf(ctx[r].tok, prev)
  BY <1>1 DEF PairInv, TableInv, RotatedStrings, Presented, SuccessorOf, HistoryInv, RequestInv, Carries,
              Carried
<1>5. ~Rotate => born[prev].tok = ctx[r].tok
  BY <1>1 DEF PairInv, TableInv, KeptStrings, Presented
<1>6. answered.access = ctx[r].access /\ answered.refresh = StoredToken(pair) /\ answered.tok = ctx[r].tok
  <2>1. ctx[r] \in Context
    BY <1>1 DEF TypeOK
  <2> HIDE DEF pair
  <2>2. QED
    BY <2>1, ContextStrings
<1>7. QED
  <2> HIDE DEF answered, pair, prev
  <2>1. UNCHANGED <<last, born>>
    BY DEF Repeated, Rollback, tables
  <2>2. QED
    BY <1>1, <1>2, <1>3, <1>4, <1>5, <1>6, <2>1 DEF AnswerOf, Answered, SuccessorOf, Carries, Early

-----------------------------------------------------------------------------
(* The invariant. *)

LEMMA PairInit == Init => PairInv
<1> SUFFICES ASSUME Init PROVE PairInv
  OBVIOUS
<1>1. HistoryInv
  BY HistoryInit
<1>2. 1..last = {} /\ fresh = last
  BY DEF Init
<1>3. TableInv
  BY <1>2 DEF Init, TableInv, RowStrings, RotatedStrings, KeptStrings, BoundRows, FirstIsParent
<1>4. AnswerInv
  BY DEF Init, AnswerInv, AnswerOf, Early, Carries
<1>5. QED
  BY <1>1, <1>3, <1>4 DEF PairInv

\* A step that only takes rows away, and disturbs no request, keeps the invariant.
LEMMA LessenedStep ==
  ASSUME PairInv, HistoryInv', Lessened(rt', at'), UNCHANGED <<last, born>>, Rotate => fresh' = fresh,
         \A q \in Request : Undisturbed(q) \/ AnswerOf(q)'
  PROVE  PairInv'
<1>1. HistoryInv /\ RefreshInv /\ TypeOK /\ BirthInv /\ TableInv /\ \A q \in Request : AnswerOf(q)
  BY DEF PairInv, HistoryInv, RefreshInv, AnswerInv
<1>2. TableInv'
  BY <1>1, LessenedTables
<1>3. PastKept
  BY <1>1, LessenedPast
<1>4. \A q \in Request : AnswerOf(q)'
  BY <1>1, <1>3, UndisturbedAnswer
<1>5. AnswerInv'
  BY <1>4 DEF AnswerInv
<1>6. QED
  BY <1>2, <1>5 DEF PairInv

\* A request that is left alone is not disturbed.
LEMMA AloneUndisturbed ==
  ASSUME NEW q \in Request, phase'[q] = phase[q], ctx'[q] = ctx[q]
  PROVE  Undisturbed(q)
  BY DEF Undisturbed

\* Every step keeps the invariant.
LEMMA PairStep == PairInv /\ [Next]_vars => PairInv'
<1> SUFFICES ASSUME PairInv, [Next]_vars PROVE PairInv'
  OBVIOUS
<1> USE DEF tables
<1>0. HistoryInv /\ HistoryInv' /\ TypeOK /\ TableInv /\ AnswerInv
  BY HistoryStep DEF PairInv, HistoryInv, RefreshInv
<1>1. CASE StartSession
  <2>1. Insert(rt, at, fresh + 1, last + 1, None, Scope, now + TokenLifetime)
    BY <1>1 DEF StartSession
  <2>2. /\ RowsGood(rt, at) /\ Lessened(rt, at) /\ None \in Id \cup {None} /\ fresh + 1 \in Nat
    BY <1>0 DEF HistoryInv, RefreshInv, UnusedInv, BoundInv, RowsGood, TypeOK, Lessened
  <2>3. TableInv'
    BY <1>0, <2>1, <2>2, InsertTables
  <2>4. PastKept
    BY <1>0, <2>1, <2>2, InsertPast
  <2>5. \A q \in Request : AnswerOf(q)'
    BY <1>0, <1>1, <2>4, AloneUndisturbed, UndisturbedAnswer DEF StartSession, AnswerInv
  <2>6. QED
    BY <1>0, <2>3, <2>5 DEF PairInv, AnswerInv
<1>2. CASE ListOutdated
  BY <1>0, <1>2, SameLessened, AloneUndisturbed, LessenedStep DEF ListOutdated
<1>3. CASE DeleteSwept
  BY <1>0, <1>3, SweepLessened, AloneUndisturbed, LessenedStep DEF DeleteSwept
<1>4. CASE Tick
  BY <1>0, <1>4, SameLessened, AloneUndisturbed, LessenedStep DEF Tick
<1>5. ASSUME NEW i \in Id, RevokeToken(i) PROVE PairInv'
  BY <1>0, <1>5, RevokeLessened, AloneUndisturbed, LessenedStep DEF RevokeToken
<1>6. ASSUME NEW a \in Id, DeleteAccess(a) PROVE PairInv'
  BY <1>0, <1>6, DeleteLessened, AloneUndisturbed, LessenedStep DEF DeleteAccess
<1>7. ASSUME NEW r \in Request, Arrive(r) PROVE PairInv'
  <2>1. \A q \in Request : q # r => phase'[q] = phase[q] /\ ctx'[q] = ctx[q]
    BY <1>0, <1>7 DEF Arrive, Remember, Goto, TypeOK
  <2>2. phase'[r] = "validate" /\ ctx'[r].prev = None
    BY <1>0, <1>7 DEF Arrive, Remember, Goto, TypeOK, Blank
  <2>3. AnswerOf(r)'
    BY <2>2 DEF AnswerOf, Carries
  <2>4. QED
    BY <1>0, <1>7, <2>1, <2>3, SameLessened, AloneUndisturbed, LessenedStep DEF Arrive
<1>8. ASSUME NEW r \in Request, Validate(r) PROVE PairInv'
  <2>1. \A q \in Request : q # r => phase'[q] = phase[q] /\ ctx'[q] = ctx[q]
    BY <1>0, <1>8 DEF Validate, Admit, Refuse, Remember, Goto, TypeOK
  <2>2. UNCHANGED <<rt, at, last, fresh, born>>
    BY <1>8 DEF Validate
  <2>3. QED
    BY <1>0, <1>8, <2>1, <2>2, ValidateAnswer, SameLessened, AloneUndisturbed, LessenedStep
<1>9. ASSUME NEW r \in Request, ListFamily(r) \/ RevokeMember(r) \/ EndReuse(r) PROVE PairInv'
  <2>1. \A q \in Request : Undisturbed(q)
    BY <1>0, <1>9
       DEF ListFamily, RevokeMember, EndReuse, Remember, Goto, TypeOK, Undisturbed, Early, Carries
  <2>2. Lessened(rt', at') /\ UNCHANGED <<last, fresh, born>>
    <3>1. CASE ListFamily(r) \/ EndReuse(r)
      BY <3>1, SameLessened DEF ListFamily, EndReuse
    <3>2. CASE RevokeMember(r)
      <4>1. PICK j \in ctx[r].todo : /\ rt' = IF j \in Live THEN RtAfterRevoke(j) ELSE rt
                                     /\ at' = IF j \in Live THEN AtAfterRevoke(j) ELSE at
        BY <3>2 DEF RevokeMember
      <4>2. QED
        BY <1>0, <3>2, <4>1, RevokeLessened, SameLessened DEF RevokeMember
    <3>3. QED
      BY <1>9, <3>1, <3>2
  <2>3. QED
    BY <1>0, <2>1, <2>2, LessenedStep
<1>10. ASSUME NEW r \in Request, CheckScope(r) PROVE PairInv'
  <2> DEFINE scope == IF ctx[r].want = {} THEN OriginalScope(r) ELSE ctx[r].want
             checked == [ctx[r] EXCEPT !.until = now + TokenLifetime, !.scope = scope]
  <2>1. \A q \in Request : q # r => phase'[q] = phase[q] /\ ctx'[q] = ctx[q]
    BY <1>0, <1>10 DEF CheckScope, Refuse, Remember, Goto, TypeOK
  <2>2. /\ phase[r] = "scope" /\ phase'[r] \in {"save", "invalid_scope"}
        /\ phase'[r] = "save" => ctx'[r] = checked
    BY <1>0, <1>10 DEF CheckScope, Refuse, Remember, Goto, TypeOK
  <2>3. checked.row = ctx[r].row /\ checked.tok = ctx[r].tok /\ checked.prev = ctx[r].prev
    <3> HIDE DEF scope
    <3>1. ctx[r] \in Context
      BY <1>0 DEF TypeOK
    <3>2. QED
      BY <3>1, ContextRead, ContextStrings
  <2>4. Undisturbed(r)
    <3> HIDE DEF checked
    <3>1. QED
      BY <2>2, <2>3 DEF Undisturbed, Early, Carries
  <2>5. UNCHANGED <<rt, at, last, fresh, born>>
    BY <1>10 DEF CheckScope
  <2>6. QED
    BY <1>0, <2>1, <2>4, <2>5, SameLessened, AloneUndisturbed, LessenedStep
<1>11. ASSUME NEW r \in Request, OverwriteAccess(r) PROVE PairInv'
  <2>1. \A q \in Request : q # r => phase'[q] = phase[q] /\ ctx'[q] = ctx[q]
    BY <1>0, <1>11 DEF OverwriteAccess, Answer, Refuse, Remember, Goto, TypeOK
  <2>2. QED
    BY <1>0, <1>11, <2>1, OverwriteLessened, OverwriteAnswer, AloneUndisturbed, LessenedStep
<1>12. ASSUME NEW r \in Request, LockToken(r) PROVE PairInv'
  <2>1. \A q \in Request : q # r => phase'[q] = phase[q] /\ ctx'[q] = ctx[q]
    BY <1>0, <1>12 DEF LockToken, Refuse, Remember, Goto, TypeOK
  <2>2. UNCHANGED <<rt, at, last, fresh, born>>
    BY <1>12 DEF LockToken
  <2>3. QED
    BY <1>0, <1>12, <2>1, <2>2, LockAnswer, SameLessened, AloneUndisturbed, LessenedStep
<1>13. ASSUME NEW r \in Request, Rotated(r) PROVE PairInv'
  <2>1. \A q \in Request : q # r => phase'[q] = phase[q] /\ ctx'[q] = ctx[q]
    BY <1>0, <1>13 DEF Rotated, Answer, Rollback, Refuse, Remember, Goto, TypeOK
  <2>2. TableInv' /\ AnswerOf(r)' /\ PastKept
    BY <1>0, <1>13, RotateAnswer
  <2>3. \A q \in Request : AnswerOf(q)'
    BY <1>0, <2>1, <2>2, AloneUndisturbed, UndisturbedAnswer DEF AnswerInv
  <2>4. QED
    BY <1>0, <2>2, <2>3 DEF PairInv, AnswerInv
<1>14. ASSUME NEW r \in Request, Repeated(r) PROVE PairInv'
  <2>1. \A q \in Request : q # r => phase'[q] = phase[q] /\ ctx'[q] = ctx[q]
    BY <1>0, <1>14 DEF Repeated, Answer, Rollback, Refuse, Remember, Goto, TypeOK
  <2>2. ctx[r].row \in Live
    BY <1>0, <1>14 DEF Repeated, HistoryInv, RefreshInv, LockInv
  <2>3. Lessened(rt', at') /\ UNCHANGED <<last, fresh, born>>
    BY <1>0, <1>14, <2>2, RevokeLessened, SameLessened DEF Repeated, Rollback
  <2>4. QED
    BY <1>0, <1>14, <2>1, <2>3, RepeatAnswer, AloneUndisturbed, LessenedStep
<1>15. ASSUME NEW r \in Request, Respond(r) \/ Crash(r) PROVE PairInv'
  <2>1. \A q \in Request : Undisturbed(q)
    BY <1>0, <1>15
       DEF Respond, Crash, Refuse, Remember, Goto, TypeOK, Undisturbed, Early, Carries
  <2>2. UNCHANGED <<rt, at, last, fresh, born>>
    BY <1>15 DEF Respond, Crash
  <2>3. QED
    BY <1>0, <2>1, <2>2, SameLessened, LessenedStep
<1>16. CASE UNCHANGED vars
  BY <1>0, <1>16, SameLessened, AloneUndisturbed, LessenedStep DEF vars
<1>17. QED
  BY <1>1, <1>2, <1>3, <1>4, <1>5, <1>6, <1>7, <1>8, <1>9, <1>10, <1>11, <1>12, <1>13, <1>14, <1>15,
     <1>16 DEF Next, Serve

\* Every reachable state satisfies the invariant.
THEOREM PairCorrect == Spec => []PairInv
<1>1. QED
  BY PairInit, PairStep, PTL DEF Spec

-----------------------------------------------------------------------------
(* The theorems. *)

\* With rotation, the two tokens of an answer were inserted together, also when the
\* answer of a retry repeats an earlier one.
THEOREM AnswersPair ==
  ASSUME Rotate
  PROVE  Spec => []AnswerIsAPair
<1>1. PairInv => AnswerIsAPair
  BY DEF PairInv, AnswerInv, AnswerOf, Answered, AnswerIsAPair
<1>2. QED
  BY <1>1, PairCorrect, PTL

\* Without rotation, every answer returns the refresh token that was presented, also when
\* a new row was inserted for it.
THEOREM KeepsString ==
  ASSUME ~Rotate
  PROVE  Spec => []KeptTokenReturned
<1>1. PairInv => KeptTokenReturned
  BY DEF PairInv, AnswerInv, AnswerOf, Answered, KeptTokenReturned
<1>2. QED
  BY <1>1, PairCorrect, PTL

\* Without rotation, a session has one access token for as long as its first refresh
\* token is stored: all its requests find that row, and its successors share it.
THEOREM OneAccess ==
  ASSUME ~Rotate
  PROVE  Spec => []OneAccessPerSession
<1>1. PairInv => OneAccessPerSession
  <2> SUFFICES ASSUME PairInv, NEW a \in Stored, NEW b \in Stored,
                      born[a].family = born[b].family, born[a].family \in Live
               PROVE  a = b
    BY DEF OneAccessPerSession
  <2> DEFINE f == born[a].family
  <2>1. /\ a \in Id /\ b \in Id /\ at[a] # NoRow /\ at[b] # NoRow /\ f \in Id /\ rt[f] # NoRow
        /\ f # None
    BY BoundsAreNat DEF Stored, Live, Id, None
  <2>2. (a = f \/ born[a].parent = f) /\ (b = f \/ born[b].parent = f)
    BY <2>1 DEF PairInv, TableInv, FirstIsParent
  <2>3. born[a].parent = f \/ born[b].parent = f => at[f] = NoRow
    BY <2>1 DEF PairInv, TableInv, BoundRows
  <2>4. born[a].parent = f /\ born[b].parent = f => a = b
    BY <2>1 DEF PairInv, HistoryInv, HistoryIn, SiblingIn
  <2>5. QED
    BY <2>1, <2>2, <2>3, <2>4
<1>2. QED
  BY <1>1, PairCorrect, PTL

-----------------------------------------------------------------------------
(* The refinement: with rotation, the refresh flow implements TokenChain. *)

\* A request that did not arrive has presented nothing, and no request becomes idle.
IdleInv == \A q \in Request : phase[q] = "idle" => ctx[q] = Blank

LEMMA IdleStep == TypeOK /\ IdleInv /\ [Next]_vars => IdleInv'
<1> SUFFICES ASSUME TypeOK, IdleInv, [Next]_vars PROVE IdleInv'
  OBVIOUS
<1>1. UNCHANGED <<phase, ctx>> => IdleInv'
  BY DEF IdleInv
<1>2. StartSession \/ ListOutdated \/ DeleteSwept \/ Tick \/ UNCHANGED vars => IdleInv'
  BY <1>1 DEF StartSession, ListOutdated, DeleteSwept, Tick, vars
<1>3. ASSUME NEW i \in Id, RevokeToken(i) \/ DeleteAccess(i) PROVE IdleInv'
  BY <1>1, <1>3 DEF RevokeToken, DeleteAccess
<1>4. ASSUME NEW r \in Request, Arrive(r) \/ Serve(r) \/ Crash(r) PROVE IdleInv'
  <2>1. phase'[r] # "idle" /\ \A q \in Request : q # r => phase'[q] = phase[q] /\ ctx'[q] = ctx[q]
    <3>1. CASE Arrive(r) \/ Validate(r) \/ ListFamily(r) \/ RevokeMember(r) \/ EndReuse(r) \/ CheckScope(r)
      BY <3>1 DEF Arrive, Validate, Admit, ListFamily, RevokeMember, EndReuse, CheckScope, Refuse,
                  Remember, Goto, TypeOK
    <3>2. CASE OverwriteAccess(r) \/ LockToken(r) \/ Rotated(r) \/ Repeated(r) \/ Respond(r) \/ Crash(r)
      BY <3>2 DEF OverwriteAccess, LockToken, Rotated, Repeated, Respond, Crash, Rollback, Answer, Refuse,
                  Remember, Goto, TypeOK
    <3>3. QED
      BY <1>4, <3>1, <3>2 DEF Serve
  <2>2. QED
    BY <2>1 DEF IdleInv
<1>5. QED
  BY <1>2, <1>3, <1>4 DEF Next

\* The two tables are empty, and nobody has presented a token.
LEMMA ChainInit == Init => Chain!Init
<1> SUFFICES ASSUME Init PROVE Chain!Init
  OBVIOUS
<1>1. 1..last = {} /\ Stored = {}
  BY DEF Init, Stored
<1>2. \A i \in Id : born[i].parent = None
  BY DEF Init, Unborn
<1>3. \A r \in Request : ctx[r].tok = None /\ phase[r] # "ok"
  BY DEF Init, Blank, None
<1>4. QED
  BY <1>1, <1>2, <1>3 DEF Chain!Init

\* What clients see of a request stays as it is.
Unseen(q) ==
  /\ ctx'[q].tok = ctx[q].tok
  /\ phase'[q] = "ok" <=> phase[q] = "ok"
  /\ phase[q] = "ok" => ctx'[q].access = ctx[q].access /\ ctx'[q].refresh = ctx[q].refresh

\* A step that clients do not see, and that only deletes access tokens, withdraws them.
LEMMA ChainWithdraw ==
  ASSUME \A q \in Request : Unseen(q), Lessened(rt', at'), UNCHANGED <<last, born>>
  PROVE  Chain!Next
<1>1. Stored' = Stored \ (Stored \ Stored') /\ Stored \ Stored' \in SUBSET Id
  BY DEF Stored, Lessened
<1>2. Chain!Withdraw(Stored \ Stored')
  BY <1>1 DEF Unseen, Chain!Withdraw
<1>3. QED
  BY <1>1, <1>2 DEF Chain!Next

\* A request that is refused, or killed, has presented nothing.
LEMMA ChainRefuse ==
  ASSUME TypeOK, NEW r \in Request, phase[r] # "ok", NEW why \in Phase \ {"ok"}, Refuse(r, why),
         UNCHANGED <<at, last, born>>
  PROVE  Chain!Next
<1>1. \A q \in Request : q # r => phase'[q] = phase[q] /\ ctx'[q] = ctx[q]
  BY DEF Refuse, Goto, Remember, TypeOK
<1>2. phase'[r] # "ok" /\ ctx'[r].tok = None
  BY DEF Refuse, Goto, Remember, TypeOK, Blank, None
<1>3. UNCHANGED Stored
  BY DEF Stored
<1>4. Chain!Refuse(r)
  BY <1>1, <1>2, <1>3 DEF Chain!Refuse
<1>5. QED
  BY <1>4 DEF Chain!Next

\* A grant of another kind starts a chain.
LEMMA ChainStart == PairInv /\ StartSession => Chain!Next
<1> SUFFICES ASSUME PairInv, StartSession PROVE Chain!Next
  OBVIOUS
<1>0. PICK n \in Id : n = last + 1
  BY BoundsAreNat DEF PairInv, HistoryInv, RefreshInv, TypeOK, StartSession, Insert, Id
<1>1. /\ TypeOK /\ n \notin 1..last /\ 1..last' = 1..last \cup {n}
      /\ UNCHANGED <<phase, ctx>>
  BY <1>0, BoundsAreNat DEF PairInv, HistoryInv, RefreshInv, TypeOK, StartSession, Insert, Id
<1>2. /\ at' = [at EXCEPT ![n] = NewAccess(fresh + 1, None, Scope, now + TokenLifetime)]
      /\ born' = [born EXCEPT ![n] =
           [parent |-> None, family |-> n, tok |-> fresh + 1, scope |-> Scope]]
  BY <1>0 DEF StartSession, Insert
<1>3. NewAccess(fresh + 1, None, Scope, now + TokenLifetime) # NoRow
  <2>1. NewAccess(fresh + 1, None, Scope, now + TokenLifetime) \in AccessRow
    BY <1>1, BoundsAreNat DEF NewAccess, AccessRow, TypeOK
  <2>2. QED
    BY <2>1, NoRowIsNoRow
<1>4. Stored' = Stored \cup {n}
  BY <1>1, <1>2, <1>3 DEF Stored, TypeOK
<1>5. [i \in Id |-> born'[i].parent] = [[i \in Id |-> born[i].parent] EXCEPT ![n] = None]
  BY <1>1, <1>2 DEF TypeOK
<1>6. Chain!Start(n)
  BY <1>1, <1>4, <1>5 DEF Chain!Start
<1>7. QED
  BY <1>6 DEF Chain!Next

\* Clients present tokens that were issued: the first of a session, or one of an answer.
LEMMA ChainPresent ==
  ASSUME Rotate, PairInv, IdleInv, NEW r \in Request, Arrive(r)
  PROVE  Chain!Next
<1>1. TypeOK /\ UNCHANGED <<at, last, born>> /\ phase[r] = "idle"
  BY DEF PairInv, HistoryInv, RefreshInv, Arrive, tables
<1>2. PICK tok \in Known, want \in SUBSET Scope, own \in BOOLEAN :
        Remember(r, [Blank EXCEPT !.tok = tok, !.want = want, !.own = own])
  BY DEF Arrive
<1>3. tok \in 1..last
  BY DEF Known, Roots, PairInv, TableInv, RotatedStrings, AnswerInv, AnswerOf, Answered, SuccessorOf
<1>4. \A q \in Request : q # r => phase'[q] = phase[q] /\ ctx'[q] = ctx[q]
  BY <1>1 DEF Arrive, Remember, Goto, TypeOK
<1>5. phase'[r] = "validate" /\ ctx'[r].tok = tok
  BY <1>1, <1>2 DEF Arrive, Remember, Goto, TypeOK, Blank
<1>6. ctx[r].tok = None
  BY <1>1 DEF IdleInv, Blank, None
<1>7. UNCHANGED Stored
  BY <1>1 DEF Stored
<1>8. Chain!Present(r, tok)
  BY <1>1, <1>3, <1>4, <1>5, <1>6, <1>7 DEF Chain!Present
<1>9. tok \in Id
  BY <1>1, <1>3, BoundsAreNat DEF TypeOK, Id
<1>10. QED
  BY <1>8, <1>9 DEF Chain!Next

\* A rotation exchanges the presented token, which had no live successor.
LEMMA ChainExchange ==
  ASSUME Rotate, PairInv, NEW r \in Request, Rotated(r)
  PROVE  Chain!Next
<1> DEFINE i == ctx[r].row
           av == AtAfterRevoke(i)
<1>1. /\ TypeOK /\ phase[r] = "commit" /\ ~Taken(i) /\ i \in Live /\ i \in Id /\ i \in 1..last
      /\ ctx[r].tok = i /\ i # None
  <2>1. i \in 1..last /\ phase[r] = "commit" /\ born[i].tok = ctx[r].tok
    BY DEF Rotated, PairInv, HistoryInv, RequestInv, Carries, Carried, AnswerInv, AnswerOf, Presented
  <2>2. QED
    BY <2>1, BoundsAreNat
       DEF PairInv, HistoryInv, RefreshInv, Rotated, UntakenInv, LockInv, Live, TableInv, RotatedStrings,
           Id, None
<1>2. Insert(RtAfterRevoke(i), av, NextToken(r), rt[i].family, i, ctx[r].scope, ctx[r].until)
  BY <1>1 DEF Rotated
<1>n. PICK n \in Id : n = last + 1
  BY <1>1, <1>2, BoundsAreNat DEF Insert, TypeOK, Id
<1>3. n \notin 1..last /\ 1..last' = 1..last \cup {n}
  BY <1>1, <1>2, <1>n, BoundsAreNat DEF Insert, TypeOK
<1>4. \A a \in Stored : born[a].parent # i
  <2> SUFFICES ASSUME NEW a \in Id, at[a] # NoRow, born[a].parent = i PROVE FALSE
    BY DEF Stored
  <2>1. at[a].source = i
    BY <1>1 DEF PairInv, HistoryInv, HistoryIn, SourceIn, Live
  <2>2. QED
    BY <1>1, <2>1 DEF Taken, Stored
<1>5. Stored' = (Stored \ {i}) \cup {n}
  <2> DEFINE access == NewAccess(fresh + 1, i, ctx[r].scope, ctx[r].until)
  <2>1. at' = [av EXCEPT ![n] = access] /\ av \in [Id -> AccessRow \cup {NoRow}]
    BY <1>1, <1>2, <1>n, RevokeType DEF Insert
  <2>2. access # NoRow
    <3>1. access \in AccessRow
      BY <1>1 DEF NewAccess, AccessRow, TypeOK, Context
    <3>2. QED
      BY <3>1, NoRowIsNoRow
  <2>3. at[i] # NoRow => rt[i].at = i /\ rt[i].at # None /\ Revocable(i)
    BY <1>1 DEF PairInv, TableInv, BoundRows, HistoryInv, RefreshInv, BoundInv, BoundIn, Live, Revocable,
                Revoked
  <2>4. \A a \in Id : av[a] = IF a = i THEN NoRow ELSE at[a]
    <3>1. rt[i].at \in {None, i}
      BY <1>1 DEF PairInv, HistoryInv, HistoryIn, RowIn, Live
    <3>2. QED
      BY <1>1, <2>3, <3>1 DEF AtAfterRevoke, TypeOK
  <2>5. QED
    <3> HIDE DEF access, av
    <3>1. QED
      BY <1>1, <1>3, <2>1, <2>2, <2>4 DEF Stored
<1>6. [j \in Id |-> born'[j].parent] = [[j \in Id |-> born[j].parent] EXCEPT ![n] = i]
  BY <1>1, <1>2, <1>n DEF Insert, TypeOK
<1>7. \A q \in Request : Unseen(q)
  <2>1. \A q \in Request : q # r => phase'[q] = phase[q] /\ ctx'[q] = ctx[q]
    BY <1>1 DEF Rotated, Answer, Goto, Remember, TypeOK
  <2>2. phase'[r] = "respond" /\ ctx'[r] = [ctx[r] EXCEPT !.access = fresh + 1, !.refresh = NextToken(r)]
    BY <1>1 DEF Rotated, Answer, Goto, Remember, TypeOK
  <2>3. ctx'[r].tok = ctx[r].tok
    BY <1>1, <2>2 DEF TypeOK, Context
  <2>4. QED
    BY <1>1, <2>1, <2>2, <2>3 DEF Unseen
<1>8. Chain!Exchange(r, n)
  <2> DEFINE shown == [q \in Request |-> ctx[q].tok]
             given == [q \in Request |-> IF phase[q] = "ok" THEN <<ctx[q].access, ctx[q].refresh>> ELSE <<None, None>>]
  <2>1. shown[r] = i /\ shown' = shown /\ given' = given
    BY <1>1, <1>7 DEF Unseen
  <2>2. UNCHANGED <<shown, given>>
    BY <2>1
  <2> HIDE DEF i, shown, given
  <2>3. {q \in 1..last : [j \in Id |-> born[j].parent][q] = shown[r]} \cap Stored = {}
    BY <1>4, <2>1 DEF Stored
  <2>4. shown[r] # None /\ n \in Id \ 1..last /\ 1..last' = 1..last \cup {n}
    BY <1>1, <1>3, <2>1
  <2>5. Stored' = (Stored \ {shown[r]}) \cup {n}
    BY <1>5, <2>1
  <2>6. [j \in Id |-> born'[j].parent] = [[j \in Id |-> born[j].parent] EXCEPT ![n] = shown[r]]
    BY <1>6, <2>1
  <2>7. QED
    BY <2>2, <2>3, <2>4, <2>5, <2>6 DEF Chain!Exchange, Chain!Successors, shown, given
<1>9. QED
  BY <1>8 DEF Chain!Next

\* A request is answered with a live successor of its token.
LEMMA ChainAnswer ==
  ASSUME Rotate, PairInv, NEW r \in Request, Respond(r)
  PROVE  Chain!Next
<1>1. TypeOK /\ UNCHANGED <<at, last, born>> /\ phase[r] = "respond"
  BY DEF PairInv, HistoryInv, RefreshInv, Respond, tables
<1>2. CASE \E a \in Stored : at[a].tok = ctx[r].access
  <2>0. ctx[r].refresh \in 1..last /\ born[ctx[r].refresh].parent = ctx[r].tok /\ ctx[r].access = ctx[r].refresh
    BY <1>1 DEF PairInv, AnswerInv, AnswerOf, Answered, SuccessorOf
  <2>1. PICK q \in Id : q = ctx[r].refresh
    BY <1>1, <2>0, BoundsAreNat DEF TypeOK, Id
  <2>2. q \in Stored
    BY <1>2, <2>0, <2>1 DEF PairInv, TableInv, RotatedStrings, Stored
  <2>3. UNCHANGED <<ctx, Stored>> /\ phase' = [phase EXCEPT ![r] = "ok"]
    BY <1>1, <1>2 DEF Respond, Refuse, Goto, Stored
  <2>4. \A p \in Request : phase'[p] = "ok" <=> phase[p] = "ok" \/ p = r
    BY <1>1, <2>3 DEF TypeOK
  <2>5. Chain!Answer(r, q)
    BY <1>1, <2>0, <2>1, <2>2, <2>3, <2>4 DEF Chain!Answer, Chain!Successors
  <2>6. QED
    BY <2>5 DEF Chain!Next
<1>3. CASE ~\E a \in Stored : at[a].tok = ctx[r].access
  BY <1>1, <1>3, ChainRefuse DEF Respond, Phase, Refusals
<1>4. QED
  BY <1>2, <1>3

\* Every step of the flow is a step of the chains, or changes nothing of them.
LEMMA ChainStep ==
  ASSUME Rotate, PairInv, IdleInv, [Next]_vars
  PROVE  [Chain!Next]_(Chain!vars)
<1> SUFFICES Chain!Next
  OBVIOUS
<1> USE DEF tables
<1>0. TypeOK /\ HistoryInv /\ (UNCHANGED <<phase, ctx>> => \A q \in Request : Unseen(q))
  BY DEF PairInv, HistoryInv, RefreshInv, Unseen
<1>1. ListOutdated \/ Tick \/ UNCHANGED vars => Chain!Next
  BY <1>0, SameLessened, ChainWithdraw DEF ListOutdated, Tick, vars
<1>2. DeleteSwept => Chain!Next
  BY <1>0, SweepLessened, ChainWithdraw DEF DeleteSwept
<1>3. ASSUME NEW i \in Id, RevokeToken(i) PROVE Chain!Next
  BY <1>0, <1>3, RevokeLessened, ChainWithdraw DEF RevokeToken
<1>4. ASSUME NEW a \in Id, DeleteAccess(a) PROVE Chain!Next
  BY <1>0, <1>4, DeleteLessened, ChainWithdraw DEF DeleteAccess
<1>5. ASSUME NEW r \in Request, \A q \in Request : q # r => phase'[q] = phase[q] /\ ctx'[q] = ctx[q],
             phase[r] # "ok", phase'[r] # "ok", ctx'[r].tok = ctx[r].tok,
             Lessened(rt', at'), UNCHANGED <<last, born>>
      PROVE  Chain!Next
  <2>1. \A q \in Request : Unseen(q)
    BY <1>5 DEF Unseen
  <2>2. QED
    BY <1>5, <2>1, ChainWithdraw
<1>6. ASSUME NEW r \in Request,
             \E why \in Refusals \cup {"lost"} : phase[r] # "ok" /\ Refuse(r, why) /\ UNCHANGED <<at, last, born>>
      PROVE  Chain!Next
  BY <1>0, <1>6, ChainRefuse DEF Phase, Refusals
<1>7. ASSUME NEW r \in Request, Validate(r) PROVE Chain!Next
  <2> DEFINE i == First(WithToken(ctx[r].tok))
             scope == IF rt[i].at = None THEN {} ELSE at[rt[i].at].scope
             admitted == [ctx[r] EXCEPT !.row = i, !.cached = rt[i].at, !.scope = scope]
             found == [ctx[r] EXCEPT !.row = i]
  <2>1. phase[r] = "validate" /\ UNCHANGED <<rt, at, last, born>>
    BY <1>7 DEF Validate
  <2>2. \/ Refuse(r, "invalid_grant")
        \/ Goto(r, "scope") /\ Remember(r, admitted)
        \/ Goto(r, "list") /\ Remember(r, found)
    BY <1>7 DEF Validate, Admit
  <2>3. admitted.tok = ctx[r].tok /\ found.tok = ctx[r].tok
    <3> HIDE DEF i, scope
    <3>1. ctx[r] \in Context
      BY <1>0 DEF TypeOK
    <3>2. QED
      BY <3>1 DEF Context
  <2> HIDE DEF admitted, found
  <2>4. ASSUME NEW p \in {"scope", "list"}, NEW c \in {admitted, found}, Goto(r, p), Remember(r, c)
        PROVE  Chain!Next
    <3>1. /\ \A q \in Request : q # r => phase'[q] = phase[q] /\ ctx'[q] = ctx[q]
          /\ phase'[r] = p /\ ctx'[r] = c
      BY <1>0, <2>4 DEF Goto, Remember, TypeOK
    <3>2. QED
      BY <1>5, <2>1, <2>3, <3>1, SameLessened
  <2>5. QED
    BY <1>6, <2>1, <2>2, <2>4 DEF Refusals
<1>8. ASSUME NEW r \in Request, ListFamily(r) \/ RevokeMember(r) \/ EndReuse(r) PROVE Chain!Next
  <2>1. \A q \in Request : q # r => phase'[q] = phase[q] /\ ctx'[q] = ctx[q]
    BY <1>0, <1>8 DEF ListFamily, RevokeMember, EndReuse, Remember, Goto, TypeOK
  <2>2. phase[r] # "ok" /\ phase'[r] # "ok"
    BY <1>0, <1>8 DEF ListFamily, RevokeMember, EndReuse, Goto, TypeOK
  <2>3. ctx'[r].tok = ctx[r].tok
    <3>1. ctx[r] \in Context
      BY <1>0 DEF TypeOK
    <3>2. CASE ListFamily(r)
      <4>1. ctx'[r] = [ctx[r] EXCEPT !.todo = Family(ctx[r].row), !.upto = last]
        BY <1>0, <3>2 DEF ListFamily, Remember, TypeOK
      <4>2. QED
        BY <3>1, <4>1 DEF Context
    <3>3. CASE RevokeMember(r)
      <4>1. PICK j \in ctx[r].todo : ctx'[r] = [ctx[r] EXCEPT !.todo = ctx[r].todo \ {j}]
        BY <1>0, <3>3 DEF RevokeMember, Remember, TypeOK
      <4>2. QED
        BY <3>1, <4>1 DEF Context
    <3>4. CASE EndReuse(r)
      BY <3>4 DEF EndReuse
    <3>5. QED
      BY <1>8, <3>2, <3>3, <3>4
  <2>4. Lessened(rt', at') /\ UNCHANGED <<last, born>>
    <3>1. CASE ListFamily(r) \/ EndReuse(r)
      BY <3>1, SameLessened DEF ListFamily, EndReuse
    <3>2. CASE RevokeMember(r)
      <4>1. PICK j \in ctx[r].todo : /\ rt' = IF j \in Live THEN RtAfterRevoke(j) ELSE rt
                                     /\ at' = IF j \in Live THEN AtAfterRevoke(j) ELSE at
        BY <3>2 DEF RevokeMember
      <4>2. QED
        BY <1>0, <3>2, <4>1, RevokeLessened, SameLessened DEF RevokeMember
    <3>3. QED
      BY <1>8, <3>1, <3>2
  <2>5. QED
    BY <1>5, <2>1, <2>2, <2>3, <2>4
<1>9. ASSUME NEW r \in Request, CheckScope(r) PROVE Chain!Next
  <2> DEFINE scope == IF ctx[r].want = {} THEN OriginalScope(r) ELSE ctx[r].want
             checked == [ctx[r] EXCEPT !.until = now + TokenLifetime, !.scope = scope]
  <2>1. phase[r] = "scope" /\ UNCHANGED <<rt, at, last, born>>
    BY <1>9 DEF CheckScope
  <2>2. CASE Refuse(r, "invalid_scope")
    BY <1>6, <2>1, <2>2 DEF Refusals
  <2>3. CASE ctx[r].want \subseteq OriginalScope(r)
    <3>1. ctx[r].want \subseteq OriginalScope(r) /\ TypeOK
      BY <1>0, <2>3
    <3>2. /\ \A q \in Request : q # r => phase'[q] = phase[q] /\ ctx'[q] = ctx[q]
          /\ phase'[r] = "save" /\ ctx'[r] = checked
      BY <1>9, <3>1 DEF CheckScope, Goto, Remember, TypeOK
    <3>3. checked.tok = ctx[r].tok
      <4> HIDE DEF scope
      <4>1. QED
        BY <3>1 DEF TypeOK, Context
    <3>4. QED
      <4> HIDE DEF checked
      <4>1. QED
        BY <1>5, <2>1, <3>2, <3>3, SameLessened
  <2>4. QED
    BY <1>9, <2>2, <2>3 DEF CheckScope
<1>10. ASSUME NEW r \in Request, LockToken(r) PROVE Chain!Next
  <2> DEFINE a == First(RefreshedFrom(ctx[r].row))
             locked == [ctx[r] EXCEPT !.prev = a, !.access = at[a].tok]
  <2>1. phase[r] = "save" /\ UNCHANGED <<rt, at, last, born>>
    BY <1>10 DEF LockToken
  <2>2. \/ Refuse(r, "error")
        \/ Goto(r, "commit") /\ (ctx' = ctx \/ Remember(r, locked))
    BY <1>10 DEF LockToken
  <2>3. locked.tok = ctx[r].tok
    <3> HIDE DEF a
    <3>1. QED
      BY <1>0 DEF TypeOK, Context
  <2> HIDE DEF locked
  <2>4. Goto(r, "commit") /\ (ctx' = ctx \/ Remember(r, locked)) => Chain!Next
    <3> SUFFICES ASSUME Goto(r, "commit"), ctx' = ctx \/ Remember(r, locked) PROVE Chain!Next
      OBVIOUS
    <3>1. /\ \A q \in Request : q # r => phase'[q] = phase[q] /\ ctx'[q] = ctx[q]
          /\ phase'[r] = "commit" /\ ctx'[r] \in {ctx[r], locked}
      BY <1>0 DEF Goto, Remember, TypeOK
    <3>2. QED
      BY <1>5, <2>1, <2>3, <3>1, SameLessened
  <2>5. QED
    BY <1>6, <2>1, <2>2, <2>4 DEF Refusals
<1>11. ASSUME NEW r \in Request, Rotated(r) PROVE Chain!Next
  BY <1>11, ChainExchange
<1>12. ASSUME NEW r \in Request, Repeated(r) PROVE Chain!Next
  <2> DEFINE pair == BoundTo(ctx[r].prev) \ {ctx[r].row}
             answered == [ctx[r] EXCEPT !.access = ctx[r].access, !.refresh = StoredToken(pair)]
  <2>1. phase[r] = "commit" /\ UNCHANGED <<last, born>> /\ ctx[r].row \in Live
    BY <1>0, <1>12 DEF Repeated, Rollback, HistoryInv, RefreshInv, LockInv
  <2>2. CASE pair # {}
    <3>1. /\ \A q \in Request : q # r => phase'[q] = phase[q] /\ ctx'[q] = ctx[q]
          /\ phase'[r] = "respond" /\ ctx'[r] = answered
      BY <1>0, <1>12, <2>2 DEF Repeated, Answer, Goto, Remember, TypeOK
    <3>2. answered.tok = ctx[r].tok
      <4> HIDE DEF pair
      <4>1. QED
        BY <1>0 DEF TypeOK, Context
    <3>3. Lessened(rt', at')
      BY <1>0, <1>12, <2>1, <2>2, RevokeLessened DEF Repeated
    <3>4. QED
      <4> HIDE DEF answered
      <4>1. QED
        BY <1>5, <2>1, <3>1, <3>2, <3>3
  <2>3. CASE pair = {}
    BY <1>6, <1>12, <2>1, <2>3 DEF Repeated, Rollback, Refusals
  <2>4. QED
    BY <2>2, <2>3
<1>13. ASSUME NEW r \in Request, Crash(r) PROVE Chain!Next
  BY <1>6, <1>13 DEF Crash, InFlight
<1>14. ASSUME NEW r \in Request, OverwriteAccess(r) PROVE Chain!Next
  BY <1>14 DEF OverwriteAccess, KeepsToken
<1>15. QED
  BY <1>1, <1>2, <1>3, <1>4, <1>7, <1>8, <1>9, <1>10, <1>11, <1>12, <1>13, <1>14,
     ChainStart, ChainPresent, ChainAnswer DEF Next, Serve

\* With rotation, the flow implements the chains: only the successor of the presented
\* token is ever returned, and a token has one live successor at a time.
THEOREM ChainRefinement ==
  ASSUME Rotate
  PROVE  Spec => ImplementsTokenChain
<1>1. Init => IdleInv
  BY DEF Init, IdleInv
<1>2. PairInv => TypeOK
  BY DEF PairInv, HistoryInv, RefreshInv
<1>3. PairInv /\ IdleInv /\ [Next]_vars => [Chain!Next]_(Chain!vars)
  BY ChainStep
<1>4. QED
  BY <1>1, <1>2, <1>3, IdleStep, ChainInit, PairCorrect, PTL DEF Spec, ImplementsTokenChain, Chain!Spec
=============================================================================
