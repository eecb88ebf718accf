----------------------------- MODULE TokenChain -----------------------------
(***************************************************************************)
(* What refresh-token rotation promises its clients, whatever the server   *)
(* does inside: the pairs of a session form a chain in which only a        *)
(* request that presented a token exchanges it; a pair that is exchanged   *)
(* loses its access token, a token has one live successor at a time, and   *)
(* a request, also one that retries, is answered with a live successor of  *)
(* the very token it presented.  RefreshFlow with ROTATE_REFRESH_TOKEN is  *)
(* shown to implement this specification.                                  *)
(***************************************************************************)
CONSTANTS
  Pair,      \* pairs of an access token and a refresh token
  Request,   \* refresh requests
  None       \* no pair, not in Pair

VARIABLES
  issued,     \* pairs that were ever made
  alive,      \* pairs whose access token is stored
  parent,     \* the pair another one was exchanged for, None for the first of a session
  presented,  \* the pair whose refresh token a request presented
  answer      \* the access token and the refresh token a request was answered with

vars == <<issued, alive, parent, presented, answer>>

Init ==
  /\ issued = {}
  /\ alive = {}
  /\ parent = [p \in Pair |-> None]
  /\ presented = [r \in Request |-> None]
  /\ answer = [r \in Request |-> <<None, None>>]

Successors(p) == {q \in issued : parent[q] = p}

\* Another grant starts a session with pair p.
Start(p) ==
  /\ p \in Pair \ issued
  /\ issued' = issued \cup {p}
  /\ alive' = alive \cup {p}
  /\ parent' = [parent EXCEPT ![p] = None]
  /\ UNCHANGED <<presented, answer>>

Present(r, p) ==
  /\ presented[r] = None
  /\ p \in issued
  /\ presented' = [presented EXCEPT ![r] = p]
  /\ UNCHANGED <<issued, alive, parent, answer>>

\* The presented pair is replaced by pair q, unless it has a live successor.
Exchange(r, q) ==
  /\ presented[r] # None
  /\ q \in Pair \ issued
  /\ Successors(presented[r]) \cap alive = {}
  /\ issued' = issued \cup {q}
  /\ alive' = (alive \ {presented[r]}) \cup {q}
  /\ parent' = [parent EXCEPT ![q] = presented[r]]
  /\ UNCHANGED <<presented, answer>>

\* Access tokens are deleted: revocation, reuse protection, clean-up.
Withdraw(S) ==
  /\ alive' = alive \ S
  /\ UNCHANGED <<issued, parent, presented, answer>>

\* Both tokens of the answer are those of pair q.
Answer(r, q) ==
  /\ answer[r] = <<None, None>>
  /\ q \in Successors(presented[r]) \cap alive
  /\ answer' = [answer EXCEPT ![r] = <<q, q>>]
  /\ UNCHANGED <<issued, alive, parent, presented>>

\* A request ends without tokens.
Refuse(r) ==
  /\ answer[r] = <<None, None>>
  /\ presented' = [presented EXCEPT ![r] = None]
  /\ UNCHANGED <<issued, alive, parent, answer>>

Next ==
  \/ \E p \in Pair : Start(p)
  \/ \E S \in SUBSET Pair : Withdraw(S)
  \/ \E r \in Request :
       Refuse(r) \/ \E p \in Pair : Present(r, p) \/ Exchange(r, p) \/ Answer(r, p)

Spec == Init /\ [][Next]_vars
=============================================================================
