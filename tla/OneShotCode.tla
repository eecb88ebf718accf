---------------------------- MODULE OneShotCode ----------------------------
(***************************************************************************)
(* What an authorization code promises its client, whatever the server     *)
(* does inside: a code is handed out once, is redeemed by at most one      *)
(* token request, and only the request that redeemed it is answered with   *)
(* tokens.  CodeExchange is shown to implement this specification.         *)
(***************************************************************************)
CONSTANTS
  Code,      \* authorization codes
  Request,   \* requests of the token endpoint
  Nobody     \* no request, not in Request

VARIABLES
  fresh,      \* codes that were never handed out
  open,       \* codes handed out that can still be redeemed
  winner,     \* the request that redeemed a code, or Nobody
  delivered   \* requests answered with tokens

vars == <<fresh, open, winner, delivered>>

Init ==
  /\ fresh = Code
  /\ open = {}
  /\ winner = [c \in Code |-> Nobody]
  /\ delivered = {}

HandOut(c) ==
  /\ c \in fresh
  /\ fresh' = fresh \ {c}
  /\ open' = open \cup {c}
  /\ UNCHANGED <<winner, delivered>>

Redeem(c, r) ==
  /\ c \in open
  /\ open' = open \ {c}
  /\ winner' = [winner EXCEPT ![c] = r]
  /\ UNCHANGED <<fresh, delivered>>

\* A code that expired unredeemed is forgotten.
Lapse(c) ==
  /\ c \in open
  /\ open' = open \ {c}
  /\ UNCHANGED <<fresh, winner, delivered>>

Deliver(c, r) ==
  /\ winner[c] = r
  /\ r \notin delivered
  /\ delivered' = delivered \cup {r}
  /\ UNCHANGED <<fresh, open, winner>>

Next ==
  \/ \E c \in Code : HandOut(c) \/ Lapse(c)
  \/ \E c \in Code, r \in Request : Redeem(c, r) \/ Deliver(c, r)

Spec == Init /\ [][Next]_vars
=============================================================================
