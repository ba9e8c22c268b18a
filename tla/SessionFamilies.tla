--------------------------- MODULE SessionFamilies ---------------------------
(***************************************************************************)
(* What the session subsystem promises, without rows, statements or        *)
(* requests.  A login opens a session and holds its token.  A refresh       *)
(* passes the session from the token it presents to one never issued       *)
(* before.  Logout, kick, eviction, revocation and purging end sessions.   *)
(* An ended session never comes back, and a token is given out only once.  *)
(***************************************************************************)
CONSTANTS Jti, NoJti

VARIABLES
  holder,  \* holder[f]: the usable token of the session that token f opened
  issued   \* every token ever given out

fvars == <<holder, issued>>

FInit ==
  /\ holder = [f \in Jti |-> NoJti]
  /\ issued = {}

Open(f) ==
  /\ f \notin issued
  /\ issued' = issued \cup {f}
  /\ holder' = [holder EXCEPT ![f] = f]

Renew(f, j) ==
  /\ holder[f] # NoJti
  /\ j \notin issued
  /\ issued' = issued \cup {j}
  /\ holder' = [holder EXCEPT ![f] = j]

Close(F) ==
  /\ holder' = [f \in Jti |-> IF f \in F THEN NoJti ELSE holder[f]]
  /\ UNCHANGED issued

FNext ==
  \/ \E f \in Jti : Open(f)
  \/ \E f, j \in Jti : Renew(f, j)
  \/ \E F \in SUBSET Jti : Close(F)

FSpec == FInit /\ [][FNext]_fvars
=============================================================================
