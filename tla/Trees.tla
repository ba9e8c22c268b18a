-------------------------------- MODULE Trees --------------------------------
(***************************************************************************)
(* What the departments promise when every operation is one step: they are *)
(* a forest, one is opened under one in use, put under one that is not     *)
(* below it, and closed when nobody is in it or under it; users are in     *)
(* departments in use.  One that was closed is not opened again.           *)
(***************************************************************************)
EXTENDS Forests

CONSTANTS Dept, User, Top, NoDept

VARIABLES
  above,   \* the parent of each department in use
  home,    \* the department of each user
  unused   \* departments to come

tvars == <<above, home, unused>>

Used == DOMAIN above

TInit ==
  /\ Used \cup unused \subseteq Dept /\ Used \cap unused = {}
  /\ \A d \in Used : above[d] \in Used \cup {Top}
  /\ Acyclic(above, Used)
  /\ home = [u \in User |-> NoDept]

Open(d, p) ==
  /\ d \in unused /\ p \in Used \cup {Top}
  /\ above' = [x \in Used \cup {d} |-> IF x = d THEN p ELSE above[x]]
  /\ unused' = unused \ {d}
  /\ UNCHANGED home

Put(d, p) ==
  /\ d \in Used /\ p \in (Used \cup {Top}) \ Below(above, Used, d)
  /\ above' = [above EXCEPT ![d] = p]
  /\ UNCHANGED <<home, unused>>

Close(d) ==
  /\ d \in Used
  /\ \A x \in Used : above[x] # d
  /\ \A u \in User : home[u] # d
  /\ above' = [x \in Used \ {d} |-> above[x]]
  /\ UNCHANGED <<home, unused>>

Settle(u, d) ==
  /\ d \in Used \cup {NoDept}
  /\ home' = [home EXCEPT ![u] = d]
  /\ UNCHANGED <<above, unused>>

TNext ==
  \/ \E d \in Dept, p \in Dept \cup {Top} : Open(d, p)
  \/ \E d \in Dept, p \in Dept \cup {Top} : Put(d, p)
  \/ \E d \in Dept : Close(d)
  \/ \E u \in User, d \in Dept \cup {NoDept} : Settle(u, d)
=============================================================================
