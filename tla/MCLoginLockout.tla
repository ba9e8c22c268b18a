--------------------------- MODULE MCLoginLockout ---------------------------
EXTENDS LoginLockout, TLC

CONSTANTS alice, Alice, ghost

(* one account, stored as "alice", that "Alice" finds as well *)
TwoSpellings == [n \in Name |-> IF n = ghost THEN NoName ELSE alice]

(* A key past its time is absent whatever it held, and a count matters up   *)
(* to the threshold; stale and blind are read together, and of requests     *)
(* between the check and their DEL only; what was tested is read only while *)
(* no call has failed; what was told to the client is read by no step and   *)
(* no property of this run.                                                 *)
At(e) == IF e > now THEN e ELSE 0
Excused == {r \in Req : pc[r] \in {"compare", "del"} /\ (stale[r] \/ blind[r])}
Capped(n) == IF Counted(n) < MaxFailures THEN Counted(n) ELSE MaxFailures - 1
View == <<now, [n \in Name |-> Capped(n)], [n \in Name |-> At(countExp[n])],
          [n \in Name |-> At(lockExp[n])], dbLock, pc, name, Excused,
          IF faulty THEN <<>> ELSE tested>>

Symmetry == Permutations(Req)
=============================================================================
