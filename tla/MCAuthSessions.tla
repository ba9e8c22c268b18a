--------------------------- MODULE MCAuthSessions ---------------------------
EXTENDS AuthSessions, TLC

(* The device and creation time of a row that is no longer usable are read  *)
(* by no statement and no property: states that differ in them are one.    *)
View == <<[j \in Jti |-> IF row[j].st = "live" THEN row[j]
                         ELSE [row[j] EXCEPT !.dev = NoDevice, !.born = 0]],
          now, root, from, status, pc, op, usr, tok, dev, due, keep, doomed, purging>>

MainOps == {"login", "refresh", "logout", "force", "status", "kick", "others"}

Symmetry == Permutations(Jti) \cup Permutations(Req)
=============================================================================
