----------------------------- MODULE MCRbacCache -----------------------------
EXTENDS RbacCache, TLC

(* What a step or a property reads: of an entry filed under a past revision,  *)
(* whether a lookup with that revision finds it; not the permissions of the *)
(* super administrator, and not what a writer was asked once it committed.  *)
Found ==
  {e \in cache : \/ e.rev \notin 0..(urev[e.user] - 1)
                 \/ \E q \in Req : pc[q] = "get" /\ usr[q] = e.user /\ key[q] = e.rev}
View ==
  <<roles, state, [r \in Cached |-> perms[r]], urev, Found, pc, key, seen, read, todo, history,
    [q \in Req |-> IF pc[q] = "commit" THEN op[q] ELSE "any"],
    [q \in Req |-> IF pc[q] = "incr" THEN <<>> ELSE <<usr[q], rol[q]>>]>>

Symmetry == Permutations(Req) \cup Permutations(User) \cup Permutations(Data)
=============================================================================
