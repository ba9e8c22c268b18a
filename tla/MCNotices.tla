------------------------------ MODULE MCNotices ------------------------------
EXTENDS Notices, TLC

CONSTANTS i1, i2, u1, u2

(* Users stand for themselves; of the two roles one is nobody's.             *)
MCMembers ==
  [k \in Kind |-> IF k = "user" THEN (i1 :> {u1}) @@ (i2 :> {u2})
                 ELSE (i1 :> {}) @@ (i2 :> {u2})]
MCForms == {<<All, {}>>, <<"user", {i1}>>, <<"role", {i2}>>}

(* What later steps read: of a request that has to announce, only to whom,  *)
(* and the text of a published notice.                                     *)
Live(r) ==
  IF pc[r] = "announce" THEN <<pc[r], to[r]>>
  ELSE <<pc[r], seen[r], kind[r], ids[r], sets[r], to[r], r \in gone, r \in stale>>
View == <<status, IF status = "published" THEN text ELSE "none", type, targets, recipients,
          [r \in Req |-> Live(r)], unaware, dropped, crossed, late>>

Symmetry == Permutations(Req) \cup Permutations(Text)
=============================================================================
