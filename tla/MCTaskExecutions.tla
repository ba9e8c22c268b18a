-------------------------- MODULE MCTaskExecutions --------------------------
EXTENDS TaskExecutions, TLC

Keys == {"task", "cleanup"}

(* an hour and ten minutes; only the order matters *)
Ttls == [k \in Keys |-> IF k = "task" THEN 2 ELSE 1]

(* What a later step or a property reads.  Left out are the last-run columns  *)
(* of a plan that is removed or had a disturbed run, and the starts of its  *)
(* runs: LastRunSettles then says nothing of it, for ever; and the term of  *)
(* a lock whose taker is not inside.                                       *)
Disturbed(p) == ~alive[p] \/ \E e \in Run : plan[e] = p /\ (faulted[e] \/ pc[e] = "dead")
Columns(p) ==
  IF Disturbed(p) THEN <<>>
  ELSE <<last[p], [e \in {f \in Run : plan[f] = p} |-> began[e]]>>
View == <<redis, now, holder, until,
          {<<k, e, took[k][e]>> : <<k, e>> \in {x \in Lock \X Run : Inside(x[2], x[1])}},
          faults, alive, log, pc, plan, sent, did, faulted, [p \in Plan |-> Columns(p)]>>

Symmetry == Permutations(Run)
=============================================================================
