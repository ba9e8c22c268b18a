---------------------------- MODULE MCDepartments ----------------------------
EXTENDS Departments, Sequences, TLC

Seqs == INSTANCE SequencesExt

(* The search as DepartmentService.findDescendantIds does it: the head of    *)
(* the queue is taken and its children are put at the end.  A row that is   *)
(* taken twice is taken for ever.                                          *)
RECURSIVE Search(_, _, _, _)
Search(par, A, queue, found) ==
  IF queue = <<>> THEN [ends |-> TRUE, ids |-> found]
  ELSE IF Head(queue) \in found THEN [ends |-> FALSE, ids |-> {}]
  ELSE Search(par, A, Tail(queue) \o Seqs!SetToSeq({x \in A : par[x] = Head(queue)}),
                   found \cup {Head(queue)})

(* It ends where SearchEnds says, and with the ids of Below.                *)
ASSUME SearchFindsBelow ==
  \A A \in SUBSET Dept, par \in [Dept -> Dept \cup {Top}] : \A d \in A :
    Search(par, A, <<d>>, {}) =
      IF SearchEnds(par, A, d) THEN [ends |-> TRUE, ids |-> Below(par, A, d)]
      ELSE [ends |-> FALSE, ids |-> {}]

(* What a later step or a property reads.  Left out are: the locals of a     *)
(* request that has only to increment the revision; the place of a          *)
(* department that is deleted; where the records of one lead, but for       *)
(* whether that is its parent, which is all RecordsLeadToTheParent asks;    *)
(* who is stale once a request has crossed; and entries of past revisions   *)
(* that no lookup is about to find.                                        *)
Live(r) ==
  IF pc[r] \in {"incr", "endless"} THEN <<pc[r]>>
  ELSE <<pc[r], op[r], dpt[r], usr[r], from[r], to[r], key[r], ids[r]>>
Recorded(d) == logged[d] = parent[d] \/ d \in undone
Place(d) ==
  IF row[d] = "deleted" THEN <<Recorded(d)>>
  ELSE <<row[d], parent[d], Recorded(d), d \in undone>>
Found(e) == \E r \in Req : pc[r] = "get" /\ key[r] = e.rev /\ dpt[r] = e.dept
View == <<[d \in Dept |-> Place(d)], member, tree, {e \in cache : e.rev = tree},
          {<<e.rev, e.dept>> : e \in {x \in cache : Found(x)}},
          [r \in Req |-> Live(r)], crossed, IF crossed THEN {} ELSE stale, lost>>

Symmetry == Permutations(Dept) \cup Permutations(User) \cup Permutations(Req)
=============================================================================
