------------------------------- MODULE Forests -------------------------------
(***************************************************************************)
(* Rows that name a parent row.  `parent' maps a row to its parent or to a *)
(* value that is no row; A is the set of rows that are not deleted.        *)
(*                                                                         *)
(* The definitions quantify over sets of rows instead of recursing, so     *)
(* that they hold for any set of rows, finite or not, and can be used in   *)
(* proofs.                                                                 *)
(***************************************************************************)

(* S holds, with a row, the rows of A below it *)
ClosedBelow(parent, A, S) == \A x \in A : parent[x] \in S => x \in S

(* d and what is under it: the least set of rows with d that is closed      *)
(* below.  It is what a breadth-first search from d visits.                *)
Below(parent, A, d) ==
  {x \in A : \A S \in SUBSET A : d \in S /\ ClosedBelow(parent, A, S) => x \in S}

(* every set of rows has one whose parent is outside it: nothing is above   *)
(* itself                                                                  *)
Acyclic(parent, A) ==
  \A S \in SUBSET A : S # {} => \E x \in S : parent[x] \notin S

(* the search from d comes to an end: it visits no row twice *)
SearchEnds(parent, A, d) == Acyclic(parent, Below(parent, A, d))
=============================================================================
