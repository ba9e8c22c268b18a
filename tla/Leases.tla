-------------------------------- MODULE Leases --------------------------------
(***************************************************************************)
(* What one lock promises, without calls, failures and handlers.  A run    *)
(* takes it while nobody has it, and has it until it leaves or the term is *)
(* over, whichever comes first; nobody else ends it.  A run that has taken *)
(* the lock goes inside, or never learns that it has it.  One that stays   *)
(* inside past its term has nothing left to give up.                       *)
(***************************************************************************)
EXTENDS Naturals

CONSTANTS Run, Nobody

VARIABLES
  owner, until,
  time,
  inside  \* who is inside, each with the end of its term

lvars == <<owner, until, time, inside>>

LInit == owner = Nobody /\ until = 0 /\ inside = {}

Take(e) ==
  /\ owner = Nobody
  /\ owner' = e
  /\ until' > time
  /\ inside' \in {inside, inside \cup {<<e, until'>>}}
  /\ UNCHANGED time

Leave(e) ==
  /\ \E p \in inside : p[1] = e /\ inside' = inside \ {p}
  /\ \/ owner = e /\ owner' = Nobody /\ until' = 0
     \/ UNCHANGED <<owner, until>>
  /\ UNCHANGED time

Pass ==
  /\ time' > time
  /\ owner' = IF until <= time' THEN Nobody ELSE owner
  /\ until' = IF until <= time' THEN 0 ELSE until
  /\ UNCHANGED inside

LNext == Pass \/ \E e \in Run : Take(e) \/ Leave(e)
=============================================================================
