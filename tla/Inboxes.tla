-------------------------------- MODULE Inboxes --------------------------------
(***************************************************************************)
(* What a notice promises those who receive it, without requests, drafts   *)
(* or statements.  It is hidden until it is posted, to somebody, as an     *)
(* unread message.  While it is shown what it says stays, nobody joins or  *)
(* leaves, and a message can only be read, once.  Retracted, it can be     *)
(* posted anew, saying something else to others; removed, it never comes   *)
(* back, and it is only removed while it is hidden.                        *)
(***************************************************************************)
CONSTANTS
  User,
  Content,  \* what a notice says and whom it addresses
  Nothing   \* what a notice says that is not shown

VARIABLES stage, content, inbox

ivars == <<stage, content, inbox>>

IInit ==
  /\ stage = "hidden"
  /\ content = Nothing
  /\ inbox = [u \in User |-> "none"]

Post ==
  /\ stage = "hidden"
  /\ stage' = "shown"
  /\ content' \in Content
  /\ inbox' \in [User -> {"none", "unread"}]
  /\ \E u \in User : inbox'[u] = "unread"

Read(u) ==
  /\ stage = "shown" /\ inbox[u] = "unread"
  /\ inbox' = [inbox EXCEPT ![u] = "read"]
  /\ UNCHANGED <<stage, content>>

Retract ==
  /\ stage = "shown"
  /\ stage' = "hidden"
  /\ content' = Nothing
  /\ inbox' = [u \in User |-> "none"]

Discard ==
  /\ stage = "hidden"
  /\ stage' = "removed"
  /\ UNCHANGED <<content, inbox>>

INext == Post \/ Retract \/ Discard \/ \E u \in User : Read(u)

ISpec == IInit /\ [][INext]_ivars
=============================================================================
