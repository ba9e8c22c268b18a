--------------------------- MODULE AccountsProofs ---------------------------
(***************************************************************************)
(* Proofs about Accounts for any number of requests and withdrawals.       *)
(***************************************************************************)
EXTENDS Accounts, TLAPS

USE MaxEpochAssumption

(* what a request is for where it stands *)
PhaseOK ==
  \A r \in Req :
    /\ pc[r] \in {"state", "identity", "find", "ticket", "bind", "cleanup"} => op[r] = "oauth"
    /\ pc[r] \in {"name", "insert", "read"} => op[r] \in Creations
    /\ pc[r] = "issue" => op[r] \in {"login", "register", "oauth"}
    /\ pc[r] = "write" => op[r] \in Edits
    /\ op[r] \in {"create", "register", "login"} => local

(* who is about to get a session, or has one, has an account; with OAuth it *)
(* is bound                                                                 *)
HasAccount ==
  /\ sessions # {} => account # "none"
  /\ \A r \in Req \ gone : pc[r] = "issue" => account # "none"
  /\ \A r \in Req \ gone : op[r] = "oauth" /\ pc[r] \in {"find", "issue"} => bound

Inv == TypeOK /\ PhaseOK /\ HasAccount

-----------------------------------------------------------------------------
(* Types, and which account a session needs                                 *)

LEMMA InitInv == Init => Inv /\ OneRegisters
<1> SUFFICES ASSUME Init PROVE Inv /\ OneRegisters
  OBVIOUS
<1>1. TypeOK
  <2>1. pc \in [Req -> PcState] /\ open \in [Req -> BOOLEAN]
    BY DEF Init, PcState
  <2>2. op \in [Req -> {"none", "login"} \cup Creations \cup Edits] /\ tag \in [Req -> 0 .. epoch]
    BY DEF Init
  <2>3. QED BY <2>1, <2>2 DEF Init, TypeOK
<1>2. QED BY <1>1 DEF Init, Inv, PhaseOK, HasAccount, OneRegisters, Registering

LEMMA LeaveType ==
  ASSUME TypeOK, NEW r \in Req, Leave(r)
  PROVE  /\ pc' \in [Req -> PcState] /\ open' \in [Req -> BOOLEAN]
         /\ op' \in [Req -> {"none", "login"} \cup Creations \cup Edits]
         /\ tag' \in [Req -> 0 .. epoch]
         /\ \A s \in Req : op'[s] = "oauth" => op[s] = "oauth"
         /\ \A s \in Req : s # r => pc'[s] = pc[s]
<1>1. "idle" \in PcState
  BY DEF PcState
<1>2. 0 \in 0 .. epoch
  BY DEF TypeOK
<1>3. QED BY <1>1, <1>2 DEF TypeOK, Leave

LEMMA EndType ==
  ASSUME TypeOK, NEW r \in Req, End(r)
  PROVE  /\ pc' \in [Req -> PcState] /\ open' \in [Req -> BOOLEAN]
         /\ op' \in [Req -> {"none", "login"} \cup Creations \cup Edits]
         /\ tag' \in [Req -> 0 .. epoch]
         /\ gone' \in SUBSET {s \in Req : Holds(s)'}
         /\ \A s \in Req : op'[s] = "oauth" => op[s] = "oauth"
BY LeaveType DEF TypeOK, End, Holds

LEMMA GotoType ==
  ASSUME TypeOK, NEW r \in Req, NEW to \in PcState, Goto(r, to)
  PROVE  /\ pc' \in [Req -> PcState] /\ UNCHANGED <<op, tag, open, gone>>
         /\ r \notin gone \/ to \in {"issue", "select", "revoke"} =>
              gone' \in SUBSET {s \in Req : Holds(s)'}
BY DEF TypeOK, Goto, Holds

LEMMA CreatingInv == ASSUME Inv, NEW r \in Req, Creating(r) PROVE Inv'
<1> USE DEF Inv, histories, Begin, End, Leave, Holds, Goto, At, Creations, Edits, PcState, Alive
<1>1. ASSUME NEW o \in Creations, Create(r, o) PROVE Inv'
  BY <1>1 DEF Create, TypeOK, PhaseOK, HasAccount
<1>2. CASE FindName(r)
  <2>1. TypeOK'
    <3> HIDE DEF End, Leave, Goto
    <3>1. QED BY <1>2, EndType, GotoType DEF FindName, TypeOK, PhaseOK
  <2>2. PhaseOK'
    BY <1>2 DEF FindName, TypeOK, PhaseOK
  <2>3. HasAccount'
    BY <1>2 DEF FindName, TypeOK, PhaseOK, HasAccount
  <2>4. QED BY <2>1, <2>2, <2>3
<1>3. CASE InsertUser(r)
  <2>1. TypeOK'
    <3> HIDE DEF End, Leave, Goto
    <3>1. QED BY <1>3, EndType, GotoType DEF InsertUser, TypeOK, PhaseOK
  <2>2. PhaseOK'
    BY <1>3 DEF InsertUser, TypeOK, PhaseOK
  <2>3. HasAccount'
    BY <1>3 DEF InsertUser, TypeOK, PhaseOK, HasAccount
  <2>4. QED BY <2>1, <2>2, <2>3
<1>4. CASE ReadUser(r)
  <2>1. TypeOK'
    <3> HIDE DEF End, Leave, Goto
    <3>1. QED BY <1>4, EndType, GotoType DEF ReadUser, TypeOK, PhaseOK
  <2>2. PhaseOK'
    BY <1>4 DEF ReadUser, TypeOK, PhaseOK
  <2>3. HasAccount'
    BY <1>4 DEF ReadUser, TypeOK, PhaseOK, HasAccount
  <2>4. QED BY <2>1, <2>2, <2>3
<1>5. QED BY <1>1, <1>2, <1>3, <1>4 DEF Creating

LEMMA OAuthInv == ASSUME Inv, OneRegisters, NEW r \in Req, OAuth(r) PROVE Inv'
<1> USE DEF Inv, histories, Begin, End, Leave, Holds, Goto, At, Creations, Edits, PcState, Alive
<1>1. CASE Authorize(r)
  BY <1>1 DEF Authorize, TypeOK, PhaseOK, HasAccount
<1>2. CASE Callback(r)
  <2>1. TypeOK'
    <3> HIDE DEF End, Leave, Goto
    <3>1. QED BY <1>2, EndType, GotoType DEF Callback, TypeOK, PhaseOK
  <2>2. PhaseOK'
    BY <1>2 DEF Callback, TypeOK, PhaseOK
  <2>3. HasAccount'
    BY <1>2 DEF Callback, TypeOK, PhaseOK, HasAccount
  <2>4. QED BY <2>1, <2>2, <2>3
<1>3. CASE FindIdentity(r)
  <2>1. TypeOK'
    <3> HIDE DEF End, Leave, Goto
    <3>1. QED BY <1>3, EndType, GotoType DEF FindIdentity, TypeOK, PhaseOK
  <2>2. PhaseOK'
    BY <1>3 DEF FindIdentity, TypeOK, PhaseOK
  <2>3. HasAccount'
    BY <1>3 DEF FindIdentity, TypeOK, PhaseOK, HasAccount
  <2>4. QED BY <2>1, <2>2, <2>3
<1>4. CASE FindUser(r)
  <2>1. TypeOK'
    <3> HIDE DEF End, Leave, Goto
    <3>1. QED BY <1>4, EndType, GotoType DEF FindUser, TypeOK, PhaseOK
  <2>2. PhaseOK'
    BY <1>4 DEF FindUser, TypeOK, PhaseOK
  <2>3. HasAccount'
    BY <1>4 DEF FindUser, TypeOK, PhaseOK, HasAccount
  <2>4. QED BY <2>1, <2>2, <2>3
<1>5. CASE BindIdentity(r)
  BY <1>5, ZenonT(60) DEF BindIdentity, TypeOK, PhaseOK, HasAccount, OneRegisters, Registering
<1>6. CASE CleanUp(r)
  <2>1. TypeOK'
    <3> HIDE DEF End, Leave, Goto
    <3>1. gone' \in SUBSET {s \in Req : Holds(s)'}
      BY <1>6, LeaveType DEF CleanUp
    <3>2. QED BY <1>6, <3>1, LeaveType DEF CleanUp, TypeOK
  <2>2. PhaseOK'
    BY <1>6 DEF CleanUp, TypeOK, PhaseOK
  <2>3. HasAccount'
    BY <1>6 DEF CleanUp, TypeOK, PhaseOK, HasAccount, OneRegisters, Registering
  <2>4. QED BY <2>1, <2>2, <2>3
<1>7. CASE Exchange(r)
  BY <1>7 DEF Exchange, TypeOK, PhaseOK, HasAccount
<1>8. QED BY <1>1, <1>2, <1>3, <1>4, <1>5, <1>6, <1>7 DEF OAuth

LEMMA SessionInv ==
  ASSUME Inv, NEW r \in Req, Login(r) \/ Issue(r) \/ Drop(r) PROVE Inv'
<1> USE DEF Inv, histories, Begin, End, Leave, Holds, Goto, At, Creations, Edits, PcState, Alive
<1>1. CASE Login(r)
  BY <1>1 DEF Login, TypeOK, PhaseOK, HasAccount
<1>2. CASE Issue(r)
  <2>1. TypeOK'
    <3> HIDE DEF End, Leave, Goto
    <3>1. CASE r \in gone
      BY <1>2, <3>1, EndType DEF Issue, TypeOK
    <3>2. CASE r \notin gone
      <4>1. tag[r] \in 0 .. epoch /\ (local \/ bound)
        BY <1>2, <3>2 DEF Issue, TypeOK, PhaseOK, HasAccount
      <4>2. /\ sessions' \in SUBSET (0 .. epoch) /\ late' \in SUBSET (0 .. epoch)
            /\ UNCHANGED <<local, account, bound, provider, epoch, interrupted, stranded>>
        BY <1>2, <3>2, <4>1 DEF Issue, TypeOK
      <4>3. Goto(r, "ticket") \/ End(r)
        BY <1>2, <3>2 DEF Issue
      <4>4. QED BY <3>2, <4>1, <4>2, <4>3, EndType, GotoType DEF TypeOK
    <3>3. QED BY <3>1, <3>2
  <2>2. PhaseOK'
    BY <1>2 DEF Issue, TypeOK, PhaseOK
  <2>3. HasAccount'
    BY <1>2 DEF Issue, TypeOK, PhaseOK, HasAccount
  <2>4. QED BY <2>1, <2>2, <2>3
<1>3. CASE Drop(r)
  BY <1>3 DEF Drop, TypeOK, PhaseOK, HasAccount
<1>4. QED BY <1>1, <1>2, <1>3

LEMMA WithdrawingInv == ASSUME Inv, NEW r \in Req, Withdrawing(r) PROVE Inv'
<1> USE DEF Inv, histories, Begin, End, Leave, Holds, Goto, At, Creations, Edits, PcState, Alive
<1>1. ASSUME NEW o \in Edits, Edit(r, o) PROVE Inv'
  BY <1>1 DEF Edit, TypeOK, PhaseOK, HasAccount
<1>2. CASE Write(r)
  <2>1. TypeOK'
    <3> HIDE DEF End, Leave, Goto
    <3>1. QED BY <1>2, EndType, GotoType DEF Write, Update, AfterEdit, TypeOK, PhaseOK
  <2>2. PhaseOK'
    BY <1>2 DEF Write, Update, AfterEdit, TypeOK, PhaseOK
  <2>3. HasAccount'
    BY <1>2 DEF Write, Update, AfterEdit, TypeOK, PhaseOK, HasAccount
  <2>4. QED BY <2>1, <2>2, <2>3
<1>3. CASE SelectSessions(r)
  <2>1. TypeOK'
    <3> HIDE DEF End, Leave, Goto
    <3>1. QED BY <1>3, EndType, GotoType DEF SelectSessions, TypeOK, PhaseOK
  <2>2. PhaseOK'
    BY <1>3 DEF SelectSessions, TypeOK, PhaseOK
  <2>3. HasAccount'
    BY <1>3 DEF SelectSessions, TypeOK, PhaseOK, HasAccount
  <2>4. QED BY <2>1, <2>2, <2>3
<1>4. CASE RevokeSessions(r)
  <2>1. TypeOK'
    <3> HIDE DEF End, Leave, Goto
    <3>1. QED BY <1>4, EndType, GotoType DEF RevokeSessions, TypeOK, PhaseOK
  <2>2. PhaseOK'
    BY <1>4 DEF RevokeSessions, TypeOK, PhaseOK
  <2>3. HasAccount'
    BY <1>4 DEF RevokeSessions, TypeOK, PhaseOK, HasAccount
  <2>4. QED BY <2>1, <2>2, <2>3
<1>5. QED BY <1>1, <1>2, <1>3, <1>4 DEF Withdrawing

LEMMA OtherInv ==
  ASSUME Inv, \/ \E p \in {"off", "closed", "open"} : Configure(p)
              \/ \E e \in sessions : EndSession(e)
              \/ UNCHANGED vars
  PROVE  Inv'
<1> USE DEF Inv, request, histories, Holds
<1>1. ASSUME NEW p \in {"off", "closed", "open"}, Configure(p) PROVE Inv'
  BY <1>1 DEF Configure, TypeOK, PhaseOK, HasAccount
<1>2. ASSUME NEW e \in sessions, EndSession(e) PROVE Inv'
  BY <1>2 DEF EndSession, TypeOK, PhaseOK, HasAccount
<1>3. CASE UNCHANGED vars
  BY <1>3 DEF vars, TypeOK, PhaseOK, HasAccount
<1>4. QED BY <1>1, <1>2, <1>3

-----------------------------------------------------------------------------
(* At most one callback registers the subject                               *)

LEMMA RegisterStep ==
  ASSUME Inv, OneRegisters, [Next]_vars PROVE OneRegisters'
<1> USE DEF Inv, TypeOK, PhaseOK, OneRegisters, Registering, histories, request,
            Begin, End, Leave, Holds, Goto, At, Alive
<1>1. ASSUME NEW r \in Req, Creating(r) PROVE OneRegisters'
  <2>1. ASSUME NEW o \in Creations, Create(r, o) PROVE OneRegisters'
    BY <2>1 DEF Create
  <2>2. CASE FindName(r)
    BY <2>2 DEF FindName
  <2>3. CASE InsertUser(r)
    BY <2>3 DEF InsertUser
  <2>4. CASE ReadUser(r)
    BY <2>4 DEF ReadUser
  <2>5. QED BY <1>1, <2>1, <2>2, <2>3, <2>4 DEF Creating
<1>2. ASSUME NEW r \in Req, OAuth(r) PROVE OneRegisters'
  <2>1. CASE Authorize(r)
    BY <2>1 DEF Authorize
  <2>2. CASE Callback(r)
    BY <2>2 DEF Callback
  <2>3. CASE FindIdentity(r)
    BY <2>3 DEF FindIdentity
  <2>4. CASE FindUser(r)
    BY <2>4 DEF FindUser
  <2>5. CASE BindIdentity(r)
    BY <2>5 DEF BindIdentity
  <2>6. CASE CleanUp(r)
    BY <2>6 DEF CleanUp
  <2>7. CASE Exchange(r)
    BY <2>7 DEF Exchange
  <2>8. QED BY <1>2, <2>1, <2>2, <2>3, <2>4, <2>5, <2>6, <2>7 DEF OAuth
<1>3. ASSUME NEW r \in Req, Login(r) \/ Issue(r) \/ Drop(r) PROVE OneRegisters'
  BY <1>3 DEF Login, Issue, Drop
<1>4. ASSUME NEW r \in Req, Withdrawing(r) PROVE OneRegisters'
  <2>1. ASSUME NEW o \in Edits, Edit(r, o) PROVE OneRegisters'
    BY <2>1 DEF Edit, Edits
  <2>2. CASE Write(r)
    BY <2>2 DEF Write, Update, AfterEdit, Edits
  <2>3. CASE SelectSessions(r) \/ RevokeSessions(r)
    BY <2>3 DEF SelectSessions, RevokeSessions
  <2>4. QED BY <1>4, <2>1, <2>2, <2>3 DEF Withdrawing
<1>5. CASE \/ \E p \in {"off", "closed", "open"} : Configure(p)
           \/ \E e \in sessions : EndSession(e)
           \/ UNCHANGED vars
  BY <1>5 DEF Configure, EndSession, vars
<1>6. QED BY <1>1, <1>2, <1>3, <1>4, <1>5 DEF Next

LEMMA NextInv ==
  ASSUME Inv, OneRegisters, [Next]_vars PROVE Inv' /\ OneRegisters'
BY CreatingInv, OAuthInv, SessionInv, WithdrawingInv, OtherInv, RegisterStep DEF Next

LEMMA InvHolds == Spec => [](Inv /\ OneRegisters)
BY InitInv, NextInv, PTL DEF Spec

(* Every variable keeps its type; an OAuth account without identity has no   *)
(* session (oauth.service.ts:342-371).                                      *)
THEOREM TypeCorrect == Spec => []TypeOK
BY InvHolds, PTL DEF Inv

-----------------------------------------------------------------------------
(* Nobody is stranded                                                       *)

(* a request that goes on registering, or none that did, keeps the claim    *)
LEMMA ClaimedStep ==
  ASSUME Inv, OneRegisters, Claimed, [Next]_vars PROVE Claimed'
<1> USE DEF Inv, TypeOK, PhaseOK, Claimed, Registering, histories, request,
            Begin, End, Leave, Holds, Goto, At, Alive
<1>1. ASSUME NEW r \in Req, Creating(r) PROVE Claimed'
  <2>1. ASSUME NEW o \in Creations, Create(r, o) PROVE Claimed'
    BY <2>1 DEF Create
  <2>2. CASE FindName(r)
    BY <2>2 DEF FindName
  <2>3. CASE InsertUser(r)
    BY <2>3 DEF InsertUser, Creations
  <2>4. CASE ReadUser(r)
    BY <2>4 DEF ReadUser
  <2>5. QED BY <1>1, <2>1, <2>2, <2>3, <2>4 DEF Creating
<1>2. ASSUME NEW r \in Req, OAuth(r) PROVE Claimed'
  <2>1. CASE Authorize(r) \/ Callback(r) \/ FindIdentity(r) \/ FindUser(r) \/ Exchange(r)
    BY <2>1 DEF Authorize, Callback, FindIdentity, FindUser, Exchange
  <2>2. CASE BindIdentity(r)
    BY <2>2 DEF BindIdentity
  <2>3. CASE CleanUp(r)
    BY <2>3 DEF CleanUp
  <2>4. QED BY <1>2, <2>1, <2>2, <2>3 DEF OAuth
<1>3. ASSUME NEW r \in Req, Login(r) \/ Issue(r) \/ Drop(r) PROVE Claimed'
  <2>1. CASE Login(r)
    BY <2>1 DEF Login
  <2>2. CASE Issue(r)
    BY <2>2 DEF Issue
  <2>3. CASE Drop(r)
    BY <2>3 DEF Drop
  <2>4. QED BY <1>3, <2>1, <2>2, <2>3
<1>4. ASSUME NEW r \in Req, Withdrawing(r) PROVE Claimed'
  <2>1. ASSUME NEW o \in Edits, Edit(r, o) PROVE Claimed'
    BY <2>1 DEF Edit
  <2>2. CASE Write(r)
    BY <2>2 DEF Write, Update, AfterEdit
  <2>3. CASE SelectSessions(r) \/ RevokeSessions(r)
    BY <2>3 DEF SelectSessions, RevokeSessions
  <2>4. QED BY <1>4, <2>1, <2>2, <2>3 DEF Withdrawing
<1>5. CASE \/ \E p \in {"off", "closed", "open"} : Configure(p)
           \/ \E e \in sessions : EndSession(e)
           \/ UNCHANGED vars
  BY <1>5 DEF Configure, EndSession, vars
<1>6. QED BY <1>1, <1>2, <1>3, <1>4, <1>5 DEF Next

(* The account of a subject is bound, or being bound by the one callback that *)
(* registers it, or a registration was given up half way                    *)
(* (oauth.service.ts:335-371); for any number of concurrent callbacks.      *)
THEOREM Reachable == Spec => []NobodyIsStranded
<1>1. Init => Claimed
  BY DEF Init, Claimed
<1>2. Inv /\ OneRegisters /\ Claimed /\ [Next]_vars => Claimed'
  BY ClaimedStep
<1>3. OneRegisters /\ Claimed => NobodyIsStranded
  BY DEF NobodyIsStranded
<1>4. QED BY <1>1, <1>2, <1>3, InvHolds, PTL DEF Spec

-----------------------------------------------------------------------------
(* Sessions do not survive a withdrawal                                     *)

LEMMA ExcusedStep ==
  ASSUME Inv, StaleSessionsNeedARace, [Next]_vars PROVE StaleSessionsNeedARace'
<1> USE DEF Inv, TypeOK, PhaseOK, HasAccount, StaleSessionsNeedARace, histories, request,
            Begin, End, Leave, Holds, Goto, At, Alive
<1>1. ASSUME NEW r \in Req, Creating(r) PROVE StaleSessionsNeedARace'
  <2>1. ASSUME NEW o \in Creations, Create(r, o) PROVE StaleSessionsNeedARace'
    BY <2>1 DEF Create
  <2>2. CASE FindName(r)
    BY <2>2 DEF FindName
  <2>3. CASE InsertUser(r)
    BY <2>3 DEF InsertUser
  <2>4. CASE ReadUser(r)
    BY <2>4 DEF ReadUser
  <2>5. QED BY <1>1, <2>1, <2>2, <2>3, <2>4 DEF Creating
<1>2. ASSUME NEW r \in Req, OAuth(r) PROVE StaleSessionsNeedARace'
  <2>1. CASE Authorize(r)
    BY <2>1 DEF Authorize
  <2>2. CASE Callback(r)
    BY <2>2 DEF Callback
  <2>3. CASE FindIdentity(r)
    BY <2>3 DEF FindIdentity
  <2>4. CASE FindUser(r)
    BY <2>4 DEF FindUser
  <2>5. CASE BindIdentity(r) \/ CleanUp(r)
    BY <2>5 DEF BindIdentity, CleanUp
  <2>6. CASE Exchange(r)
    BY <2>6 DEF Exchange
  <2>7. QED BY <1>2, <2>1, <2>2, <2>3, <2>4, <2>5, <2>6 DEF OAuth
<1>3. ASSUME NEW r \in Req, Login(r) \/ Issue(r) \/ Drop(r) PROVE StaleSessionsNeedARace'
  <2>1. CASE Login(r)
    BY <2>1 DEF Login
  <2>2. CASE Issue(r)
    BY <2>2 DEF Issue
  <2>3. CASE Drop(r)
    BY <2>3 DEF Drop
  <2>4. QED BY <1>3, <2>1, <2>2, <2>3
<1>4. ASSUME NEW r \in Req, Withdrawing(r) PROVE StaleSessionsNeedARace'
  <2>1. ASSUME NEW o \in Edits, Edit(r, o) PROVE StaleSessionsNeedARace'
    BY <2>1 DEF Edit
  <2>2. CASE Write(r)
    <3>1. CASE op[r] = "enable"
      BY <2>2, <3>1 DEF Write, Update, AfterEdit
    <3>2. CASE op[r] # "enable"
      BY <2>2, <3>2 DEF Write, Update
    <3>3. QED BY <3>1, <3>2
  <2>3. CASE SelectSessions(r)
    BY <2>3 DEF SelectSessions
  <2>4. CASE RevokeSessions(r)
    BY <2>4 DEF RevokeSessions
  <2>5. QED BY <1>4, <2>1, <2>2, <2>3, <2>4 DEF Withdrawing
<1>5. CASE \/ \E p \in {"off", "closed", "open"} : Configure(p)
           \/ \E e \in sessions : EndSession(e)
           \/ UNCHANGED vars
  BY <1>5 DEF Configure, EndSession, vars
<1>6. QED BY <1>1, <1>2, <1>3, <1>4, <1>5 DEF Next

(* A session from before a withdrawal is about to be revoked, or its          *)
(* revocation was interrupted, or it was opened after the withdrawal by a   *)
(* request that had read the account before (user.service.ts:267-269).      *)
THEOREM WithdrawalEndsSessions == Spec => []StaleSessionsNeedARace
<1>1. Init => StaleSessionsNeedARace
  BY DEF Init, StaleSessionsNeedARace
<1>2. Inv /\ StaleSessionsNeedARace /\ [Next]_vars => StaleSessionsNeedARace'
  BY ExcusedStep
<1>3. QED BY <1>1, <1>2, InvHolds, PTL DEF Spec
=============================================================================
