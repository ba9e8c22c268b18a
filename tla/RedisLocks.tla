----------------------------- MODULE RedisLocks -----------------------------
(***************************************************************************)
(* The locks of apps/api/src/redis/redis-lock.service.ts: keys in Redis    *)
(* that hold the token of the run that took them and expire by themselves. *)
(* They are taken by SET NX PX, never renewed, and released by a script    *)
(* that deletes a key only if it still holds the run's token.              *)
(***************************************************************************)
EXTENDS Naturals

CONSTANTS
  Run,       \* runs; a run draws a token of its own for every lock
  Lock,      \* keys
  Ttl,       \* Ttl[k]: the time to live of k, in ticks
  MaxFaults, \* bound on the calls that fail
  Nobody

ASSUME LockAssumption == Ttl \in [Lock -> Nat \ {0}]
ASSUME NobodyAssumption == Nobody \notin Run
ASSUME FaultsAssumption == MaxFaults \in Nat

VARIABLES
  redis,    \* whether the deployment has Redis at all
  now,      \* the clock of Redis
  holder,   \* holder[k]: whose token is the value of k
  until,    \* until[k]: when k expires, 0 when there is no such key
  faults,   \* how many calls, to Redis or MySQL, have failed
  took      \* history: until when the lock k that e took, and has not
            \* released, was to hold

keys == <<holder, until, took>>

LocksType ==
  /\ redis \in BOOLEAN
  /\ now \in Nat
  /\ faults \in Nat
  /\ holder \in [Lock -> Run \cup {Nobody}]
  /\ until \in [Lock -> Nat]
  /\ took \in [Lock -> [Run -> Nat]]

LocksInit ==
  /\ redis \in BOOLEAN
  /\ now = 0
  /\ faults = 0
  /\ holder = [k \in Lock |-> Nobody]
  /\ until = [k \in Lock |-> 0]
  /\ took = [k \in Lock |-> [e \in Run |-> 0]]

Held(k) == holder[k] # Nobody

Answers == UNCHANGED faults
Fails == faults < MaxFaults /\ faults' = faults + 1

Set(k, e) ==
  /\ holder' = [holder EXCEPT ![k] = e]
  /\ until' = [until EXCEPT ![k] = now + Ttl[k]]
  /\ took' = [took EXCEPT ![k][e] = now + Ttl[k]]

(* mutation: the SET without NX *)
SetAlways(k, e) == Set(k, e)

SetNX(k, e) == ~Held(k) /\ Set(k, e)

(* runExclusive() goes on to run its task: the lock is taken, or there is  *)
(* no Redis                                                                *)
Enters(k, e) ==
  /\ IF redis THEN SetNX(k, e) ELSE UNCHANGED keys
  /\ Answers

(* mutation: runExclusive() queues for a lock that is held *)
GivesUpOnErrors(k, e) ==
  redis /\ Fails /\ (UNCHANGED keys \/ SetNX(k, e))

(* runExclusive() gives up: the lock is held, or the answer of the SET is  *)
(* lost, and then its effect may remain                                    *)
GivesUp(k, e) ==
  /\ redis
  /\ \/ Held(k) /\ UNCHANGED keys /\ Answers
     \/ Fails /\ (UNCHANGED keys \/ SetNX(k, e))

Delete(k) ==
  /\ holder' = [holder EXCEPT ![k] = Nobody]
  /\ until' = [until EXCEPT ![k] = 0]

(* mutation: a DEL that does not compare *)
DeletesAny(k, e) == Delete(k)

(* the script of release(): compare and delete                             *)
Deletes(k, e) ==
  IF holder[k] = e THEN Delete(k) ELSE UNCHANGED <<holder, until>>

(* release(): an error is swallowed, and may come after the effect         *)
Releases(k, e) ==
  /\ \/ ~redis /\ UNCHANGED <<holder, until>> /\ Answers
     \/ redis /\ Deletes(k, e) /\ (Answers \/ Fails)
     \/ redis /\ UNCHANGED <<holder, until>> /\ Fails
  /\ took' = [took EXCEPT ![k][e] = 0]

(* Redis drops the keys whose time has come                                *)
Ticks ==
  /\ now' = now + 1
  /\ holder' = [k \in Lock |-> IF until[k] <= now' THEN Nobody ELSE holder[k]]
  /\ until' = [k \in Lock |-> IF until[k] <= now' THEN 0 ELSE until[k]]
  /\ UNCHANGED took
=============================================================================
