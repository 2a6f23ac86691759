----------------------- MODULE ManagerFactory_proofs -----------------------
(***************************************************************************)
(* Proofs about ManagerFactory for any sets of goroutines and keys.        *)
(***************************************************************************)
EXTENDS ManagerFactory, TLAPS

(* The lock protocol: who is in the reader set and who owns the writer     *)
(* side follows from the locations, and a writer past Drained is alone.    *)
LockInv ==
  /\ readers = {g \in Goroutines : pc[g] \in {"lookup", "runlock"}}
  /\ \A g \in Goroutines :
       (pc[g] \in {"drain", "build", "store", "unlock"}) <=> (writer = g)
  /\ \A g \in Goroutines :
       pc[g] \in {"build", "store", "unlock"} => readers = {}

(* Every manager that was built is either cached under its key or about to *)
(* be stored by its builder, so a goroutine that found its key missing has *)
(* not built for it before.                                                *)
BuildInv ==
  /\ \A g \in Goroutines : pc[g] = "store" => rm[g] # NoManager
  /\ \A k \in DOMAIN made :
       \/ rmCache[made[k].id] # NoManager
       \/ pc[made[k].by] = "store" /\ rmId[made[k].by] = made[k].id
  /\ \A g \in Goroutines :
       \/ pc[g] \in {"lock", "drain", "build"}
       \/ pc[g] = "runlock" /\ rm[g] = NoManager
       => \A k \in DOMAIN made : made[k] # [id |-> rmId[g], by |-> g]

-----------------------------------------------------------------------------
(* Every reachable state is well typed.                                    *)
THEOREM TypeCorrect == Spec => []TypeOK
<1>1. Init => TypeOK
  BY DEF Init, TypeOK, Locations, Manager
<1>2. TypeOK /\ [Next]_vars => TypeOK'
  <2> SUFFICES ASSUME TypeOK, [Next]_vars PROVE TypeOK'
    OBVIOUS
  <2> USE DEF TypeOK, Locations, Goto, Manager
  <2>1. ASSUME NEW g \in Goroutines, Call(g) PROVE TypeOK'
    BY <2>1 DEF Call
  <2>2. ASSUME NEW g \in Goroutines, RLock(g) PROVE TypeOK'
    BY <2>2 DEF RLock
  <2>3. ASSUME NEW g \in Goroutines, Lookup(g) PROVE TypeOK'
    BY <2>3 DEF Lookup
  <2>4. ASSUME NEW g \in Goroutines, RUnlock(g) PROVE TypeOK'
    BY <2>4 DEF RUnlock
  <2>5. ASSUME NEW g \in Goroutines, Lock(g) PROVE TypeOK'
    BY <2>5 DEF Lock
  <2>6. ASSUME NEW g \in Goroutines, Drained(g) PROVE TypeOK'
    BY <2>6 DEF Drained
  <2>7. ASSUME NEW g \in Goroutines, NewResourceManager(g) PROVE TypeOK'
    BY <2>7 DEF NewResourceManager
  <2>8. ASSUME NEW g \in Goroutines, Store(g) PROVE TypeOK'
    BY <2>8 DEF Store
  <2>9. ASSUME NEW g \in Goroutines, Unlock(g) PROVE TypeOK'
    BY <2>9 DEF Unlock
  <2>10. ASSUME NEW g \in Goroutines, Return(g) PROVE TypeOK'
    BY <2>10 DEF Return
  <2>11. CASE UNCHANGED vars
    BY <2>11 DEF vars
  <2>12. QED
    BY <2>1, <2>2, <2>3, <2>4, <2>5, <2>6, <2>7, <2>8, <2>9, <2>10, <2>11
       DEF Next, ManagerFor
<1>3. QED
  BY <1>1, <1>2, PTL DEF Spec

LEMMA LockInvInductive == TypeOK /\ LockInv /\ [Next]_vars => LockInv'
<1> SUFFICES ASSUME TypeOK, LockInv, [Next]_vars PROVE LockInv'
  OBVIOUS
<1> USE NoGoroutineAssumption DEF TypeOK, LockInv, Goto, Locations
<1>1. ASSUME NEW g \in Goroutines, Call(g) PROVE LockInv'
  BY <1>1 DEF Call
<1>2. ASSUME NEW g \in Goroutines, RLock(g) PROVE LockInv'
  BY <1>2 DEF RLock
<1>3. ASSUME NEW g \in Goroutines, Lookup(g) PROVE LockInv'
  BY <1>3 DEF Lookup
<1>4. ASSUME NEW g \in Goroutines, RUnlock(g) PROVE LockInv'
  BY <1>4 DEF RUnlock
<1>5. ASSUME NEW g \in Goroutines, Lock(g) PROVE LockInv'
  BY <1>5 DEF Lock
<1>6. ASSUME NEW g \in Goroutines, Drained(g) PROVE LockInv'
  BY <1>6 DEF Drained
<1>7. ASSUME NEW g \in Goroutines, NewResourceManager(g) PROVE LockInv'
  BY <1>7 DEF NewResourceManager
<1>8. ASSUME NEW g \in Goroutines, Store(g) PROVE LockInv'
  BY <1>8 DEF Store
<1>9. ASSUME NEW g \in Goroutines, Unlock(g) PROVE LockInv'
  BY <1>9 DEF Unlock
<1>10. ASSUME NEW g \in Goroutines, Return(g) PROVE LockInv'
  BY <1>10 DEF Return
<1>11. CASE UNCHANGED vars
  BY <1>11 DEF vars
<1>12. QED
  BY <1>1, <1>2, <1>3, <1>4, <1>5, <1>6, <1>7, <1>8, <1>9, <1>10, <1>11
     DEF Next, ManagerFor

(* No goroutine touches the map while another one writes it, for any       *)
(* number of goroutines: the property is LockInv read at the map accesses. *)
THEOREM MapAccessSafe == Spec => []MapAccessIsExclusive
<1>1. Init => LockInv
  BY NoGoroutineAssumption DEF Init, LockInv
<1>2. TypeOK /\ LockInv => MapAccessIsExclusive
  BY DEF TypeOK, LockInv, MapAccessIsExclusive
<1>3. QED
  BY <1>1, <1>2, TypeCorrect, LockInvInductive, PTL DEF Spec

LEMMA BuildInvInductive ==
  TypeOK /\ LockInv /\ BuildInv /\ [Next]_vars => BuildInv'
<1> SUFFICES ASSUME TypeOK, LockInv, BuildInv, [Next]_vars PROVE BuildInv'
  OBVIOUS
<1> USE NoManagerAssumption DEF TypeOK, BuildInv, Goto, Locations
<1>1. ASSUME NEW g \in Goroutines, Call(g) PROVE BuildInv'
  BY <1>1 DEF Call
<1>2. ASSUME NEW g \in Goroutines, RLock(g) PROVE BuildInv'
  BY <1>2 DEF RLock
<1>3. ASSUME NEW g \in Goroutines, Lookup(g) PROVE BuildInv'
  BY <1>3 DEF Lookup
<1>4. ASSUME NEW g \in Goroutines, RUnlock(g) PROVE BuildInv'
  BY <1>4 DEF RUnlock
<1>5. ASSUME NEW g \in Goroutines, Lock(g) PROVE BuildInv'
  BY <1>5 DEF Lock
<1>6. ASSUME NEW g \in Goroutines, Drained(g) PROVE BuildInv'
  BY <1>6 DEF Drained
<1>7. ASSUME NEW g \in Goroutines, NewResourceManager(g) PROVE BuildInv'
  <2>1. \A h \in Goroutines : h # g => pc[h] \notin {"build", "drain"}
    BY <1>7 DEF NewResourceManager, LockInv
  <2>2. /\ DOMAIN made' = DOMAIN made \cup {Len(made) + 1}
        /\ \A k \in DOMAIN made : made'[k] = made[k]
        /\ made'[Len(made) + 1] = [id |-> rmId[g], by |-> g]
    BY <1>7 DEF NewResourceManager
  <2>3. rm'[g] \in Nat
    BY <1>7 DEF NewResourceManager
  <2>4. QED
    BY <1>7, <2>1, <2>2, <2>3 DEF NewResourceManager
<1>8. ASSUME NEW g \in Goroutines, Store(g) PROVE BuildInv'
  BY <1>8 DEF Store
<1>9. ASSUME NEW g \in Goroutines, Unlock(g) PROVE BuildInv'
  BY <1>9 DEF Unlock
<1>10. ASSUME NEW g \in Goroutines, Return(g) PROVE BuildInv'
  BY <1>10 DEF Return
<1>11. CASE UNCHANGED vars
  BY <1>11 DEF vars
<1>12. QED
  BY <1>1, <1>2, <1>3, <1>4, <1>5, <1>6, <1>7, <1>8, <1>9, <1>10, <1>11
     DEF Next, ManagerFor

(* However many goroutines miss the same key at the same time, each builds *)
(* at most one manager for it: a goroutine that found the key missing has  *)
(* not built for it (BuildInv), so what it appends to made is new.         *)
THEOREM DuplicatesAreBounded == Spec => []NoGoroutineBuildsTwice
<1>1. Init => LockInv /\ BuildInv /\ NoGoroutineBuildsTwice
  BY NoGoroutineAssumption, NoManagerAssumption
     DEF Init, LockInv, BuildInv, NoGoroutineBuildsTwice
<1>2. TypeOK /\ BuildInv /\ NoGoroutineBuildsTwice /\ [Next]_vars
        => NoGoroutineBuildsTwice'
  <2> SUFFICES ASSUME TypeOK, BuildInv, NoGoroutineBuildsTwice, [Next]_vars
               PROVE  NoGoroutineBuildsTwice'
    OBVIOUS
  <2>1. CASE made' = made
    BY <2>1 DEF NoGoroutineBuildsTwice
  <2>2. ASSUME NEW g \in Goroutines, NewResourceManager(g)
        PROVE  NoGoroutineBuildsTwice'
    <3>1. /\ DOMAIN made' = DOMAIN made \cup {Len(made) + 1}
          /\ \A k \in DOMAIN made : made'[k] = made[k]
          /\ made'[Len(made) + 1] = [id |-> rmId[g], by |-> g]
      BY <2>2 DEF TypeOK, NewResourceManager
    <3>2. \A k \in DOMAIN made : made[k] # [id |-> rmId[g], by |-> g]
      BY <2>2 DEF BuildInv, NewResourceManager, Goto
    <3>3. QED
      BY <3>1, <3>2 DEF NoGoroutineBuildsTwice
  <2>3. made' = made \/ \E g \in Goroutines : NewResourceManager(g)
    BY DEF Next, ManagerFor, Call, RLock, Lookup, RUnlock, Lock, Drained,
           Store, Unlock, Return, vars
  <2>4. QED
    BY <2>1, <2>2, <2>3
<1>3. QED
  BY <1>1, <1>2, TypeCorrect, LockInvInductive, BuildInvInductive, PTL DEF Spec

-----------------------------------------------------------------------------
(* ManagersServeTheirId, with what makes it inductive: a manager that is   *)
(* handed on or cached has been built.                                     *)
ServeInv ==
  /\ \A g \in Goroutines :
       rm[g] # NoManager => rm[g] \in DOMAIN made /\ made[rm[g]].id = rmId[g]
  /\ \A i \in Ids :
       rmCache[i] # NoManager => rmCache[i] \in DOMAIN made /\ made[rmCache[i]].id = i

LEMMA ServeInvInductive == TypeOK /\ ServeInv /\ [Next]_vars => ServeInv'
<1> SUFFICES ASSUME TypeOK, ServeInv, [Next]_vars PROVE ServeInv'
  OBVIOUS
<1> USE NoManagerAssumption DEF TypeOK, ServeInv
<1>1. ASSUME NEW g \in Goroutines, Call(g) PROVE ServeInv'
  BY <1>1 DEF Call
<1>2. ASSUME NEW g \in Goroutines, Lookup(g) PROVE ServeInv'
  BY <1>2 DEF Lookup
<1>3. ASSUME NEW g \in Goroutines, NewResourceManager(g) PROVE ServeInv'
  <2>1. /\ DOMAIN made' = DOMAIN made \cup {Len(made) + 1}
        /\ \A k \in DOMAIN made : made'[k] = made[k]
        /\ made'[Len(made) + 1] = [id |-> rmId[g], by |-> g]
    BY <1>3 DEF NewResourceManager
  <2>2. rm' = [rm EXCEPT ![g] = Len(made) + 1] /\ UNCHANGED <<rmId, rmCache>>
    BY <1>3 DEF NewResourceManager
  <2>3. QED
    BY <2>1, <2>2
<1>4. ASSUME NEW g \in Goroutines, Store(g) PROVE ServeInv'
  BY <1>4 DEF Store
<1>5. CASE UNCHANGED <<rm, rmId, rmCache, made>>
  BY <1>5
<1>6. QED
  BY <1>1, <1>2, <1>3, <1>4, <1>5
     DEF Next, ManagerFor, RLock, RUnlock, Lock, Drained, Unlock, Return, vars

(* Whichever calls run at the same time, for any number of goroutines and  *)
(* keys: what ManagerFor returns is a manager for the key it was asked for,*)
(* and so is what the cache holds under each key.                          *)
THEOREM ManagersAreTheRightOnes == Spec => []ManagersServeTheirId
<1>1. Init => ServeInv
  BY DEF Init, ServeInv
<1>2. ServeInv => ManagersServeTheirId
  BY DEF ServeInv, ManagersServeTheirId
<1>3. QED
  BY <1>1, <1>2, TypeCorrect, ServeInvInductive, PTL DEF Spec
=============================================================================
