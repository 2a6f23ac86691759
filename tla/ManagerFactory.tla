--------------------------- MODULE ManagerFactory ---------------------------
(***************************************************************************)
(* resourceManagerFactory.ManagerFor: the get-or-create cache of resource  *)
(* managers (pkg/resource/function/manager_factory.go; the factories of    *)
(* the other six resources differ only in their package name).  The        *)
(* reconciler goroutines of one resource kind share one factory.           *)
(*                                                                         *)
(* The steps of a call are the steps between which another goroutine can   *)
(* run: RLock, map read, RUnlock, Lock, newResourceManager, map write,     *)
(* Unlock.  newResourceManager never returns an error (manager.go, it      *)
(* returns a literal and nil), so the error return after it has no step.   *)
(***************************************************************************)
EXTENDS Naturals, Sequences, FiniteSets

CONSTANTS
  Goroutines,    \* reconcilers that may call ManagerFor concurrently
  Ids,           \* values of rmId: account ID / region / role ARN
  NoManager,     \* rmCache has no entry; also an unset local variable
  NoGoroutine    \* nobody holds the writer side of the lock

ASSUME NoManagerAssumption   == NoManager \notin Nat
ASSUME NoGoroutineAssumption == NoGoroutine \notin Goroutines

VARIABLES
  pc,        \* where each goroutine is inside ManagerFor
  rmId,      \* the key each goroutine asked for
  rm,        \* its local variable rm
  rmCache,   \* the shared map
  readers,   \* goroutines that hold the RWMutex for reading
  writer,    \* the goroutine that called Lock first, waiting or holding
  made       \* every manager newResourceManager built: its key and builder

vars == <<pc, rmId, rm, rmCache, readers, writer, made>>

Locations == {"idle", "rlock", "lookup", "runlock", "lock", "drain",
              "build", "store", "unlock", "done"}

(* A manager is its position in made.                                      *)
Manager == Nat

TypeOK ==
  /\ pc \in [Goroutines -> Locations]
  /\ rmId \in [Goroutines -> Ids]
  /\ rm \in [Goroutines -> Manager \cup {NoManager}]
  /\ rmCache \in [Ids -> Manager \cup {NoManager}]
  /\ readers \in SUBSET Goroutines
  /\ writer \in Goroutines \cup {NoGoroutine}
  /\ made \in Seq([id : Ids, by : Goroutines])

Init ==
  /\ pc = [g \in Goroutines |-> "idle"]
  /\ rmId \in [Goroutines -> Ids]
  /\ rm = [g \in Goroutines |-> NoManager]
  /\ rmCache = [i \in Ids |-> NoManager]
  /\ readers = {}
  /\ writer = NoGoroutine
  /\ made = <<>>

Goto(g, from, to) ==
  /\ pc[g] = from
  /\ pc' = [pc EXCEPT ![g] = to]

(* A reconcile of some resource asks for the manager of its account,       *)
(* region and role.                                                        *)
Call(g) ==
  /\ Goto(g, "idle", "rlock")
  /\ \E i \in Ids : rmId' = [rmId EXCEPT ![g] = i]
  /\ rm' = [rm EXCEPT ![g] = NoManager]
  /\ UNCHANGED <<rmCache, readers, writer, made>>

(* Mutant: Unlock-ordering slip, the read lock is dropped before the read. *)
MutantRLock(g) ==
  /\ writer = NoGoroutine
  /\ Goto(g, "rlock", "lookup")
  /\ UNCHANGED <<rmId, rm, rmCache, readers, writer, made>>

(* sync.RWMutex lets a reader in unless a writer waits or holds the lock.  *)
RLock(g) ==
  /\ writer = NoGoroutine
  /\ Goto(g, "rlock", "lookup")
  /\ readers' = readers \cup {g}
  /\ UNCHANGED <<rmId, rm, rmCache, writer, made>>

(* Mutant: the key leaves something out, so any cached manager matches.    *)
MutantLookup(g) ==
  /\ Goto(g, "lookup", "runlock")
  /\ \E i \in Ids : rm' = [rm EXCEPT ![g] = rmCache[i]]
  /\ UNCHANGED <<rmId, rmCache, readers, writer, made>>

Lookup(g) ==
  /\ Goto(g, "lookup", "runlock")
  /\ rm' = [rm EXCEPT ![g] = rmCache[rmId[g]]]
  /\ UNCHANGED <<rmId, rmCache, readers, writer, made>>

(* if found { return rm, nil }                                             *)
RUnlock(g) ==
  /\ Goto(g, "runlock", IF rm[g] # NoManager THEN "done" ELSE "lock")
  /\ readers' = readers \ {g}
  /\ UNCHANGED <<rmId, rm, rmCache, writer, made>>

(* Lock, first half: one writer at a time, and new readers now wait.       *)
Lock(g) ==
  /\ writer = NoGoroutine
  /\ Goto(g, "lock", "drain")
  /\ writer' = g
  /\ UNCHANGED <<rmId, rm, rmCache, readers, made>>

(* Lock, second half: the readers that were already in have left.          *)
Drained(g) ==
  /\ readers = {}
  /\ Goto(g, "drain", "build")
  /\ UNCHANGED <<rmId, rm, rmCache, readers, writer, made>>

(* Mutant: the manager handed on is not the one just built.                *)
MutantNewResourceManager(g) ==
  /\ Goto(g, "build", "store")
  /\ made' = Append(made, [id |-> rmId[g], by |-> g])
  /\ rm' = [rm EXCEPT ![g] = Len(made) - 1]
  /\ UNCHANGED <<rmId, rmCache, readers, writer>>

NewResourceManager(g) ==
  /\ Goto(g, "build", "store")
  /\ made' = Append(made, [id |-> rmId[g], by |-> g])
  /\ rm' = [rm EXCEPT ![g] = Len(made) + 1]
  /\ UNCHANGED <<rmId, rmCache, readers, writer>>

(* Mutant: the map write is left out, so nothing is ever cached.           *)
MutantStore(g) ==
  /\ Goto(g, "store", "unlock")
  /\ UNCHANGED <<rmId, rm, rmCache, readers, writer, made>>

Store(g) ==
  /\ Goto(g, "store", "unlock")
  /\ rmCache' = [rmCache EXCEPT ![rmId[g]] = rm[g]]
  /\ UNCHANGED <<rmId, rm, readers, writer, made>>

(* Mutant: the deferred Unlock is left out.                                *)
MutantUnlock(g) ==
  /\ Goto(g, "unlock", "done")
  /\ UNCHANGED <<rmId, rm, rmCache, readers, writer, made>>

(* The deferred Unlock.                                                    *)
Unlock(g) ==
  /\ Goto(g, "unlock", "done")
  /\ writer' = NoGoroutine
  /\ UNCHANGED <<rmId, rm, rmCache, readers, made>>

(* The reconcile that called is over.                                      *)
Return(g) ==
  /\ Goto(g, "done", "idle")
  /\ UNCHANGED <<rmId, rm, rmCache, readers, writer, made>>

ManagerFor(g) ==
  \/ RLock(g) \/ Lookup(g) \/ RUnlock(g)
  \/ Lock(g) \/ Drained(g) \/ NewResourceManager(g) \/ Store(g) \/ Unlock(g)
  \/ Return(g)

Next == \E g \in Goroutines : Call(g) \/ ManagerFor(g)

(* A goroutine inside ManagerFor is scheduled again and again; the Go      *)
(* mutex hands the lock to a waiting writer and then to waiting readers,   *)
(* so no single step of a call is passed over for ever.                    *)
Fairness == \A g \in Goroutines :
  /\ WF_vars(RLock(g) \/ Lookup(g) \/ RUnlock(g))
  /\ WF_vars(Drained(g) \/ NewResourceManager(g) \/ Store(g) \/ Unlock(g))
  /\ SF_vars(Lock(g))

Spec == Init /\ [][Next]_vars
FairSpec == Spec /\ Fairness

-----------------------------------------------------------------------------
(* A Go map must not be written while another goroutine reads or writes    *)
(* it: the write of rmCache (manager_factory.go:77) excludes every other   *)
(* access, although the read and the write take different locks.           *)
MapAccessIsExclusive ==
  \A g, h \in Goroutines :
    pc[g] = "store" /\ h # g => pc[h] \notin {"lookup", "store"}

(* The missing second look under the write lock costs duplicates, but not  *)
(* without bound: once a goroutine has built a manager for a key, the key  *)
(* stays cached and the same goroutine never builds for it again.          *)
NoGoroutineBuildsTwice ==
  \A i, j \in DOMAIN made : made[i] = made[j] => i = j

(* A call never hands out a manager of another account, region or role,    *)
(* however the calls of several goroutines interleave.                     *)
ManagersServeTheirId ==
  /\ \A g \in Goroutines : rm[g] # NoManager => made[rm[g]].id = rmId[g]
  /\ \A i \in Ids : rmCache[i] # NoManager => made[rmCache[i]].id = i

(* Every call returns: RLock, RUnlock, Lock and the deferred Unlock cannot *)
(* leave the goroutines waiting for each other.                            *)
EveryCallReturns ==
  \A g \in Goroutines : pc[g] = "rlock" ~> pc[g] = "done"

(* What the comment at manager_factory.go:58-60 says: one manager for a    *)
(* combination of account, region and role ARN.                            *)
OneManagerPerId ==
  \A i, j \in DOMAIN made : made[i].id = made[j].id => i = j
=============================================================================
