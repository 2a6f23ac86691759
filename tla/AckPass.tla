------------------------------ MODULE AckPass ------------------------------
(***************************************************************************)
(* What the reconciliation of every kind of custom resource (CR) has in    *)
(* common: the work queue, the pass that the ACK runtime makes over one CR *)
(* in the order in which it calls the resource manager, the patches of the *)
(* CR, users, failures and restarts.  The module of a kind EXTENDS this    *)
(* one, adds what AWS stores, and conjoins it to these actions.            *)
(*                                                                         *)
(* LambdaFunction is older, has one CR, and does without this module.      *)
(*                                                                         *)
(* A step is one call to AWS or to Kubernetes with the local code around   *)
(* it.  A spec is a record whose fields depend on the kind; so is a status.*)
(***************************************************************************)
EXTENDS Naturals

CONSTANTS
  Key,         \* the CRs of this kind, by name
  Nil,         \* a field that is not set
  Limits       \* how often what Spend counts may happen in one behaviour

(* edits: what users do with the CRs; faults: failed calls, lost answers   *)
(* and restarts of the controller; drifts: changes in AWS behind its back; *)
(* overlaps: passes that start while another one runs, which needs more    *)
(* than one worker, the default.  No two passes ever have the same key.    *)
Counts == [{"edits", "faults", "drifts", "overlaps"} -> Nat]
ASSUME LimitsAssumption == Limits \subseteq Counts

VARIABLES
  cr,       \* the CRs, as stored by Kubernetes
  queued,   \* the keys in the work queue
  pass,     \* what the worker that has the key knows
  spent     \* what has happened so far, of what is bounded

passVars == <<cr, queued, pass, spent>>

Conditions == {"Unknown", "Synced", "Recoverable", "Terminal"}
Purposes == {"sync", "created", "updated", "delete"}

NoCR == [exists |-> FALSE, spec |-> Nil, status |-> Nil, deleting |-> FALSE,
         finalizer |-> FALSE, cond |-> "Unknown"]
FreshCR(s, noStatus) ==
  [exists |-> TRUE, spec |-> s, status |-> noStatus, deleting |-> FALSE,
   finalizer |-> FALSE, cond |-> "Unknown"]

(* desired is the CR as read when the pass started; latest the spec and the*)
(* status of the copy that the calls have filled in; found what a read in  *)
(* progress has seen; todo a set that the handler in progress works on.    *)
IdlePass == [pc |-> "idle", why |-> "sync", desired |-> NoCR,
             latest |-> [spec |-> Nil, status |-> Nil], found |-> Nil,
             todo |-> {}, outcome |-> "Unknown"]

CRs(Specs, Statuses) ==
  {NoCR} \cup [exists : {TRUE}, spec : Specs, status : Statuses,
               deleting : BOOLEAN, finalizer : BOOLEAN, cond : Conditions]

(* The part of a kind's type invariant that is about this module.          *)
PassTypeOK(Locations, Specs, Statuses) ==
  /\ cr \in [Key -> CRs(Specs, Statuses)]
  /\ queued \subseteq Key
  /\ \A k \in Key :
       /\ DOMAIN pass[k] = DOMAIN IdlePass
       /\ pass[k].pc \in Locations
       /\ pass[k].why \in Purposes
       /\ pass[k].desired \in CRs(Specs, Statuses)
       /\ pass[k].latest \in [spec : Specs \cup {Nil},
                              status : Statuses \cup {Nil}]
       /\ pass[k].outcome \in Conditions
  /\ spent \in Counts

PassInit(Specs, noStatus) ==
  /\ cr \in [Key -> {FreshCR(s, noStatus) : s \in Specs}]
  /\ queued = Key
  /\ pass = [k \in Key |-> IdlePass]
  /\ spent = [edits |-> 0, faults |-> 0, drifts |-> 0,
              overlaps |-> 0]

(* The bounds: what has happened stays within one of the limits.           *)
Spend(b) ==
  /\ spent' = [spent EXCEPT ![b] = @ + 1]
  /\ \E limit \in Limits : \A c \in DOMAIN spent : spent'[c] =< limit[c]

NoDriftYet == spent.drifts = 0

At(k, l) == pass[k].pc = l
Idle(k) == At(k, "idle")

-----------------------------------------------------------------------------
(* Steps of a pass.                                                        *)

Goto(k, l) == pass' = [pass EXCEPT ![k].pc = l]

(* onError and onSuccess: the rest of the pass, and what it reports.       *)
EndPass(k, o) == pass' = [pass EXCEPT ![k].pc = "finish", ![k].outcome = o]

(* A worker takes the key and reads the CR; one that is gone needs nothing.*)
Start(k) ==
  /\ Idle(k) /\ k \in queued
  /\ IF \A j \in Key : Idle(j) THEN UNCHANGED spent ELSE Spend("overlaps")
  /\ queued' = queued \ {k}
  /\ pass' = IF ~cr[k].exists THEN pass
             ELSE [pass EXCEPT ![k] =
                     [IdlePass EXCEPT
                        !.pc = "read",
                        !.why = IF cr[k].deleting THEN "delete" ELSE "sync",
                        !.desired = cr[k],
                        !.latest = [spec |-> cr[k].spec,
                                    status |-> cr[k].status]]]
  /\ UNCHANGED cr

(* descriptor.go IsManaged, asked of the pass's copy of the CR.            *)
IsManaged(k) == pass[k].desired.finalizer

(* MarkManaged, patched into the CR before Create is called.  A CR without *)
(* a finalizer may be gone by now.                                         *)
Manage(k) ==
  /\ At(k, "manage")
  /\ IF cr[k].exists
       THEN cr' = [cr EXCEPT ![k].finalizer = TRUE] /\ Goto(k, "create")
       ELSE cr' = cr /\ EndPass(k, "Recoverable")
  /\ UNCHANGED <<queued, spent>>

(* Mutant: a deletion that finds nothing to delete is an error.            *)
MutantNotFound(k) ==
  IF pass[k].why = "sync"
    THEN Goto(k, IF IsManaged(k) THEN "create" ELSE "manage")
    ELSE EndPass(k, "Recoverable")

(* What ReadOne's NotFound leads to.  After a creation the runtime keeps   *)
(* the answer of Create and comes back.                                    *)
NotFound(k) ==
  CASE pass[k].why = "sync" -> Goto(k, IF IsManaged(k) THEN "create"
                                                       ELSE "manage")
    [] pass[k].why = "delete" -> Goto(k, "unmanage")
    [] OTHER -> EndPass(k, "Recoverable")

(* After Create and Update the runtime patches into the CR the fields in   *)
(* which what they returned differs from what they were given.  A changed  *)
(* spec is a new generation, which queues the key.                         *)
Patched(given, returned, stored) ==
  [f \in DOMAIN given |->
     IF given[f] # returned[f] THEN returned[f] ELSE stored[f]]

StoreSpec(k, s) ==
  /\ cr' = [cr EXCEPT ![k].spec = s]
  /\ queued' = IF s # cr[k].spec THEN queued \cup {k} ELSE queued
  /\ UNCHANGED spent

PatchSpec(k) ==
  StoreSpec(k, Patched(pass[k].desired.spec, pass[k].latest.spec, cr[k].spec))

(* MarkUnmanaged: with its last finalizer the CR is gone.                  *)
Unmanage(k) ==
  /\ At(k, "unmanage")
  /\ cr' = [cr EXCEPT ![k] = NoCR]
  /\ pass' = [pass EXCEPT ![k] = IdlePass]
  /\ UNCHANGED <<queued, spent>>

(* What makes the runtime queue the key again.  IsSynced is always true.   *)
Requeued == {"Recoverable"}

(* The status patch, which records what the pass learned, and the decision *)
(* to come back.                                                           *)
Finish(k) ==
  /\ At(k, "finish")
  /\ IF cr[k].exists
       THEN /\ cr' = [cr EXCEPT ![k].cond = pass[k].outcome,
                                ![k].status = pass[k].latest.status]
            /\ queued' = IF pass[k].outcome \in Requeued THEN queued \cup {k}
                         ELSE queued
       ELSE UNCHANGED <<cr, queued>>
  /\ pass' = [pass EXCEPT ![k] = IdlePass]
  /\ UNCHANGED spent

(* A call to AWS or Kubernetes fails and has had no effect.                *)
CallFails(k) ==
  /\ pass[k].pc \notin {"idle", "finish"}
  /\ Spend("faults")
  /\ EndPass(k, "Recoverable")
  /\ UNCHANGED <<cr, queued>>

(* The regular resync, ten hours after a pass that found the CR synced.    *)
Resync(k) ==
  /\ Idle(k) /\ k \notin queued
  /\ cr[k].exists /\ cr[k].cond = "Synced"
  /\ queued' = queued \cup {k}
  /\ UNCHANGED <<cr, pass, spent>>

(* A new controller process lists every CR.                                *)
Crash ==
  /\ Spend("faults")
  /\ pass' = [k \in Key |-> IdlePass]
  /\ queued' = {k \in Key : cr[k].exists}
  /\ UNCHANGED cr

-----------------------------------------------------------------------------
(* Users.                                                                  *)

UserApply(k, s, noStatus) ==
  /\ ~cr[k].exists
  /\ Spend("edits")
  /\ cr' = [cr EXCEPT ![k] = FreshCR(s, noStatus)]
  /\ queued' = queued \cup {k}
  /\ UNCHANGED pass

UserEdit(k, s) ==
  /\ cr[k].exists /\ s # cr[k].spec
  /\ Spend("edits")
  /\ cr' = [cr EXCEPT ![k].spec = s]
  /\ queued' = queued \cup {k}
  /\ UNCHANGED pass

UserDelete(k) ==
  /\ cr[k].exists /\ ~cr[k].deleting
  /\ Spend("edits")
  /\ cr' = [cr EXCEPT ![k] = IF @.finalizer THEN [@ EXCEPT !.deleting = TRUE]
                             ELSE NoCR]
  /\ queued' = queued \cup {k}
  /\ UNCHANGED pass

-----------------------------------------------------------------------------
(* A key at rest: nothing happens to it until the resync, if that.         *)
Rests(k) == Idle(k) /\ k \notin queued

(* A CR that the controller will not look at again by itself is not to be  *)
(* deleted, and its last pass has reported it Terminal, or as Synced with  *)
(* its finalizer (onError and onSuccess in manager.go): no failure ends the*)
(* work on a CR, and no deletion is taken for done.                        *)
NeverForgotten ==
  \A k \in Key :
    Rests(k) /\ cr[k].exists
      => /\ ~cr[k].deleting
         /\ cr[k].cond = "Terminal" \/ (cr[k].cond = "Synced" /\ cr[k].finalizer)

(* The CR as the contract of ManagedResource sees it.                      *)
Kube(k) == IF ~cr[k].exists THEN "absent"
           ELSE IF cr[k].deleting THEN "terminating" ELSE "live"
=============================================================================
