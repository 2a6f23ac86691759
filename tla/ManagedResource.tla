-------------------------- MODULE ManagedResource --------------------------
(***************************************************************************)
(* What the finalizer protocol of an ACK controller promises about one     *)
(* custom resource (CR) and the AWS resource behind it, whatever the kind  *)
(* of resource: descriptor.go MarkManaged says that the finalizer keeps    *)
(* the CR until the AWS resource is cleaned up.  The detailed modules      *)
(* implement this one.                                                     *)
(***************************************************************************)
VARIABLES
  kube,      \* the CR: "absent", "live" or "terminating" (deletion asked for)
  managed,   \* the CR carries the finalizer
  backend    \* the AWS resource: "none", "other" (not ours) or "ours"

vars == <<kube, managed, backend>>

TypeOK ==
  /\ kube \in {"absent", "live", "terminating"}
  /\ managed \in BOOLEAN
  /\ backend \in {"none", "other", "ours"}

Init ==
  /\ kube = "live"
  /\ managed = FALSE
  /\ backend \in {"none", "other"}

(* The user applies a manifest: the CR is new and has no finalizer.        *)
Apply ==
  /\ kube = "absent"
  /\ kube' = "live"
  /\ managed' = FALSE
  /\ UNCHANGED backend

(* Without a finalizer Kubernetes drops a deleted CR at once.              *)
Discard ==
  /\ kube = "live" /\ ~managed
  /\ kube' = "absent"
  /\ UNCHANGED <<managed, backend>>

(* With one, it only marks the CR.                                         *)
RequestDelete ==
  /\ kube = "live" /\ managed
  /\ kube' = "terminating"
  /\ UNCHANGED <<managed, backend>>

(* MarkManaged.                                                            *)
Manage ==
  /\ kube = "live" /\ ~managed
  /\ managed' = TRUE
  /\ UNCHANGED <<kube, backend>>

(* Only a CR that holds the finalizer gets an AWS resource.                *)
Create ==
  /\ kube # "absent" /\ managed
  /\ backend = "none"
  /\ backend' = "ours"
  /\ UNCHANGED <<kube, managed>>

(* MarkUnmanaged: the finalizer goes, and the CR with it, when nothing of  *)
(* ours is left.                                                           *)
Release ==
  /\ kube = "terminating" /\ managed
  /\ backend # "ours"
  /\ kube' = "absent"
  /\ managed' = FALSE
  /\ UNCHANGED backend

(* The AWS resource goes away: the controller deleted it, or somebody did. *)
Vanish ==
  /\ backend # "none"
  /\ backend' = "none"
  /\ UNCHANGED <<kube, managed>>

(* Somebody else creates a resource of the same name.                      *)
Intrude ==
  /\ backend = "none"
  /\ backend' = "other"
  /\ UNCHANGED <<kube, managed>>

Next ==
  \/ Apply \/ Discard \/ RequestDelete
  \/ Manage \/ Create \/ Release
  \/ Vanish \/ Intrude

Spec == Init /\ [][Next]_vars

-----------------------------------------------------------------------------
(* An AWS resource of ours always has a CR that will lead to its deletion. *)
NoOrphan == backend = "ours" => kube # "absent" /\ managed
=============================================================================
