------------------------ MODULE ReferencingResource ------------------------
(***************************************************************************)
(* The reconciliation of a custom resource (CR) that refers to other CRs.  *)
(* Of a FunctionURLConfig (pkg/resource/function_url_config) it is all:    *)
(* the name of its function, which is what it is found by, may be given, or*)
(* be that of a Function CR; and CORS settings are sent if they are set.   *)
(* Of a Function and of an EventSourceMapping it is what concerns their    *)
(* references, several and some of them lists; the rest is in              *)
(* LambdaFunction and TaggedResource, and here these two are found by their*)
(* CR.                                                                     *)
(*                                                                         *)
(* The CRs referred to belong to users and to other controllers. Nothing   *)
(* tells this controller that one of them has changed.                     *)
(***************************************************************************)
EXTENDS AckPass, References, FiniteSets

CONSTANTS
  Value,         \* names and ARNs, and CORS settings
  OutOfRange,    \* CORS settings whose MaxAge does not fit in 32 bits
  Object,        \* the CRs that others refer to
  ObjectStates,  \* what they may be like
  Kinds,         \* of the kinds of CRs that refer to them
  SpecsOf        \* and the specs that users ask for, by kind

States == [exists : BOOLEAN, conds : SUBSET {"Synced", "Terminal"},
           value : Value \cup {Nil}]
SpecOf(K) ==
  {s \in [ids : [FieldsOf(K) -> Seq(Value)],
          refs : [FieldsOf(K) -> Seq(Object \cup {Nil})], cors : Value \cup {Nil}] :
     \A r \in Range(ReferencesOf[K]) : ~r.list => Len(s.refs[r.field]) =< 1}

ASSUME ReferencingNil ==
  /\ Nil \notin Value \cup Key \cup Object
  /\ "other" \notin Key \cup {Nil} /\ OutOfRange \subseteq Value
ASSUME ReferencingStates == ObjectStates \subseteq States
ASSUME ReferencingKinds == Kinds \subseteq DOMAIN ReferencesOf
ASSUME ReferencingSpecs ==
  /\ DOMAIN SpecsOf = Kinds
  /\ \A K \in Kinds : \A s \in SpecsOf[K] : s \in SpecOf(K)

VARIABLES
  kind,       \* of which kind the CRs are
  objects,    \* the CRs that they refer to
  resources   \* what there is in AWS

vars == <<passVars, kind, objects, resources>>

Locations == {"idle", "read", "resolve", "find", "manage", "create", "update",
              "writeback", "delete", "unmanage", "finish"}

Names == Value \cup Key
None == [by |-> Nil, ids |-> Nil, cors |-> Nil]
Foreign(K) == [by |-> "other", ids |-> [f \in FieldsOf(K) |-> <<>>], cors |-> Nil]
Resource(K) ==
  {None} \cup [by : Key \cup {"other"}, ids : [FieldsOf(K) -> Seq(Value)],
               cors : Value \cup {Nil}]

TypeOK ==
  /\ kind \in Kinds
  /\ PassTypeOK(Locations, SpecOf(kind), {Nil})
  /\ objects \in [Object -> ObjectStates]
  /\ DOMAIN resources = Names
  /\ \A n \in Names : resources[n] \in Resource(kind)

Wanted == SpecsOf[kind]

Init ==
  /\ kind \in Kinds
  /\ PassInit(Wanted, Nil)
  /\ objects \in [Object -> ObjectStates]
  /\ resources = [n \in Names |-> None]

-----------------------------------------------------------------------------
(* ResolveReferences, with one read of Kubernetes for each reference. The  *)
(* pass's copy of the CR is filled in as it goes; latest has the CR as it  *)
(* was read.                                                               *)

Resolving(k) == At(k, "resolve")

ResolveReferences(k) ==
  /\ At(k, "read")
  /\ pass' = [pass EXCEPT ![k].pc = "resolve",
                          ![k].todo = Unresolved(kind, pass[k].desired.spec, Nil)]
  /\ UNCHANGED <<cr, queued, spent, kind, objects, resources>>

(* The CR that a reference of the pass's spec names.                       *)
Referenced(k, x) ==
  objects[pass[k].desired.spec.refs[ReferencesOf[kind][x[1]].field][x[2]]]

ResolveReference(k) ==
  /\ Resolving(k)
  /\ \E x \in pass[k].todo :
       LET object == Referenced(k, x) IN
       /\ IsNext(x, pass[k].todo)
       /\ getReferencedResourceState(object, Nil)
       /\ pass' = [pass EXCEPT
            ![k].todo = @ \ {x},
            ![k].desired.spec =
              resolveReference(@, ReferencesOf[kind][x[1]], object.value)]
  /\ UNCHANGED <<cr, queued, spent, kind, objects, resources>>

(* Mutant: what cannot be resolved is left out.                            *)
MutantResolutionError(k) == Goto(k, "find")

(* An error of any of it ends the pass, but not that of a deletion, which  *)
(* goes on with what has been resolved until then.                         *)
ResolutionError(k) ==
  IF pass[k].why = "delete" THEN Goto(k, "find") ELSE EndPass(k, "Recoverable")

(* The CR referred to is not as it must be, or cannot be read.             *)
ReferenceNotReady(k) ==
  /\ Resolving(k)
  /\ \E x \in pass[k].todo :
       /\ IsNext(x, pass[k].todo)
       /\ \/ ~getReferencedResourceState(Referenced(k, x), Nil) /\ UNCHANGED spent
          \/ Spend("faults")
  /\ ResolutionError(k)
  /\ UNCHANGED <<cr, queued, kind, objects, resources>>

(* The fields are validated as they were before, but the result counts only*)
(* now.                                                                    *)
Resolved(k) ==
  /\ Resolving(k) /\ pass[k].todo = {}
  /\ IF validateReferenceFields(kind, pass[k].latest.spec)
       THEN Goto(k, "find") ELSE ResolutionError(k)
  /\ UNCHANGED <<cr, queued, spent, kind, objects, resources>>

Resolve(k) ==
  \/ ResolveReferences(k) \/ ResolveReference(k)
  \/ ReferenceNotReady(k) \/ Resolved(k)

-----------------------------------------------------------------------------
(* ReadOne.                                                                *)

(* What the CR is found by: a FunctionURLConfig by the name of its function*)
(* and without it not at all.                                              *)
Name(k, s) ==
  IF kind # "FunctionURLConfig" THEN k
  ELSE IF s.ids[FunctionName.field] = <<>> THEN Nil
       ELSE Head(s.ids[FunctionName.field])

requiredFieldsMissing(k, s) == Name(k, s) = Nil

Exists(n) == n # Nil /\ resources[n] # None

(* The fields that are read back, and those that an update sends.          *)
ReadBack ==
  [FunctionURLConfig |-> {},
   Function |-> FieldsOf("Function") \ {Code_S3Bucket.field},
   EventSourceMapping |-> FieldsOf("EventSourceMapping") \ {FunctionName.field}]
Sent ==
  [FunctionURLConfig |-> {},
   Function |-> ReadBack["Function"],
   EventSourceMapping |-> {SchemaRegistry_URI.field, FunctionName.field}]

(* Mutant: the fields that can be references are not read back.            *)
MutantObserved(s, r) == [s EXCEPT !.cors = r.cors]

(* An answer of AWS, laid over the CR's copy.                              *)
Observed(s, r) ==
  [s EXCEPT !.cors = r.cors,
            !.ids = [f \in DOMAIN @ |-> IF f \in ReadBack[kind] THEN r.ids[f]
                                        ELSE @[f]]]

newResourceDelta(d, s) == {f \in DOMAIN d : d[f] # s[f]}

Subject(k) ==
  IF pass[k].why = "created" THEN pass[k].latest.spec ELSE pass[k].desired.spec

(* The read, and what the runtime makes of its result.                     *)
sdkFind(k) ==
  /\ At(k, "find")
  /\ LET p == pass[k]
         n == Name(k, Subject(k))
         s == Observed(Subject(k), resources[n])
         next(l, o) == pass' = [pass EXCEPT ![k].pc = l, ![k].outcome = o,
                                            ![k].latest.spec = s]
     IN  IF requiredFieldsMissing(k, Subject(k)) \/ ~Exists(n) THEN NotFound(k)
         ELSE \/ p.why = "created" /\ next("finish", "Synced")
              \/ p.why = "delete" /\ next("delete", "Unknown")
              \/ p.why = "sync" /\ ~IsManaged(k) /\ next("finish", "Terminal")
              \/ /\ p.why = "sync" /\ IsManaged(k)
                 /\ IF newResourceDelta(p.desired.spec, s) = {}
                      THEN next("finish", "Synced") ELSE next("update", "Unknown")
  /\ UNCHANGED <<cr, queued, spent, kind, objects, resources>>

ReadOne(k) == sdkFind(k)

-----------------------------------------------------------------------------
(* Create, Update and Delete.                                              *)

(* A call has had its effect; its answer arrives or does not.              *)
Answered(k, p) ==
  \/ pass' = [pass EXCEPT ![k] = p] /\ UNCHANGED spent
  \/ Spend("faults") /\ EndPass(k, "Recoverable")

Refused(k) == EndPass(k, "Recoverable") /\ UNCHANGED <<spent, resources>>

(* An error before anything is sent.                                       *)
RequestFails(s) == kind = "FunctionURLConfig" /\ s.cors \in OutOfRange

(* A required field has no value, as its reference names no CR: the client *)
(* of AWS does not send the call, or Lambda refuses it.                    *)
Lacking(s) ==
  \E r \in Range(ReferencesOf[kind]) : r.required /\ s.ids[r.field] = <<>>

sdkCreate(k) ==
  LET s == pass[k].desired.spec
      n == Name(k, s)
      r == [by |-> k, ids |-> s.ids, cors |-> s.cors]
  IN
  /\ At(k, "create")
  /\ IF RequestFails(s) \/ Lacking(s) \/ Exists(n)
       THEN Refused(k)
       ELSE /\ resources' = [resources EXCEPT ![n] = r]
            /\ Answered(k, [pass[k] EXCEPT
                 !.pc = "writeback", !.why = "created",
                 !.latest.spec = Observed(s, r)])
  /\ UNCHANGED <<cr, queued, kind, objects>>

(* Settings that are not set are not sent, and stay as they are; so does a *)
(* mapping's function. Of a Function, what is not set is sent as empty.    *)
SentOf(s) == {f \in Sent[kind] : f = FunctionName.field => s.ids[f] # <<>>}

sdkUpdate(k) ==
  LET s == pass[k].desired.spec
      n == Name(k, s)
      r == [resources[n] EXCEPT
              !.cors = IF s.cors = Nil THEN @ ELSE s.cors,
              !.ids = [f \in DOMAIN @ |-> IF f \in SentOf(s) THEN s.ids[f]
                                          ELSE @[f]]]
  IN
  /\ At(k, "update")
  /\ IF RequestFails(s) \/ (kind = "Function" /\ Lacking(s)) \/ ~Exists(n)
       THEN Refused(k)
       ELSE /\ resources' = [resources EXCEPT ![n] = r]
            /\ Answered(k, [pass[k] EXCEPT !.pc = "writeback", !.why = "updated",
                                           !.latest.spec = Observed(s, r)])
  /\ UNCHANGED <<cr, queued, kind, objects>>

(* The patch of the spec, of fields of which neither side is resolved.     *)
WriteBack(k) ==
  LET given == ClearResolvedReferences(pass[k].desired.spec)
      returned == ClearResolvedReferences(pass[k].latest.spec)
      stored == [Patched(given, returned, cr[k].spec) EXCEPT
                   !.ids = Patched(given.ids, returned.ids, cr[k].spec.ids)]
  IN
  /\ At(k, "writeback")
  /\ StoreSpec(k, stored)
  /\ IF pass[k].why = "created" THEN Goto(k, "find") ELSE EndPass(k, "Synced")
  /\ UNCHANGED <<kind, objects, resources>>

(* Mutant: an error of the delete call is not returned.                    *)
MutantSdkDelete(k) ==
  LET n == Name(k, pass[k].latest.spec) IN
  /\ At(k, "delete")
  /\ \/ resources' = [resources EXCEPT ![n] = None] /\ UNCHANGED spent
     \/ Spend("faults") /\ UNCHANGED resources
  /\ Goto(k, "unmanage")
  /\ UNCHANGED <<cr, queued, kind, objects>>

sdkDelete(k) ==
  LET n == Name(k, pass[k].latest.spec) IN
  /\ At(k, "delete")
  /\ IF ~Exists(n)
       THEN Refused(k)
       ELSE /\ resources' = [resources EXCEPT ![n] = None]
            /\ Answered(k, [pass[k] EXCEPT !.pc = "unmanage"])
  /\ UNCHANGED <<cr, queued, kind, objects>>

Create(k) == sdkCreate(k)
Update(k) == sdkUpdate(k)
Delete(k) == sdkDelete(k)

-----------------------------------------------------------------------------
(* What has no state of AWS.                                               *)
Other(k) ==
  /\ Start(k) \/ Manage(k) \/ Unmanage(k) \/ Finish(k)
  /\ UNCHANGED <<kind, objects, resources>>

(* A failure of Kubernetes while references are resolved is                *)
(* ReferenceNotReady.                                                      *)
Environment(k) ==
  /\ \/ ~At(k, "read") /\ ~Resolving(k) /\ CallFails(k)
     \/ Resync(k)
     \/ \E s \in Wanted : UserApply(k, s, Nil) \/ UserEdit(k, s)
     \/ UserDelete(k)
  /\ UNCHANGED <<kind, objects, resources>>

(* A CR that others refer to comes, goes or changes.                       *)
ObjectChanges(o) ==
  /\ \E s \in ObjectStates : s # objects[o] /\ objects' = [objects EXCEPT ![o] = s]
  /\ Spend("edits")
  /\ UNCHANGED <<cr, queued, pass, kind, resources>>

(* Somebody creates or deletes what the CR is about.                       *)
Drift(n) ==
  /\ resources' = [resources EXCEPT ![n] = IF Exists(n) THEN None ELSE Foreign(kind)]
  /\ Spend("drifts")
  /\ UNCHANGED <<cr, queued, pass, kind, objects>>

Handlers(k) ==
  \/ Other(k) \/ Resolve(k) \/ ReadOne(k) \/ Create(k) \/ Update(k)
  \/ WriteBack(k) \/ Delete(k)

Next ==
  \/ \E k \in Key : Handlers(k) \/ Environment(k)
  \/ \E o \in Object : ObjectChanges(o)
  \/ \E n \in Names : Drift(n)
  \/ Crash /\ UNCHANGED <<kind, objects, resources>>

Spec == Init /\ [][Next]_vars

(* Passes go on, and the resync timer expires.                             *)
Fairness ==
  \A k \in Key :
    SF_vars(Handlers(k)) /\ WF_vars(Resync(k) /\ UNCHANGED <<kind, objects, resources>>)

FairSpec == Spec /\ Fairness

-----------------------------------------------------------------------------
(* Properties.                                                             *)

(* A call that changes something in AWS carries a value for each reference *)
(* of its spec that names a CR, whatever has failed before it. References  *)
(* that name none pass the validation and stand for nothing: the field is  *)
(* sent as if it were not set, or the list without them.                   *)
NeverHalfResolved ==
  \A k \in Key :
    At(k, "create") \/ At(k, "update")
      => LET s == pass[k].desired.spec IN
         \A f \in FieldsOf(kind) :
           s.refs[f] # <<>>
             => Len(s.ids[f]) = Cardinality(Named(s.refs[f], Nil))

(* The controller never stores what a reference resolved to, which         *)
(* validateReferenceFields would refuse in the next pass, for ever. It     *)
(* still happens to a user who replaces a field by a reference while a pass*)
(* restores the field, which is not the spec that the pass has read.       *)
ReferencesStayValid ==
  [][\A k \in Key :
       /\ At(k, "writeback") /\ ~At(k, "writeback")' /\ cr[k].exists
       /\ cr[k].spec.refs = pass[k].desired.spec.refs
       /\ validateReferenceFields(kind, cr[k].spec)
       => validateReferenceFields(kind, cr'[k].spec)]_vars

(* A CR does not go while what it has created is still there. It may have  *)
(* been created under another name, which its reference or its user has    *)
(* changed; and a deletion that has no name reads and deletes nothing: the *)
(* name was that of another CR, which could not be resolved, an error that *)
(* deletions ignore, or the user has removed both, or put a reference there*)
(* that names no CR.                                                       *)
LeaksAreKnown ==
  [][\A k \in Key :
       cr[k].exists /\ cr[k].finalizer /\ ~cr'[k].exists
       => LET n == Name(k, pass[k].desired.spec) IN
          Exists(n) => resources[n].by # k]_vars

(* Once users, failures and drift stop, a deleted CR goes, and a CR has    *)
(* what it asks for, with what its references say by then, though they     *)
(* may have changed after it was synced: the resync finds it out. Left are *)
(* references that cannot be resolved or are given twice, required fields  *)
(* whose reference names no CR, settings out of range, what belongs to     *)
(* somebody else, and a changed field that updates do not send, which the  *)
(* CR reports as synced all the same.                                      *)
Meant(k) ==
  [f \in FieldsOf(kind) |->
     LET named == SelectSeq(cr[k].spec.refs[f], LAMBDA o : o # Nil) IN
     IF cr[k].spec.refs[f] = <<>> THEN cr[k].spec.ids[f]
     ELSE [i \in DOMAIN named |-> objects[named[i]].value]]

Intended(k) == [cr[k].spec EXCEPT !.ids = Meant(k)]

Ready(k) ==
  /\ validateReferenceFields(kind, cr[k].spec) /\ ~Lacking(Intended(k))
  /\ \A f \in FieldsOf(kind) : \A o \in Range(cr[k].spec.refs[f]) \ {Nil} :
       getReferencedResourceState(objects[o], Nil)

Applied(k) ==
  LET n == Name(k, Intended(k)) IN
  /\ Exists(n)
  /\ resources[n].cors = cr[k].spec.cors
  /\ \A f \in ReadBack[kind] \cap Sent[kind] : resources[n].ids[f] = Meant(k)[f]

Converges ==
  \A k \in Key :
    <>[](/\ ~cr[k].deleting
         /\ cr[k].exists /\ Ready(k) /\ ~RequestFails(cr[k].spec)
              => \/ cr[k].cond = "Synced" /\ Applied(k)
                 \/ cr[k].cond = "Terminal")
=============================================================================
