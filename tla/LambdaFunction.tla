--------------------------- MODULE LambdaFunction ---------------------------
(***************************************************************************)
(* The reconciliation of one Function custom resource: the handlers of     *)
(* pkg/resource/function (ReadOne, Create, Update, Delete, LateInitialize, *)
(* IsSynced) in the order in which the ACK runtime calls them, against the *)
(* Lambda API, while users edit the CR, AWS moves the function through its *)
(* states, calls fail or lose their answer, and the controller restarts.   *)
(*                                                                         *)
(* A step is one call to AWS or to Kubernetes with the local code around   *)
(* it: between two of them anything else may happen.  controller-runtime   *)
(* never reconciles one key twice at a time, so there is one worker.       *)
(*                                                                         *)
(* The CR's spec is divided by how the code treats a field:                *)
(*   tags, concurrency, eventInvoke, csc   each has AWS calls of its own   *)
(*   tenancy       compared, never updated                                 *)
(*   code          S3 object (by its hash), image URI, architectures       *)
(*   config        what UpdateFunctionConfiguration sets and clears:       *)
(*                 description, environment, role, timeout, VPC, ...       *)
(*   layers, fileSystems   as config, but an empty list is not sent;       *)
(*                 loggingConfig and durableConfig behave as fileSystems   *)
(*   imageConfig   sent, but GetFunction's answer never reaches the spec   *)
(* Bounds: MaxEdits, MaxFaults and MaxDrifts.                              *)
(***************************************************************************)
EXTENDS Naturals, FiniteSets

CONSTANTS
  Value,           \* values a field can have
  Nil,             \* the field is not set
  Specs,           \* the specs that users, and others in AWS, ask for
  PackageTypes,    \* subset of {"Zip", "Image"}
  ControllerTags,  \* --resource-tags is not empty, so no function is untagged
  MaxEdits,        \* edits, deletions and re-creations by users
  MaxFaults,       \* failed calls, lost answers and controller restarts
  MaxDrifts        \* changes to the function behind the controller's back

Fields == {"tags", "concurrency", "eventInvoke", "csc", "tenancy", "code",
           "config", "layers", "fileSystems", "imageConfig"}

Configs == [Fields -> Value \cup {Nil}]

ASSUME NilAssumption == Nil \notin Value
ASSUME SpecsAssumption ==
  \A s \in Specs : s \in Configs /\ s["code"] # Nil
ASSUME PackageTypesAssumption == PackageTypes \subseteq {"Zip", "Image"}
ASSUME ControllerTagsAssumption == ControllerTags \in BOOLEAN
ASSUME BoundsAssumption ==
  {MaxEdits, MaxFaults, MaxDrifts} \subseteq Nat

VARIABLES
  cr,           \* the custom resource, as stored by Kubernetes
  fn,           \* the Lambda function, as stored by AWS
  packageType,  \* spec.packageType, which never changes
  queued,       \* the CR's key is in the work queue
  pc,           \* where the worker is
  why,          \* what the current or the last ReadOne is for
  desired,      \* the worker's copy of the CR, read when the pass started
  latest,       \* what the worker last read of the function
  delta,        \* fields in which they differed: the argument of Update
  left,         \* what customUpdateFunction still has to handle of it
  outcome,      \* how the pass ends
  budget        \* what is left of the bounds

kubeVars == <<cr, queued>>
passVars == <<pc, why, desired, latest, delta, left, outcome>>
vars == <<cr, fn, packageType, queued, passVars, budget>>

Unset == [f \in Fields |-> Nil]

Conditions == {"Unknown", "Synced", "NotSynced", "Recoverable", "Terminal"}
States == {"None", "Pending", "Active", "Inactive", "Deleting"}
Origins == {"none", "ours", "before", "raced"}
Locations == {"idle", "read", "fields", "manage", "create", "update",
              "writeback", "lateInit", "delete", "unmanage", "finish"}
Purposes == {"sync", "created", "updated", "delete"}

(* Status.ACKResourceMetadata: nil, without an ARN, or with it.            *)
ARNs == {"noMetadata", "noARN", "known"}

NoCR == [exists |-> FALSE, spec |-> Unset, deleting |-> FALSE,
         finalizer |-> FALSE, arn |-> "noMetadata", cond |-> "Unknown"]
FreshCR(s) == [exists |-> TRUE, spec |-> s, deleting |-> FALSE,
               finalizer |-> FALSE, arn |-> "noMetadata", cond |-> "Unknown"]
NoFunction ==
  [state |-> "None", busy |-> FALSE, cfg |-> Unset, origin |-> "none"]
Unread == [state |-> "None", cfg |-> Unset]

CRs == [exists : BOOLEAN, spec : Configs, deleting : BOOLEAN,
        finalizer : BOOLEAN, arn : ARNs, cond : Conditions]
Functions == [state : States, busy : BOOLEAN, cfg : Configs, origin : Origins]

TypeOK ==
  /\ cr \in CRs
  /\ fn \in Functions
  /\ packageType \in PackageTypes
  /\ queued \in BOOLEAN
  /\ pc \in Locations
  /\ why \in Purposes
  /\ desired \in CRs
  /\ latest \in [state : States, cfg : Configs]
  /\ delta \in SUBSET Fields
  /\ left \in SUBSET Fields
  /\ outcome \in Conditions
  /\ budget \in [{"edits", "faults", "drifts"} -> Nat]

(* A function somebody else made, in AWS's least specific form.            *)
Foreign(origin) ==
  {[state |-> "Active", busy |-> FALSE, cfg |-> s, origin |-> origin] :
     s \in {t \in Specs : \A f \in Fields \ {"code"} : t[f] = Nil}}

Init ==
  /\ cr \in {FreshCR(s) : s \in Specs}
  /\ fn \in {NoFunction} \cup Foreign("before")
  /\ packageType \in PackageTypes
  /\ queued = TRUE
  /\ pc = "idle" /\ why = "sync"
  /\ desired = NoCR /\ latest = Unread
  /\ delta = {} /\ left = {}
  /\ outcome = "Unknown"
  /\ budget = [edits |-> MaxEdits, faults |-> MaxFaults, drifts |-> MaxDrifts]

Spend(k) == budget[k] > 0 /\ budget' = [budget EXCEPT ![k] = @ - 1]

-----------------------------------------------------------------------------
(* The pass.                                                               *)

(* The rest of the pass, and what it leaves behind.                        *)
EndPass(o) ==
  /\ pc' = "finish"
  /\ outcome' = o
  /\ UNCHANGED <<why, desired, latest, delta, left>>

Goto(l) ==
  /\ pc' = l
  /\ UNCHANGED <<why, desired, latest, delta, left, outcome>>

(* The worker takes the key and reads the CR.  A CR that is gone needs     *)
(* nothing.                                                                *)
Start ==
  /\ pc = "idle" /\ queued
  /\ queued' = FALSE
  /\ IF cr.exists
       THEN /\ pc' = "read"
            /\ why' = IF cr.deleting THEN "delete" ELSE "sync"
            /\ desired' = cr
       ELSE UNCHANGED <<pc, why, desired>>
  /\ UNCHANGED <<cr, fn, packageType, latest, delta, left, outcome, budget>>

(* sdkFind leaves these as they are in the CR when the function has none.  *)
OnlyWhenPresent == {"layers"} \cup IF ControllerTags THEN {} ELSE {"tags"}

(* sdkFind copies the CR and overwrites the copy with GetFunction's answer *)
(* (for a Zip package customPreCompare compares Status.CodeSHA256, which   *)
(* always is in the answer); other calls read the additional fields.       *)
AdditionalFields == {"concurrency", "eventInvoke", "csc"}
MergedConfiguration(s) ==
  [f \in Fields |->
     IF \/ f = "imageConfig"
        \/ f \in AdditionalFields
        \/ f \in OnlyWhenPresent /\ fn.cfg[f] = Nil
     THEN s[f] ELSE fn.cfg[f]]

GetFunction ==
  /\ pc = "read" /\ fn.state # "None"
  /\ latest' = [state |-> fn.state, cfg |-> MergedConfiguration(desired.spec)]
  /\ pc' = "fields"
  /\ UNCHANGED <<kubeVars, fn, packageType, why, desired, delta, left, outcome,
                 budget>>

(* Mutant: every CR counts as managed.                                     *)
MutantIsManaged == TRUE

(* descriptor.go IsManaged, asked of the copy of the CR.                   *)
IsManaged == desired.finalizer

(* Mutant: a deletion that finds nothing to delete is an error.            *)
MutantFunctionNotFound ==
  /\ pc = "read" /\ fn.state = "None"
  /\ \/ why = "sync" /\ Goto(IF IsManaged THEN "create" ELSE "manage")
     \/ why # "sync" /\ EndPass("Recoverable")
  /\ UNCHANGED <<kubeVars, fn, packageType, budget>>

(* GetFunction returns ResourceNotFoundException: sdkFind returns NotFound.*)
FunctionNotFound ==
  /\ pc = "read" /\ fn.state = "None"
  /\ \/ why = "sync" /\ Goto(IF IsManaged THEN "create" ELSE "manage")
     \/ why = "delete" /\ Goto("unmanage")
     \/ why \in {"created", "updated"} /\ EndPass("Recoverable")
  /\ UNCHANGED <<kubeVars, fn, packageType, budget>>

(* setResourceAdditionalFields on the copy c: concurrency and event-invoke *)
(* config take the function's value or nil; the code signing config is     *)
(* read for Zip packages only and nil in the answer changes nothing.       *)
WithAdditionalFields(c) ==
  [c EXCEPT !["concurrency"] = fn.cfg["concurrency"],
            !["eventInvoke"] = fn.cfg["eventInvoke"],
            !["csc"] = IF packageType = "Zip" /\ fn.cfg["csc"] # Nil
                       THEN fn.cfg["csc"] ELSE @]

(* Mutant: customPreCompare is not hooked in, so the code never differs.   *)
MutantDiffering(s, c) == {f \in Fields \ {"code"} : s[f] # c[f]}

(* newResourceDelta.                                                       *)
Differing(s, c) == {f \in Fields : s[f] # c[f]}

(* The second half of ReadOne, and what the runtime makes of its result.   *)
SetResourceAdditionalFields ==
  /\ pc = "fields"
  /\ LET c == WithAdditionalFields(latest.cfg)
         d == Differing(desired.spec, c)
         go(l, todo) ==
           /\ pc' = l
           /\ latest' = [latest EXCEPT !.cfg = c]
           /\ delta' = todo
           /\ left' = todo
           /\ UNCHANGED <<why, desired, outcome>>
     IN  CASE fn.state = "None" /\ packageType = "Zip" ->
                EndPass("Recoverable")   \* no code signing config to read
           [] packageType = "Image" /\ c["csc"] # Nil ->
                EndPass("Terminal")      \* ErrCannotSetFunctionCSC
           [] OTHER ->
                \/ why = "created" /\ go("lateInit", {})
                \/ why = "updated" /\ go("writeback", delta)
                \/ /\ why = "delete"
                   /\ IF latest.state = "Deleting"
                        THEN EndPass("Recoverable")   \* requeueWaitWhileDeleting
                        ELSE go("delete", {})
                \/ /\ why = "sync"
                   /\ IF ~IsManaged
                        THEN EndPass("Terminal")      \* the runtime's NotManaged
                      ELSE IF d = {}
                        THEN go("lateInit", {})
                      ELSE IF latest.state = "Pending"
                        THEN EndPass("Recoverable")   \* requeueWaitWhilePending
                      ELSE go("update", d)
  /\ UNCHANGED <<kubeVars, fn, packageType, budget>>

(* MarkManaged, patched into the CR before Create is called.  A CR without *)
(* finalizer may be gone by now.                                           *)
Manage ==
  /\ pc = "manage"
  /\ IF cr.exists
       THEN cr' = [cr EXCEPT !.finalizer = TRUE] /\ Goto("create")
       ELSE cr' = cr /\ EndPass("Recoverable")
  /\ UNCHANGED <<fn, packageType, queued, budget>>

(* Mutant: the unset concurrency is read back as zero.                     *)
MutantCreated(s) ==
  [state |-> "Pending", busy |-> FALSE, origin |-> "ours",
   cfg |-> [s EXCEPT !["concurrency"] = 0, !["eventInvoke"] = Nil]]

(* CreateFunction does not carry reserved concurrency and event-invoke     *)
(* config; AWS refuses a code signing config for an Image package.         *)
Created(s) ==
  [state |-> "Pending", busy |-> FALSE, origin |-> "ours",
   cfg |-> [s EXCEPT !["concurrency"] = Nil, !["eventInvoke"] = Nil]]

CreateRefused ==
  fn.state # "None" \/ (packageType = "Image" /\ desired.spec["csc"] # Nil)

CreateFunction ==
  /\ pc = "create"
  /\ \/ CreateRefused /\ EndPass("Recoverable") /\ UNCHANGED <<fn, budget>>
     \/ /\ ~CreateRefused
        /\ fn' = Created(desired.spec)
        /\ \/ /\ pc' = "read" /\ why' = "created"
              /\ latest' = [state |-> "Pending", cfg |-> desired.spec]
              /\ UNCHANGED <<desired, delta, left, outcome, budget>>
           \/ Spend("faults") /\ EndPass("Recoverable")   \* the answer is lost
  /\ UNCHANGED <<kubeVars, packageType>>

-----------------------------------------------------------------------------
(* customUpdateFunction.                                                   *)

Configuration == {"config", "layers", "fileSystems", "imageConfig"}

(* The order in which it looks at the delta; code excludes configuration.  *)
Rank == [tags |-> 1, concurrency |-> 2, eventInvoke |-> 3, csc |-> 4,
         tenancy |-> 5, code |-> 6, config |-> 7, layers |-> 7,
         fileSystems |-> 7, imageConfig |-> 7]
Turn(f) ==
  /\ pc = "update" /\ f \in left
  /\ \A g \in left : Rank[f] =< Rank[g]

(* After the last update the function is read again.                       *)
Proceed(rest) ==
  /\ left' = rest
  /\ IF rest = {} THEN pc' = "read" /\ why' = "updated"
                  ELSE UNCHANGED <<pc, why>>
  /\ UNCHANGED <<desired, latest, delta, outcome>>

Reachable == fn.state \notin {"None", "Deleting"}

(* An AWS call that gives the function configuration c and a busy flag.    *)
Put(c, busy, rest) ==
  /\ Reachable
  /\ fn' = [fn EXCEPT !.cfg = c, !.busy = busy]
  /\ \/ Proceed(rest) /\ UNCHANGED budget
     \/ Spend("faults") /\ EndPass("Recoverable")   \* the answer is lost
  /\ UNCHANGED <<kubeVars, packageType>>

PutField(f, v, rest) == Put([fn.cfg EXCEPT ![f] = v], fn.busy, rest)

(* updateFunctionTags: what differs is untagged first and then tagged.     *)
(* Both calls take the ARN from the status of the CR, not from latest.     *)
UntagResource ==
  /\ Turn("tags") /\ desired.arn = "known"
  /\ latest.cfg["tags"] # Nil
  /\ Reachable
  /\ fn' = [fn EXCEPT !.cfg["tags"] = Nil]
  /\ \/ /\ desired.spec["tags"] = Nil
        /\ Proceed(left \ {"tags"}) /\ UNCHANGED budget
     \/ /\ desired.spec["tags"] # Nil
        /\ latest' = [latest EXCEPT !.cfg["tags"] = Nil]   \* now tag
        /\ UNCHANGED <<pc, why, desired, delta, left, outcome, budget>>
     \/ Spend("faults") /\ EndPass("Recoverable")
  /\ UNCHANGED <<kubeVars, packageType>>

TagResource ==
  /\ Turn("tags") /\ desired.arn = "known"
  /\ latest.cfg["tags"] = Nil
  /\ PutField("tags", desired.spec["tags"], left \ {"tags"})

(* Status.ACKResourceMetadata is nil: the goroutine panics, the runtime    *)
(* recovers and retries, and nothing is written to the status.             *)
TagsPanic ==
  /\ Turn("tags") /\ desired.arn = "noMetadata"
  /\ pc' = "idle" /\ queued' = TRUE
  /\ desired' = NoCR /\ latest' = Unread /\ delta' = {} /\ left' = {}
  /\ UNCHANGED <<cr, fn, packageType, why, outcome, budget>>

(* Without an ARN the AWS SDK refuses to send the request.  The status that*)
(* goes with the error is the one that was read, and so has the ARN.       *)
TagsRefused ==
  /\ Turn("tags") /\ desired.arn = "noARN"
  /\ EndPass("Recoverable")
  /\ UNCHANGED <<kubeVars, fn, packageType, budget>>

(* PutFunctionConcurrency, or DeleteFunctionConcurrency for nil.           *)
UpdateFunctionConcurrency ==
  /\ Turn("concurrency")
  /\ PutField("concurrency", desired.spec["concurrency"], left \ {"concurrency"})

SyncFunctionEventInvokeConfig ==
  /\ Turn("eventInvoke")
  /\ PutField("eventInvoke", desired.spec["eventInvoke"], left \ {"eventInvoke"})

(* Mutant: nil is not sent as deleteFunctionCodeSigningConfig.             *)
MutantUpdateFunctionCodeSigningConfig ==
  /\ Turn("csc")
  /\ PutField("csc", IF desired.spec["csc"] = Nil THEN fn.cfg["csc"]
                     ELSE desired.spec["csc"], left \ {"csc"})

(* The refusal for Image packages in front of it cannot be reached: ReadOne*)
(* has returned the same error.                                            *)
UpdateFunctionCodeSigningConfig ==
  /\ Turn("csc")
  /\ PutField("csc", desired.spec["csc"], left \ {"csc"})

RefuseTenancy ==
  /\ Turn("tenancy")
  /\ EndPass("Terminal")      \* ErrCannotModifyTenancyConfig
  /\ UNCHANGED <<kubeVars, fn, packageType, budget>>

(* Lambda takes one change of code or configuration at a time.             *)
Updatable == Reachable /\ fn.state # "Pending" /\ ~fn.busy

UpdateFunctionCode ==
  /\ Turn("code") /\ Updatable
  /\ Put([fn.cfg EXCEPT !["code"] = desired.spec["code"]], TRUE, {})

(* Nil is sent as "clear it" for some fields and not at all for others.    *)
UpdateFunctionConfiguration ==
  /\ left # {} /\ left \subseteq Configuration
  /\ pc = "update" /\ Updatable
  /\ Put([f \in Fields |->
            IF f \in left /\ (f = "config" \/ desired.spec[f] # Nil)
            THEN desired.spec[f] ELSE fn.cfg[f]], TRUE, {})

(* ResourceNotFoundException, or ResourceConflictException.                *)
UpdateRefused ==
  /\ pc = "update" /\ ~Turn("tenancy")
  /\ ~(Turn("tags") /\ desired.arn # "known")
  /\ \/ ~Reachable
     \/ ~Updatable /\ left \subseteq Configuration \cup {"code"}
  /\ EndPass("Recoverable")
  /\ UNCHANGED <<kubeVars, fn, packageType, budget>>

-----------------------------------------------------------------------------
(* The end of a pass.                                                      *)

(* sdkFind keeps the code of a Zip package as the CR has it.               *)
Overwritten ==
  Differing(desired.spec, latest.cfg)
    \ IF packageType = "Zip" THEN {"code"} ELSE {}

(* The runtime patches into the CR what Update returned, in the fields     *)
(* where that differs from what Update was given.  A changed spec is a new *)
(* generation, which queues the key.                                       *)
WriteBack ==
  /\ pc = "writeback"
  /\ cr' = [cr EXCEPT !.spec = [f \in Fields |-> IF f \in Overwritten
                                                 THEN latest.cfg[f]
                                                 ELSE cr.spec[f]]]
  /\ queued' = (queued \/ cr'.spec # cr.spec)
  /\ Goto("lateInit")
  /\ UNCHANGED <<fn, packageType, budget>>

(* LateInitialize reads once more (it only fills in durableConfig), and    *)
(* then IsSynced judges what the pass had read.                            *)
IsSynced == latest.state \in {"Active", "Inactive"}

LateInitialize ==
  /\ pc = "lateInit"
  /\ EndPass(IF fn.state = "None" THEN "Recoverable"
             ELSE IF IsSynced THEN "Synced" ELSE "NotSynced")
  /\ UNCHANGED <<kubeVars, fn, packageType, budget>>

(* Mutant: an accepted DeleteFunction counts as a finished one.            *)
MutantDeleteFunction ==
  /\ pc = "delete"
  /\ \/ Reachable /\ fn' = [fn EXCEPT !.state = "Deleting"] /\ Goto("unmanage")
     \/ ~Reachable /\ UNCHANGED fn /\ EndPass("Recoverable")
  /\ UNCHANGED <<kubeVars, packageType, budget>>

(* sdkDelete: success is "requeue while deleting", and so is not the end.  *)
DeleteFunction ==
  /\ pc = "delete"
  /\ \/ /\ Reachable
        /\ fn' \in {[fn EXCEPT !.state = "Deleting"], NoFunction}
     \/ ~Reachable /\ UNCHANGED fn
  /\ EndPass("Recoverable")
  /\ UNCHANGED <<kubeVars, packageType, budget>>

(* MarkUnmanaged: with its last finalizer the CR is gone.                  *)
Unmanage ==
  /\ pc = "unmanage"
  /\ cr' = NoCR
  /\ pc' = "idle"
  /\ desired' = NoCR
  /\ UNCHANGED <<fn, packageType, queued, why, latest, delta, left, outcome,
                 budget>>

(* Mutant: a resource that is not synced yet is left to the next event.    *)
MutantRequeued == {"Recoverable"}

(* What makes the runtime queue the key again.                             *)
Requeued == {"NotSynced", "Recoverable"}

(* The status patch (conditions and ARN) and the decision to come back.    *)
(* updateConditions sets ACKResourceMetadata in whatever onError returns.  *)
Finish ==
  /\ pc = "finish"
  /\ IF cr.exists
       THEN /\ cr' = [cr EXCEPT !.cond = outcome,
                                !.arn = IF latest.state # "None" THEN "known"
                                        ELSE IF @ = "noMetadata" THEN "noARN"
                                        ELSE @]
            /\ queued' = (queued \/ outcome \in Requeued)
       ELSE UNCHANGED kubeVars
  /\ pc' = "idle" /\ outcome' = "Unknown"
  /\ desired' = NoCR /\ latest' = Unread /\ delta' = {} /\ left' = {}
  /\ UNCHANGED <<fn, packageType, why, budget>>

(* A call to AWS or Kubernetes fails and has had no effect.                *)
CallFails ==
  /\ pc \in {"read", "fields", "manage", "create", "update", "writeback",
             "lateInit", "delete"}
  /\ ~Turn("tenancy") /\ ~(Turn("tags") /\ desired.arn # "known")
  /\ Spend("faults")
  /\ EndPass("Recoverable")
  /\ UNCHANGED <<kubeVars, fn, packageType>>

(* The regular resync, ten hours after a pass that found the CR synced.    *)
Resync ==
  /\ pc = "idle" /\ ~queued
  /\ cr.exists /\ cr.cond = "Synced"
  /\ queued' = TRUE
  /\ UNCHANGED <<cr, fn, packageType, passVars, budget>>

(* A new controller process lists every CR.                                *)
Crash ==
  /\ Spend("faults")
  /\ pc' = "idle" /\ queued' = cr.exists
  /\ why' = "sync" /\ outcome' = "Unknown"
  /\ desired' = NoCR /\ latest' = Unread /\ delta' = {} /\ left' = {}
  /\ UNCHANGED <<cr, fn, packageType>>

-----------------------------------------------------------------------------
(* Users, and AWS.                                                         *)

UserApply ==
  /\ ~cr.exists
  /\ Spend("edits")
  /\ cr' \in {FreshCR(s) : s \in Specs}
  /\ queued' = TRUE
  /\ UNCHANGED <<fn, packageType, passVars>>

(* A validation rule on the CRD keeps tenancy from changing its value, but *)
(* not from being added or removed.                                        *)
UserEdit(s) ==
  /\ cr.exists /\ s # cr.spec
  /\ \/ s["tenancy"] = cr.spec["tenancy"]
     \/ Nil \in {s["tenancy"], cr.spec["tenancy"]}
  /\ Spend("edits")
  /\ cr' = [cr EXCEPT !.spec = s]
  /\ queued' = TRUE
  /\ UNCHANGED <<fn, packageType, passVars>>

UserDelete ==
  /\ cr.exists /\ ~cr.deleting
  /\ Spend("edits")
  /\ cr' = IF cr.finalizer THEN [cr EXCEPT !.deleting = TRUE] ELSE NoCR
  /\ queued' = TRUE
  /\ UNCHANGED <<fn, packageType, passVars>>

(* AWS finishes a creation, an update or a deletion.                       *)
Settle ==
  /\ \/ fn.state = "Pending" /\ fn' = [fn EXCEPT !.state = "Active"]
     \/ fn.state = "Deleting" /\ fn' = NoFunction
     \/ /\ fn.state \in {"Active", "Inactive"} /\ fn.busy
        /\ fn' = [fn EXCEPT !.busy = FALSE]
  /\ UNCHANGED <<kubeVars, packageType, passVars, budget>>

(* AWS reclaims an idle function, and an invocation wakes it up.           *)
IdleOrWake ==
  /\ ~fn.busy
  /\ \/ fn.state = "Active" /\ fn' = [fn EXCEPT !.state = "Inactive"]
     \/ fn.state = "Inactive" /\ fn' = [fn EXCEPT !.state = "Pending"]
  /\ Spend("drifts")
  /\ UNCHANGED <<kubeVars, packageType, passVars>>

(* Somebody else changes, deletes or creates the function.  AWS lets       *)
(* nobody change the tenancy or sign the code of an image.                 *)
Drift(s) ==
  /\ Reachable /\ s # fn.cfg
  /\ s["tenancy"] = fn.cfg["tenancy"]
  /\ packageType = "Image" => s["csc"] = Nil
  /\ Spend("drifts")
  /\ fn' = [fn EXCEPT !.cfg = s]
  /\ UNCHANGED <<kubeVars, packageType, passVars>>

DriftAway ==
  /\ \/ Reachable /\ fn' = NoFunction
     \/ fn.state = "None" /\ fn' \in Foreign("raced")
  /\ Spend("drifts")
  /\ UNCHANGED <<kubeVars, packageType, passVars>>

-----------------------------------------------------------------------------
Update ==
  \/ UntagResource \/ TagResource \/ TagsPanic \/ TagsRefused
  \/ UpdateFunctionConcurrency \/ SyncFunctionEventInvokeConfig
  \/ UpdateFunctionCodeSigningConfig \/ RefuseTenancy
  \/ UpdateFunctionCode \/ UpdateFunctionConfiguration
  \/ UpdateRefused

Worker ==
  \/ Start \/ GetFunction \/ FunctionNotFound \/ SetResourceAdditionalFields
  \/ Manage \/ CreateFunction \/ Update \/ WriteBack \/ LateInitialize
  \/ DeleteFunction \/ Unmanage \/ Finish

Environment ==
  \/ CallFails \/ Crash \/ Resync
  \/ UserApply \/ UserDelete
  \/ \E s \in Specs : UserEdit(s) \/ Drift(s)
  \/ Settle \/ IdleOrWake \/ DriftAway

Next == Worker \/ Environment

Spec == Init /\ [][Next]_vars

(* The worker goes on, AWS finishes what it started and the resync timer   *)
(* expires.  Nobody has to edit, fail or crash.                            *)
Fairness == WF_vars(Worker) /\ WF_vars(Settle) /\ WF_vars(Resync)

FairSpec == Spec /\ Fairness

-----------------------------------------------------------------------------
(* Properties.                                                             *)

(* The finalizer protocol (descriptor.go MarkManaged, manager.go Create    *)
(* and Delete): a function of ours always has a CR with the finalizer, so  *)
(* that no order of crashes, lost answers, deletions and re-creations      *)
(* leaves a function behind that nothing will ever delete.                 *)
NoOrphan == fn.origin = "ours" => cr.exists /\ cr.finalizer

(* A function that was there before the CR is never changed, taken over or *)
(* deleted by the controller, although ReadOne finds it by name: the       *)
(* finalizer is only added after ReadOne found nothing.                    *)
PreexistingUntouched ==
  [][fn.origin = "before" /\ budget'.drifts = budget.drifts
       => /\ fn'.origin = "before" /\ fn'.cfg = fn.cfg
          /\ fn'.state # "Deleting"]_vars

NoDriftYet == budget.drifts = MaxDrifts

(* The code signing config of an Image package makes ReadOne fail, and     *)
(* with it the deletion (hooks.go:900-903).                                *)
Blocked == packageType = "Image" /\ cr.spec["csc"] # Nil

(* What sdkFind cannot see: a value the CR has and the function lacks, for *)
(* the fields it takes from the answer only when they are present.         *)
Blind(f) ==
  \/ f = "imageConfig"
  \/ fn.cfg[f] = Nil /\ (f = "csc" \/ f \in OnlyWhenPresent)

(* The write-back after Update (hooks.go:156-160 returns what was read)    *)
(* overwrites a value of the CR that the function does not have yet in two *)
(* cases only: a configuration change deferred behind a code change, and a *)
(* removal that UpdateFunctionConfiguration cannot express.                *)
OverwritesAreKnown ==
  [][NoDriftYet /\ cr.exists /\ cr'.exists /\ budget'.edits = budget.edits
       => \A f \in Fields : cr'.spec[f] # cr.spec[f] =>
            \/ f \in Configuration /\ "code" \in delta
            \/ f \in {"layers", "fileSystems"} /\ desired.spec[f] = Nil]_vars

(* When the controller rests with the Synced condition, the function has   *)
(* what the spec says, whatever was edited, lost or restarted on the way,  *)
(* except in blind fields and except that concurrency and event-invoke     *)
(* config are still missing if the function became Active before the read  *)
(* that follows its creation.                                              *)
SyncedMeansApplied ==
  NoDriftYet /\ pc = "idle" /\ ~queued /\ cr.exists /\ cr.cond = "Synced"
    => \A f \in Fields :
         \/ fn.cfg[f] = cr.spec[f]
         \/ Blind(f)
         \/ why = "created" /\ f \in {"concurrency", "eventInvoke"}

(* The controller never rests on unfinished work: a CR it will not look at *)
(* again by itself is synced or has been reported Terminal, and one to be  *)
(* deleted is Blocked.                                                     *)
NeverForgotten ==
  pc = "idle" /\ ~queued /\ cr.exists
    => /\ cr.cond \in {"Synced", "Terminal"}
       /\ cr.deleting => Blocked /\ cr.cond = "Terminal"

(* Tags differ and no pass has ever written the CR's status, because the   *)
(* controller stopped after it created the function: every pass panics.    *)
PanicLoop == cr.arn = "noMetadata" /\ fn.cfg["tags"] # cr.spec["tags"]

(* Once users, faults and drift stop, the function reaches the spec and    *)
(* the CR says so, or the CR reports Terminal; the exceptions are named.   *)
Converges ==
  <>[](cr.exists /\ ~cr.deleting =>
         \/ cr.cond = "Terminal"
         \/ Blocked
         \/ PanicLoop
         \/ /\ cr.cond = "Synced"
            /\ \A f \in Fields : fn.cfg[f] = cr.spec[f] \/ Blind(f))

(* A deletion ends, with its function gone, unless it is Blocked.          *)
DeletionCompletes == <>[](cr.exists /\ cr.deleting => Blocked)

(* What customUpdateFunction's comment says (hooks.go:77-78): it patches   *)
(* each of the properties and returns the resource with updated fields.    *)
ReturnsUpdatedFields ==
  pc = "writeback" /\ NoDriftYet
    => \A f \in delta : latest.cfg[f] = desired.spec[f]

(* What updateFunctionTags' comment says (hooks.go:391-392): it adds,       *)
(* removes and updates tags.  So a tag edit reaches the function, in the   *)
(* end, of a CR that is not reported Terminal.                             *)
TagEditsAreApplied ==
  <>[](cr.exists /\ ~cr.deleting /\ cr.cond # "Terminal"
         => fn.cfg["tags"] = cr.spec["tags"])

(* What ReadOne's comment says (manager.go:95-96): it returns the          *)
(* currently observed state of the resource in the AWS API.                *)
ReadOneObserves ==
  pc = "lateInit" /\ NoDriftYet => latest.cfg = fn.cfg

(* The contract of ManagedResource.  A function being deleted is still     *)
(* there.                                                                  *)
Kube == IF ~cr.exists THEN "absent"
        ELSE IF cr.deleting THEN "terminating" ELSE "live"
Backend == CASE fn.origin = "none" -> "none"
             [] fn.origin = "ours" -> "ours"
             [] OTHER -> "other"

Contract == INSTANCE ManagedResource
              WITH kube <- Kube, managed <- cr.finalizer, backend <- Backend

(* The function controller keeps the contract: every step of it, of AWS    *)
(* and of the users is a step of ManagedResource or changes nothing there. *)
KeepsContract == Contract!Spec
=============================================================================
