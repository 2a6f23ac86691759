# Verification of the Lambda controller

TLA+ models of `aws-controllers-k8s/lambda-controller`, the ACK controller that
keeps Kubernetes custom resources (CRs) and AWS Lambda resources in agreement.
The modules are checked with TLC on small instances; the theorems in the
`*_proofs` modules are checked with TLAPS for every instance.

Paths below are relative to `src/pkg/resource/` unless they start with `src/`.

## The system

One process runs one reconciler per resource kind. A reconciler takes the key of
a CR from a work queue, reads the CR, and calls the handlers of this
repository in an order fixed by the ACK runtime (a library, not in `src/`):

    ReadOne -> NotFound  -> add finalizer, Create, ReadOne, late-initialise
            -> found     -> compare; Update if different; late-initialise
            -> CR being deleted: Delete until ReadOne says NotFound,
               then remove the finalizer

and then patches the CR's status and decides whether to come back. There is no
state in the process beyond the queue and the manager cache. Everything else is
in Kubernetes (spec, status, finalizer) or in AWS, and neither can be changed
together with the other. That is where the difficulty is: each AWS call is a
separate step, users edit the CR meanwhile, AWS moves a function through
`Pending`, `Active` and `Deleting` on its own, calls fail after they took
effect, and the process may stop between any two steps.

### Inventory

| component | source | state | operations | hard behaviour | correct means |
|---|---|---|---|---|---|
| Manager factory (seven copies) | `*/manager_factory.go` | `rmCache`, an RWMutex | `ManagerFor` | concurrent reconcilers, check and act under two different locks | no access to the map during a write; a call gets a manager of its own key; every call returns |
| Finalizer protocol | `*/descriptor.go` | finalizer in the CR | `IsManaged`, `MarkManaged`, `MarkUnmanaged`, `MarkAdopted` | must surround the life of the AWS resource in spite of restarts | no AWS resource without a CR that leads to its deletion; resources of others untouched |
| Function | `function/{manager,sdk,hooks,delta}.go` | spec and status of the CR; the function | `ReadOne`, `Create`, `Update` (tags, concurrency, event-invoke config, code signing, code, configuration), `Delete`, `LateInitialize`, `IsSynced` | one update takes up to seven AWS calls; code and configuration exclude each other; what is read is overlaid on the CR and written back | Synced means applied; edits are not lost; work in progress is resumed; deletion ends |
| References | `*/references.go` | none | `ResolveReferences`, `ClearResolvedReferences` | the other CR may not be synced yet, or go away | a reference that names a CR and cannot be resolved stops a pass before any change; resolved values are not persisted |
| Version | `version/*.go` | `Status.Version`; published versions | `ReadOne`, `Create` (list, publish), `Update` (event-invoke config, provisioned concurrency), `Delete` | publish is idempotent per code, so versions are shared; the number is only in the status | shared by a race only; lost by a failure only; the function itself is never deleted |
| Alias | `alias/*.go` | `Status.RevisionID`; policy of the alias | as above and permission sync | optimistic locking with a revision read earlier; one call per permission | permissions converge; a grant is not withdrawn on the way; update is not refused for ever |
| LayerVersion | `layer_version/*.go` | `Status.VersionNumber` | `Create`, `Update` publish; `Delete` removes all versions | list and delete one by one, several versions per CR | publications are bounded; deletion leaves no version |
| EventSourceMapping | `event_source_mapping/*.go` | `Status.UUID` | as Function, filter criteria and tags | identity known from the create answer only; transitional states; required update fields | one lost for each failure, and for each CR with a restart; filters and tags follow the spec |
| CodeSigningConfig | `code_signing_config/*.go` | ARN in the status | as above | identity known from the create answer only; refused while in use | as EventSourceMapping |
| FunctionURLConfig | `function_url_config/*.go` | none of its own | one call per operation | found by a name that may come from another CR | nothing left behind without a known cause |
| Tag sync | `tags/sync.go`, `*/tags.go` | none | `GetTags`, `SyncTags` | untag, then tag | the tags become the desired ones |
| Conditions | `*/sdk.go` `updateConditions`, `*/manager.go` `onError`, `onSuccess` | conditions in the status | set and clear Terminal and Recoverable | conditions of earlier passes | Terminal is cleared when the cause is gone |
| Start-up | `src/cmd/controller/main.go`, `registry.go` | none | flags, registration | none | - |

Interaction: a Function CR names a CodeSigningConfig, and Versions, Aliases,
mappings and URL configs name a Function, through references; the controllers
share no memory, only the Kubernetes and AWS APIs. All kinds share the
structure of manager factory, finalizer protocol and conditions.

The hazards this list leads to, each with its source line and the properties
that cover it, are in `PROJECT.json` under `hazards`.

## Modules

| module | models |
|---|---|
| `ManagerFactory` | `ManagerFor`, with the goroutines that call it |
| `ManagerFactory_proofs` | its theorems |
| `ManagedResource` | the abstract contract: a CR, its finalizer and the AWS resource |
| `LambdaFunction` | one Function CR, the reconcile pass, the function in AWS, the users |
| `LambdaFunction_proofs` | its theorems |
| `AckPass` | what all other kinds share: queue, pass, patches, users, failures, restarts |
| `AckPass_proofs` | lemmas about it for the proofs about the kinds |
| `LambdaVersion` | Version CRs of one function; extends `AckPass` |
| `LambdaVersion_proofs` | its theorems |
| `LayerVersion` | LayerVersion CRs and the layers; extends `AckPass` |
| `LayerVersion_proofs` | its theorems |
| `LambdaAlias` | Alias CRs, their aliases and policies; extends `AckPass` |
| `LambdaAlias_proofs` | its theorems |
| `TaggedResource` | EventSourceMapping or CodeSigningConfig CRs; extends `AckPass` |
| `TaggedResource_proofs` | its theorems |
| `References` | resolving, validating and clearing references, for three kinds: operators only |
| `ReferencingResource` | a CR that refers to others: FunctionURLConfig in full, the references of Function and EventSourceMapping; extends `AckPass` and `References` |
| `ReferencingResource_proofs` | its theorems |
| `MC...` | the sets of keys, values, specs and limits that TLC uses |

### ManagerFactory

Each goroutine has a program counter through the statements of `ManagerFor`
(manager_factory.go:61-78). The lock is modelled as Go's `sync.RWMutex`:
`Lock` is two steps, announcing the writer, which stops new readers, and
`Drained`, when the readers that were in have left. A manager is its position
in `made`, the history of `newResourceManager` calls, so that two managers of one
key can be told apart. `newResourceManager` (manager.go:375-395) returns a
literal and no error, so the error branch at 74-76 cannot be taken.

### LambdaFunction

State: `cr` (the CR as stored: spec, deletion mark, finalizer, ARN in the
status, condition), `fn` (the function as stored by AWS: state, update in
progress, configuration, who made it), `queued` (the key is in the work queue)
and the local state of the pass: `pc`, `why` (what the running ReadOne is
for), `desired` and `latest` (the two resources that the handlers take),
`delta`, `left` (the part of the delta that `customUpdateFunction` has not come
to) and `outcome`.

A step is one call to AWS or Kubernetes with the local code around it. Two
reductions are made: the three additional reads of
`setResourceAdditionalFields` (hooks.go:871-906) are one step, and the one
read in `LateInitialize` is a step whose only effect is that it may find the
function gone.

| action | code |
|---|---|
| `GetFunction`, `FunctionNotFound`, `SetResourceAdditionalFields` | `ReadOne`: sdk.go:57-428, hooks.go:721-906; what follows it in the pass |
| `Manage`, `Unmanage` | `MarkManaged`, `MarkUnmanaged` and the patch that stores them |
| `CreateFunction` | sdk.go:457-1002 |
| `UntagResource`, `TagResource`, `TagsPanic`, `TagsRefused` | hooks.go:393-447 |
| `UpdateFunctionConcurrency`, `SyncFunctionEventInvokeConfig`, `UpdateFunctionCodeSigningConfig` | hooks.go:576-719 |
| `RefuseTenancy`, `UpdateFunctionCode`, `UpdateFunctionConfiguration`, `UpdateRefused` | hooks.go:125-154, 163-389, 449-513 |
| `WriteBack` | the runtime's patch of the CR with what `Update` returned |
| `LateInitialize`, `DeleteFunction`, `Finish` | manager.go:206-288, sdk.go:1016-1042, status patch and requeue |
| `CallFails`, `Crash` | a call that fails without effect; a restart |
| `UserApply`, `UserEdit`, `UserDelete` | edits of the CR |
| `Settle`, `IdleOrWake`, `Drift`, `DriftAway` | Lambda itself, and others who use it |

The call that takes effect but whose answer is lost is a disjunct of the action
of that call.

The spec is a function from ten `Fields`, one for each way in which the code
treats a field (header of the module); a value is an element of `Value` or
`Nil`. `Nil` stands for nil and for the empty list, map or string that the code
treats alike. Tags are one field: a difference means that something is to be
untagged if the function has tags, and then tagged.

The order of the delta is the order of the `if`s in `customUpdateFunction`
(`Rank`): a field has its `Turn` when nothing of lower rank is left.
`UpdateFunctionCode` leaves nothing for afterwards, which is the `switch` at
133-154.

#### What the runtime does

The runtime is not part of the repository (go.mod names its version, v0.61, and
controller-runtime v0.23). The model assumes of it:

- one worker per key, so passes for one CR never overlap;
- the finalizer is patched into the CR before `Create` is called, and removed
  only after `ReadOne` returned NotFound for a CR that is being deleted;
- a CR without the finalizer whose resource exists in AWS is reported Terminal
  (the adoption annotations are not used);
- what `Update` returns is patched into the CR as the difference to what
  `Update` was given (`WriteBack`); the status is patched at the end of a pass;
- errors other than Terminal, and a resource that is not synced, are requeued;
  a synced one comes back after the resync period (ten hours,
  `src/helm/values.yaml`);
- a panic in a handler is recovered and the key retried; a new process lists
  all CRs.

#### What AWS does

`CreateFunction` refuses a name in use; updates of code and configuration
are refused while another is in progress or the function is Pending;
`DeleteFunction` may leave the function in `Deleting` for a while, and during
that time every change is refused as if it were gone.

### ManagedResource

What any kind of resource promises about CR, finalizer and AWS resource, in
eight actions. `LambdaFunction` implements it under the mapping
`kube <- Kube, managed <- cr.finalizer, backend <- Backend`, and so does each CR
of `LambdaAlias`. Both are found in AWS by names that do not change. The other
kinds cannot implement it: a Version, a mapping or a signing config whose create
answer is lost is not found again (`LossesAreBounded`), a LayerVersion CR owns
several versions, and a URL config may be found by a name that has changed
(`LeaksAreKnown`). Their properties say instead how much is left behind
and by what cause.

### AckPass

Every kind runs the same pass, so its steps are here once. `cr` has the CRs,
`queued` the keys in the work queue, `pass` what the worker of a key knows:
`pc`, `why` (what the running ReadOne is for), `desired` (the CR as read at the
start), `latest` (the copy that the calls have filled in), `found`, `todo` (what
the handler in progress has left) and `outcome`. A module of a kind EXTENDS it,
adds the variables for AWS, and conjoins what a call does there.

| operator | code |
|---|---|
| `Start` | the worker takes a key and reads the CR |
| `NotFound`, `Manage`, `Unmanage` | what ReadOne's NotFound leads to; `descriptor.go` |
| `EndPass` | `onError`, `onSuccess` in `manager.go`: conditions of the pass |
| `Patched`, `PatchSpec` | the patch of what Create or Update returned |
| `Finish` | status patch and decision to come back |
| `CallFails`, `Crash`, `Resync` | a failed call, a restart, the resync timer |
| `UserApply`, `UserEdit`, `UserDelete` | edits of the CR |

`Spend` bounds a behaviour: `Limits` is a set of limits on the numbers of edits,
faults, drifts and overlaps (a pass that begins while another is running), and
what has happened must stay within one of them. `LambdaFunction` has
one CR and a delta in a fixed order, and does without this module.

### LambdaVersion

AWS has `function` (its existence, and `code` for the code and configuration
of `$LATEST`) and `versions`, by number, each with the code it was published
from. `Create` is `ListVersionsByFunction` and `PublishVersion`, two calls
between which others publish (sdk.go:436-475); the answer of the second is the
existing version when nothing has changed since. The answer also sets
`codeSHA256` and `revisionID`, which the write-back stores in the CR: `pin`, the
number they came from. A creation ends with the first read, and both
configurations are set by the next pass (`ConfigureCreated`). `Update` is one
call per configuration and a read. `raced` and `unheard` are history: CRs that lost
the race between list and publish, and CRs whose
`DeleteFunctionEventInvokeConfig` failed without being reported
(hooks.go:110-112).

### LayerVersion

`layers` has the published versions by layer and number. `Create` and `Update`
both publish; `Delete` is `customPreDelete`, the list (one page, `PageSize`
versions) and one `DeleteLayerVersion` for each but the last, in ascending
order, followed by the deletion of the CR's own. The layer's name is an ordinary
field of the spec and can be edited: `renamed` remembers that it was. The answer
carries the location of the content and not the content that was sent
(sdk.go:225-230, 370-375): `Answer` empties it in the pass's copy, and the
comparison leaves it out.

### LambdaAlias

`alias` has for each CR what AWS stores: who made it, version, routing (the
description is treated alike), the two configurations, the policy as a set of
statements, and a revision id that each change of the alias or its policy
replaces. `customPreCompare` and `newResourceDelta` compute the delta,
`syncPermissions` removes and adds one statement per call, and `UpdateAlias`
carries the revision that was read. A permission without statement id, one that
is listed twice, and one whose principal AWS stores in another form
(`Rewritten`) are among the specs. Specs grant something with each statement
(`AliasSpecs`).

### TaggedResource

`kind` says which of the two kinds it is; they differ in the fields, in
what an update sends, in what makes `resources[n].busy` (a mapping in
transition, a signing config in use by a function), and share the identity
from the create answer and the tag sync. Tags are a function from tag keys to
values or `Nil`; `SyncTags` is an untag call and a tag call. System tags
(`SystemKey`) are put there by AWS and are mirrored, not removed.

### References and ReferencingResource

`References` lists the references of each kind in the order in which they are
resolved, and says what resolving one does: the other CR must exist, be Synced
and not Terminal, and have the value that is taken. A reference without `from`
(`kmsKeyRef: {}`, or such an item of `securityGroupRefs`) is `Nil` among the
references: `validateReferenceFields` sees that something is there
(function/references.go:148-185) and lets it pass, and the resolvers pass over it
without an error (function/references.go:197, 289, 380, 471, 564, 662, and alike
in the other kinds). `Named` are the others. `ReferencingResource` runs
the pass around it: validate, resolve one reference per step, read, and the rest
with resolved values in the pass's copies, which are cleared before a patch.
`objects` are the other CRs, which come, go and change. A FunctionURLConfig
is found in AWS by the resolved name; a deletion ignores the errors of
resolution and finds nothing if there is no name. Functions and mappings are
found by their CR here, and only the fields with references are kept. A call
whose required field has got no value that way (`Lacking`) is refused by the AWS
client or by Lambda; an update of a mapping leaves the function out of the
request, as any field that is nil (`SentOf`).

### What all kinds assume of the runtime and of AWS

As for the function, above, and: the API reader reads past the cache; the chart
runs one worker per kind (`src/helm/values.yaml:144`), so that passes of two CRs
overlap only if that is raised, which `overlaps` does; the queue is FIFO; in
these kinds a CR that is Terminal is not queued again. `IsSynced` and
`LateInitialize` do something for the function only, and `terminalAWSError` is
always false for the kinds with modules of their own here.

## Runs

| run | question | instance | result |
|---|---|---|---|
| `factory` | is the map safe, are duplicates bounded, does a key get its own manager, does every call return | 2 goroutines, 2 keys; 6,520 states | holds |
| `factory_dup` | one manager per key? (comment at manager_factory.go:58-60) | 2 goroutines, 1 key | violated |
| `function_safety` | finalizer protocol, Synced means applied, nothing forgotten, known overwrites, refinement | layers and code, code signing, concurrency vary; Zip and Image; 2 edits, 2 faults, 1 drift; 3.09 million states | holds |
| `function_live` | does the function reach its spec, does a deletion end | every field varies, one at a time, and a tag's value; Zip; 1 edit, 1 fault, 1 drift; 1.26 million states | holds |
| `function_update` | does Update return the updated fields? (comment at hooks.go:77-78) | configuration and code | violated |
| `function_observe` | does ReadOne return what is observed? (comment at manager.go:95-96) | layers and code signing | violated |
| `function_tags` | do tag edits reach AWS? (comment at hooks.go:391-392) | tags; 1 edit, 1 fault | violated |
| `version` | who owns, shares and loses a version; are edits of the configurations kept; does it end | 2 CRs; any two of an edit, a fault, a drift and an overlap, or 2 edits and a fault or a drift; 789,668 states | holds |
| `layer` | what is published, and what does a deletion leave behind | 1 CR, 2 layers; edits, faults, drifts up to (3,1,0), (2,2,0) or (2,1,1); page of 3; 425,827 states | holds |
| `alias` | policy and revision ids under failures and changes by others; contract | 1 CR, 6 specs; (2,1,0), (1,2,0), (1,1,1) or (2,0,1); 523,584 states | holds |
| `tagged` | what a lost answer costs; filters and tags follow the spec | 1 CR of either kind, 3 specs each; as `alias`; 435,880 states | holds |
| `referencing` | is a reference to a CR left out of what is sent, is a resolved value stored, what does a deletion leave | 1 CR of 3 kinds, 2 objects; (2,1,0) or (1,1,1); 709,567 states | holds |

**Properties of the function.** `NoOrphan`: a function of ours has a CR with
the finalizer. `PreexistingUntouched`: a function that was there first is never
changed. `OverwritesAreKnown`: the write-back erases a user's value in two
situations only (configuration edited together with code; removal of layers or
file systems). `SyncedMeansApplied`: at rest and Synced, the function has what
the spec says, apart from fields ReadOne cannot see (`Blind`) and two fields
that are set one pass after the creation. `NeverForgotten`: a CR at rest is
Synced or Terminal. `Converges` and `DeletionCompletes`: the same, eventually.
`KeepsContract`: the refinement.

**Properties of the other kinds.** In each of them `SyncedMeansApplied`, where
stated, and `Converges` (once users, failures and drift stop, a CR is Synced with
what it asks for and a deleted one is gone) name the situations in which
the code does not get there. `NeverForgotten` (in `AckPass`, for all of them) is
the safety half of `Converges`: a CR that nothing will queue before the resync is
not to be deleted, and its last pass found it Terminal, or Synced with its
finalizer. No run lists it beside `Converges`, which covers the same histories;
TLC found it true on the instances of the five runs before it was proved.

- Version: `FunctionSurvives` (a deletion without a number would delete the
  function; the check of the number is all that prevents it),
  `SharedOnlyByRace`, `LossesAreBounded` (a version that nobody will delete
  costs a lost answer or a pass that a restart ends; only once a version was
  deleted behind the controller's back, or shared after a race, may the CR
  publish again without keeping the number, since its configuration goes to the
  old one), `EditsAreKept` (the write-back does not undo a user's removal,
  unless the failed deletion of an event-invoke config was swallowed).
- Layer: `PublishesAreBounded` (no pass publishes because of a difference that
  publishing does not remove; an edit or a failure counts for each CR, since the
  deletion of one takes the layer's earlier versions along, which the other CRs
  then publish again, and a restart for each pass that it ends, since each may
  be a deletion that goes through the layer once more), `NothingLeftBehind` (one
  version for each answer that was lost, and one for each CR with a restart).
- Alias: `GrantsAreKept` (a statement that is wanted is not withdrawn on the way
  to the wanted policy), `KeepsContract`.
- Mappings and signing configs: `LossesAreBounded`, `FilterRemovalsAreKept`.
- References: `NeverHalfResolved` (what is sent has one value for each reference
  that names a CR; references without `from` are not counted, since the code
  sends the field without them), `ReferencesStayValid` (a resolved value that
  was stored would make every later pass invalid), `LeaksAreKnown`.

**Bounds.** `MaxEdits`, or `edits`, counts edits, deletions and re-creations,
`MaxFaults`, or `faults`, failed calls, lost answers and restarts, `MaxDrifts`,
or `drifts`, changes behind the controller's back, `overlaps` passes that begin
while another runs. Two edits are an edit and a deletion, or a deletion and a
re-creation under the same name; two faults are a lost answer and a restart
before its effect was noticed. A pass only carries local state from its own
start, which is a read of the CR, so longer histories revisit the same
combinations of CR and AWS; and the safety properties, all of which are theorems
(below), hold without any bound. One or two values besides `Nil` suffice because
the code only compares a field with itself. In `function_safety` layers
and code vary in all their combinations, and on their own the code signing config
and the concurrency (which a creation does not send): these are the irregular
treatments. No tags vary there; in `function_live` all ten fields do, and a tag is
replaced by another value, which takes an untag call and a tag call. Among the
specs of `referencing` are references without `from`: alone, in a list beside one
that names a CR, and in a required field. The specs of the other runs are chosen
for the cases of the code and described in the MC modules. Version: a race needs two CRs
and one overlap; the limits (3,0,1,0), (2,1,0,1) and (1,1,1,0) of edits, faults,
drifts and overlaps were explored as well (5.0 million states), with the same
result. Layer: three edits publish four versions, one more than a page has.
Factory: two goroutines are a writer and a reader, or two writers that missed
the same key; three goroutines on one key were explored as well (5,756 states).

**Deadlock** is checked for the factory only: once the CR of a kind is deleted and
the bounds are used up the system stops, as it should. That the worker never
stops early is `NeverForgotten`, in `LambdaFunction` and in `AckPass`, and the
liveness properties.

**Fairness.** `LambdaFunction`: weak fairness of the worker (the goroutine is
scheduled), of `Settle` (Lambda finishes what it began) and of `Resync` (the timer
of the resync period). No fairness for users, faults, drift.
The other kinds: strong fairness of the start of a pass, since a FIFO queue hands
out every key in turn; weak fairness of the steps of a pass, which failures and
restarts interrupt only finitely often (where start and steps are one action,
`Handlers`, its fairness is strong); weak fairness of the resync timer, and of
`Settle` where AWS has something to finish.
`ManagerFactory`: weak fairness of each goroutine inside a call, and strong
fairness of `Lock`, because Go's mutexes hand themselves to a waiter that has
waited for 1 ms (starvation mode). New calls need not arrive.

### Findings

1. `ManagerFor` builds several managers for one key when reconcilers miss the
   cache together (`OneManagerPerId`). The damage is bounded
   (`NoGoroutineBuildsTwice`), since managers hold no state that matters.
2. An edit of code and configuration in one go loses the configuration:
   `Update` sends the code, reads the function, and returns the old configuration,
   which the runtime writes into the CR (`ReturnsUpdatedFields`). The trace:
   edit, `UpdateFunctionCode`, ReadOne, `WriteBack`.
3. `ReadOne` reports layers and code signing config from the CR when the function
   has none (`ReadOneObserves`); adding the first layer to a function that has
   none is never acted on.
4. If the controller stops after `CreateFunction` and before the first status
   patch, and the tags are edited, each later pass panics on
   `Status.ACKResourceMetadata` (`TagEditsAreApplied`). When the answer of
   `CreateFunction` is lost instead, the status gets metadata without ARN, one
   pass is refused by the SDK (`TagsRefused`), and the next succeeds.

`Converges`, `SyncedMeansApplied` and `OverwritesAreKnown` name these cases as
exceptions (`PanicLoop`, `Blind`, `Blocked`), so that they say what holds
of everything else.

### Exceptions met in the other kinds

The properties of the other kinds name these as exceptions or bounds; none
has a statement in the repository that it contradicts word for word, except the
first.

- A LayerVersion's deletion asks for the first page of `ListLayerVersions` only
  (hooks.go:37), though the comment at hooks.go:25-27 speaks of all versions;
  the layer's name is not immutable, and an edit leaves the versions of the old
  name. `NothingLeftBehind` holds for layers that fit in one page and were not
  renamed.
- Two Version CRs that publish at the same time share one version, and each
  deletes it. A restart between `PublishVersion` and the status patch loses a
  version; if the `pin` from the answer was stored by then, it keeps the CR from
  publishing another once the function's code has moved on (`PinnedToThePast`).
- A failed `DeleteFunctionEventInvokeConfig` is not reported (version
  hooks.go:110-112), and the read that follows writes the config back into the
  spec (`EditsAreKept`).
- Alias: the removal of a description or of routing is not sent, and the answer
  restores it in the spec. A principal that AWS rewrites is removed and added
  with each pass (hooks.go:232).
- EventSourceMapping: a changed function name or `enabled` is never detected; a
  changed source is not sent. A mapping whose UUID was lost is a conflict for
  ever. A batch size that is removed is restored from the answer.
- A CodeSigningConfig in use is Recoverable until no function uses it.
- A reference without `from` is valid for the code and stands for nothing: a
  Function with `kmsKeyRef: {}` is created without a key, and with a list of
  `securityGroupRefs` of which one is `{}` it gets the groups of the others;
  all without an error, and the CR is Synced. If the field is required, the call
  is refused in each pass, or, for an update of a mapping, goes out without it.
  (`NeverHalfResolved` and `Converges` name the case.)
- FunctionURLConfig: when the reference cannot be resolved at the deletion, or
  names another function by then, the URL config stays. CORS settings that are
  removed are restored; `MaxAge` out of the range of 32 bits fails in each pass.
- A changed referenced object is noticed with the next resync, ten hours later
  at most. A user who replaces a field by a reference while a pass writes back
  that field gets a CR with both, which every later pass refuses
  (`ReferencesStayValid`).
- An event-invoke config with some fields unset makes the comparison dereference
  nil; this is listed as a hazard without a property.

## Proofs

Every safety property of the passing runs is a theorem, for all values of the
constants. A property is seldom inductive;
each section says what its invariant adds. Those invariants were checked by TLC
on the instances of the runs, or on smaller ones with two CRs, before they were
proved.

The assumptions are those stated with the constants, all of which TLC evaluates,
and the behaviour of runtime and AWS that the model describes. The bounds are
arbitrary naturals in the proofs, and `Limits` an arbitrary set of them. Most
assumptions only say that `Nil` is no value and that specs have their fields.
The others: users write a grant with each permission of an alias (`AliasSpecs`);
and there are finitely many CRs where CRs or passes are counted (`TaggedKeys`,
`LayerKeys`, `VersionKeys`).

`ManagerFactory_proofs`. `TypeCorrect`; `MapAccessSafe`; `DuplicatesAreBounded`;
`ManagersAreTheRightOnes`. Mutual exclusion needs more than
`MapAccessIsExclusive`: the invariant `LockInv` says which program counters hold
which side of the lock, and so why `Drained` can only happen with no reader in
and why there is one writer. The bound on duplicates needs `BuildInv`: a
goroutine that misses a key has never stored a manager for it, because keys are
never removed. `ServeInv` adds to `ManagersServeTheirId` that what is cached or
handed on has been built, so that the history has its key.

`LambdaFunction_proofs`. `TypeCorrect`; `NoFunctionIsOrphaned`;
`PreexistingIsSafe`; `ImplementsContract`; `NothingIsForgotten`;
`SyncedIsApplied`; `NothingElseIsOverwritten`. `NoOrphan` is not inductive: a
step that creates must know that the finalizer is already there, and the step
that drops it that no function of ours is left. `FinalizerInv` adds what the
worker knows at each program counter (from `create` on the CR exists with its
finalizer; at `unmanage` it is being deleted and the function is gone, and
cannot come back as ours since only this worker creates). `BeforeInv` adds, for
a function that was there first, that the worker has no finalizer in its copy of
the CR and so cannot reach a call that changes anything. `ImplementsContract`
shows that each action is a step of `ManagedResource` under the mapping, or
leaves `Kube`, the finalizer and `Backend` alone. `RestInv` is why nothing is
forgotten: as long as nothing queues the key, the worker's copy is the CR that
users see, and a deletion pass ends for good only with the error about the code
signing config of an image. `MirrorInv` is behind `SyncedIsApplied`: before the
first drift, a field that is off the list of an update is in the function as
`desired` says, or is one that ReadOne cannot report (`Agrees`) or that `Update`
and `Create` leave for later (`Deferred`, `Missing`), and so on through the
reads that follow to the CR at rest. `NothingElseIsOverwritten` rests on it too.

`AckPass_proofs`. What `AckPass` alone guarantees of every kind, as lemmas with
one per action: `SoundCR` (a CR being deleted has its finalizer, one with a
finalizer exists), `SoundPass` (a finalizer that a pass has seen, or has added,
is there until the pass removes it; so is a deletion that it has seen), and the
counting lemma that the bounds on losses rest on. A kind names its locations and
those that are only reached with the finalizer (`Held`). `Mindful` is the
inductive form of `NeverForgotten`: it says of every location what a pass has to
do if the queue does not have its key. A CR to be deleted is then one that the
pass itself deletes, since a deletion that comes later queues the key; a pass
with another outcome than Recoverable was no deletion, and has seen or added the
finalizer that it reports as Synced with. `Works` is what that asks of a step of
AWS calls, which each kind shows of its own, so that `NothingIsForgotten` is a
theorem of each of the five.

`LambdaVersion_proofs`. `TypeCorrect`; `NumbersAreKnown`;
`FunctionIsNotDeleted`; `VersionsAreShared`; `SyncedHasItsVersion`;
`SpecsAreTheUsers`; `LossesAreFew`; `NothingIsForgotten`. `FunctionSurvives`
follows from what a pass knows about numbers (`NumbersInv`): a deletion is sent
with the number of the last read, a read is made only with a number from the
status, and every number in a status or in a pass comes from an answer of
`PublishVersion` and so is not that of `$LATEST`. That needs the part of the
finalizer protocol that keeps the CR there while a pass writes back (from the
creation on it has the finalizer, `GoodPass`), for any number of CRs whose
passes overlap, crash and are edited meanwhile. The next three need `OwnersInv`.
As long as a CR has not lost a race, each number that it or its pass holds is
that of a version that it has published itself (`Owner`), so that nobody else
deletes or configures that version; and before drift and races, what is off the
list of an update is as the CR asks for, what a pass is about to write back is
what it was given or what AWS has, and a pass that will rest has seen what is
stored (`Honest`). `LossesAreFew` counts (`LossInv`). A version is `Endangered`
from the moment when nobody is going to know it, which for one that is published
and will not be configured is the publication. A restart ends at most `Running`
passes, of which there are never more than overlaps plus one. As long as nobody
interferes, only a lost answer or a pass that ends early endangers a version:
the numbers that passes hold are of versions that are there, so a CR that has
one does not publish (`Undisturbed`). After that each further version takes an
event: AWS publishes only if the newest version is not of the function's code
(`Stale`), and what makes it so is a code edit, a change from outside, or a
deletion that is still to come (`Removers`); so versions published, `Stale` and
`Removers` are together at most one more than these events (`Balance`).

`LambdaAlias_proofs`. `TypeCorrect`; `ImplementsContract`;
`WantedGrantsAreKept`; `SyncedIsApplied`; `NothingIsForgotten`. The type of a
pass includes the plan of a permission sync, which is well formed because
policies are finite and have one statement of an id (`SoundAlias`). The
refinement needs that an alias is ours only under a CR with the finalizer, and
that a pass at `unmanage` has found none. That a wanted statement is not
withdrawn is `Spares`: if the pass wants a statement that is in the policy, the
read has seen it as it is, and the plan, made once per pass, has no removal of
its id; this holds at every step between read and last call as long as nobody
else changes the policy. `SyncedIsApplied` says how it ends: the calls of the
plan that are left lead from the policy as it is to the one that is wanted
(`Outcome`, `Leads`); and a pass that will rest, as well as the CR at rest, has
its alias as its copy of the spec says (`Exact`).

`LayerVersion_proofs`. `TypeCorrect`; `LittleIsLeftBehind`;
`PublicationsAreBounded`; `NothingIsForgotten`. Several CRs may have
the same layer, so that one's deletion goes on while another publishes. `Knows`:
only a publication makes a pass hold another number than the status, and a CR
has its finalizer from the first publication on. `Numbered`: the numbers of a CR
that is not renamed are of its layer, and a later one is higher. `UpClosed`: the
versions of a layer are deleted from the lowest up, which holds because of the
sort in `customPreDelete`, because its list is complete when the layer fits in a
page, and because the last of the list and the CR's own are deleted only when
all before them are gone (`DeletesUp`). So when a CR goes, no version with its
number or a lower one is left: a status covers those (`Covers`). The versions
that neither a status covers nor a worker has in hand are bounded
(`FewAreLost`): a lost answer adds one, a restart at most one per worker. The bound
on publications is a balance (`CountInv`): the versions published, the CRs whose
pass is about to publish (`First`), the CRs that will publish in a later pass
(`Second`), and for each deletion that has yet to list the versions (`Threats`) one
for each CR, are together within the bound. An edit, a failure or a change from
outside makes at most every CR publish once more; a publication turns a member of
`First` into a version; and a deletion that lists turns its share into members
of `Second`.

`TaggedResource_proofs`. `TypeCorrect`; `RemovedFiltersStayRemoved`;
`SyncedIsApplied`; `LossesAreFew`; `NothingIsForgotten`, for both kinds and
overlapping passes of any number of CRs. `Own`: no two CRs ever know the same
resource, since ids come from the answer of a creation. `Steady`: what a pass
has an id for, and when there is nothing under that id. `Seen`: the pass's copy
has what it has read, and the filters that it gives back are the ones it was
given. `Exact`: before the first drift a resource has what the spec says as far
as the pass has come, tags included, and a failure between untag, tag and update
leaves a difference that the next read sees. The losses are counted as for the
layers.

`ReferencingResource_proofs`. `TypeCorrect`; `NothingIsSentHalfResolved`;
`StoredSpecsStayValid`; `NothingElseLeaks`; `NothingIsForgotten`, for the three
kinds and lists of references of any length, with any of them without `from`.
`Progress` says of a pass that resolves, for each field, that the values in the
pass's copy and the references still to be resolved are together as many as the
references that name a CR (`Named`). At the end nothing is left, and a field has
as many values as it has references to CRs, which is the first theorem; what has
none is sent without a value, and the theorem does not deny it. For
the second, a pass that writes back has the references it was given, and the
values of required fields. For `LeaksAreKnown`, a pass at `unmanage` knows that
under its name there is nothing that its CR has created (`NothingOwned`), which
no other CR or pass can change.

Two properties had other forms until their proofs were attempted, and were
corrected where the code does more than they said. `LossesAreBounded` of
Versions counted one loss for each drift and race: the attempt to show that the
bound is kept met two code edits after one deletion behind the controller's
back, which lose two versions (sdk.go:772-784), and TLC showed the trace under
the limit (2,0,1,0), which the run has now. `PublishesAreBounded` counted
neither the deletions that take other CRs' versions along nor that one restart
ends several of them.

Model-checked only: every liveness property (`EveryCallReturns`, `Converges`,
`DeletionCompletes`), since fairness and ENABLED are out of the prover's reach. The
properties of the runs that expect a violation are false, and their traces are
TLC's.

## Not modelled

Of the function controller: the `Failed` state and the three deactivation
states, the wait for a missing source image (hooks.go:137-138), late
initialisation of `durableConfig`, a Zip function without `Spec.Code.SHA256`
(whose code edits the controller cannot see). Of the other kinds: partly set
event-invoke configs, `FunctionURLAuthType` of a permission, `AuthType` and
`Qualifier` of a URL config, a mapping that Lambda itself is deleting. Of all
kinds: adoption, read-only resources and retain policies, the controller's own
tags (`EnsureTags`, `FilterSystemTags`) outside the function, the text of
messages and the list of conditions behind the outcome of a pass. References
to another namespace and without a name end like one that is not ready and are
not told apart. Start-up is sequential and without state; manifests, templates, deep
copies and scheme registration have no behaviour of their own.

## Plan

In this order:

1. `AckConditions`: `updateConditions` with `onError` and `onSuccess` over the
   list of conditions, as operators with lemmas, composed into `AckPass`.
2. The controller's own tags in `TaggedResource`.
3. The `Failed` state of a function, and the source image.
4. Two kinds composed: a Function CR and a URL config that refers to it.
