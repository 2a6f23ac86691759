--------------------------- MODULE LambdaVersion ---------------------------
(***************************************************************************)
(* The reconciliation of Version custom resources of one Lambda function:  *)
(* pkg/resource/version.  A version is published from the function's       *)
(* current code, and is known by the number that PublishVersion answers,   *)
(* which the CR has in its status only.  The CRs are of one function; their*)
(* passes may overlap if there is more than one worker.                    *)
(*                                                                         *)
(* Of the spec, the model has                                              *)
(*   eventInvoke, provisioned  each has AWS calls of its own               *)
(*   pin           codeSHA256 and revisionID: users leave them out, and    *)
(*                 the answer of PublishVersion sets them in the CR; the   *)
(*                 number of the version that they are from                *)
(* description is sent once and read back as codeSHA256 is; functionName   *)
(* is given (ReferencingResource models the reference to a Function).      *)
(***************************************************************************)
EXTENDS AckPass, Sequences, FiniteSets, FiniteSetsExt

CONSTANTS
  Code,      \* code and configuration of the function's $LATEST
  Value,     \* values of the other fields
  Specs      \* the specs that users ask for

VersionSpec ==
  [eventInvoke : Value \cup {Nil}, provisioned : Value \cup {Nil},
   pin : Nat \cup {Nil}]

ASSUME VersionNil == Nil \notin Value \cup Code \cup Nat
ASSUME VersionKeys == IsFiniteSet(Key)
ASSUME VersionSpecs == \A s \in Specs : s \in VersionSpec /\ s.pin = Nil

VARIABLES
  function,   \* the Lambda function: its existence and its code
  versions,   \* what has been published, by number
  raced,      \* CRs whose PublishVersion returned a version that somebody
              \* else had published since the CR's list was read
  unheard     \* CRs with a failed DeleteFunctionEventInvokeConfig in the
              \* current pass

aws == <<function, versions>>
history == <<raced, unheard>>
vars == <<passVars, aws, history>>

NoStatus == [version |-> Nil, pending |-> FALSE]
Statuses == [version : Nat \cup {Nil}, pending : BOOLEAN]
Locations == {"idle", "read", "fields", "manage", "create", "publish",
              "configure", "writeback", "update", "delete", "unmanage",
              "finish"}
Version == [exists : BOOLEAN, code : Code, by : Key \cup {"other"},
            pending : BOOLEAN, eventInvoke : Value \cup {Nil},
            provisioned : Value \cup {Nil}]

TypeOK ==
  /\ PassTypeOK(Locations, VersionSpec, Statuses)
  /\ function \in [exists : BOOLEAN, code : Code]
  /\ versions \in Seq(Version)
  /\ raced \subseteq Key /\ unheard \subseteq Key

Init ==
  /\ PassInit(Specs, NoStatus)
  /\ function \in [exists : BOOLEAN, code : Code]
  /\ versions = <<>>
  /\ raced = {} /\ unheard = {}

Exists(n) == n \in 1..Len(versions) /\ versions[n].exists
Published == {n \in 1..Len(versions) : versions[n].exists}

-----------------------------------------------------------------------------
(* ReadOne.                                                                *)

(* The version number in the status of the resource that is read.          *)
Number(k) == IF pass[k].why = "created" THEN pass[k].latest.status.version
             ELSE pass[k].desired.status.version

(* Mutant: only the function's name has to be known.                       *)
MutantIdentified(k) == TRUE

(* sdkFind: without a version number there is nothing to read.             *)
Identified(k) == Number(k) # Nil

(* Without a qualifier GetFunctionConfiguration and DeleteFunction mean    *)
(* the function, whose version is called $LATEST: 0 in the model.          *)
Qualifier(n) == IF n = Nil THEN 0 ELSE n

(* GetFunctionConfiguration.                                               *)
Found(k) ==
  /\ Identified(k)
  /\ IF Qualifier(Number(k)) = 0 THEN function.exists ELSE Exists(Number(k))

sdkFind(k) ==
  /\ At(k, "read")
  /\ IF Found(k)
       THEN pass' = [pass EXCEPT
              ![k].pc = "fields",
              ![k].found =
                LET n == Qualifier(Number(k)) IN
                [version |-> n, pending |-> n > 0 /\ versions[n].pending]]
       ELSE NotFound(k)
  /\ UNCHANGED <<cr, queued, spent, aws, history>>

(* Mutant: what is not set is read as zero.                                *)
MutantProvisionedConcurrency(n) == IF Exists(n) THEN versions[n].provisioned ELSE 0

(* Both are read by calls of their own, for which "not found" is nil.      *)
EventInvokeConfig(n) == IF Exists(n) THEN versions[n].eventInvoke ELSE Nil
ProvisionedConcurrency(n) == IF Exists(n) THEN versions[n].provisioned ELSE Nil

(* The CR with the answers of the three calls.                             *)
Observed(k) ==
  LET n == pass[k].found.version IN
  [eventInvoke |-> EventInvokeConfig(n),
   provisioned |-> ProvisionedConcurrency(n),
   pin |-> n]

(* Mutant: provisioned concurrency is not compared.                        *)
MutantNewResourceDelta(d, s) == {f \in {"eventInvoke", "pin"} : d[f] # s[f]}

newResourceDelta(d, s) == {f \in DOMAIN d : d[f] # s[f]}

(* customUpdateVersion puts an update off if the CR's status, which may be *)
(* out of date, has the version Pending.                                   *)
isVersionPending(r) == r.status.pending

(* setResourceAdditionalFields, and what the runtime makes of the result.  *)
setResourceAdditionalFields(k) ==
  /\ At(k, "fields")
  /\ LET p == pass[k]
         s == IF p.why = "created" THEN p.latest.spec ELSE Observed(k)
         next(l, o, d) ==
           pass' = [pass EXCEPT
             ![k].pc = l, ![k].outcome = o, ![k].todo = d,
             ![k].latest = [spec |-> s, status |-> p.found],
             ![k].found = Nil]
         delta == newResourceDelta(p.desired.spec, s)
     IN  \/ p.why = "created" /\ next("finish", "Synced", {})
         \/ p.why = "updated" /\ next("writeback", "Unknown", {})
         \/ p.why = "delete" /\ next("delete", "Unknown", {})
         \/ p.why = "sync" /\ ~IsManaged(k) /\ next("finish", "Terminal", {})
         \/ /\ p.why = "sync" /\ IsManaged(k)
            /\ IF delta = {} THEN next("finish", "Synced", {})
               ELSE IF isVersionPending(p.desired)
                 THEN next("finish", "Recoverable", {})
                 ELSE next("update", "Unknown", delta)
  /\ UNCHANGED <<cr, queued, spent, aws, history>>

ReadOne(k) == sdkFind(k) \/ setResourceAdditionalFields(k)

-----------------------------------------------------------------------------
(* Create.                                                                 *)

(* The numbers of the function's versions, before one is published.        *)
ListVersionsByFunction(k) ==
  /\ At(k, "create")
  /\ IF function.exists
       THEN pass' = [pass EXCEPT ![k].pc = "publish", ![k].todo = Published]
       ELSE EndPass(k, "Recoverable")
  /\ UNCHANGED <<cr, queued, spent, aws, history>>

(* Lambda publishes nothing if the code is what it was when the newest     *)
(* version was published, and answers with that version.                   *)
Unchanged ==
  \E n \in Published : /\ \A m \in Published : n >= m
                       /\ versions[n].code = function.code

(* newCreateRequestPayload sends codeSHA256 and revisionID; the hash must  *)
(* be the function's.                                                      *)
CodeChangedSince(pin) == pin # Nil /\ versions[pin].code # function.code

Refused(k) ==
  ~function.exists \/ CodeChangedSince(pass[k].desired.spec.pin)

NewVersion(k) ==
  [exists |-> TRUE, code |-> function.code, by |-> k, pending |-> TRUE,
   eventInvoke |-> Nil, provisioned |-> Nil]

(* Mutant: any version is taken for the one just published.                *)
MutantAlreadyListed(k, n) == FALSE

(* A version that was there before is not the CR's.                        *)
AlreadyListed(k, n) == n \in pass[k].todo

PublishVersion(k) ==
  /\ At(k, "publish")
  /\ \/ /\ Refused(k)
        /\ EndPass(k, "Recoverable")
        /\ UNCHANGED <<versions, raced, spent>>
     \/ /\ ~Refused(k)
        /\ LET n == IF Unchanged THEN Max(Published) ELSE Len(versions) + 1 IN
           /\ versions' = IF Unchanged THEN versions
                          ELSE Append(versions, NewVersion(k))
           /\ \/ /\ pass' = IF AlreadyListed(k, n)
                              THEN [pass EXCEPT ![k].pc = "finish",
                                                ![k].outcome = "Terminal"]
                              ELSE [pass EXCEPT ![k].pc = "configure",
                                                ![k].todo = {n}]
                 /\ raced' = IF Unchanged /\ n \notin pass[k].todo
                             THEN raced \cup {k} ELSE raced
                 /\ UNCHANGED spent
              \/ /\ Spend("faults")             \* the answer is lost
                 /\ EndPass(k, "Recoverable")
                 /\ UNCHANGED raced
  /\ UNCHANGED <<cr, queued, function, unheard>>

(* Mutant: the answer's version number is not taken over.                  *)
MutantCreated(k) ==
  [spec |-> [pass[k].desired.spec EXCEPT
               !.pin = CHOOSE n \in pass[k].todo : TRUE],
   status |-> pass[k].desired.status]

(* What sdkCreate returns.                                                 *)
Created(k) ==
  LET n == CHOOSE m \in pass[k].todo : TRUE IN   \* the one just published
  [spec |-> [pass[k].desired.spec EXCEPT !.pin = n],
   status |-> [version |-> n, pending |-> TRUE]]

Configured(s) == {f \in {"eventInvoke", "provisioned"} : s[f] # Nil}

(* The two configurations are put for the version number that the CR had:  *)
(* none for a new CR, which skips the calls, or that of a version which is *)
(* gone, for which they fail.                                              *)
ConfigureCreated(k) ==
  /\ At(k, "configure")
  /\ LET d == pass[k].desired IN
     IF Configured(d.spec) # {} /\ d.status.version # Nil
       THEN EndPass(k, "Recoverable")
       ELSE pass' = [pass EXCEPT ![k].pc = "writeback", ![k].why = "created",
                                 ![k].latest = Created(k), ![k].todo = {}]
  /\ UNCHANGED <<cr, queued, spent, aws, history>>

Create(k) ==
  ListVersionsByFunction(k) \/ PublishVersion(k) \/ ConfigureCreated(k)

-----------------------------------------------------------------------------
(* Update.                                                                 *)

(* An AWS call has given version n the value v in field f.                 *)
Put(n, f, v) == versions' = [versions EXCEPT ![n] = [@ EXCEPT ![f] = v]]

(* syncEventInvokeConfig.  If nothing is there to delete, or the deletion  *)
(* fails, nobody hears of it.                                              *)
syncEventInvokeConfig(k) ==
  LET n == pass[k].desired.status.version
      v == pass[k].desired.spec.eventInvoke
      done == pass' = [pass EXCEPT ![k].todo = @ \ {"eventInvoke"}]
  IN
  /\ At(k, "update") /\ "eventInvoke" \in pass[k].todo
  /\ \/ Exists(n) /\ Put(n, "eventInvoke", v) /\ done /\ UNCHANGED <<unheard, spent>>
     \/ ~Exists(n) /\ v = Nil /\ done /\ UNCHANGED <<versions, unheard, spent>>
     \/ /\ ~Exists(n) /\ v # Nil /\ EndPass(k, "Recoverable")
        /\ UNCHANGED <<versions, unheard, spent>>
     \/ /\ v = Nil /\ Spend("faults")
        /\ done
        /\ unheard' = unheard \cup {k}
        /\ UNCHANGED versions
  /\ UNCHANGED <<cr, queued, function, raced>>

(* Mutant: nil is not sent as DeleteProvisionedConcurrencyConfig.          *)
MutantUpdateProvisionedConcurrency(k) ==
  LET n == pass[k].desired.status.version
      v == pass[k].desired.spec.provisioned
  IN
  /\ At(k, "update")
  /\ "provisioned" \in pass[k].todo /\ "eventInvoke" \notin pass[k].todo
  /\ IF Exists(n)
       THEN /\ Put(n, "provisioned", IF v = Nil THEN versions[n].provisioned ELSE v)
            /\ pass' = [pass EXCEPT ![k].todo = @ \ {"provisioned"}]
       ELSE UNCHANGED versions /\ EndPass(k, "Recoverable")
  /\ UNCHANGED <<cr, queued, spent, function, history>>

updateProvisionedConcurrency(k) ==
  LET n == pass[k].desired.status.version
      v == pass[k].desired.spec.provisioned
  IN
  /\ At(k, "update")
  /\ "provisioned" \in pass[k].todo /\ "eventInvoke" \notin pass[k].todo
  /\ IF Exists(n)
       THEN /\ Put(n, "provisioned", v)
            /\ pass' = [pass EXCEPT ![k].todo = @ \ {"provisioned"}]
       ELSE UNCHANGED versions /\ EndPass(k, "Recoverable")
  /\ UNCHANGED <<cr, queued, spent, function, history>>

(* At last the version is read again.                                      *)
ReadAgain(k) ==
  /\ At(k, "update") /\ pass[k].todo \subseteq {"pin"}
  /\ pass' = [pass EXCEPT ![k].pc = "read", ![k].why = "updated"]
  /\ UNCHANGED <<cr, queued, spent, aws, history>>

(* customUpdateVersion.                                                    *)
customUpdateVersion(k) ==
  syncEventInvokeConfig(k) \/ updateProvisionedConcurrency(k) \/ ReadAgain(k)

Update(k) == customUpdateVersion(k)

(* After a creation the runtime reads once more.                           *)
WriteBack(k) ==
  /\ At(k, "writeback")
  /\ PatchSpec(k)
  /\ IF pass[k].why = "created" THEN Goto(k, "read") ELSE EndPass(k, "Synced")
  /\ UNCHANGED <<aws, history>>

-----------------------------------------------------------------------------
(* Delete.                                                                 *)

(* DeleteFunction, with the version number that was read as its qualifier: *)
(* without one the function goes, with all its versions.                   *)
sdkDelete(k) ==
  LET n == Qualifier(pass[k].latest.status.version) IN
  /\ At(k, "delete")
  /\ \/ /\ Exists(n)
        /\ versions' = [versions EXCEPT ![n].exists = FALSE]
        /\ UNCHANGED function
        /\ \/ Goto(k, "unmanage") /\ UNCHANGED spent
           \/ Spend("faults") /\ EndPass(k, "Recoverable")
     \/ /\ n = 0
        /\ function' = [function EXCEPT !.exists = FALSE]
        /\ versions' = [i \in 1..Len(versions) |->
                          [versions[i] EXCEPT !.exists = FALSE]]
        /\ Goto(k, "unmanage") /\ UNCHANGED spent
     \/ /\ n # 0 /\ ~Exists(n) /\ EndPass(k, "Recoverable")
        /\ UNCHANGED <<aws, spent>>
  /\ UNCHANGED <<cr, queued, history>>

Delete(k) == sdkDelete(k)

-----------------------------------------------------------------------------
(* What has no state of AWS.                                               *)
Begin(k) ==
  /\ Start(k)
  /\ unheard' = unheard \ {k}
  /\ UNCHANGED <<aws, raced>>

Finalizer(k) == (Manage(k) \/ Unmanage(k)) /\ UNCHANGED <<aws, history>>
End(k) == Finish(k) /\ UNCHANGED <<aws, history>>

(* The deletion of the event-invoke config has its own failure.            *)
Fail(k) ==
  /\ ~(/\ At(k, "update") /\ "eventInvoke" \in pass[k].todo
       /\ pass[k].desired.spec.eventInvoke = Nil)
  /\ CallFails(k)
  /\ UNCHANGED <<aws, history>>

Users(k) ==
  /\ \/ \E s \in Specs : UserApply(k, s, NoStatus)
     \/ cr[k].exists /\ \E s \in Specs : UserEdit(k, [s EXCEPT !.pin = cr[k].spec.pin])
     \/ UserDelete(k)
  /\ UNCHANGED <<aws, history>>

(* The function is created, or its code is changed.                        *)
UpdateFunction ==
  /\ \/ /\ ~function.exists
        /\ function' = [function EXCEPT !.exists = TRUE]
        /\ UNCHANGED spent
     \/ /\ function.exists /\ Spend("edits")
        /\ \E c \in Code \ {function.code} : function' = [function EXCEPT !.code = c]
  /\ UNCHANGED <<cr, queued, pass, versions, history>>

(* A version becomes Active.                                               *)
Settle ==
  /\ \E n \in Published :
       /\ versions[n].pending
       /\ versions' = [versions EXCEPT ![n].pending = FALSE]
  /\ UNCHANGED <<passVars, function, history>>

(* Somebody else publishes, deletes or configures a version.               *)
Drift ==
  /\ \/ /\ function.exists /\ ~Unchanged
        /\ versions' = Append(versions, [NewVersion("other") EXCEPT !.pending = FALSE])
     \/ \E n \in Published : versions' = [versions EXCEPT ![n].exists = FALSE]
     \/ \E n \in Published : \E v \in Value \cup {Nil} : Put(n, "eventInvoke", v)
  /\ versions' # versions
  /\ Spend("drifts")
  /\ UNCHANGED <<cr, queued, pass, function, history>>

Handlers(k) ==
  \/ ReadOne(k) \/ Finalizer(k) \/ Create(k) \/ Update(k) \/ WriteBack(k)
  \/ Delete(k) \/ End(k)

Environment(k) ==
  \/ Fail(k) \/ Users(k)
  \/ Resync(k) /\ UNCHANGED <<aws, history>>

Next ==
  \/ \E k \in Key : Begin(k) \/ Handlers(k) \/ Environment(k)
  \/ Crash /\ UNCHANGED <<aws, history>>
  \/ UpdateFunction \/ Settle \/ Drift

Spec == Init /\ [][Next]_vars

(* A pass goes on, the queue hands out its keys in turn, AWS finishes what *)
(* it started and the resync timer expires.                                *)
Fairness ==
  /\ \A k \in Key :
       /\ WF_vars(Handlers(k)) /\ SF_vars(Begin(k))
       /\ WF_vars(Resync(k) /\ UNCHANGED <<aws, history>>)
  /\ WF_vars(Settle)

FairSpec == Spec /\ Fairness

-----------------------------------------------------------------------------
(* Properties.                                                             *)

(* DeleteFunction is never sent without a qualifier (sdk.go:66-68 is all   *)
(* that stands between a Version CR that was never published, or whose     *)
(* number was lost, and the deletion of the function with all versions).   *)
FunctionSurvives == [][function.exists => function'.exists]_vars

(* Two CRs have the same version, of which each will delete it, only if    *)
(* one of them published within the other's list and publish calls         *)
(* (sdk.go:436-475).                                                       *)
SharedOnlyByRace ==
  \A j, k \in Key :
    /\ j # k
    /\ cr[j].status # Nil /\ cr[k].status # Nil
    /\ cr[j].status.version = cr[k].status.version
    /\ cr[k].status.version # Nil
    => {j, k} \cap raced # {}

(* The pass of k holds the number n, to write it into the status.          *)
Holds(k, n) ==
  \/ At(k, "configure") /\ n \in pass[k].todo
  \/ ~Idle(k) /\ pass[k].latest.status.version = n

(* A version that some CR had published and no CR or pass knows any more:  *)
(* nothing will delete it.                                                 *)
Lost ==
  {n \in Published :
     /\ versions[n].by # "other"
     /\ \A k \in Key :
          /\ cr[k].exists => cr[k].status.version # n
          /\ ~Holds(k, n)}

(* A failure costs at most one version, and a restart one for each pass it *)
(* ends; edits, deletions and re-creations of CRs cost none.  Only when    *)
(* somebody else has deleted the version of a CR, or a CR that shares it,  *)
(* may the CR publish again and lose what it publishes, since its          *)
(* configuration goes to the number that the CR had (sdk.go:772-784), and  *)
(* there is one such publication at most for each edit of the code, each   *)
(* deletion and each change from outside.                                  *)
LossesAreBounded ==
  Cardinality(Lost) =<
    (1 + spent.overlaps) * spent.faults
      + (IF NoDriftYet /\ raced = {} THEN 0 ELSE spent.edits + spent.drifts)

(* Users' removals and changes of the two configurations are not undone by *)
(* what Update writes back, except when the deletion of an event-invoke    *)
(* config failed silently (hooks.go:110-112).                              *)
EditsAreKept ==
  [][\A k \in Key :
       /\ NoDriftYet /\ raced = {} /\ k \notin unheard
       /\ cr[k].exists /\ cr'[k].exists /\ spent'.edits = spent.edits
       => \A f \in {"eventInvoke", "provisioned"} :
            cr'[k].spec[f] = cr[k].spec[f]]_vars

(* A CR that rests as Synced has a version, configured as it asks for,     *)
(* although the creation skips the configuration.                          *)
Applied(k) ==
  /\ Exists(cr[k].status.version)
  /\ \A f \in {"eventInvoke", "provisioned"} :
       versions[cr[k].status.version][f] = cr[k].spec[f]

SyncedMeansApplied ==
  NoDriftYet /\ raced = {}
    => \A k \in Key :
         Rests(k) /\ cr[k].exists /\ cr[k].cond = "Synced" => Applied(k)

(* The function's code has moved on from the one that the CR is pinned to, *)
(* and the version is gone or its number lost: Lambda refuses to publish.  *)
PinnedToThePast(k) ==
  /\ ~Exists(cr[k].status.version)
  /\ CodeChangedSince(cr[k].spec.pin)

(* Once users, failures and drift stop, a CR has its version or says       *)
(* Terminal, with the exceptions named, and one that is deleted goes.      *)
Converges ==
  \A k \in Key :
    <>[](/\ ~cr[k].deleting
         /\ cr[k].exists /\ raced = {} =>
              \/ cr[k].cond = "Terminal"
              \/ ~function.exists
              \/ PinnedToThePast(k)
              \/ cr[k].cond = "Synced" /\ Applied(k))
=============================================================================
