--------------------------- MODULE TaggedResource ---------------------------
(***************************************************************************)
(* The reconciliation of an EventSourceMapping and of a CodeSigningConfig  *)
(* custom resource: pkg/resource/event_source_mapping, code_signing_config *)
(* and tags. Both have an id that only the answer of the create call tells,*)
(* the UUID and the ARN, which the CR has in its status; and tags with     *)
(* calls of their own.                                                     *)
(*                                                                         *)
(* Of a mapping's spec, the model has                                      *)
(*   source     where events come from: sent with the creation only        *)
(*   batch      as most other fields, not sent if it is not set; Lambda    *)
(*              has a default                                              *)
(*   filters    as batch, but removed by an empty list                     *)
(*   function   the function, and whether the mapping is enabled: sent, but*)
(*              not read back                                              *)
(* and of a signing config's spec, description as batch, without default,  *)
(* and publishers, which are always set. Both have tags.                   *)
(* Tags of the controller's own are left out.                              *)
(***************************************************************************)
EXTENDS AckPass, Sequences, FiniteSets

CONSTANTS
  Value,      \* values of the fields
  Default,    \* the one that Lambda takes for a batch size not given
  UserKey,    \* keys of tags
  SystemKey,  \* those that begin with "aws:", which AWS alone may set
  Specs       \* the specs that users ask for

Tags == [UserKey \cup SystemKey -> Value \cup {Nil}]
NoTags == [t \in UserKey \cup SystemKey |-> Nil]

EventSourceMappingSpec ==
  [source : Value, batch : Value \cup {Nil}, filters : Value \cup {Nil},
   function : Value, tags : Tags]
CodeSigningConfigSpec ==
  [description : Value \cup {Nil}, publishers : Value, tags : Tags]

ASSUME TaggedNil == Nil \notin Value \cup Nat \cup [id : Nat]
ASSUME TaggedKeys == IsFiniteSet(Key)
ASSUME TaggedDefault == Default \in Value
ASSUME TaggedSpecs ==
  \A s \in Specs :
    /\ s \in EventSourceMappingSpec \cup CodeSigningConfigSpec
    /\ \A t \in SystemKey : s.tags[t] = Nil

VARIABLES
  kind,        \* of which kind the CRs are
  resources    \* what has been created in AWS, in the order of creation

vars == <<passVars, kind, resources>>

SpecOf ==
  [EventSourceMapping |-> EventSourceMappingSpec,
   CodeSigningConfig |-> CodeSigningConfigSpec]
NoStatus == [id |-> Nil]
Statuses == [id : Nat \cup {Nil}]
Locations == {"idle", "read", "tags", "manage", "create", "untag", "tag",
              "update", "writeback", "delete", "unmanage", "finish"}

(* busy: a mapping that Lambda is still creating or updating, and a signing*)
(* config that some function uses.                                         *)
Resource(K) ==
  [exists : BOOLEAN, by : {"us", "other"}, busy : BOOLEAN, has : SpecOf[K]]

TypeOK ==
  /\ kind \in DOMAIN SpecOf
  /\ PassTypeOK(Locations, SpecOf[kind], Statuses)
  /\ resources \in Seq(Resource(kind))

Wanted == Specs \cap SpecOf[kind]
Exists(n) == n \in DOMAIN resources /\ resources[n].exists

(* Somebody may have such a mapping already.                               *)
Init ==
  /\ kind \in DOMAIN SpecOf
  /\ PassInit(Wanted, NoStatus)
  /\ resources \in {<<>>} \cup
       {<<[exists |-> TRUE, by |-> "other", busy |-> FALSE, has |-> s]>> : s \in Wanted}

Continue(k, l, w) == pass' = [pass EXCEPT ![k].pc = l, ![k].latest = w]

-----------------------------------------------------------------------------
(* ReadOne.                                                                *)

Subject(k) ==
  IF pass[k].why = "created" THEN pass[k].latest
  ELSE [spec |-> pass[k].desired.spec, status |-> pass[k].desired.status]

requiredFieldsMissing(r) == r.status.id = Nil

(* GetEventSourceMapping and GetCodeSigningConfig.                         *)
Found(r) == ~requiredFieldsMissing(r) /\ Exists(r.status.id)

(* Mutant: filters that the answer lacks are read as empty, not as unset.  *)
MutantMappingObserved(r) ==
  LET has == resources[r.status.id].has IN
  [r EXCEPT !.spec.source = has.source, !.spec.batch = has.batch,
            !.spec.filters = IF has.filters = Nil THEN "" ELSE has.filters]

(* The answer of GetEventSourceMapping, laid over the CR's copy.           *)
MappingObserved(r) ==
  LET has == resources[r.status.id].has IN
  [r EXCEPT !.spec.source = has.source, !.spec.batch = has.batch,
            !.spec.filters = has.filters]

(* The answer of GetCodeSigningConfig.                                     *)
SigningObserved(r) ==
  LET has == resources[r.status.id].has IN
  [r EXCEPT !.spec.description = has.description,
            !.spec.publishers = has.publishers]

Observed(r) == IF kind = "EventSourceMapping" THEN MappingObserved(r)
               ELSE SigningObserved(r)

sdkFind(k) ==
  /\ At(k, "read")
  /\ IF Found(Subject(k)) THEN Continue(k, "tags", Observed(Subject(k)))
     ELSE NotFound(k)
  /\ UNCHANGED <<cr, queued, spent, kind, resources>>

(* customPreCompare: filters are different if one has them and the other   *)
(* has not, or if they are not the same in the same order.                 *)
customPreCompare(d, s) == d.filters # s.filters

(* Mutant: filters are not compared.                                       *)
MutantMappingDelta(d, s) == {f \in {"source", "batch", "tags"} : d[f] # s[f]}

(* newResourceDelta of a mapping. What is not read back is equal.          *)
MappingDelta(d, s) ==
  {f \in {"source", "batch", "function", "tags"} : d[f] # s[f]}
  \cup {f \in {"filters"} : customPreCompare(d, s)}

SigningDelta(d, s) == {f \in {"description", "publishers", "tags"} : d[f] # s[f]}

newResourceDelta(d, s) ==
  IF kind = "EventSourceMapping" THEN MappingDelta(d, s) ELSE SigningDelta(d, s)

(* ListTags.                                                               *)
GetTags(n) == resources[n].has.tags

(* Mutant: the system tags are not taken over into the desired ones.       *)
MutantSyncAWSTags(a, b) == a

syncAWSTags(a, b) == [t \in DOMAIN a |-> IF t \in SystemKey /\ b[t] # Nil THEN b[t]
                                         ELSE a[t]]

(* What is to be untagged, and what is to be tagged: a tag that changes is *)
(* both.                                                                   *)
Added(k) ==
  {t \in UserKey \cup SystemKey :
     pass[k].desired.spec.tags[t] \notin {Nil, pass[k].latest.spec.tags[t]}}
Removed(k) ==
  {t \in UserKey \cup SystemKey :
     pass[k].latest.spec.tags[t] \notin {Nil, pass[k].desired.spec.tags[t]}}

(* What comes after the tags: the rest of the update, if there is any.     *)
AfterTags(delta) == IF delta \subseteq {"tags"} THEN "finish" ELSE "update"

(* getTags and mirrorAWSTags, and what the runtime makes of the result.    *)
ReadTags(k) ==
  /\ At(k, "tags")
  /\ LET p == pass[k]
         n == p.latest.status.id
         latest == [p.latest EXCEPT !.spec.tags = GetTags(n)]
         desired == [p.desired EXCEPT
                       !.spec.tags = syncAWSTags(@, GetTags(n))]
         delta == newResourceDelta(desired.spec, latest.spec)
         next(l, o) ==
           pass' = [pass EXCEPT ![k].pc = l, ![k].outcome = o, ![k].todo = delta,
                                ![k].desired = desired, ![k].latest = latest]
     IN  \/ ~Exists(n) /\ EndPass(k, "Recoverable")
         \/ Exists(n) /\ p.why = "created" /\ next("finish", "Synced")
         \/ Exists(n) /\ p.why = "delete" /\ next("delete", "Unknown")
         \/ /\ Exists(n) /\ p.why = "sync"
            /\ IF ~IsManaged(k) THEN next("finish", "Terminal")
               ELSE IF delta = {} THEN next("finish", "Synced")
               ELSE next(IF "tags" \in delta THEN "untag" ELSE "update", "Unknown")
  /\ UNCHANGED <<cr, queued, spent, kind, resources>>

ReadOne(k) == sdkFind(k) \/ ReadTags(k)

-----------------------------------------------------------------------------
(* Calls that change something: their effect, and their answer, if it      *)
(* arrives.                                                                *)
Answered(p, k) ==
  \/ pass' = [pass EXCEPT ![k] = p] /\ UNCHANGED spent
  \/ Spend("faults") /\ EndPass(k, "Recoverable")

Refused(k) == EndPass(k, "Recoverable") /\ UNCHANGED <<spent, resources>>

Becomes(n, has, busy) ==
  resources' = [resources EXCEPT ![n] = [@ EXCEPT !.has = has, !.busy = busy]]

-----------------------------------------------------------------------------
(* Create.                                                                 *)

(* newCreateRequestPayload, and what Lambda makes of it.                   *)
MappingRequest(s) == [s EXCEPT !.batch = IF @ = Nil THEN Default ELSE @]
SigningRequest(s) == s

Request(s) == IF kind = "EventSourceMapping" THEN MappingRequest(s)
              ELSE SigningRequest(s)

(* Lambda refuses a second mapping of a source to a function.              *)
Conflict(s) ==
  /\ kind = "EventSourceMapping"
  /\ \E n \in DOMAIN resources :
       /\ Exists(n)
       /\ resources[n].has.source = s.source
       /\ resources[n].has.function = s.function

(* The answer, laid over the CR's copy.                                    *)
Created(k, n, has) ==
  [spec |-> has, status |-> [id |-> n]]

sdkCreate(k) ==
  LET s == pass[k].desired.spec
      n == Len(resources) + 1
  IN
  /\ At(k, "create")
  /\ IF Conflict(s)
       THEN Refused(k)
       ELSE /\ resources' = Append(resources,
                 [exists |-> TRUE, by |-> "us",
                  busy |-> kind = "EventSourceMapping", has |-> Request(s)])
            /\ Answered([pass[k] EXCEPT
                 !.pc = "writeback", !.why = "created",
                 !.latest = Created(k, n, Request(s))], k)
  /\ UNCHANGED <<cr, queued, kind>>

Create(k) == sdkCreate(k)

-----------------------------------------------------------------------------
(* Update.                                                                 *)

Number(k) == pass[k].desired.status.id

(* Only AWS may change a system tag.                                       *)
Forbidden(ts) == ts \cap SystemKey # {}

(* SyncTags: first one call for all the removed tags, then one for the     *)
(* added ones, either of which is left out if there is nothing for it.     *)
UntagResource(k) ==
  LET n == Number(k)
      p == [pass[k] EXCEPT !.pc = "tag"]
  IN
  /\ At(k, "untag")
  /\ IF Removed(k) = {}
       THEN pass' = [pass EXCEPT ![k] = p] /\ UNCHANGED <<spent, resources>>
       ELSE IF ~Exists(n) \/ Forbidden(Removed(k)) THEN Refused(k)
       ELSE /\ Becomes(n, [resources[n].has EXCEPT
                 !.tags = [t \in DOMAIN @ |-> IF t \in Removed(k) THEN Nil ELSE @[t]]],
                 resources[n].busy)
            /\ Answered(p, k)
  /\ UNCHANGED <<cr, queued, kind>>

(* If there is nothing but tags to change, the CR's copy is returned.      *)
TagResource(k) ==
  LET n == Number(k)
      d == pass[k].desired
      p == [pass[k] EXCEPT
              !.pc = AfterTags(pass[k].todo), !.outcome = "Synced",
              !.latest = IF AfterTags(pass[k].todo) = "finish"
                         THEN [spec |-> d.spec, status |-> d.status] ELSE @]
  IN
  /\ At(k, "tag")
  /\ IF Added(k) = {}
       THEN pass' = [pass EXCEPT ![k] = p] /\ UNCHANGED <<spent, resources>>
       ELSE IF ~Exists(n) \/ Forbidden(Added(k)) THEN Refused(k)
       ELSE /\ Becomes(n, [resources[n].has EXCEPT
                 !.tags = [t \in DOMAIN @ |-> IF t \in Added(k) THEN d.spec.tags[t]
                                              ELSE @[t]]],
                 resources[n].busy)
            /\ Answered(p, k)
  /\ UNCHANGED <<cr, queued, kind>>

SyncTags(k) == UntagResource(k) \/ TagResource(k)

(* A request overwrites what it sends.                                     *)
Overlay(has, s, fields) ==
  [f \in DOMAIN has |-> IF f \in fields /\ s[f] # Nil THEN s[f] ELSE has[f]]

(* Mutant: removed filters are left out of the request, as other fields.   *)
MutantFilterCriteriasDeleted(observed, desired) == FALSE

filterCriteriasDeleted(observed, desired) ==
  observed.filters # Nil /\ desired.filters = Nil

(* newUpdateRequestPayload of a mapping, and its effect.                   *)
MappingUpdate(has, s, observed) ==
  LET u == Overlay(has, s, {"batch", "filters", "function"}) IN
  IF filterCriteriasDeleted(observed, s) THEN [u EXCEPT !.filters = Nil] ELSE u

SigningUpdate(has, s) == Overlay(has, s, {"description", "publishers"})

(* UpdateEventSourceMapping and UpdateCodeSigningConfig. A mapping in      *)
(* transition cannot be updated, and is in transition afterwards.          *)
sdkUpdate(k) ==
  LET n == Number(k)
      s == pass[k].desired.spec
      mapping == kind = "EventSourceMapping"
      u == IF mapping
             THEN MappingUpdate(resources[n].has, s, pass[k].latest.spec)
             ELSE SigningUpdate(resources[n].has, s)
  IN
  /\ At(k, "update")
  /\ IF ~Exists(n) \/ (mapping /\ resources[n].busy)
       THEN Refused(k)
       ELSE /\ Becomes(n, u, resources[n].busy \/ mapping)
            /\ Answered([pass[k] EXCEPT
                 !.pc = "writeback", !.why = "updated", !.todo = {},
                 !.latest = [spec |-> [u EXCEPT !.tags = s.tags],
                             status |-> [id |-> n]]], k)
  /\ UNCHANGED <<cr, queued, kind>>

Update(k) == SyncTags(k) \/ sdkUpdate(k)

WriteBack(k) ==
  /\ At(k, "writeback")
  /\ PatchSpec(k)
  /\ IF pass[k].why = "created" THEN Goto(k, "read") ELSE EndPass(k, "Synced")
  /\ UNCHANGED <<kind, resources>>

-----------------------------------------------------------------------------
(* Delete.                                                                 *)

(* Mutant: an error of the delete call is not returned.                    *)
MutantSdkDelete(k) ==
  LET n == pass[k].latest.status.id IN
  /\ At(k, "delete")
  /\ resources' = IF Exists(n) /\ ~resources[n].busy
                  THEN [resources EXCEPT ![n].exists = FALSE] ELSE resources
  /\ Goto(k, "unmanage")
  /\ UNCHANGED <<cr, queued, spent, kind>>

(* DeleteEventSourceMapping is refused in transition, and                  *)
(* DeleteCodeSigningConfig in use.                                         *)
sdkDelete(k) ==
  LET n == pass[k].latest.status.id IN
  /\ At(k, "delete")
  /\ IF ~Exists(n) \/ resources[n].busy
       THEN Refused(k)
       ELSE /\ resources' = [resources EXCEPT ![n].exists = FALSE]
            /\ Answered([pass[k] EXCEPT !.pc = "unmanage"], k)
  /\ UNCHANGED <<cr, queued, kind>>

Delete(k) == sdkDelete(k)

-----------------------------------------------------------------------------
(* What has no state of AWS.                                               *)
Other(k) ==
  /\ Start(k) \/ Manage(k) \/ Unmanage(k) \/ Finish(k)
  /\ UNCHANGED <<kind, resources>>

Environment(k) ==
  /\ \/ CallFails(k)
     \/ Resync(k)
     \/ \E s \in Wanted : UserApply(k, s, NoStatus) \/ UserEdit(k, s)
     \/ UserDelete(k)
  /\ UNCHANGED <<kind, resources>>

(* Lambda finishes a creation or an update.                                *)
Settle ==
  /\ kind = "EventSourceMapping"
  /\ \E n \in DOMAIN resources :
       Exists(n) /\ resources[n].busy /\ Becomes(n, resources[n].has, FALSE)
  /\ UNCHANGED <<passVars, kind>>

(* A function takes a signing config into use, or leaves it.               *)
Use ==
  /\ kind = "CodeSigningConfig"
  /\ \E n \in DOMAIN resources :
       Exists(n) /\ Becomes(n, resources[n].has, ~resources[n].busy)
  /\ Spend("edits")
  /\ UNCHANGED <<cr, queued, pass, kind>>

(* Somebody deletes one; AWS marks it as its own; a tag disappears.        *)
Drift ==
  /\ \E n \in DOMAIN resources :
       /\ Exists(n)
       /\ \/ resources' = [resources EXCEPT ![n].exists = FALSE]
          \/ \E t \in SystemKey, v \in Value :
               /\ resources[n].has.tags[t] # v
               /\ Becomes(n, [resources[n].has EXCEPT !.tags[t] = v], resources[n].busy)
          \/ \E t \in UserKey :
               /\ resources[n].has.tags[t] # Nil
               /\ Becomes(n, [resources[n].has EXCEPT !.tags[t] = Nil], resources[n].busy)
  /\ Spend("drifts")
  /\ UNCHANGED <<cr, queued, pass, kind>>

Handlers(k) ==
  Other(k) \/ ReadOne(k) \/ Create(k) \/ Update(k) \/ WriteBack(k) \/ Delete(k)

Next ==
  \/ \E k \in Key : Handlers(k) \/ Environment(k)
  \/ Crash /\ UNCHANGED <<kind, resources>>
  \/ Settle \/ Use \/ Drift

Spec == Init /\ [][Next]_vars

(* Passes go on, Lambda finishes what it started, and the resync timer     *)
(* expires.                                                                *)
Fairness ==
  /\ \A k \in Key :
       /\ SF_vars(Handlers(k))
       /\ WF_vars(Resync(k) /\ UNCHANGED <<kind, resources>>)
  /\ WF_vars(Settle)

FairSpec == Spec /\ Fairness

-----------------------------------------------------------------------------
(* Properties.                                                             *)

(* What the controller created and no CR or pass knows any more: nothing   *)
(* will delete it.                                                         *)
Lost ==
  {n \in DOMAIN resources :
     /\ Exists(n) /\ resources[n].by = "us"
     /\ \A k \in Key :
          /\ cr[k].status # [id |-> n]
          /\ Idle(k) \/ pass[k].latest.status # [id |-> n]}

(* Each failure or restart loses at most one resource of each CR, and      *)
(* nothing else does: no edit, no deletion, no refused call.               *)
LossesAreBounded == Cardinality(Lost) =< spent.faults * Cardinality(Key)

(* A CR that rests as Synced has what it asks for, as far as it is read    *)
(* back: filters and tags, removed ones and changed ones, with no tag left *)
(* out or left over by a call that failed between the two of SyncTags.     *)
Applied(k) ==
  LET n == cr[k].status.id
      s == cr[k].spec
  IN  /\ Exists(n)
      /\ \A f \in DOMAIN s \ {"tags", "function"} : resources[n].has[f] = s[f]
      /\ \A t \in UserKey : resources[n].has.tags[t] = s.tags[t]

SyncedMeansApplied ==
  NoDriftYet
    => \A k \in Key :
         Rests(k) /\ cr[k].exists /\ cr[k].cond = "Synced" => Applied(k)

(* A user who removes the filters of a mapping does not find them in the   *)
(* spec again, as happens to a batch size, which is left out of the update *)
(* and written back from the answer.                                       *)
FilterRemovalsAreKept ==
  [][\A k \in Key :
       /\ kind = "EventSourceMapping" /\ spent'.edits = spent.edits
       /\ cr[k].exists /\ cr'[k].exists /\ cr[k].spec.filters = Nil
       => cr'[k].spec.filters = Nil]_vars

(* Once users, failures and drift stop, a CR has what it asks for and one  *)
(* that is deleted goes. Left are a mapping that is there but not known to *)
(* the CR, which Lambda takes for a conflict, and a signing config in use. *)
Converges ==
  \A k \in Key :
    <>[](/\ cr[k].deleting =>
              /\ kind = "CodeSigningConfig"
              /\ Exists(cr[k].status.id) /\ resources[cr[k].status.id].busy
         /\ cr[k].exists /\ ~cr[k].deleting =>
              \/ cr[k].cond = "Synced" /\ Applied(k)
              \/ ~Exists(cr[k].status.id) /\ Conflict(cr[k].spec))
=============================================================================
