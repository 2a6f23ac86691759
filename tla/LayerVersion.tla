---------------------------- MODULE LayerVersion ----------------------------
(***************************************************************************)
(* The reconciliation of a LayerVersion custom resource:                   *)
(* pkg/resource/layer_version.  Every publication makes a new version of   *)
(* the layer; the CR's status has the number of the last one that the      *)
(* controller knows of, and a deletion goes through all the layer has.     *)
(*                                                                         *)
(* Of the spec, the model has                                              *)
(*   layer         the layer's name, which nothing keeps users from editing*)
(*   description   compared and published, as the compatible runtimes,     *)
(*                 architectures and the license are                       *)
(*   content       published, and returned as an empty record, Nil here,   *)
(*                 but never compared nor read back                        *)
(* The rest of the answer of PublishLayerVersion is what was sent. Since it*)
(* differs in nothing that is compared, the runtime has nothing to write   *)
(* back into the spec.                                                     *)
(***************************************************************************)
EXTENDS AckPass, Sequences, FiniteSets, FiniteSetsExt

CONSTANTS
  Layer,     \* names of layers
  Value,     \* values of the other fields
  Specs,     \* the specs that users ask for
  PageSize   \* how many versions ListLayerVersions answers at most

LayerSpec ==
  [layer : Layer, description : Value \cup {Nil}, content : Value \cup {Nil}]

ASSUME LayerKeys == IsFiniteSet(Key)
ASSUME LayerNil == Nil \notin Value \cup Layer \cup Nat
ASSUME LayerSpecs == Specs \subseteq LayerSpec
ASSUME LayerPage == PageSize \in Nat \ {0}

VARIABLES
  layers,    \* what has been published, by layer and number
  renamed    \* a user has edited the name of the layer in some CR, or
             \* replaced the CR by one of another layer during a pass

vars == <<passVars, layers, renamed>>

NoStatus == [versionNumber |-> Nil]
Statuses == [versionNumber : Nat \cup {Nil}]
Locations == {"idle", "read", "manage", "create", "update", "list",
              "deleteOld", "deleteOwn", "unmanage", "finish"}
Published == [exists : BOOLEAN, by : {"us", "other"},
              description : Value \cup {Nil}, content : Value \cup {Nil}]

TypeOK ==
  /\ PassTypeOK(Locations, LayerSpec, Statuses)
  /\ layers \in [Layer -> Seq(Published)]
  /\ renamed \in BOOLEAN

(* Some of the layers have a version that somebody else published.         *)
Init ==
  /\ PassInit(Specs, NoStatus)
  /\ layers \in [Layer -> {<<>>} \cup
       {<<[exists |-> TRUE, by |-> "other", description |-> Nil,
           content |-> v]>> : v \in Value}]
  /\ renamed = FALSE

Numbers(l) == {n \in 1..Len(layers[l]) : layers[l][n].exists}

-----------------------------------------------------------------------------
(* ReadOne.                                                                *)

(* The resource that is read: after a creation what Create returned.       *)
Subject(k) ==
  IF pass[k].why = "created" THEN pass[k].latest
  ELSE [spec |-> pass[k].desired.spec, status |-> pass[k].desired.status]

requiredFieldsMissing(r) == r.status.versionNumber = Nil

(* GetLayerVersion.                                                        *)
Found(r) ==
  ~requiredFieldsMissing(r) /\ r.status.versionNumber \in Numbers(r.spec.layer)

(* Mutant: what the answer leaves out is read as zero.                     *)
MutantObserved(r) ==
  LET v == layers[r.spec.layer][r.status.versionNumber].description
  IN  [r EXCEPT !.spec.description = IF v = Nil THEN 0 ELSE v]

(* The CR's copy with the answer of GetLayerVersion, which has no content. *)
Observed(r) ==
  [r EXCEPT !.spec.description =
     layers[r.spec.layer][r.status.versionNumber].description]

(* Mutant: the description is not compared.                                *)
MutantNewResourceDelta(d, s) == {f \in {"layer"} : d[f] # s[f]}

(* The content is left out of the comparison.                              *)
newResourceDelta(d, s) == {f \in {"layer", "description"} : d[f] # s[f]}

(* The pass goes on with the copy that the read has filled in.             *)
With(k, l, outcome, latest) ==
  pass' = [pass EXCEPT ![k].pc = l, ![k].outcome = outcome, ![k].latest = latest]

(* What the runtime makes of a version that is there.                      *)
Compare(k) ==
  LET o == Observed(Subject(k))
      same == newResourceDelta(pass[k].desired.spec, o.spec) = {}
  IN  \/ pass[k].why = "created" /\ With(k, "finish", "Synced", o)
      \/ pass[k].why = "delete" /\ With(k, "list", "Unknown", o)
      \/ /\ pass[k].why = "sync"
         /\ \/ ~IsManaged(k) /\ EndPass(k, "Terminal")
            \/ IsManaged(k) /\ same /\ With(k, "finish", "Synced", o)
            \/ IsManaged(k) /\ ~same /\ With(k, "update", "Unknown", o)

(* sdkFind, and what follows.                                              *)
ReadOne(k) ==
  /\ At(k, "read")
  /\ \/ ~Found(Subject(k)) /\ NotFound(k)
     \/ Found(Subject(k)) /\ Compare(k)
  /\ UNCHANGED <<cr, queued, spent, layers, renamed>>

-----------------------------------------------------------------------------
(* Create and Update.                                                      *)

(* newCreateRequestPayload and newUpdateRequestPayload: the whole spec.    *)
Request(s) == [exists |-> TRUE, by |-> "us", description |-> s.description,
               content |-> s.content]

(* Mutant: the status keeps the number that the CR had.                    *)
MutantAnswer(k, n) == [spec |-> pass[k].desired.spec,
                       status |-> pass[k].desired.status]

(* The CR's copy with the answer of PublishLayerVersion: of the content it *)
(* has but the location, which the spec has no place for.                  *)
Answer(k, n) == [spec |-> [pass[k].desired.spec EXCEPT !.content = Nil],
                 status |-> [versionNumber |-> n]]

PublishLayerVersion(k, l, outcome, why) ==
  LET name == pass[k].desired.spec.layer IN
  /\ layers' = [layers EXCEPT ![name] = Append(@, Request(pass[k].desired.spec))]
  /\ \/ /\ pass' = [pass EXCEPT
              ![k].pc = l, ![k].outcome = outcome, ![k].why = why,
              ![k].latest = Answer(k, Len(layers'[name]))]
        /\ UNCHANGED spent
     \/ Spend("faults") /\ EndPass(k, "Recoverable")   \* the answer is lost

(* sdkCreate; then the runtime reads once more.                            *)
sdkCreate(k) ==
  /\ At(k, "create")
  /\ PublishLayerVersion(k, "read", "Unknown", "created")
  /\ UNCHANGED <<cr, queued, renamed>>

(* sdkUpdate.                                                              *)
sdkUpdate(k) ==
  /\ At(k, "update")
  /\ PublishLayerVersion(k, "finish", "Synced", "updated")
  /\ UNCHANGED <<cr, queued, renamed>>

Create(k) == sdkCreate(k)
Update(k) == sdkUpdate(k)

-----------------------------------------------------------------------------
(* Delete.                                                                 *)

Doomed(k) == pass[k].latest.spec.layer

(* Mutant: the list of versions is not gone through.                       *)
MutantPrevious(ns) == {}

(* All but the last of the sorted list.                                    *)
Previous(ns) == {n \in ns : \E m \in ns : n < m}

(* One page of the answer of ListLayerVersions.                            *)
Pages(ns) ==
  IF Cardinality(ns) =< PageSize THEN {ns} ELSE kSubset(PageSize, ns)

(* customPreDelete: first the list, of which only one page is asked for,   *)
(* whatever the answer's NextMarker; then one call for each.               *)
ListLayerVersions(k) ==
  /\ At(k, "list")
  /\ \E ns \in Pages(Numbers(Doomed(k))) :
       pass' = [pass EXCEPT
         ![k].pc = IF Previous(ns) # {} THEN "deleteOld" ELSE "deleteOwn",
         ![k].todo = Previous(ns)]
  /\ UNCHANGED <<cr, queued, spent, layers, renamed>>

(* Lambda deletes a version that is not there without complaint.           *)
DeleteLayerVersion(k, n) ==
  layers' = [layers EXCEPT ![Doomed(k)] =
               [i \in DOMAIN @ |-> IF i = n THEN [@[i] EXCEPT !.exists = FALSE]
                                            ELSE @[i]]]

(* In ascending order.                                                     *)
customPreDelete(k) ==
  /\ At(k, "deleteOld")
  /\ \/ /\ pass[k].todo = {}
        /\ Goto(k, "deleteOwn") /\ UNCHANGED <<layers, spent>>
     \/ \E n \in pass[k].todo :
          /\ \A m \in pass[k].todo : n =< m
          /\ DeleteLayerVersion(k, n)
          /\ \/ pass' = [pass EXCEPT ![k].todo = @ \ {n}] /\ UNCHANGED spent
             \/ Spend("faults") /\ EndPass(k, "Recoverable")
  /\ UNCHANGED <<cr, queued, renamed>>

sdkDelete(k) ==
  /\ At(k, "deleteOwn")
  /\ DeleteLayerVersion(k, pass[k].latest.status.versionNumber)
  /\ \/ Goto(k, "unmanage") /\ UNCHANGED spent
     \/ Spend("faults") /\ EndPass(k, "Recoverable")
  /\ UNCHANGED <<cr, queued, renamed>>

Delete(k) == ListLayerVersions(k) \/ customPreDelete(k) \/ sdkDelete(k)

-----------------------------------------------------------------------------
(* What has no state of AWS.                                               *)
Other(k) ==
  /\ Start(k) \/ Manage(k) \/ Unmanage(k) \/ Finish(k)
  /\ UNCHANGED <<layers, renamed>>

Timer(k) == Resync(k) /\ UNCHANGED <<layers, renamed>>

Fail(k) == CallFails(k) /\ UNCHANGED <<layers, renamed>>

Users(k) ==
  \/ \E s \in Specs :
       /\ UserApply(k, s, NoStatus)
       /\ renamed' = (renamed \/ (~Idle(k) /\ s.layer # pass[k].desired.spec.layer))
       /\ UNCHANGED layers
  \/ \E s \in Specs :
       /\ UserEdit(k, s)
       /\ renamed' = (renamed \/ s.layer # cr[k].spec.layer)
       /\ UNCHANGED layers
  \/ UserDelete(k) /\ UNCHANGED <<layers, renamed>>

(* Somebody else publishes or deletes a version.                           *)
Drift(l) ==
  /\ \/ \E v \in Value :
          layers' = [layers EXCEPT ![l] =
            Append(@, [exists |-> TRUE, by |-> "other", description |-> Nil,
                       content |-> v])]
     \/ \E n \in Numbers(l) :
          layers' = [layers EXCEPT ![l][n].exists = FALSE]
  /\ Spend("drifts")
  /\ UNCHANGED <<cr, queued, pass, renamed>>

Handlers(k) == Other(k) \/ ReadOne(k) \/ Create(k) \/ Update(k) \/ Delete(k)

Next ==
  \/ \E k \in Key : Handlers(k) \/ Timer(k) \/ Fail(k) \/ Users(k)
  \/ Crash /\ UNCHANGED <<layers, renamed>>
  \/ \E l \in Layer : Drift(l)

Spec == Init /\ [][Next]_vars

(* Passes go on, one CR at a time, and the resync timer expires.           *)
Fairness == \A k \in Key : SF_vars(Handlers(k)) /\ WF_vars(Timer(k))

FairSpec == Spec /\ Fairness

-----------------------------------------------------------------------------
(* Properties.                                                             *)

(* The versions that the controller has published, and those still there.  *)
EverOurs ==
  {v \in UNION {{l} \X (1..Len(layers[l])) : l \in Layer} :
     layers[v[1]][v[2]].by = "us"}
Ours == {v \in EverOurs : v[2] \in Numbers(v[1])}

(* When no CR is left, neither are the versions that were published for    *)
(* one, except one for each answer that was lost, and for each CR with     *)
(* each restart (a later publication is then unknown, and customPreDelete  *)
(* keeps the highest of the list, hooks.go:55).  Without failures nothing  *)
(* remains, however many edits there were, as long as a layer's versions   *)
(* fit in one page of ListLayerVersions, whose further pages hooks.go:37   *)
(* does not ask for.                                                       *)
NothingLeftBehind ==
  /\ NoDriftYet /\ ~renamed
  /\ \A k \in Key : ~cr[k].exists
  /\ \A l \in Layer : Len(layers[l]) =< PageSize
  => Cardinality(Ours) =< spent.faults * Cardinality(Key)

(* A CR publishes one version, and then at most one for each edit, failure *)
(* or change from outside: no difference between spec and answer publishes *)
(* a version with every pass.  An edit counts for each CR, since a deletion*)
(* takes the versions of other CRs of the layer along, which then publish  *)
(* again; a failure counts for each pass that a restart may interrupt too, *)
(* since each of them may be a deletion that goes through the layer again. *)
PublishesAreBounded ==
  Cardinality(EverOurs) =<
    Cardinality(Key) * (1 + spent.edits + spent.drifts
                          + (1 + spent.overlaps) * spent.faults)

(* The CR has a version in its layer with the description it asks for, and *)
(* one of ours unless the layer's name was edited, which may find somebody *)
(* else's version of the same number.                                      *)
Applied(k) ==
  LET s == cr[k].spec
      n == cr[k].status.versionNumber
  IN  /\ n \in Numbers(s.layer)
      /\ layers[s.layer][n].description = s.description
      /\ renamed \/ layers[s.layer][n].by = "us"

(* Once users, failures and drift stop, a CR that stays is Synced with its *)
(* version, and one that is deleted goes.                                  *)
Converges ==
  \A k \in Key :
    <>[](/\ ~cr[k].deleting
         /\ cr[k].exists => cr[k].cond = "Synced" /\ Applied(k))
=============================================================================
