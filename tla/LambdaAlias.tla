---------------------------- MODULE LambdaAlias ----------------------------
(***************************************************************************)
(* The reconciliation of an Alias custom resource: pkg/resource/alias. An  *)
(* alias is found by the names of its function and its own, which do not   *)
(* change. It is written by CreateAlias and UpdateAlias; the event-invoke  *)
(* config, provisioned concurrency and each statement of its policy have   *)
(* calls of their own. Each alias is wanted by one CR.                     *)
(*                                                                         *)
(* Of the spec, the model has                                              *)
(*   version      the function version, as every field that is always set  *)
(*   routing      as the description, not sent if it is not set            *)
(*   eventInvoke, provisioned                                              *)
(*   permissions  a list of statement ids, which users may forget or       *)
(*                repeat, and what they grant to whom. What is never read  *)
(*                back (FunctionURLAuthType) is left out.                  *)
(***************************************************************************)
EXTENDS AckPass, Sequences, FiniteSets, SequencesExt

CONSTANTS
  Value,       \* values of the fields
  Sid,         \* statement ids
  Grant,       \* actions, principals and conditions
  Rewritten,   \* those whose principal Lambda gives back as an ARN
  Specs        \* the specs that users ask for

(* The grant is Nil if its principal is not one that users write.          *)
Permission == [sid : Sid \cup {Nil}, grant : Grant \cup {Nil}]
AliasSpec ==
  [version : Value, routing : Value \cup {Nil}, eventInvoke : Value \cup {Nil},
   provisioned : Value \cup {Nil}, permissions : Seq(Permission)]

ASSUME AliasNil == Nil \notin Value \cup Sid \cup Grant \cup Nat
ASSUME AliasRewritten == Rewritten \subseteq Grant
ASSUME AliasSpecs ==
  \A s \in Specs :
    s \in AliasSpec /\ \A i \in DOMAIN s.permissions : s.permissions[i].grant # Nil

VARIABLE alias     \* the alias that each CR is about, in AWS

vars == <<passVars, alias>>

NoStatus == [revision |-> Nil]
Statuses == [revision : Nat \cup {Nil}]
Locations == {"idle", "read", "fields", "manage", "create", "configure",
              "update", "writeback", "delete", "unmanage", "finish"}

NoAlias == [by |-> "none", version |-> Nil, routing |-> Nil, revision |-> Nil,
            eventInvoke |-> Nil, provisioned |-> Nil, policy |-> {}]
Aliases ==
  {NoAlias} \cup
  [by : {"us", "other"}, version : Value, routing : Value \cup {Nil},
   revision : Nat, eventInvoke : Value \cup {Nil},
   provisioned : Value \cup {Nil}, policy : SUBSET [sid : Sid, grant : Grant]]

TypeOK ==
  /\ PassTypeOK(Locations, AliasSpec, Statuses)
  /\ alias \in [Key -> Aliases]

Foreign(v) == [NoAlias EXCEPT !.by = "other", !.version = v, !.revision = 0]

Init ==
  /\ PassInit(Specs, NoStatus)
  /\ alias \in [Key -> {NoAlias} \cup {Foreign(v) : v \in Value}]

Exists(k) == alias[k].by # "none"

(* Every change of an alias or of its policy gives it a revision id that   *)
(* nobody has yet.                                                         *)
Revision(k) ==
  LET known == {cr[k].status, pass[k].desired.status, pass[k].latest.status}
  IN  CHOOSE n \in 0..5 : /\ n # alias[k].revision
                          /\ [revision |-> n] \notin known
                          /\ pass[k].found # Nil => n # pass[k].found.revision

-----------------------------------------------------------------------------
(* Permissions.                                                            *)

(* What a list of permissions says of each statement id: the last counts.  *)
Statements(ps) ==
  {ps[i] : i \in {j \in DOMAIN ps : ps[j].sid # Nil
                    /\ \A l \in DOMAIN ps : l > j => ps[l].sid # ps[j].sid}}

(* What GetPolicy gives back. No policy is an empty list.                  *)
setPermissions(policy) ==
  SetToSeq({[p EXCEPT !.grant = IF @ \in Rewritten THEN Nil ELSE @] : p \in policy})

(* Mutant: nothing equals what is read back.                               *)
MutantPermissionEqual(p, q) == FALSE

permissionEqual(p, q) == p = q

(* What to remove and what to add; an update is one of each.               *)
comparePermissions(desired, latest) ==
  LET want == Statements(desired)
      have == Statements(latest)
      kept == {p \in want : \E q \in have : permissionEqual(p, q)}
  IN  {[call |-> "remove", sid |-> q.sid, grant |-> Nil] :
         q \in {q \in have : ~\E p \in kept : p.sid = q.sid}}
      \cup {[call |-> "add", sid |-> p.sid, grant |-> p.grant] : p \in want \ kept}

customPreCompare(desired, latest) ==
  \/ Len(desired) # Len(latest)
  \/ comparePermissions(desired, latest) # {}

(* Mutant: the routing is not compared.                                    *)
MutantNewResourceDelta(d, s) ==
  {f \in {"version", "eventInvoke", "provisioned"} : d[f] # s[f]}
  \cup {f \in {"permissions"} : customPreCompare(d[f], s[f])}

newResourceDelta(d, s) ==
  {f \in {"version", "routing", "eventInvoke", "provisioned"} : d[f] # s[f]}
  \cup {f \in {"permissions"} : customPreCompare(d[f], s[f])}

-----------------------------------------------------------------------------
(* ReadOne.                                                                *)

(* Mutant: the revision id is not taken from the answer.                   *)
MutantObserved(k) ==
  [spec |-> [pass[k].desired.spec EXCEPT !.version = alias[k].version,
                                         !.routing = alias[k].routing],
   status |-> pass[k].desired.status]

(* What GetAlias answers, laid over the CR's copy.                         *)
Observed(k) ==
  [spec |-> [pass[k].desired.spec EXCEPT !.version = alias[k].version,
                                         !.routing = alias[k].routing],
   status |-> [revision |-> alias[k].revision]]

sdkFind(k) ==
  /\ At(k, "read")
  /\ IF Exists(k)
       THEN pass' = [pass EXCEPT ![k].pc = "fields", ![k].latest = Observed(k)]
       ELSE NotFound(k)
  /\ UNCHANGED <<cr, queued, spent, alias>>

(* The other three reads, for which "not found" is nil, and what the       *)
(* runtime makes of the result.                                            *)
setResourceAdditionalFields(k) ==
  /\ At(k, "fields")
  /\ LET p == pass[k]
         s == [p.latest.spec EXCEPT
                 !.eventInvoke = alias[k].eventInvoke,
                 !.provisioned = alias[k].provisioned,
                 !.permissions = setPermissions(alias[k].policy)]
         delta == newResourceDelta(p.desired.spec, s)
         next(l, o, todo) ==
           pass' = [pass EXCEPT ![k] = [p EXCEPT !.pc = l, !.outcome = o,
                                                 !.latest.spec = s, !.todo = todo]]
     IN  \/ p.why = "created" /\ next("finish", "Synced", {})
         \/ p.why = "delete" /\ next("delete", "Unknown", {})
         \/ /\ p.why = "sync"
            /\ \/ ~IsManaged(k) /\ next("finish", "Terminal", {})
               \/ IsManaged(k) /\ delta = {} /\ next("finish", "Synced", {})
               \/ IsManaged(k) /\ delta # {} /\ next("update", "Unknown", delta)
  /\ UNCHANGED <<cr, queued, spent, alias>>

ReadOne(k) == sdkFind(k) \/ setResourceAdditionalFields(k)

-----------------------------------------------------------------------------
(* Calls that Create and Update share.                                     *)

Change(k, a) == alias' = [alias EXCEPT ![k] = a]

(* A call has had its effect; its answer arrives or does not.              *)
Answered(k, p) ==
  \/ pass' = [pass EXCEPT ![k] = p] /\ UNCHANGED spent
  \/ Spend("faults") /\ EndPass(k, "Recoverable")

(* A call that Lambda refuses.                                             *)
Refused(k) == EndPass(k, "Recoverable") /\ UNCHANGED <<spent, alias>>

Busy(k) == At(k, "configure") \/ At(k, "update")
Done(k, f) == [pass[k] EXCEPT !.todo = @ \ {f}]
Turn(k, f, earlier) ==
  Busy(k) /\ f \in pass[k].todo /\ pass[k].todo \cap earlier = {}

(* PutFunctionEventInvokeConfig, or DeleteFunctionEventInvokeConfig, which *)
(* fails if there is none.                                                 *)
syncEventInvokeConfig(k) ==
  LET v == pass[k].desired.spec.eventInvoke IN
  /\ Turn(k, "eventInvoke", {})
  /\ IF ~Exists(k) \/ (v = Nil /\ alias[k].eventInvoke = Nil)
       THEN Refused(k)
       ELSE /\ Change(k, [alias[k] EXCEPT !.eventInvoke = v])
            /\ Answered(k, Done(k, "eventInvoke"))
  /\ UNCHANGED <<cr, queued>>

(* PutProvisionedConcurrencyConfig or DeleteProvisionedConcurrencyConfig.  *)
updateProvisionedConcurrency(k) ==
  LET v == pass[k].desired.spec.provisioned IN
  /\ Turn(k, "provisioned", {"eventInvoke"})
  /\ IF ~Exists(k)
       THEN Refused(k)
       ELSE /\ Change(k, [alias[k] EXCEPT !.provisioned = v])
            /\ Answered(k, Done(k, "provisioned"))
  /\ UNCHANGED <<cr, queued>>

(* The revision id in the answer of CreateAlias.                           *)
Recorded(k) == IF pass[k].found = Nil THEN Nil ELSE pass[k].found.revision

(* syncPermissions plans the calls, in found.                              *)
syncPermissions(k) ==
  LET wanted == pass[k].desired.spec.permissions
      latest == IF At(k, "configure") THEN <<>> ELSE pass[k].latest.spec.permissions
  IN
  /\ Turn(k, "permissions", {"eventInvoke", "provisioned"})
  /\ IF \E i \in DOMAIN wanted : wanted[i].sid = Nil
       THEN EndPass(k, "Terminal")
       ELSE pass' = [pass EXCEPT
                       ![k].todo = (@ \ {"permissions"}) \cup {"policy"},
                       ![k].found = [revision |-> Recorded(k),
                                     calls |-> comparePermissions(wanted, latest)]]
  /\ UNCHANGED <<cr, queued, spent, alias>>

removePermission(k, c) ==
  LET gone == {p \in alias[k].policy : p.sid = c.sid} IN
  /\ c.call = "remove"
  /\ IF gone = {}
       THEN Refused(k)
       ELSE /\ Change(k, [alias[k] EXCEPT !.policy = @ \ gone,
                                          !.revision = Revision(k)])
            /\ Answered(k, [pass[k] EXCEPT !.found.calls = @ \ {c}])

(* Removals come first.                                                    *)
addPermission(k, c) ==
  /\ c.call = "add" /\ \A d \in pass[k].found.calls : d.call = "add"
  /\ IF ~Exists(k) \/ \E p \in alias[k].policy : p.sid = c.sid
       THEN Refused(k)
       ELSE /\ Change(k, [alias[k] EXCEPT
                            !.policy = @ \cup {[sid |-> c.sid, grant |-> c.grant]},
                            !.revision = Revision(k)])
            /\ Answered(k, [pass[k] EXCEPT !.found.calls = @ \ {c}])

Permissions(k) ==
  \/ syncPermissions(k)
  \/ /\ Busy(k) /\ "policy" \in pass[k].todo
     /\ \/ \E c \in pass[k].found.calls : removePermission(k, c) \/ addPermission(k, c)
        \/ /\ pass[k].found.calls = {}
           /\ pass' = [pass EXCEPT ![k] = Done(k, "policy")]
           /\ UNCHANGED <<spent, alias>>
     /\ UNCHANGED <<cr, queued>>

-----------------------------------------------------------------------------
(* Create.                                                                 *)

(* CreateAlias. A field that is not set is not sent.                       *)
sdkCreate(k) ==
  LET s == pass[k].desired.spec
      new == [NoAlias EXCEPT !.by = "us", !.version = s.version,
                             !.routing = s.routing, !.revision = Revision(k)]
  IN
  /\ At(k, "create")
  /\ IF Exists(k)
       THEN Refused(k)
       ELSE /\ Change(k, new)
            /\ Answered(k, [pass[k] EXCEPT
                 !.pc = "configure",
                 !.found = [revision |-> new.revision, calls |-> {}],
                 !.todo = {f \in {"eventInvoke", "provisioned"} : s[f] # Nil}
                          \cup {f \in {"permissions"} : s[f] # <<>>}])
  /\ UNCHANGED <<cr, queued>>

(* What sdkCreate returns once the alias has all that goes with it. A      *)
(* failure before that returns nothing, and its revision is not recorded.  *)
Created(k) ==
  /\ At(k, "configure") /\ pass[k].todo = {}
  /\ pass' = [pass EXCEPT
       ![k].pc = "read", ![k].why = "created", ![k].found = Nil,
       ![k].latest = [spec |-> pass[k].desired.spec,
                      status |-> [revision |-> pass[k].found.revision]]]
  /\ UNCHANGED <<cr, queued, spent, alias>>

Create(k) == sdkCreate(k) \/ Created(k)

-----------------------------------------------------------------------------
(* Update.                                                                 *)

AliasFields == {"version", "routing"}
OwnCalls == {"eventInvoke", "provisioned", "permissions", "policy"}

(* Nothing is left for UpdateAlias: the CR's copy is returned, with the    *)
(* revision id that it had.                                                *)
NothingExcept(k) ==
  /\ At(k, "update") /\ pass[k].todo = {}
  /\ pass' = [pass EXCEPT
       ![k].pc = "finish", ![k].outcome = "Synced", ![k].found = Nil,
       ![k].latest = [spec |-> pass[k].desired.spec,
                      status |-> pass[k].desired.status]]
  /\ UNCHANGED <<cr, queued, spent, alias>>

(* newUpdateRequestPayload sends the revision id from the CR's status, if  *)
(* there is one, and the alias must still have it.                         *)
Precondition(k) ==
  pass[k].desired.status.revision \in {Nil, alias[k].revision}

(* Mutant: what the answer lacks is taken for zero.                        *)
MutantUpdated(k) ==
  [spec |-> [pass[k].desired.spec EXCEPT
               !.routing = IF @ = Nil /\ alias[k].routing = Nil THEN 0 ELSE @],
   status |-> [revision |-> Revision(k)]]

(* The answer of UpdateAlias, laid over the CR's copy: routing that is not *)
(* sent is as it was.                                                      *)
Updated(k) ==
  [spec |-> [pass[k].desired.spec EXCEPT
               !.routing = IF @ = Nil THEN alias[k].routing ELSE @],
   status |-> [revision |-> Revision(k)]]

UpdateAlias(k) ==
  LET u == Updated(k) IN
  /\ At(k, "update")
  /\ pass[k].todo # {} /\ pass[k].todo \subseteq AliasFields
  /\ IF ~Exists(k) \/ ~Precondition(k)
       THEN Refused(k)
       ELSE /\ Change(k, [alias[k] EXCEPT
                 !.version = u.spec.version, !.revision = u.status.revision,
                 !.routing = IF pass[k].desired.spec.routing = Nil THEN @
                             ELSE pass[k].desired.spec.routing])
            /\ Answered(k, [pass[k] EXCEPT !.pc = "writeback", !.latest = u,
                                           !.found = Nil, !.todo = {}])
  /\ UNCHANGED <<cr, queued>>

sdkUpdate(k) == UpdateAlias(k) \/ NothingExcept(k)
Update(k) == sdkUpdate(k)

WriteBack(k) ==
  /\ At(k, "writeback")
  /\ PatchSpec(k) /\ EndPass(k, "Synced")
  /\ UNCHANGED alias

-----------------------------------------------------------------------------
(* Delete.                                                                 *)

(* Mutant: an error of DeleteAlias is not returned.                        *)
MutantSdkDelete(k) ==
  /\ At(k, "delete")
  /\ \/ Change(k, NoAlias) /\ UNCHANGED spent
     \/ Spend("faults") /\ UNCHANGED alias
  /\ Goto(k, "unmanage")
  /\ UNCHANGED <<cr, queued>>

(* What belongs to an alias goes with it.                                  *)
sdkDelete(k) ==
  /\ At(k, "delete")
  /\ Change(k, NoAlias)
  /\ Answered(k, [pass[k] EXCEPT !.pc = "unmanage"])
  /\ UNCHANGED <<cr, queued>>

Delete(k) == sdkDelete(k)

-----------------------------------------------------------------------------
(* What has no state of AWS.                                               *)
Other(k) ==
  /\ Start(k) \/ Manage(k) \/ Unmanage(k) \/ Finish(k)
  /\ UNCHANGED alias

Environment(k) ==
  /\ \/ CallFails(k)
     \/ Resync(k)
     \/ \E s \in Specs : UserApply(k, s, NoStatus) \/ UserEdit(k, s)
     \/ UserDelete(k)
  /\ UNCHANGED alias

(* Somebody else creates, deletes or changes the alias, or its policy.     *)
Drift(k) ==
  /\ \/ ~Exists(k) /\ \E v \in Value : Change(k, Foreign(v))
     \/ Exists(k) /\ Change(k, NoAlias)
     \/ Exists(k) /\ \E v \in Value :
          Change(k, [alias[k] EXCEPT !.version = v, !.revision = Revision(k)])
     \/ \E p \in alias[k].policy :
          Change(k, [alias[k] EXCEPT !.policy = @ \ {p}, !.revision = Revision(k)])
  /\ Spend("drifts")
  /\ UNCHANGED <<cr, queued, pass>>

Handlers(k) ==
  \/ Other(k) \/ ReadOne(k) \/ Create(k) \/ Update(k) \/ WriteBack(k) \/ Delete(k)
  \/ syncEventInvokeConfig(k) \/ updateProvisionedConcurrency(k) \/ Permissions(k)

Next ==
  \/ \E k \in Key : Handlers(k) \/ Environment(k) \/ Drift(k)
  \/ Crash /\ UNCHANGED alias

Spec == Init /\ [][Next]_vars

(* Passes go on, and the resync timer expires.                             *)
Fairness ==
  \A k \in Key : SF_vars(Handlers(k)) /\ WF_vars(Resync(k) /\ UNCHANGED alias)

FairSpec == Spec /\ Fairness

-----------------------------------------------------------------------------
(* Properties.                                                             *)

(* A CR that rests as Synced has its alias as it asks for, and a policy    *)
(* with exactly its statements: no failure between two permission calls    *)
(* leaves something behind that the next comparison does not see.          *)
Applied(k) ==
  LET s == cr[k].spec IN
  /\ Exists(k)
  /\ \A f \in {"version", "routing", "eventInvoke", "provisioned"} :
       alias[k][f] = s[f]
  /\ alias[k].policy = Statements(s.permissions)

SyncedMeansApplied ==
  NoDriftYet
    => \A k \in Key :
         Rests(k) /\ cr[k].exists /\ cr[k].cond = "Synced" => Applied(k)

(* A statement that the pass's CR asks for is never withdrawn, not even    *)
(* for the moment between a removal and an addition; one whose principal   *)
(* is rewritten is, with every pass (hooks.go:232, delta).                 *)
GrantsAreKept ==
  [][\A k \in Key :
       /\ spent'.drifts = 0 /\ Exists(k) /\ alias'[k].by # "none" /\ Busy(k)
       => \A p \in alias[k].policy \ alias'[k].policy :
            \/ p.grant \in Rewritten
            \/ p \notin Statements(pass[k].desired.spec.permissions)]_vars

(* The contract of ManagedResource, for each CR.                           *)
Backend(k) == CASE alias[k].by = "us" -> "ours"
                [] alias[k].by = "none" -> "none"
                [] OTHER -> "other"
Contract(k) == INSTANCE ManagedResource
                 WITH kube <- Kube(k), managed <- cr[k].finalizer,
                      backend <- Backend(k)
KeepsContract ==
  /\ \A k \in Key : Contract(k)!Init
  /\ [][\A k \in Key : [Contract(k)!Next]_<<Kube(k), cr[k].finalizer, Backend(k)>>]_vars

(* Once users, failures and drift stop, a CR is as it asks for, and one    *)
(* that is deleted goes: refused revision ids, conflicting statements and  *)
(* policies changed half way do not go on for ever. Terminal is for an     *)
(* alias of somebody else and for a permission without statement id.       *)
Converges ==
  \A k \in Key :
    <>[](/\ ~cr[k].deleting
         /\ cr[k].exists =>
              \/ cr[k].cond = "Terminal"
              \/ \E p \in Range(cr[k].spec.permissions) : p.grant \in Rewritten
              \/ cr[k].cond = "Synced" /\ Applied(k))
=============================================================================
