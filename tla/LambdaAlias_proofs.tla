------------------------- MODULE LambdaAlias_proofs -------------------------
(***************************************************************************)
(* Proofs about LambdaAlias, for any number of CRs, statements and events: *)
(* the type invariant, the contract of ManagedResource, that statements    *)
(* that are asked for are kept, and that a CR that rests as Synced has its *)
(* alias and policy exactly as it asks for.                                *)
(***************************************************************************)
EXTENDS LambdaAlias, AckPass_proofs, FiniteSetTheorems

(* Where a pass has seen the finalizer of its CR, or has added it.         *)
Held == {"create", "configure", "update", "writeback"}

(* A spec that users wrote grants something with each statement.           *)
Written(s) == \A i \in DOMAIN s.permissions : s.permissions[i].grant # Nil

(* What syncPermissions plans.                                             *)
Call == [call : {"remove"}, sid : Sid, grant : {Nil}]
        \cup [call : {"add"}, sid : Sid, grant : Grant]
Plan == [revision : Nat \cup {Nil}, calls : SUBSET Call]

(* A policy is finite, and has one statement of an id.                     *)
SoundAlias(a) ==
  /\ a \in Aliases
  /\ IsFiniteSet(a.policy)
  /\ \A x, y \in a.policy : x.sid = y.sid => x = y

InCalls(p) == p.pc \in {"configure", "update"}

(* What the pass p of the CR c has to go by where it is, with alias a.     *)
Knows(p, c, a) ==
  /\ c.exists => Written(c.spec)
  /\ p.found \in Plan \cup {Nil}
  /\ p.pc # "idle" => Written(p.desired.spec)
  /\ p.pc = "writeback" =>
       p.latest.spec.permissions = p.desired.spec.permissions
  /\ p.pc = "configure" => p.found \in Plan
  /\ InCalls(p) /\ "policy" \in p.todo =>
       p.found \in Plan /\ "permissions" \notin p.todo
  /\ p.pc = "delete" => p.why = "delete"
  /\ p.pc = "unmanage" => a.by # "us"

(* A statement of the policy that the pass wants is seen by the read and is*)
(* not among those to remove, as long as nobody else changes the policy.   *)
Spares(p, a) ==
  \A x \in a.policy :
    \/ x.grant \in Rewritten
    \/ /\ p.pc = "update" /\ "permissions" \in p.todo =>
            x \in Statements(p.latest.spec.permissions)
       /\ InCalls(p) /\ "policy" \in p.todo
            /\ x \in Statements(p.desired.spec.permissions) =>
            \A c \in p.found.calls : c.call = "remove" => c.sid # x.sid

Inv ==
  /\ PassInv(Locations, Held, AliasSpec, Statuses)
  /\ DOMAIN alias = Key /\ alias = [k \in Key |-> alias[k]]
  /\ \A k \in Key :
       /\ SoundAlias(alias[k])
       /\ Knows(pass[k], cr[k], alias[k])
       /\ NoDriftYet => Spares(pass[k], alias[k])

-----------------------------------------------------------------------------
(* Types of what the handlers compute.                                     *)

LEMMA Commons == Common(Locations, Held)
BY DEF Common, Locations, Held

LEMMA OneIsLeft ==
  ASSUME NEW a, NEW b, NEW c, NEW d, NEW e
  PROVE  \E n \in 0..5 : n # a /\ n # b /\ n # c /\ n # d /\ n # e
OBVIOUS

LEMMA RevisionType == ASSUME NEW k PROVE Revision(k) \in Nat
<1> DEFINE New(n) ==
             /\ n # alias[k].revision
             /\ [revision |-> n] \notin
                  {cr[k].status, pass[k].desired.status, pass[k].latest.status}
             /\ pass[k].found # Nil => n # pass[k].found.revision
<1>1. \E n \in 0..5 : New(n)
  <2>1. PICK n \in 0..5 :
          /\ n # alias[k].revision /\ n # cr[k].status.revision
          /\ n # pass[k].desired.status.revision
          /\ n # pass[k].latest.status.revision
          /\ n # pass[k].found.revision
    BY OneIsLeft
  <2>2. [revision |-> n].revision = n
    OBVIOUS
  <2>3. QED
    BY <2>1, <2>2
<1>2. Revision(k) = CHOOSE n \in 0..5 : New(n)
  BY DEF Revision
<1> HIDE DEF New
<1>3. Revision(k) \in 0..5
  BY <1>1, <1>2
<1>4. QED
  BY <1>3

LEMMA SpecsOfPass ==
  ASSUME Inv, NEW k \in Key, ~Idle(k)
  PROVE  /\ pass[k].desired.spec \in AliasSpec
         /\ pass[k].desired.status \in Statuses
         /\ pass[k].latest.spec \in AliasSpec /\ pass[k].latest.status \in Statuses
         /\ Written(pass[k].desired.spec)
<1>1. /\ SoundPass(pass[k], cr[k], Locations, Held, AliasSpec, Statuses)
      /\ Knows(pass[k], cr[k], alias[k])
  BY DEF Inv, PassInv
<1>2. QED
  BY <1>1, ExistingCR DEF SoundPass, Knows, Idle, At

LEMMA SpecFields ==
  ASSUME NEW s \in AliasSpec
  PROVE  /\ s = [version |-> s.version, routing |-> s.routing,
                 eventInvoke |-> s.eventInvoke, provisioned |-> s.provisioned,
                 permissions |-> s.permissions]
         /\ s.version \in Value /\ s.routing \in Value \cup {Nil}
         /\ s.eventInvoke \in Value \cup {Nil}
         /\ s.provisioned \in Value \cup {Nil}
         /\ s.permissions \in Seq(Permission)
BY DEF AliasSpec

LEMMA FieldsOfAlias ==
  ASSUME NEW a \in Aliases, a.by # "none"
  PROVE  /\ a = [by |-> a.by, version |-> a.version, routing |-> a.routing,
                 revision |-> a.revision, eventInvoke |-> a.eventInvoke,
                 provisioned |-> a.provisioned, policy |-> a.policy]
         /\ a.by \in {"us", "other"} /\ a.version \in Value
         /\ a.routing \in Value \cup {Nil} /\ a.revision \in Nat
         /\ a.eventInvoke \in Value \cup {Nil}
         /\ a.provisioned \in Value \cup {Nil}
         /\ a.policy \in SUBSET [sid : Sid, grant : Grant]
<1>1. NoAlias.by = "none"
  BY DEF NoAlias
<1>2. a \in [by : {"us", "other"}, version : Value, routing : Value \cup {Nil},
             revision : Nat, eventInvoke : Value \cup {Nil},
             provisioned : Value \cup {Nil},
             policy : SUBSET [sid : Sid, grant : Grant]]
  BY <1>1 DEF Aliases
<1>3. QED
  BY <1>2

LEMMA IsAlias ==
  ASSUME NEW by \in {"us", "other"}, NEW v \in Value, NEW r \in Value \cup {Nil},
         NEW n \in Nat, NEW e \in Value \cup {Nil}, NEW c \in Value \cup {Nil},
         NEW ps \in SUBSET [sid : Sid, grant : Grant]
  PROVE  [by |-> by, version |-> v, routing |-> r, revision |-> n,
          eventInvoke |-> e, provisioned |-> c, policy |-> ps] \in Aliases
BY DEF Aliases

(* The ways in which an alias that exists is changed.                      *)
LEMMA EventInvokeChanged ==
  ASSUME NEW a, SoundAlias(a), a.by # "none", NEW e \in Value \cup {Nil}
  PROVE  LET b == [a EXCEPT !.eventInvoke = e]
         IN  SoundAlias(b) /\ b.by = a.by /\ b.policy = a.policy
<1>1. a = [by |-> a.by, version |-> a.version, routing |-> a.routing,
           revision |-> a.revision, eventInvoke |-> a.eventInvoke,
           provisioned |-> a.provisioned, policy |-> a.policy]
  BY FieldsOfAlias DEF SoundAlias
<1> DEFINE b == [a EXCEPT !.eventInvoke = e]
<1>2. ASSUME NEW x, x = b
      PROVE  x = [by |-> a.by, version |-> a.version, routing |-> a.routing,
                  revision |-> a.revision, eventInvoke |-> e,
                  provisioned |-> a.provisioned, policy |-> a.policy]
  BY <1>1, <1>2
<1>3. b = [by |-> a.by, version |-> a.version, routing |-> a.routing,
           revision |-> a.revision, eventInvoke |-> e,
           provisioned |-> a.provisioned, policy |-> a.policy]
  BY <1>2
<1> HIDE DEF b
<1>4. b \in Aliases
  BY <1>3, FieldsOfAlias, IsAlias DEF SoundAlias
<1>5. b.policy = a.policy /\ b.by = a.by
  BY <1>3
<1>6. SoundAlias(b)
  BY <1>4, <1>5 DEF SoundAlias
<1>7. QED
  BY <1>5, <1>6 DEF b

LEMMA ProvisionedChanged ==
  ASSUME NEW a, SoundAlias(a), a.by # "none", NEW c \in Value \cup {Nil}
  PROVE  LET b == [a EXCEPT !.provisioned = c]
         IN  SoundAlias(b) /\ b.by = a.by /\ b.policy = a.policy
<1>1. a = [by |-> a.by, version |-> a.version, routing |-> a.routing,
           revision |-> a.revision, eventInvoke |-> a.eventInvoke,
           provisioned |-> a.provisioned, policy |-> a.policy]
  BY FieldsOfAlias DEF SoundAlias
<1> DEFINE b == [a EXCEPT !.provisioned = c]
<1>2. ASSUME NEW x, x = b
      PROVE  x = [by |-> a.by, version |-> a.version, routing |-> a.routing,
                  revision |-> a.revision, eventInvoke |-> a.eventInvoke,
                  provisioned |-> c, policy |-> a.policy]
  BY <1>1, <1>2
<1>3. b = [by |-> a.by, version |-> a.version, routing |-> a.routing,
           revision |-> a.revision, eventInvoke |-> a.eventInvoke,
           provisioned |-> c, policy |-> a.policy]
  BY <1>2
<1> HIDE DEF b
<1>4. b \in Aliases
  BY <1>3, FieldsOfAlias, IsAlias DEF SoundAlias
<1>5. b.policy = a.policy /\ b.by = a.by
  BY <1>3
<1>6. SoundAlias(b)
  BY <1>4, <1>5 DEF SoundAlias
<1>7. QED
  BY <1>5, <1>6 DEF b

LEMMA VersionChanged ==
  ASSUME NEW a, SoundAlias(a), a.by # "none", NEW v \in Value,
         NEW n \in Nat
  PROVE  LET b == [a EXCEPT !.version = v, !.revision = n]
         IN  SoundAlias(b) /\ b.by = a.by /\ b.policy = a.policy
<1>1. a = [by |-> a.by, version |-> a.version, routing |-> a.routing,
           revision |-> a.revision, eventInvoke |-> a.eventInvoke,
           provisioned |-> a.provisioned, policy |-> a.policy]
  BY FieldsOfAlias DEF SoundAlias
<1> DEFINE b == [a EXCEPT !.version = v, !.revision = n]
<1>2. ASSUME NEW x, x = b
      PROVE  x = [by |-> a.by, version |-> v, routing |-> a.routing,
                  revision |-> n, eventInvoke |-> a.eventInvoke,
                  provisioned |-> a.provisioned, policy |-> a.policy]
  BY <1>1, <1>2
<1>3. b = [by |-> a.by, version |-> v, routing |-> a.routing,
           revision |-> n, eventInvoke |-> a.eventInvoke,
           provisioned |-> a.provisioned, policy |-> a.policy]
  BY <1>2
<1> HIDE DEF b
<1>4. b \in Aliases
  BY <1>3, FieldsOfAlias, IsAlias DEF SoundAlias
<1>5. b.policy = a.policy /\ b.by = a.by
  BY <1>3
<1>6. SoundAlias(b)
  BY <1>4, <1>5 DEF SoundAlias
<1>7. QED
  BY <1>5, <1>6 DEF b

LEMMA RoutingChanged ==
  ASSUME NEW a, SoundAlias(a), a.by # "none", NEW v \in Value,
         NEW n \in Nat, NEW r \in Value \cup {Nil}
  PROVE  LET b == [a EXCEPT !.version = v, !.revision = n, !.routing = r]
         IN  SoundAlias(b) /\ b.by = a.by /\ b.policy = a.policy
<1>1. a = [by |-> a.by, version |-> a.version, routing |-> a.routing,
           revision |-> a.revision, eventInvoke |-> a.eventInvoke,
           provisioned |-> a.provisioned, policy |-> a.policy]
  BY FieldsOfAlias DEF SoundAlias
<1> DEFINE b == [a EXCEPT !.version = v, !.revision = n, !.routing = r]
<1>2. ASSUME NEW x, x = b
      PROVE  x = [by |-> a.by, version |-> v, routing |-> r,
                  revision |-> n, eventInvoke |-> a.eventInvoke,
                  provisioned |-> a.provisioned, policy |-> a.policy]
  BY <1>1, <1>2
<1>3. b = [by |-> a.by, version |-> v, routing |-> r,
           revision |-> n, eventInvoke |-> a.eventInvoke,
           provisioned |-> a.provisioned, policy |-> a.policy]
  BY <1>2
<1> HIDE DEF b
<1>4. b \in Aliases
  BY <1>3, FieldsOfAlias, IsAlias DEF SoundAlias
<1>5. b.policy = a.policy /\ b.by = a.by
  BY <1>3
<1>6. SoundAlias(b)
  BY <1>4, <1>5 DEF SoundAlias
<1>7. QED
  BY <1>5, <1>6 DEF b

(* Every way in which its policy is.                                       *)
LEMMA ChangedPolicy ==
  ASSUME NEW a, SoundAlias(a), a.by # "none", NEW n \in Nat,
         NEW ps \in SUBSET [sid : Sid, grant : Grant], IsFiniteSet(ps),
         \A x, y \in ps : x.sid = y.sid => x = y
  PROVE  LET b == [a EXCEPT !.policy = ps, !.revision = n]
         IN  SoundAlias(b) /\ b.by = a.by /\ b.policy = ps
<1>1. a \in Aliases
  BY DEF SoundAlias
<1>0. a = [by |-> a.by, version |-> a.version, routing |-> a.routing,
           revision |-> a.revision, eventInvoke |-> a.eventInvoke,
           provisioned |-> a.provisioned, policy |-> a.policy]
  BY <1>1, FieldsOfAlias
<1> DEFINE b == [a EXCEPT !.policy = ps, !.revision = n]
<1>2. ASSUME NEW x, x = b
      PROVE  x = [by |-> a.by, version |-> a.version, routing |-> a.routing,
                  revision |-> n, eventInvoke |-> a.eventInvoke,
                  provisioned |-> a.provisioned, policy |-> ps]
  BY <1>0, <1>2
<1>3. b = [by |-> a.by, version |-> a.version, routing |-> a.routing,
           revision |-> n, eventInvoke |-> a.eventInvoke,
           provisioned |-> a.provisioned, policy |-> ps]
  BY <1>2
<1> HIDE DEF b
<1>4. b \in Aliases
  BY <1>1, <1>3, FieldsOfAlias, IsAlias
<1>5. b.policy = ps /\ b.by = a.by
  BY <1>3
<1>6. SoundAlias(b)
  BY <1>4, <1>5 DEF SoundAlias
<1>7. QED
  BY <1>5, <1>6 DEF b

LEMMA NoAliasIsSound ==
  SoundAlias(NoAlias) /\ NoAlias.by = "none" /\ NoAlias.policy = {}
BY FS_EmptySet DEF SoundAlias, Aliases, NoAlias

LEMMA NewIsSound ==
  ASSUME NEW by \in {"us", "other"}, NEW v \in Value, NEW r \in Value \cup {Nil},
         NEW n \in Nat
  PROVE  LET a == [NoAlias EXCEPT !.by = by, !.version = v, !.routing = r,
                                  !.revision = n]
         IN  SoundAlias(a) /\ a.by = by /\ a.policy = {}
BY FS_EmptySet DEF SoundAlias, Aliases, NoAlias

-----------------------------------------------------------------------------
(* What a step leaves as it was.                                           *)

LEMMA DriftsOnlyGrow ==
  ASSUME spent \in Counts,
         NEW b \in {"edits", "faults", "drifts", "overlaps"},
         Spend(b) \/ UNCHANGED spent, NoDriftYet'
  PROVE  NoDriftYet /\ (b = "drifts" => UNCHANGED spent)
BY DEF Spend, Counts, NoDriftYet

LEMMA IdleKnows ==
  ASSUME NEW c, NEW a, c.exists => Written(c.spec)
  PROVE  Knows(IdlePass, c, a) /\ Spares(IdlePass, a)
BY DEF Knows, Spares, IdlePass, InCalls

(* A step of k changes its CR, its pass and its alias at most.             *)
LEMMA StepOf ==
  ASSUME Inv, NEW k \in Key, NEW p, NEW c, NEW a,
         PassInv(Locations, Held, AliasSpec, Statuses)',
         pass' = [pass EXCEPT ![k] = p], cr' = [cr EXCEPT ![k] = c],
         alias' = [alias EXCEPT ![k] = a],
         SoundAlias(a), Knows(p, c, a), NoDriftYet' => NoDriftYet,
         NoDriftYet' => Spares(p, a)
  PROVE  Inv'
<1>1. /\ DOMAIN pass = Key /\ DOMAIN cr = Key /\ DOMAIN alias = Key
      /\ alias = [j \in Key |-> alias[j]]
  BY DEF Inv, PassInv
<1>2. /\ DOMAIN alias' = Key /\ alias' = [j \in Key |-> alias'[j]]
  BY <1>1
<1>3. ASSUME NEW j \in Key
      PROVE  /\ SoundAlias(alias'[j])
             /\ Knows(pass'[j], cr'[j], alias'[j])
             /\ NoDriftYet' => Spares(pass'[j], alias'[j])
  <2>1. CASE j = k
    <3>1. pass'[j] = p /\ cr'[j] = c /\ alias'[j] = a
      BY <1>1, <2>1
    <3>2. QED
      BY <3>1
  <2>2. CASE j # k
    <3>1. pass'[j] = pass[j] /\ cr'[j] = cr[j] /\ alias'[j] = alias[j]
      BY <1>1, <2>2
    <3>2. QED
      BY <3>1 DEF Inv
  <2>3. QED
    BY <2>1, <2>2
<1>4. QED
  BY <1>2, <1>3 DEF Inv

(* Most steps change the pass only.                                        *)
LEMMA PassStep ==
  ASSUME Inv, NEW k \in Key, NEW p,
         pass' = [pass EXCEPT ![k] = p],
         SoundPass(p, cr[k], Locations, Held, AliasSpec, Statuses),
         Knows(p, cr[k], alias[k]), NoDriftYet => Spares(p, alias[k]),
         UNCHANGED <<cr, queued, spent, alias>>
  PROVE  Inv'
<1>1. PassInv(Locations, Held, AliasSpec, Statuses)'
  BY StepOfPass DEF Inv, PassInv
<1>2. /\ cr' = [cr EXCEPT ![k] = cr[k]] /\ alias' = [alias EXCEPT ![k] = alias[k]]
      /\ SoundAlias(alias[k])
  BY DEF Inv, PassInv
<1>3. NoDriftYet' => NoDriftYet
  BY DEF NoDriftYet
<1>4. QED
  BY <1>1, <1>2, <1>3, StepOf

(* One that ends the pass may have changed the alias.                      *)
LEMMA EndStep ==
  ASSUME Inv, NEW k \in Key, ~Idle(k), NEW o \in Conditions, EndPass(k, o),
         UNCHANGED <<cr, queued>>, Spend("faults") \/ UNCHANGED spent,
         NEW a, SoundAlias(a), alias' = [alias EXCEPT ![k] = a]
  PROVE  Inv'
<1> DEFINE p == [pass[k] EXCEPT !.pc = "finish", !.outcome = o]
<1>0. spent \in Counts /\ spent' \in Counts
  BY SpendType DEF Inv, PassInv
<1>1. PassInv(Locations, Held, AliasSpec, Statuses)'
  BY <1>0, EndPassStep, Commons DEF Inv
<1>2. pass' = [pass EXCEPT ![k] = p] /\ cr' = [cr EXCEPT ![k] = cr[k]]
  BY DEF EndPass, Inv, PassInv
<1>3. /\ p.pc = "finish" /\ p.desired = pass[k].desired /\ p.found = pass[k].found
      /\ Knows(pass[k], cr[k], alias[k])
  BY DEF Inv, PassInv, SoundPass, IdlePass
<1> HIDE DEF p
<1>4. Knows(p, cr[k], a) /\ Spares(p, a)
  BY <1>3 DEF Knows, Spares, InCalls, Idle, At
<1>5. NoDriftYet' => NoDriftYet
  BY <1>0, DriftsOnlyGrow
<1>6. QED
  BY <1>1, <1>2, <1>4, <1>5, StepOf

LEMMA RefusedStep ==
  ASSUME Inv, NEW k \in Key, ~Idle(k), Refused(k), UNCHANGED <<cr, queued>>
  PROVE  Inv'
<1>1. SoundAlias(alias[k]) /\ alias' = [alias EXCEPT ![k] = alias[k]]
  BY DEF Inv, Refused
<1>2. QED
  BY <1>1, EndStep DEF Refused, Conditions

(* A call that changes the alias of k, and whose answer may be lost.       *)
LEMMA AnsweredStep ==
  ASSUME Inv, NEW k \in Key, ~Idle(k), NEW p, NEW a,
         Change(k, a), Answered(k, p), UNCHANGED <<cr, queued>>,
         SoundPass(p, cr[k], Locations, Held, AliasSpec, Statuses),
         SoundAlias(a), Knows(p, cr[k], a), NoDriftYet => Spares(p, a)
  PROVE  Inv'
<1>1. CASE pass' = [pass EXCEPT ![k] = p] /\ UNCHANGED spent
  <2>1. PassInv(Locations, Held, AliasSpec, Statuses)'
    BY <1>1, StepOfPass DEF Inv, PassInv
  <2>2. cr' = [cr EXCEPT ![k] = cr[k]] /\ alias' = [alias EXCEPT ![k] = a]
    BY DEF Inv, PassInv, Change
  <2>3. NoDriftYet' => NoDriftYet
    BY <1>1 DEF NoDriftYet
  <2>4. QED
    BY <1>1, <2>1, <2>2, <2>3, StepOf
<1>2. CASE Spend("faults") /\ EndPass(k, "Recoverable")
  BY <1>2, EndStep DEF Change, Conditions
<1>3. QED
  BY <1>1, <1>2 DEF Answered

-----------------------------------------------------------------------------
(* The steps of a pass that leave AWS alone.                               *)

LEMMA OtherStep ==
  ASSUME Inv, NEW k \in Key, Other(k) PROVE Inv'
<1>0. /\ PassInv(Locations, Held, AliasSpec, Statuses)
      /\ alias' = [alias EXCEPT ![k] = alias[k]] /\ SoundAlias(alias[k])
      /\ cr = [cr EXCEPT ![k] = cr[k]]
      /\ Knows(pass[k], cr[k], alias[k]) /\ spent \in Counts
      /\ DOMAIN pass[k] = DOMAIN IdlePass
  BY DEF Other, Inv, PassInv, SoundPass
<1>1. CASE Start(k)
  <2>1. PassInv(Locations, Held, AliasSpec, Statuses)'
    BY <1>0, <1>1, StartStep, Commons
  <2>2. NoDriftYet' => NoDriftYet
    BY <1>0, <1>1, DriftsOnlyGrow DEF Start
  <2>3. CASE ~cr[k].exists
    <3>1. UNCHANGED <<cr, pass, alias>>
      BY <1>1, <2>3 DEF Start, Other
    <3>2. QED
      BY <2>1, <2>2, <3>1 DEF Inv
  <2>4. CASE cr[k].exists
    <3> DEFINE p == [IdlePass EXCEPT !.pc = "read",
                       !.why = IF cr[k].deleting THEN "delete" ELSE "sync",
                       !.desired = cr[k],
                       !.latest = [spec |-> cr[k].spec, status |-> cr[k].status]]
    <3>1. pass' = [pass EXCEPT ![k] = p] /\ cr' = [cr EXCEPT ![k] = cr[k]]
      BY <1>0, <1>1, <2>4 DEF Start
    <3>2. p.pc = "read" /\ p.desired = cr[k] /\ p.found = Nil
      BY DEF IdlePass
    <3> HIDE DEF p
    <3>3. Knows(p, cr[k], alias[k]) /\ Spares(p, alias[k])
      BY <1>0, <2>4, <3>2 DEF Knows, Spares, InCalls
    <3>4. QED
      BY <1>0, <2>1, <2>2, <3>1, <3>3, StepOf
  <2>5. QED
    BY <2>3, <2>4
<1>2. CASE Manage(k)
  <2>1. PassInv(Locations, Held, AliasSpec, Statuses)'
    BY <1>0, <1>2, ManageStep, Commons
  <2>2. CASE cr[k].exists
    <3> DEFINE p == [pass[k] EXCEPT !.pc = "create"]
               c == [cr[k] EXCEPT !.finalizer = TRUE]
    <3>1. pass' = [pass EXCEPT ![k] = p] /\ cr' = [cr EXCEPT ![k] = c]
      BY <1>2, <2>2 DEF Manage, Goto, Inv, PassInv
    <3>2. /\ p.pc = "create" /\ p.desired = pass[k].desired
          /\ p.found = pass[k].found /\ pass[k].pc = "manage"
      BY <1>0, <1>2 DEF IdlePass, Manage, At
    <3>3. c.exists = cr[k].exists /\ c.spec = cr[k].spec
      BY <2>2, ExistingCR DEF Inv, PassInv, SoundCR
    <3>4. NoDriftYet' => NoDriftYet
      BY <1>2 DEF Manage, NoDriftYet
    <3> HIDE DEF p, c
    <3>5. Knows(p, c, alias[k]) /\ Spares(p, alias[k])
      BY <1>0, <3>2, <3>3 DEF Knows, Spares, InCalls
    <3>6. QED
      BY <1>0, <2>1, <3>1, <3>4, <3>5, StepOf
  <2>3. CASE ~cr[k].exists
    <3>1. /\ EndPass(k, "Recoverable") /\ ~Idle(k) /\ UNCHANGED <<cr, queued, spent>>
      BY <1>2, <2>3 DEF Manage, Idle, At
    <3>2. QED
      BY <1>0, <3>1, EndStep DEF Conditions
  <2>4. QED
    BY <2>2, <2>3
<1>3. CASE Unmanage(k)
  <2>1. PassInv(Locations, Held, AliasSpec, Statuses)'
    BY <1>0, <1>3, UnmanageStep, Commons
  <2>2. /\ pass' = [pass EXCEPT ![k] = IdlePass]
        /\ cr' = [cr EXCEPT ![k] = NoCR] /\ ~NoCR.exists
        /\ NoDriftYet' => NoDriftYet
    BY <1>3 DEF Unmanage, NoCR, NoDriftYet
  <2>3. QED
    BY <1>0, <2>1, <2>2, IdleKnows, StepOf
<1>4. CASE Finish(k)
  <2>1. PassInv(Locations, Held, AliasSpec, Statuses)'
    BY <1>0, <1>4, FinishStep, Commons
  <2>2. /\ pass' = [pass EXCEPT ![k] = IdlePass]
        /\ NoDriftYet' => NoDriftYet
    BY <1>4 DEF Finish, NoDriftYet
  <2>3. CASE cr[k].exists
    <3> DEFINE c == [cr[k] EXCEPT !.cond = pass[k].outcome,
                                  !.status = pass[k].latest.status]
    <3>1. cr' = [cr EXCEPT ![k] = c]
      BY <1>4, <2>3 DEF Finish, Inv, PassInv
    <3>2. c.exists = cr[k].exists /\ c.spec = cr[k].spec
      BY <2>3, ExistingCR DEF Inv, PassInv, SoundCR
    <3>3. Written(cr[k].spec)
      BY <1>0, <2>3 DEF Knows
    <3> HIDE DEF c
    <3>4. QED
      BY <1>0, <2>1, <2>2, <3>1, <3>2, <3>3, IdleKnows, StepOf
  <2>4. CASE ~cr[k].exists
    <3>1. cr' = [cr EXCEPT ![k] = cr[k]]
      BY <1>0, <1>4, <2>4 DEF Finish
    <3>2. QED
      BY <1>0, <2>1, <2>2, <2>4, <3>1, IdleKnows, StepOf
  <2>5. QED
    BY <2>3, <2>4
<1>5. QED
  BY <1>1, <1>2, <1>3, <1>4 DEF Other

-----------------------------------------------------------------------------
(* What is read of a policy.                                               *)

LEMMA SequenceOfSet ==
  ASSUME NEW S, IsFiniteSet(S)
  PROVE  /\ SetToSeq(S) \in Seq(S)
         /\ \A i, j \in DOMAIN SetToSeq(S) :
              SetToSeq(S)[i] = SetToSeq(S)[j] => i = j
         /\ \A x \in S : \E i \in DOMAIN SetToSeq(S) : SetToSeq(S)[i] = x
<1> DEFINE n == Cardinality(S)
<1>1. n \in Nat /\ ExistsBijection(1..n, S)
  BY FS_CardinalityType
<1>2. \E f \in [1..n -> S] : IsInjective(f)
  BY <1>1 DEF ExistsBijection, Bijection, Injection
<1>3. SetToSeq(S) \in [1..n -> S] /\ IsInjective(SetToSeq(S))
  BY <1>2 DEF SetToSeq
<1>4. IsFiniteSet(1..n) /\ Cardinality(1..n) = n
  BY <1>1, FS_Interval
<1> HIDE DEF n
<1>5. SetToSeq(S) \in Injection(1..n, S)
  BY <1>3 DEF Injection
<1>6. SetToSeq(S) \in Surjection(1..n, S)
  BY <1>4, <1>5, FS_Injection DEF n
<1>7. QED
  BY <1>1, <1>3, <1>6 DEF Surjection, IsInjective

(* The principal of a statement, as it is read back.                       *)
Reread(p) == [p EXCEPT !.grant = IF @ \in Rewritten THEN Nil ELSE @]

LEMMA RereadFields ==
  ASSUME NEW p \in [sid : Sid, grant : Grant]
  PROVE  /\ Reread(p) \in Permission /\ Reread(p).sid = p.sid
         /\ p.grant \notin Rewritten => Reread(p) = p
<1>1. p = [sid |-> p.sid, grant |-> p.grant] /\ p.sid \in Sid /\ p.grant \in Grant
  OBVIOUS
<1>2. ASSUME NEW q, q = Reread(p)
      PROVE  q = [sid |-> p.sid,
                  grant |-> IF p.grant \in Rewritten THEN Nil ELSE p.grant]
  BY <1>1, <1>2 DEF Reread
<1>3. Reread(p) = [sid |-> p.sid,
                   grant |-> IF p.grant \in Rewritten THEN Nil ELSE p.grant]
  BY <1>2
<1>4. QED
  BY <1>1, <1>3 DEF Permission

LEMMA PolicyType ==
  ASSUME NEW a, SoundAlias(a)
  PROVE  /\ a.policy \in SUBSET [sid : Sid, grant : Grant]
         /\ a.by = "none" => a.policy = {}
<1>1. CASE a.by # "none"
  BY <1>1, FieldsOfAlias DEF SoundAlias
<1>2. CASE a.by = "none"
  BY <1>2 DEF SoundAlias, Aliases, NoAlias
<1>3. QED
  BY <1>1, <1>2

(* A read shows each statement, with its principal as Lambda gives it.     *)
LEMMA ReadPolicy ==
  ASSUME NEW a, SoundAlias(a)
  PROVE  /\ setPermissions(a.policy) \in Seq(Permission)
         /\ Statements(setPermissions(a.policy)) = {Reread(x) : x \in a.policy}
<1> DEFINE P == a.policy
           S == {Reread(p) : p \in P}
           f == [p \in P |-> Reread(p)]
           ps == SetToSeq(S)
<1>1. /\ IsFiniteSet(P) /\ P \subseteq [sid : Sid, grant : Grant]
      /\ \A x, y \in P : x.sid = y.sid => x = y
  BY PolicyType DEF SoundAlias
<1> HIDE DEF P
<1>2. f \in Surjection(P, S)
  BY DEF Surjection
<1>3. IsFiniteSet(S)
  BY <1>1, <1>2, FS_Surjection
<1>4. setPermissions(P) = ps
  BY DEF setPermissions, Reread
<1>5. /\ ps \in Seq(S)
      /\ \A i, j \in DOMAIN ps : ps[i] = ps[j] => i = j
      /\ \A x \in S : \E i \in DOMAIN ps : ps[i] = x
  BY <1>3, SequenceOfSet
<1>6. \A y \in S : /\ y \in Permission /\ y.sid # Nil
                   /\ \A z \in S : y.sid = z.sid => y = z
  BY <1>1, RereadFields, AliasNil
<1> HIDE DEF ps, S
<1>7. \A i \in DOMAIN ps : ps[i] \in S /\ i \in Nat
  BY <1>5
<1>8. ASSUME NEW j \in DOMAIN ps PROVE ps[j] \in Statements(ps)
  <2>1. ASSUME NEW l \in DOMAIN ps, l > j PROVE ps[l].sid # ps[j].sid
    BY <1>5, <1>6, <1>7, <2>1
  <2>2. QED
    BY <1>6, <1>7, <2>1 DEF Statements
<1>9. Statements(ps) \subseteq S
  BY <1>7 DEF Statements
<1>10. S \subseteq Statements(ps)
  BY <1>5, <1>8
<1>11. ps \in Seq(Permission)
  BY <1>5, <1>6
<1>12. QED
  BY <1>4, <1>9, <1>10, <1>11 DEF P, S

(* One that is not rewritten is seen as it is.                             *)
LEMMA ReadsKept ==
  ASSUME NEW a, SoundAlias(a), NEW x \in a.policy, x.grant \notin Rewritten
  PROVE  x \in Statements(setPermissions(a.policy))
<1>1. x \in [sid : Sid, grant : Grant]
  BY PolicyType
<1>2. Reread(x) = x
  BY <1>1, RereadFields
<1>3. QED
  BY <1>2, ReadPolicy

-----------------------------------------------------------------------------
(* ReadOne.                                                                *)

LEMMA GoStep ==
  ASSUME Inv, NEW k \in Key, ~Idle(k), NEW l \in Locations \ {"update", "configure",
           "writeback", "delete", "idle"},
         Goto(k, l), l \in Held => cr[k].finalizer,
         l = "unmanage" => pass[k].why = "delete" /\ alias[k].by # "us",
         UNCHANGED <<cr, queued, spent, alias>>
  PROVE  Inv'
<1> DEFINE p == [pass[k] EXCEPT !.pc = l]
<1>1. pass' = [pass EXCEPT ![k] = p]
  BY DEF Goto, Inv, PassInv
<1>2. SoundPass(p, cr[k], Locations, Held, AliasSpec, Statuses)
  BY MovedIsSound DEF Inv, PassInv, Idle, At
<1>3. p.pc = l /\ p.desired = pass[k].desired /\ p.found = pass[k].found
  BY DEF Inv, PassInv, SoundPass, IdlePass
<1>4. Knows(pass[k], cr[k], alias[k]) /\ pass[k].pc # "idle"
  BY DEF Inv, Idle, At
<1> HIDE DEF p
<1>5. Knows(p, cr[k], alias[k]) /\ Spares(p, alias[k])
  BY <1>3, <1>4 DEF Knows, Spares, InCalls
<1>6. QED
  BY <1>1, <1>2, <1>5, PassStep

LEMMA NotFoundKeeps ==
  ASSUME Inv, NEW k \in Key, ~Idle(k), ~Exists(k), NotFound(k),
         UNCHANGED <<cr, queued, spent, alias>>
  PROVE  Inv'
<1>1. CASE pass[k].why = "sync"
  <2>1. Goto(k, IF IsManaged(k) THEN "create" ELSE "manage")
    BY <1>1 DEF NotFound
  <2>2. IsManaged(k) => cr[k].finalizer
    BY DEF Inv, PassInv, SoundPass, IsManaged, Idle, At
  <2>3. QED
    BY <2>1, <2>2, GoStep DEF Locations, Held
<1>2. CASE pass[k].why = "delete"
  <2>1. Goto(k, "unmanage")
    BY <1>2 DEF NotFound
  <2>2. QED
    BY <1>2, <2>1, GoStep DEF Locations, Held, Exists
<1>3. CASE pass[k].why \notin {"sync", "delete"}
  <2>1. EndPass(k, "Recoverable")
    BY <1>3 DEF NotFound
  <2>2. SoundAlias(alias[k]) /\ alias' = [alias EXCEPT ![k] = alias[k]]
    BY DEF Inv
  <2>3. QED
    BY <2>1, <2>2, EndStep DEF Conditions
<1>4. QED
  BY <1>1, <1>2, <1>3

LEMMA sdkFindStep ==
  ASSUME Inv, NEW k \in Key, sdkFind(k) PROVE Inv'
<1>1. /\ pass[k].pc = "read" /\ ~Idle(k) /\ UNCHANGED <<cr, queued, spent, alias>>
      /\ SoundPass(pass[k], cr[k], Locations, Held, AliasSpec, Statuses)
      /\ Knows(pass[k], cr[k], alias[k]) /\ SoundAlias(alias[k])
      /\ DOMAIN pass[k] = DOMAIN IdlePass
  BY DEF sdkFind, At, Idle, Inv, PassInv, SoundPass
<1>2. CASE Exists(k)
  <2> DEFINE o == Observed(k)
             p == [pass[k] EXCEPT !.pc = "fields", !.latest = o]
  <2>1. pass' = [pass EXCEPT ![k] = p]
    BY <1>2 DEF sdkFind, Inv, PassInv
  <2>2. o \in [spec : AliasSpec, status : Statuses]
    <3> DEFINE s == [pass[k].desired.spec EXCEPT !.version = alias[k].version,
                                                 !.routing = alias[k].routing]
    <3>1. pass[k].desired.spec \in AliasSpec
      BY <1>1, SpecsOfPass
    <3>2. /\ alias[k].version \in Value /\ alias[k].routing \in Value \cup {Nil}
          /\ alias[k].revision \in Nat
      BY <1>1, <1>2, FieldsOfAlias DEF SoundAlias, Exists
    <3>3. s \in AliasSpec
      BY <3>1, <3>2 DEF AliasSpec
    <3>4. [revision |-> alias[k].revision] \in Statuses
      BY <3>2 DEF Statuses
    <3> HIDE DEF s
    <3>5. o = [spec |-> s, status |-> [revision |-> alias[k].revision]]
      BY DEF Observed, s
    <3>6. QED
      BY <3>3, <3>4, <3>5
  <2> HIDE DEF o
  <2>3. /\ DOMAIN p = DOMAIN pass[k] /\ p.pc = "fields" /\ p.why = pass[k].why
        /\ p.desired = pass[k].desired /\ p.outcome = pass[k].outcome /\ p.latest = o
        /\ p.found = pass[k].found
    BY <1>1 DEF IdlePass
  <2> HIDE DEF p
  <2>4. SoundPass(p, cr[k], Locations, Held, AliasSpec, Statuses)
    BY <1>1, <2>2, <2>3 DEF SoundPass, Locations, Held
  <2>5. Knows(p, cr[k], alias[k]) /\ Spares(p, alias[k])
    BY <1>1, <2>3 DEF Knows, Spares, InCalls
  <2>6. QED
    BY <1>1, <2>1, <2>4, <2>5, PassStep
<1>3. CASE ~Exists(k)
  BY <1>1, <1>3, NotFoundKeeps DEF sdkFind
<1>4. QED
  BY <1>2, <1>3

LEMMA PolicyIsNoField ==
  ASSUME NEW d, NEW s PROVE "policy" \notin newResourceDelta(d, s)
BY DEF newResourceDelta

LEMMA setResourceAdditionalFieldsStep ==
  ASSUME Inv, NEW k \in Key, setResourceAdditionalFields(k) PROVE Inv'
<1>1. /\ pass[k].pc = "fields" /\ ~Idle(k) /\ UNCHANGED <<cr, queued, spent, alias>>
      /\ SoundPass(pass[k], cr[k], Locations, Held, AliasSpec, Statuses)
      /\ Knows(pass[k], cr[k], alias[k]) /\ SoundAlias(alias[k])
      /\ DOMAIN pass[k] = DOMAIN IdlePass
  BY DEF setResourceAdditionalFields, At, Idle, Inv, PassInv, SoundPass
<1>2. /\ pass[k].latest.spec \in AliasSpec /\ pass[k].latest.status \in Statuses
      /\ pass[k].latest \in [spec : AliasSpec \cup {Nil}, status : Statuses \cup {Nil}]
  BY <1>1, SpecsOfPass DEF SoundPass
<1> DEFINE s == [pass[k].latest.spec EXCEPT
                   !.eventInvoke = alias[k].eventInvoke,
                   !.provisioned = alias[k].provisioned,
                   !.permissions = setPermissions(alias[k].policy)]
           delta == newResourceDelta(pass[k].desired.spec, s)
           Moves(l, o, todo) ==
             pass' = [pass EXCEPT ![k] =
                        [pass[k] EXCEPT !.pc = l, !.outcome = o,
                                        !.latest.spec = s, !.todo = todo]]
<1>3. s \in AliasSpec /\ s.permissions = setPermissions(alias[k].policy)
  <2>1. /\ alias[k].eventInvoke \in Value \cup {Nil}
        /\ alias[k].provisioned \in Value \cup {Nil}
    <3>1. CASE Exists(k)
      BY <1>1, <3>1, FieldsOfAlias DEF SoundAlias, Exists
    <3>2. CASE ~Exists(k)
      BY <1>1, <3>2 DEF SoundAlias, Exists, Aliases, NoAlias
    <3>3. QED
      BY <3>1, <3>2
  <2>2. setPermissions(alias[k].policy) \in Seq(Permission)
    BY <1>1, ReadPolicy
  <2>3. QED
    BY <1>2, <2>1, <2>2 DEF AliasSpec
<1>4. \/ Moves("finish", "Synced", {})
      \/ pass[k].why = "delete" /\ Moves("delete", "Unknown", {})
      \/ Moves("finish", "Terminal", {})
      \/ IsManaged(k) /\ Moves("update", "Unknown", delta)
  BY DEF setResourceAdditionalFields
<1>5. "policy" \notin delta
  BY PolicyIsNoField
<1> HIDE DEF s, delta
<1>6. ASSUME NEW l \in {"finish", "delete", "update"}, NEW o \in Conditions,
             NEW todo, "policy" \notin todo, l = "update" => cr[k].finalizer,
             l = "delete" => pass[k].why = "delete",
             Moves(l, o, todo)
      PROVE  Inv'
  <2> DEFINE p == [pass[k] EXCEPT !.pc = l, !.outcome = o, !.latest.spec = s,
                                  !.todo = todo]
  <2>1. pass' = [pass EXCEPT ![k] = p]
    BY <1>6
  <2>2. [pass[k].latest EXCEPT !.spec = s]
          = [spec |-> s, status |-> pass[k].latest.status]
    BY <1>2
  <2>3. /\ DOMAIN p = DOMAIN pass[k] /\ p.pc = l /\ p.why = pass[k].why
        /\ p.desired = pass[k].desired /\ p.outcome = o
        /\ p.latest = [spec |-> s, status |-> pass[k].latest.status]
        /\ p.todo = todo /\ p.found = pass[k].found
    BY <1>1, <2>2 DEF IdlePass
  <2> HIDE DEF p
  <2>4. SoundPass(p, cr[k], Locations, Held, AliasSpec, Statuses)
    BY <1>1, <1>2, <1>3, <1>6, <2>3 DEF SoundPass, Locations, Held
  <2>5. Knows(p, cr[k], alias[k])
    BY <1>1, <1>6, <2>3 DEF Knows, InCalls
  <2>6. Spares(p, alias[k])
    <3>1. p.latest.spec.permissions = setPermissions(alias[k].policy)
      BY <1>3, <2>3
    <3>2. \A x \in alias[k].policy :
            x.grant \in Rewritten \/ x \in Statements(p.latest.spec.permissions)
      BY <1>1, <3>1, ReadsKept
    <3>3. QED
      BY <1>6, <2>3, <3>2 DEF Spares
  <2>7. QED
    BY <1>1, <2>1, <2>4, <2>5, <2>6, PassStep
<1>7. IsManaged(k) => cr[k].finalizer
  BY <1>1 DEF SoundPass, IsManaged
<1>8. QED
  BY <1>4, <1>5, <1>6, <1>7 DEF Conditions

-----------------------------------------------------------------------------
(* The calls that Create and Update share.                                 *)

LEMMA AtWork ==
  ASSUME Inv, NEW k \in Key, ~Idle(k)
  PROVE  /\ SoundPass(pass[k], cr[k], Locations, Held, AliasSpec, Statuses)
         /\ Knows(pass[k], cr[k], alias[k]) /\ SoundAlias(alias[k])
         /\ NoDriftYet => Spares(pass[k], alias[k])
         /\ DOMAIN pass[k] = DOMAIN IdlePass /\ pass[k].pc # "idle"
         /\ DOMAIN pass = Key /\ DOMAIN cr = Key /\ spent \in Counts
         /\ cr' = cr => cr' = [cr EXCEPT ![k] = cr[k]]
         /\ InCalls(pass[k]) => cr[k].finalizer
BY DEF Inv, PassInv, SoundPass, Idle, At, InCalls, Held

(* A part of the work is done, and the policy is as it was.                *)
LEMMA DoneKeeps ==
  ASSUME NEW p, NEW c, NEW a, NEW b, NEW f,
         SoundPass(p, c, Locations, Held, AliasSpec, Statuses),
         InCalls(p), Knows(p, c, a), b.by = a.by, b.policy = a.policy
  PROVE  LET q == [p EXCEPT !.todo = @ \ {f}] IN
         /\ SoundPass(q, c, Locations, Held, AliasSpec, Statuses)
         /\ Knows(q, c, b) /\ (Spares(p, a) => Spares(q, b))
<1> DEFINE q == [p EXCEPT !.todo = @ \ {f}]
<1>1. /\ DOMAIN q = DOMAIN p /\ q.pc = p.pc /\ q.why = p.why
      /\ q.desired = p.desired /\ q.latest = p.latest /\ q.found = p.found
      /\ q.outcome = p.outcome /\ q.todo = p.todo \ {f}
  BY DEF SoundPass, IdlePass
<1> HIDE DEF q
<1>2. SoundPass(q, c, Locations, Held, AliasSpec, Statuses)
  BY <1>1 DEF SoundPass
<1>3. Knows(q, c, b)
  BY <1>1 DEF Knows, InCalls
<1>4. Spares(p, a) => Spares(q, b)
  BY <1>1 DEF Spares, InCalls
<1>5. QED
  BY <1>2, <1>3, <1>4 DEF q

LEMMA DoneStep ==
  ASSUME Inv, NEW k \in Key, Busy(k), NEW f, NEW a, SoundAlias(a),
         a.by = alias[k].by, a.policy = alias[k].policy,
         Change(k, a), Answered(k, Done(k, f)), UNCHANGED <<cr, queued>>
  PROVE  Inv'
<1>1. ~Idle(k) /\ InCalls(pass[k])
  BY DEF Busy, Idle, At, InCalls
<1>2. /\ SoundPass(Done(k, f), cr[k], Locations, Held, AliasSpec, Statuses)
      /\ Knows(Done(k, f), cr[k], a)
      /\ NoDriftYet => Spares(Done(k, f), a)
  BY <1>1, AtWork, DoneKeeps DEF Done
<1>3. QED
  BY <1>1, <1>2, AnsweredStep

LEMMA syncEventInvokeConfigStep ==
  ASSUME Inv, NEW k \in Key, syncEventInvokeConfig(k) PROVE Inv'
<1> DEFINE v == pass[k].desired.spec.eventInvoke
<1>1. Busy(k) /\ ~Idle(k) /\ UNCHANGED <<cr, queued>>
  BY DEF syncEventInvokeConfig, Turn, Busy, Idle, At
<1>2. v \in Value \cup {Nil}
  BY <1>1, SpecsOfPass, SpecFields
<1>3. CASE Refused(k)
  BY <1>1, <1>3, RefusedStep
<1>4. CASE /\ Exists(k) /\ Change(k, [alias[k] EXCEPT !.eventInvoke = v])
           /\ Answered(k, Done(k, "eventInvoke"))
  <2> DEFINE a == [alias[k] EXCEPT !.eventInvoke = v]
  <2>1. SoundAlias(a) /\ a.by = alias[k].by /\ a.policy = alias[k].policy
    BY <1>1, <1>2, <1>4, AtWork, EventInvokeChanged DEF Exists
  <2> HIDE DEF a
  <2>2. Change(k, a)
    BY <1>4 DEF a
  <2>3. QED
    BY <1>1, <1>4, <2>1, <2>2, DoneStep
<1>5. QED
  BY <1>3, <1>4 DEF syncEventInvokeConfig

LEMMA updateProvisionedConcurrencyStep ==
  ASSUME Inv, NEW k \in Key, updateProvisionedConcurrency(k) PROVE Inv'
<1> DEFINE v == pass[k].desired.spec.provisioned
<1>1. Busy(k) /\ ~Idle(k) /\ UNCHANGED <<cr, queued>>
  BY DEF updateProvisionedConcurrency, Turn, Busy, Idle, At
<1>2. v \in Value \cup {Nil}
  BY <1>1, SpecsOfPass, SpecFields
<1>3. CASE Refused(k)
  BY <1>1, <1>3, RefusedStep
<1>4. CASE /\ Exists(k) /\ Change(k, [alias[k] EXCEPT !.provisioned = v])
           /\ Answered(k, Done(k, "provisioned"))
  <2> DEFINE a == [alias[k] EXCEPT !.provisioned = v]
  <2>1. SoundAlias(a) /\ a.by = alias[k].by /\ a.policy = alias[k].policy
    BY <1>1, <1>2, <1>4, AtWork, ProvisionedChanged DEF Exists
  <2> HIDE DEF a
  <2>2. Change(k, a)
    BY <1>4 DEF a
  <2>3. QED
    BY <1>1, <1>4, <2>1, <2>2, DoneStep
<1>5. QED
  BY <1>3, <1>4 DEF updateProvisionedConcurrency

-----------------------------------------------------------------------------
(* The calls for the policy.                                               *)

LEMMA StatementsAreItems ==
  ASSUME NEW ps \in Seq(Permission), NEW x \in Statements(ps)
  PROVE  x \in Permission /\ x.sid \in Sid /\ \E i \in DOMAIN ps : ps[i] = x
<1>1. x \in Permission /\ x.sid # Nil /\ \E i \in DOMAIN ps : ps[i] = x
  BY DEF Statements
<1>2. QED
  BY <1>1 DEF Permission

(* What is planned are calls, and no removal is of a statement that is     *)
(* wanted and was seen.                                                    *)
LEMMA PlannedCalls ==
  ASSUME NEW want \in Seq(Permission), NEW have \in Seq(Permission),
         \A i \in DOMAIN want : want[i].grant # Nil
  PROVE  /\ comparePermissions(want, have) \in SUBSET Call
         /\ \A x \in Statements(want) \cap Statements(have) :
              \A c \in comparePermissions(want, have) :
                c.call = "remove" => c.sid # x.sid
<1> DEFINE W == Statements(want)
           H == Statements(have)
           kept == {p \in W : \E q \in H : permissionEqual(p, q)}
           removals == {[call |-> "remove", sid |-> q.sid, grant |-> Nil] :
                          q \in {q \in H : ~\E p \in kept : p.sid = q.sid}}
           additions == {[call |-> "add", sid |-> p.sid, grant |-> p.grant] :
                           p \in W \ kept}
<1>1. comparePermissions(want, have) = removals \cup additions
  BY DEF comparePermissions
<1>2. \A q \in H : q.sid \in Sid
  BY StatementsAreItems
<1>3. \A p \in W : p.sid \in Sid /\ p.grant \in Grant
  <2>1. ASSUME NEW p \in W PROVE p.sid \in Sid /\ p.grant \in Grant
    <3>1. p \in Permission /\ p.sid \in Sid /\ p.grant # Nil
      BY StatementsAreItems
    <3>2. QED
      BY <3>1 DEF Permission
  <2>2. QED
    BY <2>1
<1> HIDE DEF W, H
<1>4. \A c \in removals : /\ c \in Call
                          /\ \A x \in W \cap H : c.sid # x.sid
  <2>1. ASSUME NEW c \in removals
        PROVE  c \in Call /\ \A x \in W \cap H : c.sid # x.sid
    <3>1. PICK q \in H : /\ c = [call |-> "remove", sid |-> q.sid, grant |-> Nil]
                         /\ ~\E p \in kept : p.sid = q.sid
      OBVIOUS
    <3>2. \A x \in W \cap H : x \in kept
      BY DEF permissionEqual
    <3>3. c \in Call /\ c.sid = q.sid
      BY <1>2, <3>1 DEF Call
    <3> HIDE DEF kept
    <3>4. QED
      BY <3>1, <3>2, <3>3
  <2>2. QED
    BY <2>1
<1>5. \A c \in additions : c \in Call /\ c.call = "add"
  BY <1>3 DEF Call
<1> HIDE DEF removals, additions
<1>6. QED
  BY <1>1, <1>4, <1>5 DEF W, H

LEMMA syncPermissionsStep ==
  ASSUME Inv, NEW k \in Key, syncPermissions(k) PROVE Inv'
<1> DEFINE wanted == pass[k].desired.spec.permissions
           latest == IF At(k, "configure") THEN <<>>
                     ELSE pass[k].latest.spec.permissions
           calls == comparePermissions(wanted, latest)
<1>1. /\ Busy(k) /\ ~Idle(k) /\ UNCHANGED <<cr, queued, spent, alias>>
      /\ "permissions" \in pass[k].todo /\ InCalls(pass[k])
  BY DEF syncPermissions, Turn, Busy, Idle, At, InCalls
<1>2. CASE EndPass(k, "Terminal")
  <2>1. SoundAlias(alias[k]) /\ alias' = [alias EXCEPT ![k] = alias[k]]
    BY <1>1, AtWork DEF Inv
  <2>2. QED
    BY <1>1, <1>2, <2>1, EndStep DEF Conditions
<1>3. CASE pass' = [pass EXCEPT
                      ![k].todo = (@ \ {"permissions"}) \cup {"policy"},
                      ![k].found = [revision |-> Recorded(k), calls |-> calls]]
  <2>1. /\ wanted \in Seq(Permission) /\ latest \in Seq(Permission)
        /\ \A i \in DOMAIN wanted : wanted[i].grant # Nil
    BY <1>1, SpecsOfPass, SpecFields DEF Written
  <2>2. /\ calls \in SUBSET Call
        /\ \A x \in Statements(wanted) \cap Statements(latest) :
             \A c \in calls : c.call = "remove" => c.sid # x.sid
    BY <2>1, PlannedCalls
  <2>3. At(k, "configure") => Statements(latest) = {} /\ calls \cap
           {c \in Call : c.call = "remove"} = {}
    <3>1. Statements(<<>>) = {}
      BY DEF Statements
    <3>2. comparePermissions(wanted, <<>>) \cap {c \in Call : c.call = "remove"} = {}
      BY <3>1 DEF comparePermissions
    <3>3. QED
      BY <3>1, <3>2
  <2>4. Recorded(k) \in Nat \cup {Nil}
    <3>1. CASE pass[k].found = Nil
      BY <3>1 DEF Recorded
    <3>2. CASE pass[k].found # Nil
      <4>1. pass[k].found \in Plan
        BY <1>1, <3>2, AtWork DEF Knows
      <4>2. pass[k].found.revision \in Nat \cup {Nil}
        BY <4>1 DEF Plan
      <4>3. QED
        BY <3>2, <4>2 DEF Recorded
    <3>3. QED
      BY <3>1, <3>2
  <2> DEFINE plan == [revision |-> Recorded(k), calls |-> calls]
             p == [pass[k] EXCEPT !.todo = (@ \ {"permissions"}) \cup {"policy"},
                                  !.found = plan]
  <2>5. plan \in Plan /\ plan.calls = calls
    BY <2>2, <2>4 DEF Plan
  <2> HIDE DEF plan, calls, latest
  <2>6. pass' = [pass EXCEPT ![k] = p]
    BY <1>1, <1>3, AtWork DEF plan
  <2>7. /\ DOMAIN p = DOMAIN pass[k] /\ p.pc = pass[k].pc /\ p.why = pass[k].why
        /\ p.desired = pass[k].desired /\ p.latest = pass[k].latest
        /\ p.outcome = pass[k].outcome /\ p.found = plan
        /\ "permissions" \notin p.todo /\ "policy" \in p.todo
    BY <1>1, AtWork DEF IdlePass
  <2> HIDE DEF p
  <2>8. SoundPass(p, cr[k], Locations, Held, AliasSpec, Statuses)
    BY <1>1, <2>7, AtWork DEF SoundPass
  <2>9. Knows(p, cr[k], alias[k])
    BY <1>1, <2>5, <2>7, AtWork DEF Knows, InCalls
  <2>10. ASSUME NoDriftYet PROVE Spares(p, alias[k])
    <3>1. SUFFICES ASSUME NEW x \in alias[k].policy, x.grant \notin Rewritten,
                          x \in Statements(wanted), NEW c \in calls,
                          c.call = "remove"
                   PROVE  c.sid # x.sid
      BY <2>5, <2>7 DEF Spares
    <3>2. pass[k].pc = "update"
      BY <1>1, <2>2, <2>3, <3>1 DEF InCalls, At
    <3>3. x \in Statements(pass[k].latest.spec.permissions)
      BY <1>1, <2>10, <3>1, <3>2, AtWork DEF Spares
    <3>4. x \in Statements(latest)
      BY <3>2, <3>3 DEF latest, At
    <3>5. QED
      BY <2>2, <3>1, <3>4
  <2>11. QED
    BY <1>1, <2>6, <2>8, <2>9, <2>10, PassStep
<1>4. QED
  BY <1>2, <1>3 DEF syncPermissions

(* A call of the plan is done: the policy is ps.                           *)
LEMMA CallStep ==
  ASSUME Inv, NEW k \in Key, Busy(k), "policy" \in pass[k].todo, Exists(k),
         NEW c \in pass[k].found.calls,
         NEW ps \in SUBSET [sid : Sid, grant : Grant], IsFiniteSet(ps),
         \A x, y \in ps : x.sid = y.sid => x = y,
         \A x \in ps \ alias[k].policy :
           \A d \in pass[k].found.calls : d.call = "add",
         Change(k, [alias[k] EXCEPT !.policy = ps, !.revision = Revision(k)]),
         Answered(k, [pass[k] EXCEPT !.found.calls = @ \ {c}]),
         UNCHANGED <<cr, queued>>
  PROVE  Inv'
<1> DEFINE a == [alias[k] EXCEPT !.policy = ps, !.revision = Revision(k)]
           plan == [pass[k].found EXCEPT !.calls = @ \ {c}]
           p == [pass[k] EXCEPT !.found = plan]
<1>1. ~Idle(k) /\ InCalls(pass[k])
  BY DEF Busy, Idle, At, InCalls
<1>2. SoundAlias(a) /\ a.by = alias[k].by /\ a.policy = ps
  <2>1. SoundAlias(alias[k]) /\ alias[k].by # "none" /\ Revision(k) \in Nat
    BY <1>1, AtWork, RevisionType DEF Exists
  <2>2. \A b, n : SoundAlias(b) /\ b.by # "none" /\ n \in Nat =>
          LET d == [b EXCEPT !.policy = ps, !.revision = n]
          IN  SoundAlias(d) /\ d.by = b.by /\ d.policy = ps
    BY ChangedPolicy
  <2>3. QED
    BY <2>1, <2>2
<1> HIDE DEF a
<1>3. Change(k, a)
  BY DEF a
<1>4. pass[k].found \in Plan
  BY <1>1, AtWork DEF Knows
<1>5. plan \in Plan /\ plan.calls = pass[k].found.calls \ {c}
  BY <1>4 DEF Plan
<1> HIDE DEF plan
<1>6. Answered(k, p)
  BY DEF plan
<1>7. /\ DOMAIN p = DOMAIN pass[k] /\ p.pc = pass[k].pc /\ p.why = pass[k].why
      /\ p.desired = pass[k].desired /\ p.latest = pass[k].latest
      /\ p.outcome = pass[k].outcome /\ p.found = plan /\ p.todo = pass[k].todo
  BY <1>1, AtWork DEF IdlePass
<1> HIDE DEF p
<1>8. SoundPass(p, cr[k], Locations, Held, AliasSpec, Statuses)
  BY <1>1, <1>7, AtWork DEF SoundPass
<1>9. Knows(p, cr[k], a)
  BY <1>1, <1>2, <1>5, <1>7, AtWork DEF Knows, InCalls
<1>10. ASSUME NoDriftYet PROVE Spares(p, a)
  <2>1. "permissions" \notin pass[k].todo
    BY <1>1, AtWork DEF Knows
  <2>2. QED
    BY <1>1, <1>2, <1>5, <1>7, <1>10, <2>1, AtWork DEF Spares, InCalls
<1>11. QED
  BY <1>1, <1>2, <1>3, <1>6, <1>8, <1>9, <1>10, AnsweredStep

LEMMA removePermissionStep ==
  ASSUME Inv, NEW k \in Key, Busy(k), "policy" \in pass[k].todo,
         NEW c \in pass[k].found.calls, removePermission(k, c),
         UNCHANGED <<cr, queued>>
  PROVE  Inv'
<1> DEFINE gone == {p \in alias[k].policy : p.sid = c.sid}
           ps == alias[k].policy \ gone
<1>1. ~Idle(k)
  BY DEF Busy, Idle, At
<1>2. CASE Refused(k)
  BY <1>1, <1>2, RefusedStep
<1>3. CASE /\ gone # {}
           /\ Change(k, [alias[k] EXCEPT !.policy = @ \ gone, !.revision = Revision(k)])
           /\ Answered(k, [pass[k] EXCEPT !.found.calls = @ \ {c}])
  <2>1. /\ alias[k].policy \in SUBSET [sid : Sid, grant : Grant]
        /\ IsFiniteSet(alias[k].policy) /\ Exists(k)
        /\ \A x, y \in alias[k].policy : x.sid = y.sid => x = y
    BY <1>1, <1>3, AtWork, PolicyType DEF SoundAlias, Exists
  <2>2. /\ ps \in SUBSET [sid : Sid, grant : Grant] /\ IsFiniteSet(ps)
        /\ \A x, y \in ps : x.sid = y.sid => x = y
        /\ ps \ alias[k].policy = {}
    BY <2>1, FS_Subset
  <2>3. Change(k, [alias[k] EXCEPT !.policy = ps, !.revision = Revision(k)])
    BY <1>3
  <2> HIDE DEF ps
  <2>4. QED
    BY <1>3, <2>1, <2>2, <2>3, CallStep
<1>4. QED
  BY <1>2, <1>3 DEF removePermission

LEMMA addPermissionStep ==
  ASSUME Inv, NEW k \in Key, Busy(k), "policy" \in pass[k].todo,
         NEW c \in pass[k].found.calls, addPermission(k, c),
         UNCHANGED <<cr, queued>>
  PROVE  Inv'
<1> DEFINE x0 == [sid |-> c.sid, grant |-> c.grant]
           ps == alias[k].policy \cup {x0}
<1>1. ~Idle(k) /\ InCalls(pass[k]) /\ c.call = "add"
  BY DEF Busy, Idle, At, InCalls, addPermission
<1>2. CASE Refused(k)
  BY <1>1, <1>2, RefusedStep
<1>3. CASE /\ Exists(k) /\ \A p \in alias[k].policy : p.sid # c.sid
           /\ Change(k, [alias[k] EXCEPT !.policy = @ \cup {x0},
                                         !.revision = Revision(k)])
           /\ Answered(k, [pass[k] EXCEPT !.found.calls = @ \ {c}])
  <2>1. /\ alias[k].policy \in SUBSET [sid : Sid, grant : Grant]
        /\ IsFiniteSet(alias[k].policy)
        /\ \A x, y \in alias[k].policy : x.sid = y.sid => x = y
    BY <1>1, AtWork, PolicyType DEF SoundAlias
  <2>2. c \in Call
    BY <1>1, AtWork DEF Knows, Plan
  <2>3. x0 \in [sid : Sid, grant : Grant] /\ x0.sid = c.sid
    BY <1>1, <2>2 DEF Call
  <2>4. \A d \in pass[k].found.calls : d.call = "add"
    BY DEF addPermission
  <2>5. Change(k, [alias[k] EXCEPT !.policy = ps, !.revision = Revision(k)])
    BY <1>3
  <2> HIDE DEF x0
  <2>6. /\ ps \in SUBSET [sid : Sid, grant : Grant] /\ IsFiniteSet(ps)
        /\ \A x, y \in ps : x.sid = y.sid => x = y
    BY <1>3, <2>1, <2>3, FS_AddElement
  <2> HIDE DEF ps
  <2>7. QED
    BY <1>3, <2>4, <2>5, <2>6, CallStep
<1>4. QED
  BY <1>2, <1>3 DEF addPermission

LEMMA PermissionsStep ==
  ASSUME Inv, NEW k \in Key, Permissions(k) PROVE Inv'
<1>1. CASE syncPermissions(k)
  BY <1>1, syncPermissionsStep
<1>2. CASE /\ Busy(k) /\ "policy" \in pass[k].todo /\ UNCHANGED <<cr, queued>>
           /\ \E c \in pass[k].found.calls : removePermission(k, c) \/ addPermission(k, c)
  BY <1>2, removePermissionStep, addPermissionStep
<1>3. CASE /\ Busy(k) /\ UNCHANGED <<cr, queued, spent, alias>>
           /\ pass' = [pass EXCEPT ![k] = Done(k, "policy")]
  <2>1. SoundAlias(alias[k]) /\ Change(k, alias[k])
    BY <1>3 DEF Inv, Change
  <2>2. Answered(k, Done(k, "policy"))
    BY <1>3 DEF Answered
  <2>3. QED
    BY <1>3, <2>1, <2>2, DoneStep
<1>4. QED
  BY <1>1, <1>2, <1>3 DEF Permissions

-----------------------------------------------------------------------------
(* Create, Update and Delete.                                              *)

LEMMA sdkCreateStep ==
  ASSUME Inv, NEW k \in Key, sdkCreate(k) PROVE Inv'
<1> DEFINE s == pass[k].desired.spec
           new == [NoAlias EXCEPT !.by = "us", !.version = s.version,
                                  !.routing = s.routing, !.revision = Revision(k)]
           plan == [revision |-> new.revision, calls |-> {}]
           todo == {f \in {"eventInvoke", "provisioned"} : s[f] # Nil}
                   \cup {f \in {"permissions"} : s[f] # <<>>}
           p == [pass[k] EXCEPT !.pc = "configure", !.found = plan, !.todo = todo]
<1>1. pass[k].pc = "create" /\ ~Idle(k) /\ UNCHANGED <<cr, queued>>
  BY DEF sdkCreate, At, Idle
<1>2. CASE Refused(k)
  BY <1>1, <1>2, RefusedStep
<1>3. CASE Change(k, new) /\ Answered(k, p)
  <2>1. s.version \in Value /\ s.routing \in Value \cup {Nil}
    BY <1>1, SpecsOfPass, SpecFields
  <2>2. SoundAlias(new)
    <3>1. \A v \in Value, r \in Value \cup {Nil}, n \in Nat :
            SoundAlias([NoAlias EXCEPT !.by = "us", !.version = v, !.routing = r,
                                       !.revision = n])
      BY NewIsSound
    <3>2. QED
      BY <2>1, <3>1, RevisionType
  <2>3. new.revision = Revision(k)
    BY DEF NoAlias
  <2> HIDE DEF new
  <2>4. plan \in Plan /\ "policy" \notin todo
    BY <2>3, RevisionType DEF Plan
  <2> HIDE DEF plan, todo
  <2>5. /\ DOMAIN p = DOMAIN pass[k] /\ p.pc = "configure" /\ p.why = pass[k].why
        /\ p.desired = pass[k].desired /\ p.latest = pass[k].latest
        /\ p.outcome = pass[k].outcome /\ p.found = plan /\ p.todo = todo
    BY <1>1, AtWork DEF IdlePass
  <2> HIDE DEF p
  <2>6. cr[k].finalizer
    BY <1>1, AtWork DEF SoundPass, Held
  <2>7. SoundPass(p, cr[k], Locations, Held, AliasSpec, Statuses)
    BY <1>1, <2>5, <2>6, AtWork DEF SoundPass, Locations
  <2>8. Knows(p, cr[k], new) /\ Spares(p, new)
    BY <1>1, <2>4, <2>5, AtWork DEF Knows, Spares, InCalls
  <2>9. QED
    BY <1>1, <1>3, <2>2, <2>7, <2>8, AnsweredStep
<1>4. QED
  BY <1>2, <1>3 DEF sdkCreate

LEMMA CreatedStep ==
  ASSUME Inv, NEW k \in Key, Created(k) PROVE Inv'
<1> DEFINE l == [spec |-> pass[k].desired.spec,
                 status |-> [revision |-> pass[k].found.revision]]
           p == [pass[k] EXCEPT !.pc = "read", !.why = "created", !.found = Nil,
                                !.latest = l]
<1>1. pass[k].pc = "configure" /\ ~Idle(k) /\ UNCHANGED <<cr, queued, spent, alias>>
  BY DEF Created, At, Idle
<1>2. pass[k].found.revision \in Nat \cup {Nil}
  BY <1>1, AtWork DEF Knows, Plan
<1>3. l \in [spec : AliasSpec, status : Statuses]
  BY <1>1, <1>2, SpecsOfPass DEF Statuses
<1>4. pass' = [pass EXCEPT ![k] = p]
  BY <1>1, AtWork DEF Created
<1> HIDE DEF l
<1>5. /\ DOMAIN p = DOMAIN pass[k] /\ p.pc = "read" /\ p.why = "created"
      /\ p.desired = pass[k].desired /\ p.outcome = pass[k].outcome
      /\ p.latest = l /\ p.found = Nil
  BY <1>1, AtWork DEF IdlePass
<1> HIDE DEF p
<1>6. SoundPass(p, cr[k], Locations, Held, AliasSpec, Statuses)
  BY <1>1, <1>3, <1>5, AtWork, AnsweredIsSound DEF Locations, InCalls
<1>7. Knows(p, cr[k], alias[k]) /\ Spares(p, alias[k])
  BY <1>1, <1>5, AtWork DEF Knows, Spares, InCalls
<1>8. QED
  BY <1>1, <1>4, <1>6, <1>7, PassStep

LEMMA NothingExceptStep ==
  ASSUME Inv, NEW k \in Key, NothingExcept(k) PROVE Inv'
<1> DEFINE l == [spec |-> pass[k].desired.spec, status |-> pass[k].desired.status]
           p == [pass[k] EXCEPT !.pc = "finish", !.outcome = "Synced",
                                !.found = Nil, !.latest = l]
<1>1. pass[k].pc = "update" /\ ~Idle(k) /\ UNCHANGED <<cr, queued, spent, alias>>
  BY DEF NothingExcept, At, Idle
<1>2. l \in [spec : AliasSpec, status : Statuses]
  BY <1>1, SpecsOfPass
<1>3. pass' = [pass EXCEPT ![k] = p]
  BY <1>1, AtWork DEF NothingExcept
<1> HIDE DEF l
<1>4. /\ DOMAIN p = DOMAIN pass[k] /\ p.pc = "finish" /\ p.why = pass[k].why
      /\ p.desired = pass[k].desired /\ p.outcome = "Synced"
      /\ p.latest = l /\ p.found = Nil
  BY <1>1, AtWork DEF IdlePass
<1> HIDE DEF p
<1>5. SoundPass(p, cr[k], Locations, Held, AliasSpec, Statuses)
  BY <1>1, <1>2, <1>4, AtWork DEF SoundPass, Locations, Held, Conditions
<1>6. Knows(p, cr[k], alias[k]) /\ Spares(p, alias[k])
  BY <1>1, <1>4, AtWork DEF Knows, Spares, InCalls
<1>7. QED
  BY <1>1, <1>3, <1>5, <1>6, PassStep

LEMMA UpdatedType ==
  ASSUME Inv, NEW k \in Key, ~Idle(k), Exists(k)
  PROVE  /\ Updated(k) \in [spec : AliasSpec, status : Statuses]
         /\ Updated(k).spec.version = pass[k].desired.spec.version
         /\ Updated(k).spec.permissions = pass[k].desired.spec.permissions
         /\ Updated(k).status.revision = Revision(k)
<1> DEFINE d == pass[k].desired.spec
           r == IF d.routing = Nil THEN alias[k].routing ELSE d.routing
           s == [version |-> d.version, routing |-> r,
                 eventInvoke |-> d.eventInvoke, provisioned |-> d.provisioned,
                 permissions |-> d.permissions]
           t == [revision |-> Revision(k)]
<1>1. d \in AliasSpec
  BY SpecsOfPass
<1>2. r \in Value \cup {Nil}
  BY <1>1, AtWork, SpecFields, FieldsOfAlias DEF SoundAlias, Exists
<1>3. d = [version |-> d.version, routing |-> d.routing,
           eventInvoke |-> d.eventInvoke, provisioned |-> d.provisioned,
           permissions |-> d.permissions]
  BY <1>1, SpecFields
<1>4. ASSUME NEW x, x = [d EXCEPT !.routing = IF @ = Nil THEN alias[k].routing ELSE @]
      PROVE  x = s
  BY <1>3, <1>4
<1>5. Updated(k) = [spec |-> s, status |-> t]
  BY <1>4 DEF Updated
<1>6. s \in AliasSpec
  BY <1>1, <1>2, SpecFields DEF AliasSpec
<1>7. t \in Statuses
  BY RevisionType DEF Statuses
<1>8. s.version = d.version /\ s.permissions = d.permissions
  OBVIOUS
<1>9. t.revision = Revision(k)
  OBVIOUS
<1> HIDE DEF s, t
<1>10. QED
  BY <1>5, <1>6, <1>7, <1>8, <1>9

LEMMA UpdateAliasStep ==
  ASSUME Inv, NEW k \in Key, UpdateAlias(k) PROVE Inv'
<1> DEFINE u == Updated(k)
           d == pass[k].desired.spec
           r == IF d.routing = Nil THEN alias[k].routing ELSE d.routing
           a == [alias[k] EXCEPT !.version = u.spec.version,
                                 !.revision = u.status.revision, !.routing = r]
           p == [pass[k] EXCEPT !.pc = "writeback", !.latest = u, !.found = Nil,
                                !.todo = {}]
<1>1. pass[k].pc = "update" /\ ~Idle(k) /\ UNCHANGED <<cr, queued>>
  BY DEF UpdateAlias, At, Idle
<1>2. CASE Refused(k)
  BY <1>1, <1>2, RefusedStep
<1>3. CASE Exists(k) /\ Change(k, a) /\ Answered(k, p)
  <2>1. /\ u \in [spec : AliasSpec, status : Statuses]
        /\ u.spec.version \in Value /\ u.status.revision \in Nat
        /\ u.spec.permissions = d.permissions
    BY <1>1, <1>3, UpdatedType, RevisionType, SpecsOfPass, SpecFields
  <2>2. r \in Value \cup {Nil} /\ alias[k].by # "none" /\ SoundAlias(alias[k])
    BY <1>1, <1>3, AtWork, SpecsOfPass, SpecFields, FieldsOfAlias
       DEF SoundAlias, Exists
  <2> HIDE DEF u, r
  <2>3. SoundAlias(a)
    BY <2>1, <2>2, RoutingChanged
  <2> HIDE DEF a
  <2>4. /\ DOMAIN p = DOMAIN pass[k] /\ p.pc = "writeback" /\ p.why = pass[k].why
        /\ p.desired = pass[k].desired /\ p.outcome = pass[k].outcome
        /\ p.latest = u /\ p.found = Nil
    BY <1>1, AtWork DEF IdlePass
  <2> HIDE DEF p
  <2>5. SoundPass(p, cr[k], Locations, Held, AliasSpec, Statuses)
    BY <1>1, <2>1, <2>4, AtWork, AnsweredIsSound DEF Locations, InCalls
  <2>6. Knows(p, cr[k], a) /\ Spares(p, a)
    BY <1>1, <2>1, <2>4, AtWork DEF Knows, Spares, InCalls
  <2>7. QED
    BY <1>1, <1>3, <2>3, <2>5, <2>6, AnsweredStep
<1>4. QED
  BY <1>2, <1>3 DEF UpdateAlias

(* The patch keeps the permissions that are stored: no answer has any.     *)
LEMMA PatchedType ==
  ASSUME NEW g \in AliasSpec, NEW l \in AliasSpec, NEW c \in AliasSpec,
         l.permissions = g.permissions
  PROVE  Patched(g, l, c) \in AliasSpec /\ Patched(g, l, c).permissions = c.permissions
BY DEF Patched, AliasSpec

LEMMA WriteBackStep ==
  ASSUME Inv, NEW k \in Key, WriteBack(k) PROVE Inv'
<1> DEFINE g == pass[k].desired.spec
           l == pass[k].latest.spec
           s == Patched(g, l, cr[k].spec)
           c == [cr[k] EXCEPT !.spec = s]
           p == [pass[k] EXCEPT !.pc = "finish", !.outcome = "Synced"]
<1>1. pass[k].pc = "writeback" /\ ~Idle(k) /\ StoreSpec(k, s) /\ UNCHANGED alias
  BY DEF WriteBack, PatchSpec, At, Idle
<1>2. cr[k].exists /\ cr[k].spec \in AliasSpec /\ SoundCR(cr[k], AliasSpec, Statuses)
  BY <1>1, AtWork, ExistingCR DEF Inv, PassInv, SoundPass, SoundCR, Held
<1>3. s \in AliasSpec /\ s.permissions = cr[k].spec.permissions
  BY <1>1, <1>2, AtWork, SpecsOfPass, PatchedType DEF Knows
<1> HIDE DEF s
<1>4. SoundCR(c, AliasSpec, Statuses) /\ c.spec = s
  BY <1>2, <1>3, EditedIsSound
<1>5. cr' = [cr EXCEPT ![k] = c] /\ pass' = [pass EXCEPT ![k] = p]
      /\ alias' = [alias EXCEPT ![k] = alias[k]]
  BY ZenonT(60), <1>1, AtWork DEF WriteBack, StoreSpec, EndPass, Inv
<1>6. p.pc = "finish" /\ p.desired = pass[k].desired /\ p.found = pass[k].found
  BY <1>1, AtWork DEF IdlePass
<1>7. SoundPass(p, cr[k], Locations, Held, AliasSpec, Statuses)
  BY <1>1, AtWork, EndIsSound, Commons DEF Conditions
<1> HIDE DEF c, p
<1>8. PassInv(Locations, Held, AliasSpec, Statuses)'
  BY <1>1, <1>2, <1>3, <1>5, <1>7, StoreSpecStep DEF Inv
<1>9. Written(s)
  BY <1>1, <1>2, <1>3, AtWork DEF Knows, Written
<1>10. Knows(p, c, alias[k]) /\ Spares(p, alias[k])
  BY <1>1, <1>4, <1>6, <1>9, AtWork DEF Knows, Spares, InCalls
<1>11. NoDriftYet' => NoDriftYet
  BY <1>1 DEF StoreSpec, NoDriftYet
<1>12. QED
  BY <1>1, <1>5, <1>8, <1>10, <1>11, AtWork, StepOf

LEMMA sdkDeleteStep ==
  ASSUME Inv, NEW k \in Key, sdkDelete(k) PROVE Inv'
<1> DEFINE p == [pass[k] EXCEPT !.pc = "unmanage"]
<1>1. /\ pass[k].pc = "delete" /\ ~Idle(k) /\ UNCHANGED <<cr, queued>>
      /\ Change(k, NoAlias) /\ Answered(k, p)
  BY DEF sdkDelete, At, Idle
<1>2. p.pc = "unmanage" /\ p.desired = pass[k].desired /\ p.found = pass[k].found
  BY <1>1, AtWork DEF IdlePass
<1>3. pass[k].why = "delete"
  BY <1>1, AtWork DEF Knows
<1>4. SoundPass(p, cr[k], Locations, Held, AliasSpec, Statuses)
  BY <1>1, <1>3, AtWork, MovedIsSound DEF Locations, Held
<1> HIDE DEF p
<1>5. Knows(p, cr[k], NoAlias) /\ Spares(p, NoAlias)
  BY <1>1, <1>2, AtWork, NoAliasIsSound DEF Knows, Spares, InCalls
<1>6. QED
  BY <1>1, <1>4, <1>5, AnsweredStep, NoAliasIsSound

-----------------------------------------------------------------------------
(* What happens around the passes.                                         *)

LEMMA SpecsAre == ASSUME NEW s \in Specs PROVE s \in AliasSpec /\ Written(s)
BY AliasSpecs DEF Written

LEMMA NoStatusIs == NoStatus \in Statuses
BY DEF NoStatus, Statuses

(* A step that changes the CR of k only.                                   *)
LEMMA CRStep ==
  ASSUME Inv, NEW k \in Key, NEW c, c.exists => Written(c.spec),
         PassInv(Locations, Held, AliasSpec, Statuses)',
         cr' = [cr EXCEPT ![k] = c], UNCHANGED <<pass, alias>>,
         NoDriftYet' => NoDriftYet
  PROVE  Inv'
<1>1. /\ pass' = [pass EXCEPT ![k] = pass[k]]
      /\ alias' = [alias EXCEPT ![k] = alias[k]]
      /\ SoundAlias(alias[k]) /\ Knows(pass[k], cr[k], alias[k])
      /\ NoDriftYet => Spares(pass[k], alias[k])
  BY DEF Inv, PassInv
<1>2. Knows(pass[k], c, alias[k])
  BY <1>1 DEF Knows
<1>3. QED
  BY <1>1, <1>2, StepOf

LEMMA EnvironmentStep ==
  ASSUME Inv, NEW k \in Key, Environment(k) PROVE Inv'
<1>0. /\ PassInv(Locations, Held, AliasSpec, Statuses) /\ alias' = alias
      /\ spent \in Counts /\ SoundAlias(alias[k])
      /\ alias' = [alias EXCEPT ![k] = alias[k]]
      /\ cr = [cr EXCEPT ![k] = cr[k]]
      /\ Knows(pass[k], cr[k], alias[k]) /\ SoundCR(cr[k], AliasSpec, Statuses)
  BY DEF Environment, Inv, PassInv
<1>1. CASE CallFails(k)
  <2>1. /\ ~Idle(k) /\ EndPass(k, "Recoverable") /\ Spend("faults")
        /\ UNCHANGED <<cr, queued>>
    BY <1>1 DEF CallFails, Idle, At
  <2>2. QED
    BY <1>0, <2>1, EndStep DEF Conditions
<1>2. CASE Resync(k)
  <2>1. PassInv(Locations, Held, AliasSpec, Statuses)'
    BY <1>0, <1>2, ResyncStep
  <2>2. cr' = [cr EXCEPT ![k] = cr[k]] /\ pass' = pass /\ (NoDriftYet' => NoDriftYet)
    BY <1>0, <1>2 DEF Resync, NoDriftYet
  <2>3. QED
    BY <1>0, <2>1, <2>2, CRStep DEF Knows
<1>3. ASSUME NEW s \in Specs, UserApply(k, s, NoStatus) PROVE Inv'
  <2>1. PassInv(Locations, Held, AliasSpec, Statuses)'
    BY <1>0, <1>3, UserApplyStep, SpecsAre, NoStatusIs
  <2>2. NoDriftYet' => NoDriftYet
    BY <1>0, <1>3, DriftsOnlyGrow DEF UserApply
  <2>3. /\ cr' = [cr EXCEPT ![k] = FreshCR(s, NoStatus)] /\ pass' = pass
        /\ FreshCR(s, NoStatus).spec = s
    BY <1>3 DEF UserApply, FreshCR
  <2>4. QED
    BY <1>0, <2>1, <2>2, <2>3, CRStep, SpecsAre
<1>4. ASSUME NEW s \in Specs, UserEdit(k, s) PROVE Inv'
  <2> DEFINE c == [cr[k] EXCEPT !.spec = s]
  <2>1. PassInv(Locations, Held, AliasSpec, Statuses)'
    BY <1>0, <1>4, UserEditStep, SpecsAre
  <2>2. NoDriftYet' => NoDriftYet
    BY <1>0, <1>4, DriftsOnlyGrow DEF UserEdit
  <2>3. cr' = [cr EXCEPT ![k] = c] /\ pass' = pass
    BY <1>0, <1>4 DEF UserEdit
  <2>4. c.spec = s
    BY <1>0, <1>4, SpecsAre, EditedIsSound DEF UserEdit
  <2> HIDE DEF c
  <2>5. QED
    BY <1>0, <2>1, <2>2, <2>3, <2>4, CRStep, SpecsAre
<1>5. CASE UserDelete(k)
  <2>1. PassInv(Locations, Held, AliasSpec, Statuses)'
    BY <1>0, <1>5, UserDeleteStep
  <2>2. NoDriftYet' => NoDriftYet
    BY <1>0, <1>5, DriftsOnlyGrow DEF UserDelete
  <2> DEFINE c == IF cr[k].finalizer THEN [cr[k] EXCEPT !.deleting = TRUE] ELSE NoCR
  <2>3. cr' = [cr EXCEPT ![k] = c] /\ pass' = pass
    BY <1>0, <1>5 DEF UserDelete
  <2>4. c.exists => Written(c.spec)
    <3>1. CASE cr[k].finalizer
      <4>1. c.exists = cr[k].exists /\ c.spec = cr[k].spec
        BY <1>0, <1>5, <3>1, ExistingCR DEF UserDelete, SoundCR
      <4>2. QED
        BY <1>0, <4>1 DEF Knows
    <3>2. CASE ~cr[k].finalizer
      BY <3>2 DEF NoCR
    <3>3. QED
      BY <3>1, <3>2
  <2> HIDE DEF c
  <2>5. QED
    BY <1>0, <2>1, <2>2, <2>3, <2>4, CRStep
<1>6. QED
  BY <1>1, <1>2, <1>3, <1>4, <1>5 DEF Environment

LEMMA CrashKeeps ==
  ASSUME Inv, Crash, UNCHANGED alias PROVE Inv'
<1>1. PassInv(Locations, Held, AliasSpec, Statuses)'
  BY CrashStep, Commons DEF Inv
<1>2. cr' = cr /\ \A k \in Key : pass'[k] = IdlePass
  BY DEF Crash
<1>3. \A k \in Key : Knows(IdlePass, cr[k], alias[k]) /\ Spares(IdlePass, alias[k])
  <2> SUFFICES ASSUME NEW k \in Key
               PROVE  Knows(IdlePass, cr[k], alias[k]) /\ Spares(IdlePass, alias[k])
    OBVIOUS
  <2>1. Knows(pass[k], cr[k], alias[k])
    BY DEF Inv
  <2>2. cr[k].exists => Written(cr[k].spec)
    BY <2>1 DEF Knows
  <2>3. QED
    BY <2>2, IdleKnows
<1>4. QED
  BY <1>1, <1>2, <1>3 DEF Inv

LEMMA DriftStep ==
  ASSUME Inv, NEW k \in Key, Drift(k) PROVE Inv'
<1>1. /\ Spend("drifts") /\ UNCHANGED <<cr, queued, pass>>
      /\ PassInv(Locations, Held, AliasSpec, Statuses) /\ spent \in Counts
      /\ cr' = [cr EXCEPT ![k] = cr[k]] /\ pass' = [pass EXCEPT ![k] = pass[k]]
      /\ SoundAlias(alias[k]) /\ Knows(pass[k], cr[k], alias[k])
  BY DEF Drift, Inv, PassInv
<1>2. PassInv(Locations, Held, AliasSpec, Statuses)'
  BY <1>1, SpendType, NoStep DEF PassInv
<1>3. ~NoDriftYet'
  BY <1>1 DEF Spend, Counts, NoDriftYet
<1>4. ASSUME NEW a, Change(k, a), SoundAlias(a), a.by = "us" => alias[k].by = "us"
      PROVE  Inv'
  <2>1. Knows(pass[k], cr[k], a)
    BY <1>1, <1>4 DEF Knows
  <2>2. QED
    BY <1>1, <1>2, <1>3, <1>4, <2>1, StepOf DEF Change
<1>5. CASE ~Exists(k) /\ \E v \in Value : Change(k, Foreign(v))
  <2>1. PICK v \in Value : Change(k, Foreign(v))
    BY <1>5
  <2>2. SoundAlias(Foreign(v)) /\ Foreign(v).by = "other"
    BY FS_EmptySet DEF Foreign, SoundAlias, Aliases, NoAlias
  <2>3. QED
    BY <1>4, <2>1, <2>2
<1>6. CASE Change(k, NoAlias)
  BY <1>4, <1>6, NoAliasIsSound
<1>7. CASE Exists(k) /\ \E v \in Value :
             Change(k, [alias[k] EXCEPT !.version = v, !.revision = Revision(k)])
  <2>1. PICK v \in Value :
          Change(k, [alias[k] EXCEPT !.version = v, !.revision = Revision(k)])
    BY <1>7
  <2> DEFINE a == [alias[k] EXCEPT !.version = v, !.revision = Revision(k)]
  <2>2. \A b, n : SoundAlias(b) /\ b.by # "none" /\ n \in Nat =>
          LET d == [b EXCEPT !.version = v, !.revision = n]
          IN  SoundAlias(d) /\ d.by = b.by
    BY VersionChanged
  <2>3. SoundAlias(a) /\ a.by = alias[k].by
    BY <1>1, <1>7, <2>2, RevisionType DEF Exists
  <2>4. Change(k, a)
    BY <2>1
  <2> HIDE DEF a
  <2>5. QED
    BY <1>4, <2>3, <2>4
<1>8. CASE \E p \in alias[k].policy :
             Change(k, [alias[k] EXCEPT !.policy = @ \ {p}, !.revision = Revision(k)])
  <2>1. PICK x \in alias[k].policy :
          Change(k, [alias[k] EXCEPT !.policy = @ \ {x}, !.revision = Revision(k)])
    BY <1>8
  <2> DEFINE ps == alias[k].policy \ {x}
             a == [alias[k] EXCEPT !.policy = ps, !.revision = Revision(k)]
  <2>2. alias[k].by # "none" /\ alias[k].policy \in SUBSET [sid : Sid, grant : Grant]
    BY <1>1, <2>1, PolicyType
  <2>3. /\ ps \in SUBSET [sid : Sid, grant : Grant] /\ IsFiniteSet(ps)
        /\ \A y, z \in ps : y.sid = z.sid => y = z
    BY <1>1, <2>2, FS_Subset DEF SoundAlias
  <2> HIDE DEF ps
  <2>4. \A b, n : SoundAlias(b) /\ b.by # "none" /\ n \in Nat =>
          LET d == [b EXCEPT !.policy = ps, !.revision = n]
          IN  SoundAlias(d) /\ d.by = b.by /\ d.policy = ps
    BY <2>3, ChangedPolicy
  <2>5. SoundAlias(a) /\ a.by = alias[k].by
    BY <1>1, <2>2, <2>4, RevisionType
  <2>6. Change(k, a)
    BY <2>1 DEF ps
  <2> HIDE DEF a
  <2>7. QED
    BY <1>4, <2>5, <2>6
<1>9. QED
  BY <1>5, <1>6, <1>7, <1>8 DEF Drift

-----------------------------------------------------------------------------
(* The invariant holds, and what follows from it.                          *)

LEMMA HandlersStep ==
  ASSUME Inv, NEW k \in Key, Handlers(k) PROVE Inv'
BY OtherStep, sdkFindStep, setResourceAdditionalFieldsStep, sdkCreateStep,
   CreatedStep, UpdateAliasStep, NothingExceptStep, WriteBackStep, sdkDeleteStep,
   syncEventInvokeConfigStep, updateProvisionedConcurrencyStep, PermissionsStep
   DEF Handlers, ReadOne, Create, Update, sdkUpdate, Delete

LEMMA NextKeepsInv == Inv /\ [Next]_vars => Inv'
<1> SUFFICES ASSUME Inv, [Next]_vars PROVE Inv'
  OBVIOUS
<1>1. CASE UNCHANGED vars
  BY <1>1 DEF vars, passVars, Inv, PassInv, NoDriftYet
<1>2. CASE Next
  BY <1>2, HandlersStep, EnvironmentStep, DriftStep, CrashKeeps DEF Next
<1>3. QED
  BY <1>1, <1>2

LEMMA InitImpliesInv == Init => Inv
<1> SUFFICES ASSUME Init PROVE Inv
  OBVIOUS
<1>1. PassInv(Locations, Held, AliasSpec, Statuses)
  BY InitInv, SpecsAre, NoStatusIs DEF Init, Locations
<1>2. \A k \in Key : alias[k] = NoAlias \/ \E v \in Value : alias[k] = Foreign(v)
  BY DEF Init
<1>3. \A v \in Value : SoundAlias(Foreign(v))
  BY FS_EmptySet DEF Foreign, SoundAlias, Aliases, NoAlias
<1>4. \A k \in Key : SoundAlias(alias[k])
  BY <1>2, <1>3, NoAliasIsSound
<1>5. ASSUME NEW k \in Key PROVE pass[k] = IdlePass /\ Written(cr[k].spec)
  <2>1. PICK s \in Specs : cr[k] = FreshCR(s, NoStatus)
    BY DEF Init, PassInit
  <2>2. QED
    BY <2>1, SpecsAre DEF Init, PassInit, FreshCR
<1>6. \A k \in Key : Knows(IdlePass, cr[k], alias[k]) /\ Spares(IdlePass, alias[k])
  BY <1>5, IdleKnows
<1>7. QED
  BY <1>1, <1>4, <1>5, <1>6 DEF Init, Inv

LEMMA InvHolds == Spec => []Inv
<1>1. QED
  BY InitImpliesInv, NextKeepsInv, PTL DEF Spec

(* CRs, passes and aliases have their types, whatever users, failures and  *)
(* other people do.                                                        *)
THEOREM TypeCorrect == Spec => []TypeOK
<1>1. Inv => TypeOK
  <2> SUFFICES ASSUME Inv PROVE TypeOK
    OBVIOUS
  <2>1. PassTypeOK(Locations, AliasSpec, Statuses)
    BY InvGivesType DEF Inv
  <2>2. alias \in [Key -> Aliases]
    BY DEF Inv, SoundAlias
  <2>3. QED
    BY <2>1, <2>2 DEF TypeOK
<1>2. QED
  BY <1>1, InvHolds, PTL

-----------------------------------------------------------------------------
(* Refinement: each step is a step of the contract of its CR, or leaves the*)
(* CR's presence, its finalizer and whose alias there is as they were.     *)

ContractVars(k) == <<Kube(k), cr[k].finalizer, Backend(k)>>

LEMMA Stutter ==
  ASSUME NEW k, cr'[k].exists = cr[k].exists, cr'[k].deleting = cr[k].deleting,
         cr'[k].finalizer = cr[k].finalizer, alias'[k].by = alias[k].by
  PROVE  ContractVars(k)' = ContractVars(k)
BY DEF ContractVars, Kube, Backend

LEMMA BackendIs ==
  ASSUME NEW k, alias[k].by \in {"us", "other", "none"}
  PROVE  /\ Backend(k) = "none" <=> alias[k].by = "none"
         /\ Backend(k) = "ours" <=> alias[k].by = "us"
         /\ Backend(k) \in {"none", "ours", "other"}
BY DEF Backend

(* A step of k leaves what belongs to the others.                          *)
LEMMA OthersStay ==
  ASSUME Inv, NEW k \in Key, Handlers(k) \/ Environment(k) \/ Drift(k),
         NEW j \in Key \ {k}
  PROVE  cr'[j] = cr[j] /\ alias'[j] = alias[j]
<1>1. j \in DOMAIN cr /\ j \in DOMAIN alias
  BY DEF Inv, PassInv
<1>2. CASE Other(k)
  BY <1>1, <1>2 DEF Other, Start, Manage, Unmanage, Finish
<1>3. CASE ReadOne(k) \/ Created(k) \/ NothingExcept(k)
  BY <1>3 DEF ReadOne, sdkFind, setResourceAdditionalFields, Created, NothingExcept
<1>4. CASE sdkCreate(k) \/ UpdateAlias(k) \/ sdkDelete(k)
  BY <1>1, <1>4 DEF sdkCreate, UpdateAlias, sdkDelete, Change, Refused
<1>5. CASE WriteBack(k)
  BY <1>1, <1>5 DEF WriteBack, PatchSpec, StoreSpec
<1>6. CASE \/ syncEventInvokeConfig(k) \/ updateProvisionedConcurrency(k)
           \/ Permissions(k)
  BY <1>1, <1>6 DEF syncEventInvokeConfig, updateProvisionedConcurrency, Permissions,
     syncPermissions, removePermission, addPermission, Change, Refused
<1>7. CASE Environment(k)
  BY <1>1, <1>7 DEF Environment, CallFails, Resync, UserApply, UserEdit, UserDelete
<1>8. CASE Drift(k)
  BY <1>1, <1>8 DEF Drift, Change
<1>9. QED
  BY <1>2, <1>3, <1>4, <1>5, <1>6, <1>7, <1>8
     DEF Handlers, Create, Update, sdkUpdate, Delete

LEMMA CRFields ==
  ASSUME NEW S, NEW T, NEW c \in CRs(S, T)
  PROVE  /\ DOMAIN c = DOMAIN NoCR
         /\ c.exists \in BOOLEAN /\ c.deleting \in BOOLEAN /\ c.finalizer \in BOOLEAN
<1>1. CASE c = NoCR
  BY <1>1 DEF NoCR
<1>2. CASE c \in [exists : {TRUE}, spec : S, status : T, deleting : BOOLEAN,
                  finalizer : BOOLEAN, cond : Conditions]
  BY <1>2 DEF NoCR
<1>3. QED
  BY <1>1, <1>2 DEF CRs

LEMMA CRTypes ==
  ASSUME Inv, NEW k \in Key
  PROVE  /\ DOMAIN cr = Key /\ DOMAIN alias = Key /\ DOMAIN cr[k] = DOMAIN NoCR
         /\ cr[k].exists \in BOOLEAN /\ cr[k].deleting \in BOOLEAN
         /\ cr[k].finalizer \in BOOLEAN
         /\ cr[k].finalizer => cr[k].exists
         /\ cr[k].deleting => cr[k].finalizer
         /\ cr[k] \in CRs(AliasSpec, Statuses)
         /\ alias[k].by \in {"us", "other", "none"}
<1>1. SoundCR(cr[k], AliasSpec, Statuses) /\ SoundAlias(alias[k])
      /\ DOMAIN cr = Key /\ DOMAIN alias = Key
  BY DEF Inv, PassInv
<1>2. /\ cr[k].exists \in BOOLEAN /\ cr[k].deleting \in BOOLEAN
      /\ cr[k].finalizer \in BOOLEAN /\ DOMAIN cr[k] = DOMAIN NoCR
  BY <1>1, CRFields DEF SoundCR
<1>3. alias[k].by \in {"us", "other", "none"}
  <2>1. CASE alias[k].by # "none"
    BY <1>1, <2>1, FieldsOfAlias DEF SoundAlias
  <2>2. QED
    BY <2>1
<1>4. QED
  BY <1>1, <1>2, <1>3 DEF SoundCR

LEMMA ContractOther ==
  ASSUME Inv, NEW k \in Key, Other(k)
  PROVE  Contract(k)!Next \/ ContractVars(k)' = ContractVars(k)
<1>0. alias' = alias
  BY DEF Other
<1>1. CASE Start(k)
  BY <1>0, <1>1, Stutter DEF Start
<1>2. CASE Manage(k)
  <2>1. CASE cr' = cr
    BY <1>0, <2>1, Stutter
  <2>2. CASE cr[k].exists /\ cr' = [cr EXCEPT ![k].finalizer = TRUE]
    <3>1. /\ cr'[k].exists = cr[k].exists /\ cr'[k].deleting = cr[k].deleting
          /\ cr'[k].finalizer = TRUE
      BY <2>2, CRTypes DEF NoCR
    <3>2. CASE cr[k].finalizer
      BY <1>0, <3>1, <3>2, CRTypes, Stutter
    <3>3. CASE ~cr[k].finalizer
      BY <1>0, <2>2, <3>1, <3>3, CRTypes
         DEF Contract!Next, Contract!Manage, Kube, Backend
    <3>4. QED
      BY <3>2, <3>3
  <2>3. QED
    BY <1>2, <2>1, <2>2 DEF Manage
<1>3. CASE Unmanage(k)
  <2>1. /\ pass[k].pc = "unmanage" /\ ~Idle(k) /\ cr'[k] = NoCR
    BY <1>3, CRTypes DEF Unmanage, At, Idle
  <2>2. cr[k].deleting /\ alias[k].by # "us"
    BY <2>1, AtWork DEF SoundPass, Knows
  <2>3. QED
    BY <1>0, <2>1, <2>2, CRTypes, BackendIs
       DEF Contract!Next, Contract!Release, Kube, Backend, NoCR
<1>4. CASE Finish(k)
  <2>1. /\ cr'[k].exists = cr[k].exists /\ cr'[k].deleting = cr[k].deleting
        /\ cr'[k].finalizer = cr[k].finalizer
    BY <1>4, CRTypes DEF Finish, NoCR
  <2>2. QED
    BY <1>0, <2>1, Stutter
<1>5. QED
  BY <1>1, <1>2, <1>3, <1>4 DEF Other

(* The other steps of a pass leave its CR's presence and finalizer.        *)
LEMMA CRStays ==
  ASSUME Inv, NEW k \in Key, Handlers(k), ~Other(k)
  PROVE  /\ cr'[k].exists = cr[k].exists /\ cr'[k].deleting = cr[k].deleting
         /\ cr'[k].finalizer = cr[k].finalizer
<1>1. CASE WriteBack(k)
  <2>1. PICK s \in AliasSpec : cr' = [cr EXCEPT ![k].spec = s]
    <3>1. /\ cr[k].exists /\ pass[k].pc = "writeback" /\ ~Idle(k)
      BY <1>1, AtWork, CRTypes DEF WriteBack, At, Idle, SoundPass, Held
    <3>2. /\ cr[k].spec \in AliasSpec /\ pass[k].desired.spec \in AliasSpec
          /\ pass[k].latest.spec \in AliasSpec
          /\ pass[k].latest.spec.permissions = pass[k].desired.spec.permissions
      BY <3>1, AtWork, SpecsOfPass, CRTypes, ExistingCR DEF Knows
    <3>3. QED
      BY <1>1, <3>2, PatchedType DEF WriteBack, PatchSpec, StoreSpec
  <2>2. cr[k].exists
    BY <1>1, AtWork, CRTypes DEF WriteBack, At, Idle, SoundPass, Held
  <2>3. QED
    BY <2>1, <2>2, CRTypes DEF NoCR
<1>2. CASE ~WriteBack(k)
  BY <1>2 DEF Handlers, ReadOne, sdkFind, setResourceAdditionalFields, Create,
     sdkCreate, Created, Update, sdkUpdate, UpdateAlias, NothingExcept, Delete,
     sdkDelete, syncEventInvokeConfig, updateProvisionedConcurrency, Permissions,
     syncPermissions
<1>3. QED
  BY <1>1, <1>2

(* What a step of a pass does to its alias.                                *)
LEMMA WhatBecomesOfIt ==
  ASSUME Inv, NEW k \in Key, Handlers(k)
  PROVE  \/ alias' = alias
         \/ /\ Exists(k) /\ alias'[k].by = alias[k].by
            /\ \/ alias'[k].policy = alias[k].policy
               \/ /\ "policy" \in pass[k].todo
                  /\ \E c \in pass[k].found.calls :
                       /\ c.call = "remove"
                       /\ alias'[k].policy = {x \in alias[k].policy : x.sid # c.sid}
               \/ alias[k].policy \subseteq alias'[k].policy
         \/ alias'[k].by = "none"
         \/ /\ pass[k].pc = "create" /\ alias[k].by = "none"
            /\ alias'[k].by = "us"
<1>0. Refused(k) => alias' = alias
  BY DEF Refused
<1>1. /\ DOMAIN alias = Key /\ SoundAlias(alias[k])
      /\ Exists(k) => DOMAIN alias[k] = DOMAIN NoAlias
  BY CRTypes, FieldsOfAlias DEF Inv, SoundAlias, Exists, NoAlias
<1>2. ASSUME NEW a, Change(k, a) PROVE alias'[k] = a
  BY <1>1, <1>2 DEF Change
<1>3. CASE syncEventInvokeConfig(k)
  <2> DEFINE a == [alias[k] EXCEPT !.eventInvoke = pass[k].desired.spec.eventInvoke]
  <2>1. alias' = alias \/ (Exists(k) /\ Change(k, a))
    BY <1>0, <1>3 DEF syncEventInvokeConfig
  <2>2. Exists(k) => a.by = alias[k].by /\ a.policy = alias[k].policy
    BY <1>1 DEF NoAlias
  <2> HIDE DEF a
  <2>3. QED
    BY <1>2, <2>1, <2>2
<1>4. CASE updateProvisionedConcurrency(k)
  <2> DEFINE a == [alias[k] EXCEPT !.provisioned = pass[k].desired.spec.provisioned]
  <2>1. alias' = alias \/ (Exists(k) /\ Change(k, a))
    BY <1>0, <1>4 DEF updateProvisionedConcurrency
  <2>2. Exists(k) => a.by = alias[k].by /\ a.policy = alias[k].policy
    BY <1>1 DEF NoAlias
  <2> HIDE DEF a
  <2>3. QED
    BY <1>2, <2>1, <2>2
<1>5. CASE UpdateAlias(k)
  <2> DEFINE u == Updated(k)
             a == [alias[k] EXCEPT
                     !.version = u.spec.version, !.revision = u.status.revision,
                     !.routing = IF pass[k].desired.spec.routing = Nil THEN @
                                 ELSE pass[k].desired.spec.routing]
  <2>1. alias' = alias \/ (Exists(k) /\ Change(k, a))
    BY <1>0, <1>5 DEF UpdateAlias
  <2> HIDE DEF u
  <2>2. Exists(k) => a.by = alias[k].by /\ a.policy = alias[k].policy
    BY <1>1 DEF NoAlias
  <2> HIDE DEF a
  <2>3. QED
    BY <1>2, <2>1, <2>2
<1>6. CASE Permissions(k)
  <2>1. \/ alias' = alias
        \/ /\ "policy" \in pass[k].todo
           /\ \E c \in pass[k].found.calls : removePermission(k, c) \/ addPermission(k, c)
    BY <1>6 DEF Permissions, syncPermissions
  <2>2. ASSUME NEW c \in pass[k].found.calls, removePermission(k, c)
        PROVE  \/ alias' = alias
               \/ /\ Exists(k) /\ alias'[k].by = alias[k].by /\ c.call = "remove"
                  /\ alias'[k].policy = {x \in alias[k].policy : x.sid # c.sid}
    <3> DEFINE gone == {p \in alias[k].policy : p.sid = c.sid}
               left == alias[k].policy \ gone
               a == [alias[k] EXCEPT !.policy = left, !.revision = Revision(k)]
    <3>1. c.call = "remove" /\ (alias' = alias \/ (gone # {} /\ Change(k, a)))
      BY <1>0, <2>2 DEF removePermission
    <3>2. left = {x \in alias[k].policy : x.sid # c.sid} /\ (gone # {} => Exists(k))
      BY <1>1, PolicyType DEF Exists
    <3> HIDE DEF left, gone
    <3>3. Exists(k) => a.by = alias[k].by /\ a.policy = left
      BY <1>1 DEF NoAlias
    <3> HIDE DEF a
    <3>4. QED
      BY <1>2, <3>1, <3>2, <3>3
  <2>3. ASSUME NEW c \in pass[k].found.calls, addPermission(k, c)
        PROVE  \/ alias' = alias
               \/ /\ Exists(k) /\ alias'[k].by = alias[k].by
                  /\ alias[k].policy \subseteq alias'[k].policy
    <3> DEFINE more == alias[k].policy \cup {[sid |-> c.sid, grant |-> c.grant]}
               a == [alias[k] EXCEPT !.policy = more, !.revision = Revision(k)]
    <3>1. alias' = alias \/ (Exists(k) /\ Change(k, a))
      BY <1>0, <2>3 DEF addPermission
    <3>2. alias[k].policy \subseteq more
      OBVIOUS
    <3> HIDE DEF more
    <3>3. Exists(k) => a.by = alias[k].by /\ a.policy = more
      BY <1>1 DEF NoAlias
    <3> HIDE DEF a
    <3>4. QED
      BY <1>2, <3>1, <3>2, <3>3
  <2>4. QED
    BY <2>1, <2>2, <2>3
<1>7. CASE sdkCreate(k)
  <2>1. pass[k].pc = "create"
    BY <1>7 DEF sdkCreate, At
  <2> DEFINE a == [NoAlias EXCEPT !.by = "us",
                     !.version = pass[k].desired.spec.version,
                     !.routing = pass[k].desired.spec.routing,
                     !.revision = Revision(k)]
  <2>2. alias' = alias \/ (~Exists(k) /\ Change(k, a))
    BY <1>0, <1>7 DEF sdkCreate
  <2>3. a.by = "us"
    BY DEF NoAlias
  <2> HIDE DEF a
  <2>4. QED
    BY <1>2, <2>1, <2>2, <2>3 DEF Exists
<1>8. CASE sdkDelete(k)
  BY <1>2, <1>8, NoAliasIsSound DEF sdkDelete
<1>9. CASE \/ Other(k) \/ ReadOne(k) \/ Created(k) \/ NothingExcept(k)
           \/ WriteBack(k)
  BY <1>9 DEF Other, ReadOne, sdkFind, setResourceAdditionalFields, Created,
     NothingExcept, WriteBack
<1>10. QED
  BY <1>3, <1>4, <1>5, <1>6, <1>7, <1>8, <1>9
     DEF Handlers, Create, Update, sdkUpdate, Delete

LEMMA ContractHandlers ==
  ASSUME Inv, NEW k \in Key, Handlers(k)
  PROVE  Contract(k)!Next \/ ContractVars(k)' = ContractVars(k)
<1>1. CASE Other(k)
  BY <1>1, ContractOther
<1>2. CASE ~Other(k)
  <2>1. /\ cr'[k].exists = cr[k].exists /\ cr'[k].deleting = cr[k].deleting
        /\ cr'[k].finalizer = cr[k].finalizer
    BY <1>2, CRStays
  <2>2. CASE alias'[k].by = alias[k].by
    BY <2>1, <2>2, Stutter
  <2>3. CASE alias[k].by # "none" /\ alias'[k].by = "none"
    BY <2>1, <2>3, CRTypes, BackendIs
       DEF Contract!Next, Contract!Vanish, Kube, Backend
  <2>4. CASE /\ pass[k].pc = "create" /\ alias[k].by = "none"
             /\ alias'[k].by = "us"
    <3>1. cr[k].finalizer /\ cr[k].exists
      BY <2>4, AtWork, CRTypes DEF SoundPass, Held, Idle, At
    <3>2. QED
      BY <2>1, <2>4, <3>1, CRTypes DEF Contract!Next, Contract!Create, Kube, Backend
  <2>5. \/ alias' = alias
        \/ alias[k].by # "none" /\ alias'[k].by = alias[k].by
        \/ alias'[k].by = "none"
        \/ /\ pass[k].pc = "create" /\ alias[k].by = "none"
           /\ alias'[k].by = "us"
    BY WhatBecomesOfIt DEF Exists
  <2>6. QED
    BY <2>2, <2>3, <2>4, <2>5
<1>3. QED
  BY <1>1, <1>2

LEMMA ContractAround ==
  ASSUME Inv, NEW k \in Key, Environment(k) \/ Drift(k)
  PROVE  Contract(k)!Next \/ ContractVars(k)' = ContractVars(k)
<1>1. CASE Environment(k)
  <2>0. alias' = alias
    BY <1>1 DEF Environment
  <2>1. CASE CallFails(k) \/ Resync(k)
    BY <2>0, <2>1, Stutter DEF CallFails, Resync
  <2>2. ASSUME NEW s \in Specs, UserApply(k, s, NoStatus)
        PROVE  Contract(k)!Next
    <3>1. cr'[k] = FreshCR(s, NoStatus) /\ ~cr[k].exists /\ ~cr[k].finalizer
      BY <2>2, CRTypes DEF UserApply
    <3>2. QED
      BY <2>0, <3>1 DEF Contract!Next, Contract!Apply, Kube, Backend, FreshCR
  <2>3. ASSUME NEW s \in Specs, UserEdit(k, s)
        PROVE  ContractVars(k)' = ContractVars(k)
    <3>1. /\ cr'[k].exists = cr[k].exists /\ cr'[k].deleting = cr[k].deleting
          /\ cr'[k].finalizer = cr[k].finalizer
      BY <2>3, CRTypes DEF UserEdit, NoCR
    <3>2. QED
      BY <2>0, <3>1, Stutter
  <2>4. CASE UserDelete(k)
    <3>1. CASE cr[k].finalizer
      <4>1. /\ cr'[k].exists = cr[k].exists /\ cr'[k].deleting = TRUE
            /\ cr'[k].finalizer = cr[k].finalizer
        BY <2>4, <3>1, CRTypes DEF UserDelete, NoCR
      <4>2. QED
        BY <2>0, <2>4, <3>1, <4>1, CRTypes
           DEF UserDelete, Contract!Next, Contract!RequestDelete, Kube, Backend
    <3>2. CASE ~cr[k].finalizer
      <4>1. cr'[k] = NoCR
        BY <2>4, <3>2, CRTypes DEF UserDelete
      <4>2. QED
        BY <2>0, <2>4, <3>2, <4>1, CRTypes
           DEF UserDelete, Contract!Next, Contract!Discard, Kube, Backend, NoCR
    <3>3. QED
      BY <3>1, <3>2
  <2>5. QED
    BY <1>1, <2>1, <2>2, <2>3, <2>4 DEF Environment
<1>2. CASE Drift(k)
  <2>0. cr' = cr
    BY <1>2 DEF Drift
  <2>1. CASE alias'[k].by = alias[k].by
    BY <2>0, <2>1, Stutter
  <2>2. CASE alias[k].by # "none" /\ alias'[k].by = "none"
    BY <2>0, <2>2, CRTypes, BackendIs
       DEF Contract!Next, Contract!Vanish, Kube, Backend
  <2>3. CASE alias[k].by = "none" /\ alias'[k].by = "other"
    BY <2>0, <2>3 DEF Contract!Next, Contract!Intrude, Kube, Backend
  <2>4. QED
    <3>1. /\ DOMAIN alias = Key /\ SoundAlias(alias[k])
          /\ Exists(k) => DOMAIN alias[k] = DOMAIN NoAlias
      BY CRTypes, FieldsOfAlias DEF Inv, SoundAlias, Exists, NoAlias
    <3>2. ASSUME NEW a, Change(k, a) PROVE alias'[k] = a
      BY <3>1, <3>2 DEF Change
    <3>3. CASE ~Exists(k) /\ \E v \in Value : Change(k, Foreign(v))
      <4>1. PICK v \in Value : Change(k, Foreign(v))
        BY <3>3
      <4>2. Foreign(v).by = "other"
        BY DEF Foreign, NoAlias
      <4>3. QED
        BY <2>3, <3>2, <3>3, <4>1, <4>2 DEF Exists
    <3>4. CASE Exists(k) /\ Change(k, NoAlias)
      BY <2>2, <3>2, <3>4, NoAliasIsSound DEF Exists
    <3>5. CASE Exists(k) /\ \E v \in Value :
                 Change(k, [alias[k] EXCEPT !.version = v, !.revision = Revision(k)])
      <4>1. PICK v \in Value :
              Change(k, [alias[k] EXCEPT !.version = v, !.revision = Revision(k)])
        BY <3>5
      <4> DEFINE a == [alias[k] EXCEPT !.version = v, !.revision = Revision(k)]
      <4>2. a.by = alias[k].by
        BY <3>1, <3>5 DEF NoAlias
      <4>3. Change(k, a)
        BY <4>1
      <4> HIDE DEF a
      <4>4. QED
        BY <2>1, <3>2, <4>2, <4>3
    <3>6. CASE \E x \in alias[k].policy :
                 Change(k, [alias[k] EXCEPT !.policy = @ \ {x}, !.revision = Revision(k)])
      <4>1. PICK x \in alias[k].policy :
              Change(k, [alias[k] EXCEPT !.policy = @ \ {x}, !.revision = Revision(k)])
        BY <3>6
      <4> DEFINE a == [alias[k] EXCEPT !.policy = @ \ {x}, !.revision = Revision(k)]
      <4>2. Exists(k)
        BY <3>1, <4>1, PolicyType DEF Exists
      <4>3. a.by = alias[k].by
        BY <3>1, <4>2 DEF NoAlias
      <4>4. Change(k, a)
        BY <4>1
      <4> HIDE DEF a
      <4>5. QED
        BY <2>1, <3>2, <4>3, <4>4
    <3>7. QED
      BY <1>2, <3>3, <3>4, <3>5, <3>6 DEF Drift
<1>3. QED
  BY <1>1, <1>2

(* The alias controller implements the finalizer contract for each of its  *)
(* CRs: it creates only under the finalizer, and a CR goes only when       *)
(* nothing of ours is left.                                                *)
THEOREM ImplementsContract == Spec => KeepsContract
<1>1. Init => \A k \in Key : Contract(k)!Init
  <2> SUFFICES ASSUME Init, NEW k \in Key PROVE Contract(k)!Init
    OBVIOUS
  <2>1. PICK s \in Specs : cr[k] = FreshCR(s, NoStatus)
    BY DEF Init, PassInit
  <2>2. alias[k] = NoAlias \/ \E v \in Value : alias[k] = Foreign(v)
    BY DEF Init
  <2>3. /\ cr[k].exists = TRUE /\ cr[k].deleting = FALSE
        /\ cr[k].finalizer = FALSE
    <3> DEFINE c == FreshCR(s, NoStatus)
    <3>1. c.exists = TRUE /\ c.deleting = FALSE /\ c.finalizer = FALSE
      BY DEF FreshCR
    <3> HIDE DEF c
    <3>2. cr[k] = c
      BY <2>1 DEF c
    <3>3. QED
      BY <3>1, <3>2
  <2>4. alias[k].by \in {"none", "other"}
    <3>1. NoAlias.by = "none" /\ \A v : Foreign(v).by = "other"
      BY DEF NoAlias, Foreign
    <3>2. QED
      BY <2>2, <3>1
  <2>5. QED
    BY <2>3, <2>4, BackendIs DEF Contract!Init, Kube
<1>2. Inv /\ [Next]_vars =>
        [\A k \in Key : [Contract(k)!Next]_<<Kube(k), cr[k].finalizer, Backend(k)>>]_vars
  <2> SUFFICES ASSUME Inv, Next, NEW k \in Key
               PROVE  Contract(k)!Next \/ ContractVars(k)' = ContractVars(k)
    BY DEF ContractVars
  <2>1. CASE Handlers(k) \/ Environment(k) \/ Drift(k)
    BY <2>1, ContractHandlers, ContractAround
  <2>2. CASE \E j \in Key \ {k} : Handlers(j) \/ Environment(j) \/ Drift(j)
    <3>1. cr'[k] = cr[k] /\ alias'[k] = alias[k]
      BY <2>2, OthersStay
    <3>2. QED
      BY <3>1, Stutter
  <2>3. CASE Crash /\ UNCHANGED alias
    BY <2>3, Stutter DEF Crash
  <2>4. QED
    BY <2>1, <2>2, <2>3 DEF Next
<1>3. QED
  BY <1>1, <1>2, InvHolds, PTL DEF Spec, KeepsContract

-----------------------------------------------------------------------------
(* A statement goes by a removal that the pass has planned.                *)
LEMMA GoesByRemoval ==
  ASSUME Inv, NEW k \in Key, Busy(k), Handlers(k) \/ Environment(k),
         Exists(k), alias'[k].by # "none", NEW x \in alias[k].policy \ alias'[k].policy
  PROVE  /\ "policy" \in pass[k].todo
         /\ \E c \in pass[k].found.calls : c.call = "remove" /\ x.sid = c.sid
<1>1. alias' # alias /\ Handlers(k)
  BY DEF Environment
<1>2. QED
  BY <1>1, WhatBecomesOfIt DEF Busy, At, Exists

(* A step after which nobody has interfered yet is no interference.        *)
LEMMA QuietSteps ==
  ASSUME Inv, NEW k \in Key, Handlers(k) \/ Environment(k) \/ Drift(k), NoDriftYet'
  PROVE  NoDriftYet /\ ~Drift(k)
<1>1. spent \in Counts
  BY DEF Inv, PassInv
<1>2. ~Drift(k)
  <2>1. Drift(k) => Spend("drifts")
    BY DEF Drift
  <2>2. ~Spend("drifts")
    BY <1>1 DEF Spend, Counts, NoDriftYet
  <2>3. QED
    BY <2>1, <2>2
<1>3. CASE Handlers(k) \/ Environment(k)
  <2>1. Spend("faults") \/ Spend("edits") \/ Spend("overlaps") \/ UNCHANGED spent
    <3> DEFINE Small == \/ Spend("faults") \/ Spend("edits") \/ Spend("overlaps")
                        \/ UNCHANGED spent
    <3>1. ASSUME NEW p, Answered(k, p) PROVE Small
      BY <3>1 DEF Answered
    <3>2. Refused(k) => Small
      BY DEF Refused
    <3>3. CASE Other(k)
      BY <3>3 DEF Other, Start, Manage, Unmanage, Finish
    <3>4. CASE \/ ReadOne(k) \/ Created(k) \/ NothingExcept(k) \/ WriteBack(k)
               \/ syncPermissions(k)
      BY <3>4 DEF ReadOne, sdkFind, setResourceAdditionalFields, Created,
         NothingExcept, WriteBack, PatchSpec, StoreSpec, syncPermissions
    <3>5. CASE \/ sdkCreate(k) \/ UpdateAlias(k) \/ sdkDelete(k)
               \/ syncEventInvokeConfig(k) \/ updateProvisionedConcurrency(k)
      <4>1. CASE sdkCreate(k)
        BY <3>2, <4>1 DEF sdkCreate, Answered
      <4>2. CASE UpdateAlias(k)
        BY <3>2, <4>2 DEF UpdateAlias, Answered
      <4>3. CASE sdkDelete(k)
        BY <3>2, <4>3 DEF sdkDelete, Answered
      <4>4. CASE syncEventInvokeConfig(k)
        BY <3>2, <4>4 DEF syncEventInvokeConfig, Answered
      <4>5. CASE updateProvisionedConcurrency(k)
        BY <3>2, <4>5 DEF updateProvisionedConcurrency, Answered
      <4>6. QED
        BY <3>5, <4>1, <4>2, <4>3, <4>4, <4>5
    <3>6. ASSUME NEW c, removePermission(k, c) \/ addPermission(k, c) PROVE Small
      <4> HIDE DEF Small
      <4> QED
        BY <3>1, <3>2, <3>6 DEF removePermission, addPermission
    <3>7. CASE Permissions(k)
      BY <3>4, <3>6, <3>7 DEF Permissions
    <3>8. CASE Environment(k)
      BY <3>8 DEF Environment, CallFails, Resync, UserApply, UserEdit, UserDelete
    <3>9. QED
      BY <1>3, <3>3, <3>4, <3>5, <3>7, <3>8
         DEF Handlers, Create, Update, sdkUpdate, Delete
  <2>2. QED
    BY <1>1, <1>2, <2>1, DriftsOnlyGrow
<1>4. QED
  BY <1>2, <1>3

(* No statement that the CR asks for is withdrawn while its pass works on  *)
(* the policy, however often users edit it and calls fail.                 *)
THEOREM WantedGrantsAreKept == Spec => GrantsAreKept
<1>1. Inv /\ [Next]_vars =>
        [\A k \in Key :
           /\ spent'.drifts = 0 /\ Exists(k) /\ alias'[k].by # "none" /\ Busy(k)
           => \A p \in alias[k].policy \ alias'[k].policy :
                \/ p.grant \in Rewritten
                \/ p \notin Statements(pass[k].desired.spec.permissions)]_vars
  <2> SUFFICES ASSUME Inv, Next, NEW k \in Key, NoDriftYet', Exists(k), Busy(k),
                      alias'[k].by # "none",
                      NEW x \in alias[k].policy \ alias'[k].policy,
                      x.grant \notin Rewritten
               PROVE  x \notin Statements(pass[k].desired.spec.permissions)
    BY DEF NoDriftYet
  <2>1. PICK j \in Key : Handlers(j) \/ Environment(j) \/ Drift(j)
    BY DEF Next, Crash
  <2>2. j = k
    BY <2>1, OthersStay
  <2>3. NoDriftYet /\ ~Drift(k)
    BY <2>1, <2>2, QuietSteps
  <2>4. /\ "policy" \in pass[k].todo
        /\ \E c \in pass[k].found.calls : c.call = "remove" /\ x.sid = c.sid
    BY <2>1, <2>2, <2>3, GoesByRemoval
  <2>5. ~Idle(k) /\ InCalls(pass[k])
    BY DEF Busy, At, Idle, InCalls
  <2>6. Spares(pass[k], alias[k])
    BY <2>3, <2>5, AtWork
  <2>7. QED
    BY <2>4, <2>5, <2>6 DEF Spares
<1>2. QED
  BY <1>1, InvHolds, PTL DEF Spec, GrantsAreKept

-----------------------------------------------------------------------------
(* What is applied: from here on the invariant follows the values.         *)

OwnFields == {"version", "routing", "eventInvoke", "provisioned"}

Same(s, a) ==
  /\ a.by # "none"
  /\ \A f \in OwnFields : a[f] = s[f]
  /\ a.policy = Statements(s.permissions)

(* The policy that is left when all the calls have been made.              *)
Outcome(policy, calls) ==
  {x \in policy : \A c \in calls : c.call = "remove" => c.sid # x.sid}
  \cup {[sid |-> c.sid, grant |-> c.grant] : c \in {d \in calls : d.call = "add"}}

(* The pass p brings the policy of a to what it wants: with the calls that *)
(* it has planned, by a plan that it will make from what it has read, or   *)
(* because it is there.                                                    *)
Leads(p, a) ==
  LET want == Statements(p.desired.spec.permissions) IN
  /\ "policy" \in p.todo => Outcome(a.policy, p.found.calls) = want
  /\ "permissions" \in p.todo =>
       /\ p.pc = "configure" => a.policy = {}
       /\ p.pc = "update" =>
            Statements(p.latest.spec.permissions) = {Reread(x) : x \in a.policy}
  /\ p.todo \cap {"policy", "permissions"} = {} => a.policy = want

(* What the pass p of k knows of the alias a, as long as nobody else writes*)
(* it. Users may have changed the CR c, but then its key is in the queue Q.*)
ExactPass(k, p, c, a, Q) ==
  /\ k \notin Q => c.exists /\ c.spec = p.desired.spec
  /\ p.pc = "fields" =>
       /\ a.by # "none"
       /\ p.latest.spec.version = a.version /\ p.latest.spec.routing = a.routing
  /\ InCalls(p) =>
       /\ a.by # "none"
       /\ \A f \in OwnFields \ p.todo : a[f] = p.desired.spec[f]
       /\ Leads(p, a)
  /\ p.pc = "writeback" => Same(p.latest.spec, a)
  /\ p.pc \in {"read", "fields"} /\ p.why = "created" => Same(p.desired.spec, a)
  /\ p.pc = "finish" /\ p.outcome = "Synced" /\ k \notin Q =>
       Same(p.desired.spec, a)

Exact(k, p, c, a, Q) ==
  /\ p.pc # "idle" => ExactPass(k, p, c, a, Q)
  /\ p.pc = "idle" /\ k \notin Q /\ c.exists /\ c.cond = "Synced" =>
       Same(c.spec, a)

AllExact == \A k \in Key : Exact(k, pass[k], cr[k], alias[k], queued)
ExactInv == NoDriftYet => AllExact

-----------------------------------------------------------------------------
(* What a plan comes to.                                                   *)

(* Of a policy P that was read as have, the calls make what is wanted; and *)
(* a comparison that finds nothing to do is right.                         *)
LEMMA PlanIsRight ==
  ASSUME NEW want \in Seq(Permission), NEW have \in Seq(Permission),
         \A i \in DOMAIN want : want[i].grant # Nil,
         NEW P \in SUBSET [sid : Sid, grant : Grant],
         \A x, y \in P : x.sid = y.sid => x = y,
         Statements(have) = {Reread(x) : x \in P}
  PROVE  /\ Outcome(P, comparePermissions(want, have)) = Statements(want)
         /\ comparePermissions(want, have) = {} => P = Statements(want)
<1> DEFINE W == Statements(want)
           H == Statements(have)
           kept == {p \in W : \E q \in H : permissionEqual(p, q)}
           removals == {[call |-> "remove", sid |-> q.sid, grant |-> Nil] :
                          q \in {q \in H : ~\E p \in kept : p.sid = q.sid}}
           additions == {[call |-> "add", sid |-> p.sid, grant |-> p.grant] :
                           p \in W \ kept}
           calls == removals \cup additions
<1>1. comparePermissions(want, have) = calls
  BY DEF comparePermissions
<1>2. \A p \in W : p \in [sid : Sid, grant : Grant]
  <2>1. ASSUME NEW p \in W PROVE p \in [sid : Sid, grant : Grant]
    <3>1. p \in Permission /\ p.sid \in Sid /\ p.grant # Nil
      BY StatementsAreItems
    <3>2. QED
      BY <3>1 DEF Permission
  <2>2. QED
    BY <2>1
<1>3. H = {Reread(x) : x \in P}
  OBVIOUS
<1> HIDE DEF W, H
<1>4. kept = W \cap H
  BY DEF permissionEqual
<1> HIDE DEF kept
<1>5. W \cap H \subseteq P
  <2>1. ASSUME NEW p \in W, NEW x \in P, p = Reread(x) PROVE p = x
    <3>1. p.grant # Nil
      BY <1>2, AliasNil
    <3>2. x.grant \notin Rewritten
      BY <2>1, <3>1 DEF Reread
    <3>3. QED
      BY <2>1, <3>2, RereadFields
  <2>2. QED
    BY <1>3, <2>1
<1>6. {x \in P : \A c \in calls : c.call = "remove" => c.sid # x.sid} = kept
  <2>1. ASSUME NEW x \in P, \A c \in calls : c.call = "remove" => c.sid # x.sid
        PROVE  x \in kept
    <3>1. Reread(x) \in H /\ Reread(x).sid = x.sid
      BY <1>3, RereadFields
    <3>2. PICK p \in kept : p.sid = x.sid
      <4>1. SUFFICES ASSUME \A p \in kept : p.sid # x.sid PROVE FALSE
        OBVIOUS
      <4> DEFINE c == [call |-> "remove", sid |-> Reread(x).sid, grant |-> Nil]
      <4>2. c \in removals
        BY <3>1, <4>1
      <4>3. c.call = "remove" /\ c.sid = x.sid
        BY <3>1
      <4>4. QED
        BY <2>1, <4>2, <4>3
    <3>3. p \in P
      BY <1>4, <1>5, <3>2
    <3>4. QED
      BY <3>2, <3>3
  <2>2. ASSUME NEW x \in kept
        PROVE  x \in P /\ \A c \in calls : c.call = "remove" => c.sid # x.sid
    <3>1. \A c \in additions : c.call = "add"
      OBVIOUS
    <3>2. \A c \in removals : c.sid # x.sid
      BY <2>2
    <3>3. QED
      BY <1>4, <1>5, <2>2, <3>1, <3>2
  <2>3. QED
    BY <2>1, <2>2
<1>7. {[sid |-> c.sid, grant |-> c.grant] : c \in {d \in calls : d.call = "add"}}
        = W \ kept
  <2> DEFINE Added(c) == [sid |-> c.sid, grant |-> c.grant]
             As(p) == [call |-> "add", sid |-> p.sid, grant |-> p.grant]
  <2>1. {d \in calls : d.call = "add"} = additions
    <3>1. \A c \in removals : c.call = "remove"
      OBVIOUS
    <3>2. \A c \in additions : c.call = "add"
      OBVIOUS
    <3> HIDE DEF removals, additions
    <3>3. QED
      BY <3>1, <3>2
  <2>2. \A p \in W : Added(As(p)) = p
    BY <1>2
  <2>3. \A p \in W \ kept : As(p) \in additions
    OBVIOUS
  <2>4. \A c \in additions : \E p \in W \ kept : c = As(p)
    OBVIOUS
  <2> HIDE DEF Added, As, additions
  <2>5. {Added(c) : c \in additions} = W \ kept
    BY <2>2, <2>3, <2>4
  <2>6. QED
    BY <2>1, <2>5 DEF Added
<1> HIDE DEF calls
<1>8. Outcome(P, calls) = W
  BY <1>4, <1>6, <1>7 DEF Outcome
<1>9. calls = {} => Outcome(P, calls) = P
  BY DEF Outcome
<1>10. QED
  BY <1>1, <1>8, <1>9 DEF W

LEMMA RemovalKeepsOutcome ==
  ASSUME NEW P, NEW calls, NEW c \in calls, c.call = "remove"
  PROVE  Outcome({x \in P : x.sid # c.sid}, calls \ {c}) = Outcome(P, calls)
BY DEF Outcome

LEMMA AdditionKeepsOutcome ==
  ASSUME NEW P, NEW calls, NEW c \in calls, \A d \in calls : d.call = "add"
  PROVE  Outcome(P \cup {[sid |-> c.sid, grant |-> c.grant]}, calls \ {c})
           = Outcome(P, calls)
<1> DEFINE Added(d) == [sid |-> d.sid, grant |-> d.grant]
<1>1. ASSUME NEW Q, NEW C, \A d \in C : d.call = "add"
      PROVE  Outcome(Q, C) = Q \cup {Added(d) : d \in C}
  <2>1. {d \in C : d.call = "add"} = C
    BY <1>1
  <2>2. {x \in Q : \A d \in C : d.call = "remove" => d.sid # x.sid} = Q
    BY <1>1
  <2>3. QED
    BY <2>1, <2>2 DEF Outcome
<1> HIDE DEF Added
<1>2. (P \cup {Added(c)}) \cup {Added(d) : d \in calls \ {c}}
        = P \cup {Added(d) : d \in calls}
  OBVIOUS
<1>3. /\ Outcome(P \cup {Added(c)}, calls \ {c})
           = (P \cup {Added(c)}) \cup {Added(d) : d \in calls \ {c}}
      /\ Outcome(P, calls) = P \cup {Added(d) : d \in calls}
  BY <1>1
<1>4. QED
  BY <1>2, <1>3 DEF Added

-----------------------------------------------------------------------------
(* What a step leaves exact.                                               *)

(* A step of k changes its CR, its pass, its alias and its place in the    *)
(* queue at most.                                                          *)
LEMMA ExactStep ==
  ASSUME Inv, AllExact, NEW k \in Key, NEW p, NEW c, NEW a,
         pass' = [pass EXCEPT ![k] = p], cr' = [cr EXCEPT ![k] = c],
         alias' = [alias EXCEPT ![k] = a],
         queued' \cup {k} = queued \cup {k}, Exact(k, p, c, a, queued')
  PROVE  AllExact'
<1> SUFFICES ASSUME NEW j \in Key
             PROVE  Exact(j, pass'[j], cr'[j], alias'[j], queued')
  BY DEF AllExact
<1>1. j \in DOMAIN pass /\ j \in DOMAIN cr /\ j \in DOMAIN alias
  BY DEF Inv, PassInv
<1>2. CASE j = k
  BY <1>1, <1>2
<1>3. CASE j # k
  <2>1. /\ pass'[j] = pass[j] /\ cr'[j] = cr[j] /\ alias'[j] = alias[j]
        /\ j \in queued' <=> j \in queued
    BY <1>1, <1>3
  <2>2. Exact(j, pass[j], cr[j], alias[j], queued)
    BY DEF AllExact
  <2>3. QED
    BY <2>1, <2>2 DEF Exact, ExactPass
<1>4. QED
  BY <1>2, <1>3

LEMMA ExactIs ==
  ASSUME Inv, AllExact, NEW k \in Key
  PROVE  /\ Exact(k, pass[k], cr[k], alias[k], queued)
         /\ ~Idle(k) => ExactPass(k, pass[k], cr[k], alias[k], queued)
         /\ cr = [cr EXCEPT ![k] = cr[k]] /\ alias = [alias EXCEPT ![k] = alias[k]]
         /\ pass = [pass EXCEPT ![k] = pass[k]]
         /\ DOMAIN pass = Key /\ DOMAIN cr = Key /\ DOMAIN alias = Key
         /\ DOMAIN pass[k] = DOMAIN IdlePass
BY DEF AllExact, Exact, Inv, PassInv, SoundPass, Idle, At

(* A pass that ends as not synced leaves nothing to show, but that the CR  *)
(* is the one it read.                                                     *)
LEMMA ExactEnd ==
  ASSUME Inv, AllExact, NEW k \in Key, ~Idle(k), NEW o, o # "Synced",
         EndPass(k, o), UNCHANGED <<cr, queued>>,
         NEW a, alias' = [alias EXCEPT ![k] = a]
  PROVE  AllExact'
<1> DEFINE p == [pass[k] EXCEPT !.pc = "finish", !.outcome = o]
<1>1. pass' = [pass EXCEPT ![k] = p]
  BY ExactIs DEF EndPass
<1>2. p.pc = "finish" /\ p.outcome = o /\ p.desired = pass[k].desired
  BY ExactIs DEF IdlePass
<1> HIDE DEF p
<1>3. Exact(k, p, cr[k], a, queued)
  BY <1>2, ExactIs DEF Exact, ExactPass, InCalls
<1>4. QED
  BY <1>1, <1>3, ExactIs, ExactStep

LEMMA ExactRefused ==
  ASSUME Inv, AllExact, NEW k \in Key, ~Idle(k), Refused(k), UNCHANGED <<cr, queued>>
  PROVE  AllExact'
BY ExactIs, ExactEnd DEF Refused

LEMMA ExactAnswered ==
  ASSUME Inv, AllExact, NEW k \in Key, ~Idle(k), NEW p, NEW a,
         Change(k, a), Answered(k, p), UNCHANGED <<cr, queued>>,
         Exact(k, p, cr[k], a, queued)
  PROVE  AllExact'
<1>1. CASE pass' = [pass EXCEPT ![k] = p]
  BY <1>1, ExactIs, ExactStep DEF Change
<1>2. CASE EndPass(k, "Recoverable")
  BY <1>2, ExactEnd DEF Change
<1>3. QED
  BY <1>1, <1>2 DEF Answered

LEMMA ExactOfPass ==
  ASSUME Inv, AllExact, NEW k \in Key, NEW p, pass' = [pass EXCEPT ![k] = p],
         UNCHANGED <<cr, queued, alias>>, Exact(k, p, cr[k], alias[k], queued)
  PROVE  AllExact'
BY ExactIs, ExactStep

LEMMA IdleExact ==
  ASSUME NEW k, NEW c, NEW a, NEW Q, ~c.exists \/ k \in Q
  PROVE  Exact(k, IdlePass, c, a, Q)
BY DEF Exact, IdlePass

LEMMA ExactOther ==
  ASSUME Inv, AllExact, NEW k \in Key, Other(k) PROVE AllExact'
<1>0. alias' = [alias EXCEPT ![k] = alias[k]]
  BY ExactIs DEF Other
<1>1. CASE Start(k)
  <2>1. CASE ~cr[k].exists
    <3>1. /\ UNCHANGED <<cr, pass, alias>> /\ queued' = queued \ {k}
          /\ pass[k].pc = "idle"
      BY <1>1, <2>1 DEF Start, Other, Idle, At
    <3>2. Exact(k, pass[k], cr[k], alias[k], queued')
      BY <2>1, <3>1 DEF Exact
    <3>3. pass' = [pass EXCEPT ![k] = pass[k]] /\ cr' = [cr EXCEPT ![k] = cr[k]]
      BY <3>1, ExactIs
    <3>4. QED
      BY <1>0, <3>1, <3>2, <3>3, ExactStep
  <2>2. CASE cr[k].exists
    <3> DEFINE p == [IdlePass EXCEPT !.pc = "read",
                       !.why = IF cr[k].deleting THEN "delete" ELSE "sync",
                       !.desired = cr[k],
                       !.latest = [spec |-> cr[k].spec, status |-> cr[k].status]]
    <3>1. /\ pass' = [pass EXCEPT ![k] = p] /\ cr' = [cr EXCEPT ![k] = cr[k]]
          /\ queued' = queued \ {k}
      BY <1>1, <2>2, ExactIs DEF Start
    <3>2. p.pc = "read" /\ p.desired = cr[k] /\ p.why \in {"delete", "sync"}
      BY DEF IdlePass
    <3> HIDE DEF p
    <3>3. Exact(k, p, cr[k], alias[k], queued')
      BY <2>2, <3>2 DEF Exact, ExactPass, InCalls
    <3>4. QED
      BY <1>0, <3>1, <3>3, ExactStep
  <2>3. QED
    BY <2>1, <2>2
<1>2. CASE Manage(k)
  <2>1. pass[k].pc = "manage" /\ ~Idle(k) /\ UNCHANGED queued
    BY <1>2 DEF Manage, At, Idle
  <2>2. CASE cr[k].exists
    <3> DEFINE p == [pass[k] EXCEPT !.pc = "create"]
               c == [cr[k] EXCEPT !.finalizer = TRUE]
    <3>1. pass' = [pass EXCEPT ![k] = p] /\ cr' = [cr EXCEPT ![k] = c]
      BY <1>2, <2>2, ExactIs DEF Manage, Goto
    <3>2. p.pc = "create" /\ p.desired = pass[k].desired
      BY ExactIs DEF IdlePass
    <3>3. c.exists = cr[k].exists /\ c.spec = cr[k].spec
      BY <2>2, ExistingCR DEF Inv, PassInv, SoundCR
    <3> HIDE DEF p, c
    <3>4. Exact(k, p, c, alias[k], queued)
      BY <2>1, <3>2, <3>3, ExactIs DEF Exact, ExactPass, InCalls
    <3>5. QED
      BY <1>0, <2>1, <3>1, <3>4, ExactStep
  <2>3. CASE ~cr[k].exists
    <3>1. EndPass(k, "Recoverable") /\ UNCHANGED <<cr, queued>>
      BY <1>2, <2>3 DEF Manage
    <3>2. QED
      BY <1>0, <2>1, <3>1, ExactEnd
  <2>4. QED
    BY <2>2, <2>3
<1>3. CASE Unmanage(k)
  <2>1. /\ pass' = [pass EXCEPT ![k] = IdlePass] /\ UNCHANGED queued
        /\ cr' = [cr EXCEPT ![k] = NoCR] /\ ~NoCR.exists
    BY <1>3 DEF Unmanage, NoCR
  <2>2. QED
    BY <1>0, <2>1, IdleExact, ExactStep
<1>4. CASE Finish(k)
  <2>1. /\ pass' = [pass EXCEPT ![k] = IdlePass] /\ ~Idle(k) /\ pass[k].pc = "finish"
        /\ queued' \cup {k} = queued \cup {k} /\ queued \subseteq queued'
    BY <1>4 DEF Finish, Idle, At
  <2>2. CASE cr[k].exists
    <3> DEFINE c == [cr[k] EXCEPT !.cond = pass[k].outcome,
                                  !.status = pass[k].latest.status]
    <3>1. cr' = [cr EXCEPT ![k] = c]
      BY <1>4, <2>2, ExactIs DEF Finish
    <3>2. c.cond = pass[k].outcome /\ c.spec = cr[k].spec
      <4>1. cr[k] \in [exists : {TRUE}, spec : AliasSpec, status : Statuses,
                       deleting : BOOLEAN, finalizer : BOOLEAN, cond : Conditions]
        BY <2>2, ExistingCR DEF Inv, PassInv, SoundCR
      <4>2. QED
        BY <4>1
    <3> HIDE DEF c
    <3>3. Exact(k, IdlePass, c, alias[k], queued')
      <4>1. SUFFICES ASSUME k \notin queued', c.cond = "Synced"
                     PROVE  Same(c.spec, alias[k])
        BY DEF Exact, IdlePass
      <4>2. k \notin queued
        BY <2>1, <4>1
      <4>3. QED
        BY <2>1, <3>2, <4>1, <4>2, ExactIs DEF ExactPass
    <3>4. QED
      BY <1>0, <2>1, <3>1, <3>3, ExactStep
  <2>3. CASE ~cr[k].exists
    <3>1. cr' = [cr EXCEPT ![k] = cr[k]]
      BY <1>4, <2>3, ExactIs DEF Finish
    <3>2. QED
      BY <1>0, <2>1, <2>3, <3>1, IdleExact, ExactStep
  <2>4. QED
    BY <2>2, <2>3
<1>5. QED
  BY <1>1, <1>2, <1>3, <1>4 DEF Other

LEMMA ExactGo ==
  ASSUME Inv, AllExact, NEW k \in Key, ~Idle(k), NEW l, Goto(k, l),
         l \notin {"idle", "read", "fields", "configure", "update", "writeback",
                   "finish"},
         UNCHANGED <<cr, queued, alias>>
  PROVE  AllExact'
<1> DEFINE p == [pass[k] EXCEPT !.pc = l]
<1>1. pass' = [pass EXCEPT ![k] = p]
  BY ExactIs DEF Goto
<1>2. p.pc = l /\ p.desired = pass[k].desired
  BY ExactIs DEF IdlePass
<1> HIDE DEF p
<1>3. Exact(k, p, cr[k], alias[k], queued)
  BY <1>2, ExactIs DEF Exact, ExactPass, InCalls
<1>4. QED
  BY <1>1, <1>3, ExactOfPass

LEMMA ExactFind ==
  ASSUME Inv, AllExact, NEW k \in Key, sdkFind(k) PROVE AllExact'
<1>1. pass[k].pc = "read" /\ ~Idle(k) /\ UNCHANGED <<cr, queued, spent, alias>>
  BY DEF sdkFind, At, Idle
<1>2. CASE Exists(k)
  <2> DEFINE o == Observed(k)
             p == [pass[k] EXCEPT !.pc = "fields", !.latest = o]
  <2>1. pass' = [pass EXCEPT ![k] = p]
    BY <1>2, ExactIs DEF sdkFind
  <2>2. o.spec.version = alias[k].version /\ o.spec.routing = alias[k].routing
    BY <1>1, SpecsOfPass, SpecFields DEF Observed, AliasSpec
  <2> HIDE DEF o
  <2>3. /\ p.pc = "fields" /\ p.why = pass[k].why /\ p.desired = pass[k].desired
        /\ p.latest = o
    BY ExactIs DEF IdlePass
  <2> HIDE DEF p
  <2>4. Exact(k, p, cr[k], alias[k], queued)
    BY <1>1, <1>2, <2>2, <2>3, ExactIs DEF Exact, ExactPass, InCalls, Exists
  <2>5. QED
    BY <1>1, <2>1, <2>4, ExactOfPass
<1>3. CASE ~Exists(k)
  <2>1. NotFound(k)
    BY <1>3 DEF sdkFind
  <2>2. \/ \E l \in {"create", "manage", "unmanage"} : Goto(k, l)
        \/ EndPass(k, "Recoverable")
    <3>1. CASE pass[k].why = "sync"
      BY <2>1, <3>1 DEF NotFound
    <3>2. CASE pass[k].why = "delete"
      BY <2>1, <3>2 DEF NotFound
    <3>3. CASE pass[k].why \notin {"sync", "delete"}
      BY <2>1, <3>3 DEF NotFound
    <3>4. QED
      BY <3>1, <3>2, <3>3
  <2>3. QED
    BY <1>1, <2>2, ExactGo, ExactEnd, ExactIs
<1>4. QED
  BY <1>2, <1>3

(* What the comparison has found equal is, and the rest is to be done.     *)
LEMMA ExactFields ==
  ASSUME Inv, AllExact, NEW k \in Key, setResourceAdditionalFields(k)
  PROVE  AllExact'
<1> DEFINE d == pass[k].desired.spec
           s == [pass[k].latest.spec EXCEPT
                   !.eventInvoke = alias[k].eventInvoke,
                   !.provisioned = alias[k].provisioned,
                   !.permissions = setPermissions(alias[k].policy)]
           delta == newResourceDelta(d, s)
           Moves(l, o, todo) ==
             pass' = [pass EXCEPT ![k] =
                        [pass[k] EXCEPT !.pc = l, !.outcome = o,
                                        !.latest.spec = s, !.todo = todo]]
<1>1. /\ pass[k].pc = "fields" /\ ~Idle(k) /\ UNCHANGED <<cr, queued, alias>>
      /\ SoundAlias(alias[k])
  BY AtWork DEF setResourceAdditionalFields, At, Idle
<1>2. /\ ExactPass(k, pass[k], cr[k], alias[k], queued)
      /\ DOMAIN pass[k] = DOMAIN IdlePass
  BY <1>1, ExactIs
<1>3. /\ pass[k].latest.spec \in AliasSpec /\ d \in AliasSpec
      /\ pass[k].latest \in [spec : AliasSpec \cup {Nil}, status : Statuses \cup {Nil}]
      /\ \A i \in DOMAIN d.permissions : d.permissions[i].grant # Nil
  BY <1>1, SpecsOfPass, AtWork DEF SoundPass, Written
<1>4. /\ s.version = alias[k].version /\ s.routing = alias[k].routing
      /\ s.eventInvoke = alias[k].eventInvoke /\ s.provisioned = alias[k].provisioned
      /\ s.permissions = setPermissions(alias[k].policy) /\ alias[k].by # "none"
  BY <1>1, <1>2, <1>3 DEF ExactPass, AliasSpec
<1>5. \/ pass[k].why = "created" /\ Moves("finish", "Synced", {})
      \/ Moves("delete", "Unknown", {})
      \/ Moves("finish", "Terminal", {})
      \/ delta = {} /\ Moves("finish", "Synced", {})
      \/ Moves("update", "Unknown", delta)
  BY DEF setResourceAdditionalFields
<1> HIDE DEF s
<1>6. \A f \in OwnFields \ delta : alias[k][f] = d[f]
  BY <1>4 DEF OwnFields, newResourceDelta
<1>7. Statements(s.permissions) = {Reread(x) : x \in alias[k].policy}
  BY <1>1, <1>4, ReadPolicy
<1>8. "permissions" \notin delta => alias[k].policy = Statements(d.permissions)
  <2>1. "permissions" \notin delta =>
          comparePermissions(d.permissions, s.permissions) = {}
    BY DEF newResourceDelta, customPreCompare
  <2>2. /\ d.permissions \in Seq(Permission) /\ s.permissions \in Seq(Permission)
        /\ alias[k].policy \in SUBSET [sid : Sid, grant : Grant]
        /\ \A x, y \in alias[k].policy : x.sid = y.sid => x = y
    BY <1>1, <1>3, <1>4, SpecFields, ReadPolicy, PolicyType DEF SoundAlias
  <2> HIDE DEF delta
  <2>3. comparePermissions(d.permissions, s.permissions) = {}
          => alias[k].policy = Statements(d.permissions)
    BY <1>3, <1>7, <2>2, PlanIsRight
  <2>4. QED
    BY <2>1, <2>3
<1>9. "policy" \notin delta
  BY PolicyIsNoField
<1> HIDE DEF delta
<1>10. ASSUME NEW l \in {"finish", "delete", "update"}, NEW o, NEW todo,
              l = "finish" /\ o = "Synced" =>
                pass[k].why = "created" \/ delta = {},
              l = "update" => todo = delta, Moves(l, o, todo)
       PROVE  AllExact'
  <2> DEFINE p == [pass[k] EXCEPT !.pc = l, !.outcome = o, !.latest.spec = s,
                                  !.todo = todo]
  <2>1. pass' = [pass EXCEPT ![k] = p]
    BY <1>10
  <2>2. [pass[k].latest EXCEPT !.spec = s]
          = [spec |-> s, status |-> pass[k].latest.status]
    BY <1>3
  <2>3. /\ p.pc = l /\ p.desired = pass[k].desired /\ p.outcome = o
        /\ p.latest = [spec |-> s, status |-> pass[k].latest.status]
        /\ p.todo = todo
    BY <1>2, <2>2 DEF IdlePass
  <2> HIDE DEF p
  <2>4. CASE l = "update"
    <3>1. Leads(p, alias[k])
      BY <1>7, <1>8, <1>9, <1>10, <2>3, <2>4 DEF Leads
    <3>2. \A f \in OwnFields \ p.todo : alias[k][f] = p.desired.spec[f]
      BY <1>6, <1>10, <2>3, <2>4
    <3>3. ExactPass(k, p, cr[k], alias[k], queued)
      BY <1>2, <1>4, <2>3, <2>4, <3>1, <3>2 DEF ExactPass
    <3>4. QED
      BY <1>1, <2>1, <2>3, <2>4, <3>3, ExactOfPass DEF Exact
  <2>5. CASE l = "delete"
    <3>1. Exact(k, p, cr[k], alias[k], queued)
      BY <1>2, <2>3, <2>5 DEF Exact, ExactPass, InCalls
    <3>2. QED
      BY <1>1, <2>1, <3>1, ExactOfPass
  <2>6. CASE l = "finish"
    <3>1. o = "Synced" => Same(d, alias[k])
      <4>1. CASE pass[k].why = "created"
        BY <1>1, <1>2, <4>1 DEF ExactPass
      <4>2. CASE delta = {}
        BY <1>4, <1>6, <1>8, <4>2 DEF Same
      <4>3. QED
        BY <1>10, <2>6, <4>1, <4>2
    <3>2. Exact(k, p, cr[k], alias[k], queued)
      BY <1>2, <2>3, <2>6, <3>1 DEF Exact, ExactPass, InCalls
    <3>3. QED
      BY <1>1, <2>1, <3>2, ExactOfPass
  <2>7. QED
    BY <2>4, <2>5, <2>6
<1> HIDE DEF Moves
<1>11. QED
  BY <1>5, <1>10

(* The calls for the fields leave the policy, and the other fields.        *)
LEMMA ExactDone ==
  ASSUME Inv, AllExact, NEW k \in Key, Busy(k), NEW f, NEW a,
         f \notin {"permissions", "policy"},
         a.by = alias[k].by, a.policy = alias[k].policy,
         \A g \in OwnFields \ {f} : a[g] = alias[k][g],
         f \in OwnFields => a[f] = pass[k].desired.spec[f],
         Change(k, a), Answered(k, Done(k, f)), UNCHANGED <<cr, queued>>
  PROVE  AllExact'
<1> DEFINE p == Done(k, f)
<1>1. ~Idle(k) /\ InCalls(pass[k])
  BY DEF Busy, Idle, At, InCalls
<1>2. /\ p.pc = pass[k].pc /\ p.desired = pass[k].desired /\ p.found = pass[k].found
      /\ p.latest = pass[k].latest /\ p.todo = pass[k].todo \ {f}
  BY ExactIs DEF IdlePass, Done
<1> HIDE DEF p
<1>3. ExactPass(k, pass[k], cr[k], alias[k], queued)
  BY <1>1, ExactIs
<1>4. Leads(p, a)
  <2>1. Leads(pass[k], alias[k])
    BY <1>1, <1>3 DEF ExactPass
  <2>2. QED
    BY <1>2, <2>1 DEF Leads
<1>5. \A g \in OwnFields \ p.todo : a[g] = p.desired.spec[g]
  BY <1>1, <1>2, <1>3 DEF ExactPass
<1>6. Exact(k, p, cr[k], a, queued)
  BY <1>1, <1>2, <1>3, <1>4, <1>5 DEF Exact, ExactPass, InCalls
<1>7. QED
  BY <1>1, <1>6, ExactAnswered DEF p

LEMMA ExactEventInvoke ==
  ASSUME Inv, AllExact, NEW k \in Key, syncEventInvokeConfig(k) PROVE AllExact'
<1> DEFINE v == pass[k].desired.spec.eventInvoke
           a == [alias[k] EXCEPT !.eventInvoke = v]
<1>1. Busy(k) /\ ~Idle(k) /\ UNCHANGED <<cr, queued>>
  BY DEF syncEventInvokeConfig, Turn, Busy, Idle, At
<1>2. CASE Refused(k)
  BY <1>1, <1>2, ExactRefused
<1>3. CASE Exists(k) /\ Change(k, a) /\ Answered(k, Done(k, "eventInvoke"))
  <2>1. DOMAIN alias[k] = DOMAIN NoAlias
    BY <1>1, <1>3, AtWork, FieldsOfAlias DEF SoundAlias, Exists, NoAlias
  <2>2. /\ a.by = alias[k].by /\ a.policy = alias[k].policy /\ a.eventInvoke = v
        /\ \A g \in OwnFields \ {"eventInvoke"} : a[g] = alias[k][g]
    BY <2>1 DEF NoAlias, OwnFields
  <2> HIDE DEF a
  <2>3. QED
    BY <1>1, <1>3, <2>2, ExactDone
<1>4. QED
  BY <1>2, <1>3 DEF syncEventInvokeConfig

LEMMA ExactProvisioned ==
  ASSUME Inv, AllExact, NEW k \in Key, updateProvisionedConcurrency(k)
  PROVE  AllExact'
<1> DEFINE v == pass[k].desired.spec.provisioned
           a == [alias[k] EXCEPT !.provisioned = v]
<1>1. Busy(k) /\ ~Idle(k) /\ UNCHANGED <<cr, queued>>
  BY DEF updateProvisionedConcurrency, Turn, Busy, Idle, At
<1>2. CASE Refused(k)
  BY <1>1, <1>2, ExactRefused
<1>3. CASE Exists(k) /\ Change(k, a) /\ Answered(k, Done(k, "provisioned"))
  <2>1. DOMAIN alias[k] = DOMAIN NoAlias
    BY <1>1, <1>3, AtWork, FieldsOfAlias DEF SoundAlias, Exists, NoAlias
  <2>2. /\ a.by = alias[k].by /\ a.policy = alias[k].policy /\ a.provisioned = v
        /\ \A g \in OwnFields \ {"provisioned"} : a[g] = alias[k][g]
    BY <2>1 DEF NoAlias, OwnFields
  <2> HIDE DEF a
  <2>3. QED
    BY <1>1, <1>3, <2>2, ExactDone
<1>4. QED
  BY <1>2, <1>3 DEF updateProvisionedConcurrency

(* The plan is right, made from what was read or for an alias just created.*)
LEMMA ExactPlan ==
  ASSUME Inv, AllExact, NEW k \in Key, syncPermissions(k) PROVE AllExact'
<1> DEFINE wanted == pass[k].desired.spec.permissions
           latest == IF At(k, "configure") THEN <<>>
                     ELSE pass[k].latest.spec.permissions
           calls == comparePermissions(wanted, latest)
           plan == [revision |-> Recorded(k), calls |-> calls]
           p == [pass[k] EXCEPT !.todo = (@ \ {"permissions"}) \cup {"policy"},
                                !.found = plan]
<1>1. /\ ~Idle(k) /\ UNCHANGED <<cr, queued, spent, alias>>
      /\ "permissions" \in pass[k].todo /\ InCalls(pass[k])
  BY DEF syncPermissions, Turn, Busy, Idle, At, InCalls
<1>2. CASE EndPass(k, "Terminal")
  BY <1>1, <1>2, ExactEnd, ExactIs
<1>3. CASE pass' = [pass EXCEPT
                      ![k].todo = (@ \ {"permissions"}) \cup {"policy"},
                      ![k].found = plan]
  <2>1. /\ wanted \in Seq(Permission) /\ latest \in Seq(Permission)
        /\ \A i \in DOMAIN wanted : wanted[i].grant # Nil
    BY <1>1, SpecsOfPass, SpecFields DEF Written
  <2>2. /\ alias[k].policy \in SUBSET [sid : Sid, grant : Grant]
        /\ \A x, y \in alias[k].policy : x.sid = y.sid => x = y
    BY <1>1, AtWork, PolicyType DEF SoundAlias
  <2>3. ExactPass(k, pass[k], cr[k], alias[k], queued)
    BY <1>1, ExactIs
  <2>4. Statements(latest) = {Reread(x) : x \in alias[k].policy}
    <3>1. Leads(pass[k], alias[k])
      BY <1>1, <2>3 DEF ExactPass
    <3>2. CASE pass[k].pc = "configure"
      <4>1. alias[k].policy = {}
        BY <1>1, <3>1, <3>2 DEF Leads
      <4>2. Statements(<<>>) = {}
        BY DEF Statements
      <4>3. QED
        BY <3>2, <4>1, <4>2 DEF At
    <3>3. CASE pass[k].pc = "update"
      BY <1>1, <3>1, <3>3 DEF Leads, At
    <3>4. QED
      BY <1>1, <3>2, <3>3 DEF InCalls
  <2> HIDE DEF latest
  <2>5. Outcome(alias[k].policy, calls) = Statements(wanted)
    BY <2>1, <2>2, <2>4, PlanIsRight
  <2>6. plan.calls = calls
    OBVIOUS
  <2> HIDE DEF plan, calls
  <2>7. pass' = [pass EXCEPT ![k] = p]
    BY <1>3, ExactIs
  <2>8. /\ p.pc = pass[k].pc /\ p.desired = pass[k].desired /\ p.found = plan
        /\ p.todo = (pass[k].todo \ {"permissions"}) \cup {"policy"}
    BY ExactIs DEF IdlePass
  <2> HIDE DEF p
  <2>9. Leads(p, alias[k])
    BY <2>5, <2>6, <2>8 DEF Leads
  <2>10. \A f \in OwnFields \ p.todo : alias[k][f] = p.desired.spec[f]
    BY <1>1, <2>3, <2>8 DEF ExactPass, OwnFields
  <2>11. Exact(k, p, cr[k], alias[k], queued)
    BY <1>1, <2>3, <2>8, <2>9, <2>10 DEF Exact, ExactPass, InCalls
  <2>12. QED
    BY <1>1, <2>7, <2>11, ExactOfPass
<1>4. QED
  BY <1>2, <1>3 DEF syncPermissions

(* A call of the plan is made: what the others lead to stays.              *)
LEMMA ExactCall ==
  ASSUME Inv, AllExact, NEW k \in Key, Busy(k), "policy" \in pass[k].todo,
         NEW c \in pass[k].found.calls, NEW ps, Exists(k),
         Outcome(ps, pass[k].found.calls \ {c})
           = Outcome(alias[k].policy, pass[k].found.calls),
         Change(k, [alias[k] EXCEPT !.policy = ps, !.revision = Revision(k)]),
         Answered(k, [pass[k] EXCEPT !.found.calls = @ \ {c}]),
         UNCHANGED <<cr, queued>>
  PROVE  AllExact'
<1> DEFINE a == [alias[k] EXCEPT !.policy = ps, !.revision = Revision(k)]
           plan == [pass[k].found EXCEPT !.calls = @ \ {c}]
           p == [pass[k] EXCEPT !.found = plan]
<1>1. ~Idle(k) /\ InCalls(pass[k])
  BY DEF Busy, Idle, At, InCalls
<1>2. DOMAIN alias[k] = DOMAIN NoAlias
  BY <1>1, AtWork, FieldsOfAlias DEF SoundAlias, Exists, NoAlias
<1>3. /\ a.by = alias[k].by /\ a.policy = ps
      /\ \A f \in OwnFields : a[f] = alias[k][f]
  BY <1>2 DEF NoAlias, OwnFields
<1> HIDE DEF a
<1>4. pass[k].found \in Plan
  BY <1>1, AtWork DEF Knows
<1>5. plan.calls = pass[k].found.calls \ {c}
  BY <1>4 DEF Plan
<1> HIDE DEF plan
<1>6. /\ p.pc = pass[k].pc /\ p.desired = pass[k].desired
      /\ p.latest = pass[k].latest /\ p.found = plan /\ p.todo = pass[k].todo
  BY <1>1, ExactIs DEF IdlePass
<1>7. Answered(k, p) /\ Change(k, a)
  BY DEF plan, a
<1> HIDE DEF p
<1>8. ExactPass(k, pass[k], cr[k], alias[k], queued)
  BY <1>1, ExactIs
<1>9. Leads(p, a)
  <2>1. Leads(pass[k], alias[k]) /\ "permissions" \notin pass[k].todo
    BY <1>1, <1>8, AtWork DEF ExactPass, Knows
  <2>2. QED
    BY <1>3, <1>5, <1>6, <2>1 DEF Leads
<1>10. Exact(k, p, cr[k], a, queued)
  BY <1>1, <1>3, <1>6, <1>8, <1>9 DEF Exact, ExactPass, InCalls
<1>11. QED
  BY <1>1, <1>7, <1>10, ExactAnswered

LEMMA ExactRemove ==
  ASSUME Inv, AllExact, NEW k \in Key, Busy(k), "policy" \in pass[k].todo,
         NEW c \in pass[k].found.calls, removePermission(k, c),
         UNCHANGED <<cr, queued>>
  PROVE  AllExact'
<1> DEFINE gone == {p \in alias[k].policy : p.sid = c.sid}
           ps == alias[k].policy \ gone
<1>1. ~Idle(k) /\ c.call = "remove"
  BY DEF Busy, Idle, At, removePermission
<1>2. CASE Refused(k)
  BY <1>1, <1>2, ExactRefused
<1>3. CASE /\ gone # {}
           /\ Change(k, [alias[k] EXCEPT !.policy = ps, !.revision = Revision(k)])
           /\ Answered(k, [pass[k] EXCEPT !.found.calls = @ \ {c}])
  <2>1. Exists(k)
    BY <1>1, <1>3, AtWork, PolicyType DEF Exists
  <2>2. ps = {x \in alias[k].policy : x.sid # c.sid}
    OBVIOUS
  <2> HIDE DEF ps
  <2>3. Outcome(ps, pass[k].found.calls \ {c})
          = Outcome(alias[k].policy, pass[k].found.calls)
    BY <1>1, <2>2, RemovalKeepsOutcome
  <2>4. QED
    BY <1>3, <2>1, <2>3, ExactCall
<1>4. QED
  BY <1>2, <1>3 DEF removePermission

LEMMA ExactAdd ==
  ASSUME Inv, AllExact, NEW k \in Key, Busy(k), "policy" \in pass[k].todo,
         NEW c \in pass[k].found.calls, addPermission(k, c),
         UNCHANGED <<cr, queued>>
  PROVE  AllExact'
<1> DEFINE ps == alias[k].policy \cup {[sid |-> c.sid, grant |-> c.grant]}
<1>1. ~Idle(k) /\ \A d \in pass[k].found.calls : d.call = "add"
  BY DEF Busy, Idle, At, addPermission
<1>2. CASE Refused(k)
  BY <1>1, <1>2, ExactRefused
<1>3. CASE /\ Exists(k)
           /\ Change(k, [alias[k] EXCEPT !.policy = ps, !.revision = Revision(k)])
           /\ Answered(k, [pass[k] EXCEPT !.found.calls = @ \ {c}])
  <2>1. Outcome(ps, pass[k].found.calls \ {c})
          = Outcome(alias[k].policy, pass[k].found.calls)
    BY <1>1, AdditionKeepsOutcome
  <2> HIDE DEF ps
  <2>2. QED
    BY <1>3, <2>1, ExactCall
<1>4. QED
  BY <1>2, <1>3 DEF addPermission

(* With its last call the plan has been carried out.                       *)
LEMMA ExactPolicyDone ==
  ASSUME Inv, AllExact, NEW k \in Key, Busy(k), "policy" \in pass[k].todo,
         pass[k].found.calls = {}, pass' = [pass EXCEPT ![k] = Done(k, "policy")],
         UNCHANGED <<cr, queued, alias>>
  PROVE  AllExact'
<1> DEFINE p == Done(k, "policy")
<1>1. ~Idle(k) /\ InCalls(pass[k])
  BY DEF Busy, Idle, At, InCalls
<1>2. /\ p.pc = pass[k].pc /\ p.desired = pass[k].desired
      /\ p.todo = pass[k].todo \ {"policy"}
  BY ExactIs DEF IdlePass, Done
<1> HIDE DEF p
<1>3. ExactPass(k, pass[k], cr[k], alias[k], queued)
  BY <1>1, ExactIs
<1>4. Leads(p, alias[k])
  <2>1. Leads(pass[k], alias[k]) /\ "permissions" \notin pass[k].todo
    BY <1>1, <1>3, AtWork DEF ExactPass, Knows
  <2>2. Outcome(alias[k].policy, {}) = alias[k].policy
    BY DEF Outcome
  <2>3. QED
    BY <1>2, <2>1, <2>2 DEF Leads
<1>5. \A f \in OwnFields \ p.todo : alias[k][f] = p.desired.spec[f]
  BY <1>1, <1>2, <1>3 DEF ExactPass, OwnFields
<1>6. Exact(k, p, cr[k], alias[k], queued)
  BY <1>1, <1>2, <1>3, <1>4, <1>5 DEF Exact, ExactPass, InCalls
<1>7. QED
  BY <1>6, ExactOfPass DEF p

LEMMA ExactPermissions ==
  ASSUME Inv, AllExact, NEW k \in Key, Permissions(k) PROVE AllExact'
BY ExactPlan, ExactRemove, ExactAdd, ExactPolicyDone DEF Permissions

(* What an alias is created with; the rest is to be done.                  *)
LEMMA ExactCreate ==
  ASSUME Inv, AllExact, NEW k \in Key, sdkCreate(k) PROVE AllExact'
<1> DEFINE s == pass[k].desired.spec
           new == [NoAlias EXCEPT !.by = "us", !.version = s.version,
                                  !.routing = s.routing, !.revision = Revision(k)]
           plan == [revision |-> new.revision, calls |-> {}]
           todo == {f \in {"eventInvoke", "provisioned"} : s[f] # Nil}
                   \cup {f \in {"permissions"} : s[f] # <<>>}
           p == [pass[k] EXCEPT !.pc = "configure", !.found = plan, !.todo = todo]
<1>1. pass[k].pc = "create" /\ ~Idle(k) /\ UNCHANGED <<cr, queued>>
  BY DEF sdkCreate, At, Idle
<1>2. CASE Refused(k)
  BY <1>1, <1>2, ExactRefused
<1>3. CASE Change(k, new) /\ Answered(k, p)
  <2>1. /\ new.by = "us" /\ new.version = s.version /\ new.routing = s.routing
        /\ new.eventInvoke = Nil /\ new.provisioned = Nil /\ new.policy = {}
    BY DEF NoAlias
  <2> HIDE DEF new
  <2>2. \A f \in OwnFields \ todo : new[f] = s[f]
    BY <2>1 DEF OwnFields
  <2>3. /\ "policy" \notin todo
        /\ "permissions" \notin todo => Statements(s.permissions) = {}
    BY DEF Statements
  <2> HIDE DEF plan, todo
  <2>4. /\ p.pc = "configure" /\ p.desired = pass[k].desired /\ p.found = plan
        /\ p.todo = todo
    BY <1>1, ExactIs DEF IdlePass
  <2> HIDE DEF p
  <2>5. Leads(p, new)
    BY <2>1, <2>3, <2>4 DEF Leads
  <2>6. Exact(k, p, cr[k], new, queued)
    BY <1>1, <2>1, <2>2, <2>4, <2>5, ExactIs DEF Exact, ExactPass
  <2>7. QED
    BY <1>1, <1>3, <2>6, ExactAnswered
<1>4. QED
  BY <1>2, <1>3 DEF sdkCreate

(* Nothing is left to do: the alias is as the pass wants it.               *)
LEMMA NothingLeft ==
  ASSUME Inv, AllExact, NEW k \in Key, InCalls(pass[k]), pass[k].todo = {}
  PROVE  Same(pass[k].desired.spec, alias[k])
<1>1. ExactPass(k, pass[k], cr[k], alias[k], queued)
  BY ExactIs DEF InCalls, Idle, At
<1>2. QED
  BY <1>1 DEF ExactPass, Leads, Same

LEMMA ExactCreated ==
  ASSUME Inv, AllExact, NEW k \in Key, Created(k) PROVE AllExact'
<1> DEFINE l == [spec |-> pass[k].desired.spec,
                 status |-> [revision |-> pass[k].found.revision]]
           p == [pass[k] EXCEPT !.pc = "read", !.why = "created", !.found = Nil,
                                !.latest = l]
<1>1. /\ pass[k].pc = "configure" /\ ~Idle(k) /\ UNCHANGED <<cr, queued, alias>>
      /\ pass[k].todo = {} /\ InCalls(pass[k])
  BY DEF Created, At, Idle, InCalls
<1>2. pass' = [pass EXCEPT ![k] = p]
  BY <1>1, ExactIs DEF Created
<1>3. p.pc = "read" /\ p.desired = pass[k].desired
  BY <1>1, ExactIs DEF IdlePass
<1> HIDE DEF p
<1>4. Exact(k, p, cr[k], alias[k], queued)
  BY <1>1, <1>3, ExactIs, NothingLeft DEF Exact, ExactPass, InCalls
<1>5. QED
  BY <1>1, <1>2, <1>4, ExactOfPass

LEMMA ExactNothingExcept ==
  ASSUME Inv, AllExact, NEW k \in Key, NothingExcept(k) PROVE AllExact'
<1> DEFINE l == [spec |-> pass[k].desired.spec, status |-> pass[k].desired.status]
           p == [pass[k] EXCEPT !.pc = "finish", !.outcome = "Synced",
                                !.found = Nil, !.latest = l]
<1>1. /\ pass[k].pc = "update" /\ ~Idle(k) /\ UNCHANGED <<cr, queued, alias>>
      /\ pass[k].todo = {} /\ InCalls(pass[k])
  BY DEF NothingExcept, At, Idle, InCalls
<1>2. pass' = [pass EXCEPT ![k] = p]
  BY <1>1, ExactIs DEF NothingExcept
<1>3. p.pc = "finish" /\ p.desired = pass[k].desired
  BY <1>1, ExactIs DEF IdlePass
<1> HIDE DEF p
<1>4. Exact(k, p, cr[k], alias[k], queued)
  BY <1>1, <1>3, ExactIs, NothingLeft DEF Exact, ExactPass, InCalls
<1>5. QED
  BY <1>1, <1>2, <1>4, ExactOfPass

(* UpdateAlias brings the last two fields, routing only if it is set.      *)
LEMMA ExactUpdate ==
  ASSUME Inv, AllExact, NEW k \in Key, UpdateAlias(k) PROVE AllExact'
<1> DEFINE u == Updated(k)
           d == pass[k].desired.spec
           r == IF d.routing = Nil THEN alias[k].routing ELSE d.routing
           a == [alias[k] EXCEPT !.version = u.spec.version,
                                 !.revision = u.status.revision, !.routing = r]
           p == [pass[k] EXCEPT !.pc = "writeback", !.latest = u, !.found = Nil,
                                !.todo = {}]
<1>1. /\ pass[k].pc = "update" /\ ~Idle(k) /\ UNCHANGED <<cr, queued>>
      /\ pass[k].todo \subseteq AliasFields /\ InCalls(pass[k])
  BY DEF UpdateAlias, At, Idle, InCalls
<1>2. CASE Refused(k)
  BY <1>1, <1>2, ExactRefused
<1>3. CASE Exists(k) /\ Change(k, a) /\ Answered(k, p)
  <2>1. /\ u.spec.version = d.version /\ u.spec.permissions = d.permissions
        /\ u.spec.routing = r /\ u.spec.eventInvoke = d.eventInvoke
        /\ u.spec.provisioned = d.provisioned
    <3>1. d \in AliasSpec
      BY <1>1, SpecsOfPass
    <3>2. d = [version |-> d.version, routing |-> d.routing,
               eventInvoke |-> d.eventInvoke, provisioned |-> d.provisioned,
               permissions |-> d.permissions]
      BY <3>1, SpecFields
    <3>3. ASSUME NEW x, x = [d EXCEPT !.routing = IF @ = Nil THEN alias[k].routing
                                                  ELSE @]
          PROVE  x = [version |-> d.version, routing |-> r,
                      eventInvoke |-> d.eventInvoke, provisioned |-> d.provisioned,
                      permissions |-> d.permissions]
      BY <3>2, <3>3
    <3>4. u.spec = [version |-> d.version, routing |-> r,
                    eventInvoke |-> d.eventInvoke, provisioned |-> d.provisioned,
                    permissions |-> d.permissions]
      BY <3>3 DEF Updated
    <3>5. QED
      BY <3>4
  <2>2. DOMAIN alias[k] = DOMAIN NoAlias
    BY <1>1, <1>3, AtWork, FieldsOfAlias DEF SoundAlias, Exists, NoAlias
  <2> HIDE DEF u, r
  <2>3. /\ a.by = alias[k].by /\ a.policy = alias[k].policy
        /\ a.version = u.spec.version /\ a.routing = r
        /\ a.eventInvoke = alias[k].eventInvoke
        /\ a.provisioned = alias[k].provisioned
    BY <2>2 DEF NoAlias
  <2> HIDE DEF a
  <2>4. /\ p.pc = "writeback" /\ p.desired = pass[k].desired /\ p.latest = u
    BY <1>1, ExactIs DEF IdlePass
  <2> HIDE DEF p
  <2>5. /\ alias[k].eventInvoke = d.eventInvoke
        /\ alias[k].provisioned = d.provisioned
        /\ alias[k].policy = Statements(d.permissions)
    BY <1>1, ExactIs DEF ExactPass, Leads, AliasFields, OwnFields
  <2>6. Same(u.spec, a)
    BY <1>3, <2>1, <2>3, <2>5 DEF Same, OwnFields, Exists
  <2>7. Exact(k, p, cr[k], a, queued)
    BY <1>1, <2>4, <2>6, ExactIs DEF Exact, ExactPass, InCalls
  <2>8. QED
    BY <1>1, <1>3, <2>7, ExactAnswered
<1>4. QED
  BY <1>2, <1>3 DEF UpdateAlias

(* A patch that leaves the spec leaves it as the answer has it, unless a   *)
(* user has edited it.                                                     *)
LEMMA PatchOfAnswer ==
  ASSUME NEW g \in AliasSpec, NEW l \in AliasSpec
  PROVE  Patched(g, l, g) = g => l = g
<1>1. DOMAIN g = DOMAIN l /\ g = [f \in DOMAIN g |-> g[f]]
      /\ l = [f \in DOMAIN l |-> l[f]]
  BY DEF AliasSpec
<1>2. ASSUME Patched(g, l, g) = g, NEW f \in DOMAIN g PROVE l[f] = g[f]
  BY <1>2 DEF Patched
<1>3. QED
  BY <1>1, <1>2

LEMMA ExactWriteBack ==
  ASSUME Inv, AllExact, NEW k \in Key, WriteBack(k) PROVE AllExact'
<1> DEFINE g == pass[k].desired.spec
           l == pass[k].latest.spec
           s == Patched(g, l, cr[k].spec)
           c == [cr[k] EXCEPT !.spec = s]
           p == [pass[k] EXCEPT !.pc = "finish", !.outcome = "Synced"]
<1>1. pass[k].pc = "writeback" /\ ~Idle(k) /\ StoreSpec(k, s) /\ UNCHANGED alias
  BY DEF WriteBack, PatchSpec, At, Idle
<1>2. /\ g \in AliasSpec /\ l \in AliasSpec
      /\ ExactPass(k, pass[k], cr[k], alias[k], queued)
  BY <1>1, SpecsOfPass, ExactIs
<1> HIDE DEF s
<1>3. /\ cr' = [cr EXCEPT ![k] = c] /\ pass' = [pass EXCEPT ![k] = p]
      /\ queued' \cup {k} = queued \cup {k}
      /\ k \notin queued' => k \notin queued /\ s = cr[k].spec
  <2>1. cr' = [cr EXCEPT ![k].spec = s] /\ EndPass(k, "Synced")
    BY <1>1 DEF WriteBack, StoreSpec
  <2>2. cr' = [cr EXCEPT ![k] = c] /\ pass' = [pass EXCEPT ![k] = p]
    BY <2>1, ExactIs DEF EndPass
  <2>3. queued' = IF s # cr[k].spec THEN queued \cup {k} ELSE queued
    BY <1>1 DEF StoreSpec
  <2> HIDE DEF c, p
  <2>4. QED
    BY <2>2, <2>3
<1>4. p.pc = "finish" /\ p.desired = pass[k].desired
  BY <1>1, ExactIs DEF IdlePass
<1>5. /\ cr[k].exists /\ SoundCR(cr[k], AliasSpec, Statuses)
  BY <1>1, AtWork DEF Inv, PassInv, SoundPass, SoundCR, Held
<1>6. c.exists = cr[k].exists /\ (s = cr[k].spec => c.spec = cr[k].spec)
  <2>1. cr[k] \in [exists : {TRUE}, spec : AliasSpec, status : Statuses,
                   deleting : BOOLEAN, finalizer : BOOLEAN, cond : Conditions]
    BY <1>5, ExistingCR DEF SoundCR
  <2>2. QED
    BY <2>1
<1> HIDE DEF c, p
<1>7. k \notin queued' => l = g
  BY <1>2, <1>3, PatchOfAnswer DEF ExactPass, s
<1>8. Exact(k, p, c, alias[k], queued')
  BY <1>1, <1>2, <1>3, <1>4, <1>5, <1>6, <1>7 DEF Exact, ExactPass, InCalls
<1>9. QED
  BY <1>1, <1>3, <1>8, ExactIs, ExactStep

LEMMA ExactDelete ==
  ASSUME Inv, AllExact, NEW k \in Key, sdkDelete(k) PROVE AllExact'
<1> DEFINE p == [pass[k] EXCEPT !.pc = "unmanage"]
<1>1. /\ pass[k].pc = "delete" /\ ~Idle(k) /\ UNCHANGED <<cr, queued>>
      /\ Change(k, NoAlias) /\ Answered(k, p)
  BY DEF sdkDelete, At, Idle
<1>2. p.pc = "unmanage" /\ p.desired = pass[k].desired
  BY <1>1, ExactIs DEF IdlePass
<1> HIDE DEF p
<1>3. Exact(k, p, cr[k], NoAlias, queued)
  BY <1>1, <1>2, ExactIs DEF Exact, ExactPass, InCalls
<1>4. QED
  BY <1>1, <1>3, ExactAnswered

-----------------------------------------------------------------------------
(* What users do puts the key in the queue.                                *)
LEMMA ExactUser ==
  ASSUME Inv, AllExact, NEW k \in Key, NEW c, cr' = [cr EXCEPT ![k] = c],
         UNCHANGED <<pass, alias>>, queued' = queued \cup {k}
  PROVE  AllExact'
<1>1. Exact(k, pass[k], c, alias[k], queued')
  BY ExactIs DEF Exact, ExactPass
<1>2. /\ pass' = [pass EXCEPT ![k] = pass[k]]
      /\ alias' = [alias EXCEPT ![k] = alias[k]]
  BY ExactIs
<1>3. QED
  BY <1>1, <1>2, ExactStep

LEMMA ExactEnvironment ==
  ASSUME Inv, AllExact, NEW k \in Key, Environment(k) PROVE AllExact'
<1>0. alias' = alias
  BY DEF Environment
<1>1. CASE CallFails(k)
  <2>1. ~Idle(k) /\ EndPass(k, "Recoverable") /\ UNCHANGED <<cr, queued>>
    BY <1>1 DEF CallFails, Idle, At
  <2>2. QED
    BY <1>0, <2>1, ExactEnd, ExactIs
<1>2. CASE Resync(k)
  <2>1. UNCHANGED <<cr, pass>> /\ queued' = queued \cup {k}
    BY <1>2 DEF Resync
  <2>2. cr' = [cr EXCEPT ![k] = cr[k]]
    BY <2>1, ExactIs
  <2>3. QED
    BY <1>0, <2>1, <2>2, ExactUser
<1>3. ASSUME NEW s \in Specs, UserApply(k, s, NoStatus) PROVE AllExact'
  BY <1>0, <1>3, ExactUser DEF UserApply
<1>4. ASSUME NEW s \in Specs, UserEdit(k, s) PROVE AllExact'
  <2>1. cr' = [cr EXCEPT ![k] = [cr[k] EXCEPT !.spec = s]]
    BY <1>4, ExactIs DEF UserEdit
  <2>2. UNCHANGED pass /\ queued' = queued \cup {k}
    BY <1>4 DEF UserEdit
  <2>3. QED
    BY <1>0, <2>1, <2>2, ExactUser
<1>5. CASE UserDelete(k)
  <2> DEFINE c == IF cr[k].finalizer THEN [cr[k] EXCEPT !.deleting = TRUE] ELSE NoCR
  <2>1. cr' = [cr EXCEPT ![k] = c]
    BY <1>5, ExactIs DEF UserDelete
  <2>2. UNCHANGED pass /\ queued' = queued \cup {k}
    BY <1>5 DEF UserDelete
  <2>3. QED
    BY <1>0, <2>1, <2>2, ExactUser
<1>6. QED
  BY <1>1, <1>2, <1>3, <1>4, <1>5 DEF Environment

LEMMA ExactHandlers ==
  ASSUME Inv, AllExact, NEW k \in Key, Handlers(k) PROVE AllExact'
BY ExactOther, ExactFind, ExactFields, ExactCreate, ExactCreated, ExactUpdate,
   ExactNothingExcept, ExactWriteBack, ExactDelete, ExactEventInvoke,
   ExactProvisioned, ExactPermissions
   DEF Handlers, ReadOne, Create, Update, sdkUpdate, Delete

LEMMA NextKeepsExact == Inv /\ ExactInv /\ [Next]_vars => ExactInv'
<1> SUFFICES ASSUME Inv, ExactInv, [Next]_vars, NoDriftYet' PROVE AllExact'
  BY DEF ExactInv
<1>1. CASE UNCHANGED vars
  BY <1>1 DEF vars, passVars, NoDriftYet, ExactInv, AllExact
<1>2. ASSUME NEW k \in Key, Handlers(k) \/ Environment(k) \/ Drift(k)
      PROVE  AllExact'
  <2>1. NoDriftYet /\ ~Drift(k)
    BY <1>2, QuietSteps
  <2>2. QED
    BY <1>2, <2>1, ExactHandlers, ExactEnvironment DEF ExactInv
<1>3. CASE Crash /\ UNCHANGED alias
  <2>1. \A k \in Key : /\ pass'[k] = IdlePass
                       /\ ~cr'[k].exists \/ k \in queued'
    BY <1>3 DEF Crash
  <2>2. QED
    BY <2>1, IdleExact DEF AllExact
<1>4. QED
  BY <1>1, <1>2, <1>3 DEF Next

LEMMA ExactInvHolds == Spec => []ExactInv
<1>1. Init => ExactInv
  <2> SUFFICES ASSUME Init, NEW k \in Key
               PROVE  Exact(k, pass[k], cr[k], alias[k], queued)
    BY DEF ExactInv, AllExact
  <2>1. pass[k] = IdlePass /\ k \in queued
    BY DEF Init, PassInit
  <2>2. QED
    BY <2>1, IdleExact
<1>2. QED
  BY <1>1, NextKeepsExact, InvHolds, PTL DEF Spec

(* A CR that rests as Synced has its alias as it asks for and a policy with*)
(* exactly its statements, for any number of CRs and statements, whatever  *)
(* users edit and whichever calls fail: the reads show all that a failure  *)
(* between two calls may have left behind.                                 *)
THEOREM SyncedIsApplied == Spec => []SyncedMeansApplied
<1>1. Inv /\ ExactInv => SyncedMeansApplied
  <2> SUFFICES ASSUME Inv, AllExact, NEW k \in Key, Rests(k), cr[k].exists,
                      cr[k].cond = "Synced"
               PROVE  Applied(k)
    BY DEF ExactInv, SyncedMeansApplied
  <2>1. Same(cr[k].spec, alias[k])
    BY ExactIs DEF Exact, Rests, Idle, At
  <2>2. QED
    BY <2>1 DEF Same, Applied, Exists, OwnFields
<1>2. QED
  BY <1>1, InvHolds, ExactInvHolds, PTL

-----------------------------------------------------------------------------
(* Nothing is forgotten.                                                   *)

Work == Held \cup {"manage"}

LEMMA WorkIsApart == SetApart(Work)
BY DEF SetApart, Work, Held

LEMMA ShapeIs == ASSUME Inv PROVE Shaped(AliasSpec, Statuses)
BY InvGivesShape DEF Inv

LEMMA Finalized ==
  ASSUME Inv, NEW k \in Key, ~Idle(k)
  PROVE  /\ IsManaged(k) => cr[k].finalizer
         /\ pass[k].why = "created" => cr[k].finalizer
         /\ pass[k].pc \in Held => cr[k].finalizer
         /\ cr[k].finalizer => cr[k].exists
BY DEF Inv, PassInv, SoundPass, SoundCR, IsManaged, Idle, At

LEMMA AnsweredWorks ==
  ASSUME Inv, NEW k \in Key, ~Idle(k), NEW p, Answered(k, p),
         UNCHANGED <<cr, queued>>, p.pc # "idle",
         pass[k].why = "delete" => p.why = "delete" /\ p.pc \notin Work,
         pass[k].why # "delete" => p.why # "delete",
         p.pc = "finish" => Ended(p, cr[k])
  PROVE  Works(k, Work)
<1>1. CASE EndPass(k, "Recoverable")
  BY <1>1, ShapeIs, WorkIsApart, EndWorks
<1>2. CASE pass' = [pass EXCEPT ![k] = p]
  BY <1>2, ShapeIs, MoveWorks DEF Idle, At
<1>3. QED
  BY <1>1, <1>2 DEF Answered

LEMMA RefusedWorks ==
  ASSUME Inv, NEW k \in Key, ~Idle(k), Refused(k), UNCHANGED <<cr, queued>>
  PROVE  Works(k, Work)
BY ShapeIs, WorkIsApart, EndWorks DEF Refused

LEMMA ReadWorks ==
  ASSUME Inv, NEW k \in Key, ReadOne(k) PROVE Works(k, Work)
<1>1. CASE sdkFind(k)
  <2>1. CASE NotFound(k)
    BY <1>1, <2>1, ShapeIs, WorkIsApart, NotFoundWorks DEF sdkFind, Idle, At
  <2>2. CASE pass' = [pass EXCEPT ![k].pc = "fields", ![k].latest = Observed(k)]
    <3> DEFINE q == [pass[k] EXCEPT !.pc = "fields", !.latest = Observed(k)]
    <3>1. pass' = [pass EXCEPT ![k] = q] /\ q.pc = "fields" /\ q.why = pass[k].why
      BY <2>2, ShapeIs, PassFields
    <3>2. pass[k].pc = "read" /\ UNCHANGED <<cr, queued>>
      BY <1>1 DEF sdkFind, At
    <3>3. "fields" \notin Work
      BY DEF Work, Held
    <3> HIDE DEF q
    <3>4. QED
      BY <3>1, <3>2, <3>3, ShapeIs, MoveWorks
  <2>3. QED
    BY <1>1, <2>1, <2>2 DEF sdkFind
<1>2. CASE setResourceAdditionalFields(k)
  <2> DEFINE q(l, o, s, d) == [pass[k] EXCEPT !.pc = l, !.outcome = o,
                                              !.latest.spec = s, !.todo = d]
  <2>1. PICK l, o, s, d :
          /\ pass' = [pass EXCEPT ![k] = q(l, o, s, d)]
          /\ \/ pass[k].why = "created" /\ l = "finish" /\ o = "Synced"
             \/ pass[k].why = "delete" /\ l = "delete"
             \/ pass[k].why = "sync" /\ l = "finish" /\ o = "Terminal"
             \/ pass[k].why = "sync" /\ IsManaged(k) /\ l = "finish" /\ o = "Synced"
             \/ pass[k].why = "sync" /\ l = "update"
    BY <1>2 DEF setResourceAdditionalFields
  <2>2. q(l, o, s, d).pc = l /\ q(l, o, s, d).outcome = o
        /\ q(l, o, s, d).why = pass[k].why
    BY ShapeIs, PassFields
  <2>3. ~Idle(k) /\ UNCHANGED <<cr, queued>>
    BY <1>2 DEF setResourceAdditionalFields, Idle, At
  <2>4. "delete" \notin Work /\ (IsManaged(k) \/ pass[k].why = "created" => cr[k].finalizer)
    BY <2>3, Finalized DEF Work, Held
  <2> DEFINE r == q(l, o, s, d)
  <2>5. /\ pass' = [pass EXCEPT ![k] = r] /\ r.pc # "idle"
        /\ pass[k].why = "delete" => r.why = "delete" /\ r.pc \notin Work
        /\ pass[k].why # "delete" => r.why # "delete"
        /\ r.pc = "finish" => Ended(r, cr[k])
    BY <2>1, <2>2, <2>4 DEF Ended
  <2> HIDE DEF r
  <2>6. QED
    BY <2>3, <2>5, ShapeIs, MoveWorks DEF Idle, At
<1>3. QED
  BY <1>1, <1>2 DEF ReadOne

LEMMA CallsWork ==
  ASSUME Inv, AllMindful(Work), NEW k \in Key,
         \/ syncEventInvokeConfig(k) \/ updateProvisionedConcurrency(k)
         \/ Permissions(k)
  PROVE  Works(k, Work)
<1>1. /\ ~Idle(k) /\ UNCHANGED <<cr, queued>> /\ pass[k].pc \in {"configure", "update"}
      /\ pass[k].why # "delete"
  <2>1. ~Idle(k) /\ UNCHANGED <<cr, queued>> /\ pass[k].pc \in {"configure", "update"}
    BY DEF syncEventInvokeConfig, updateProvisionedConcurrency, Permissions,
       syncPermissions, Turn, Busy, Idle, At
  <2>2. QED
    BY <2>1 DEF AllMindful, Mindful, Work, Held
<1>2. ASSUME NEW f PROVE Done(k, f).pc = pass[k].pc /\ Done(k, f).why = pass[k].why
  BY ShapeIs, PassFields DEF Done
<1>3. CASE syncEventInvokeConfig(k) \/ updateProvisionedConcurrency(k)
  <2>1. Refused(k) \/ \E f : Answered(k, Done(k, f))
    BY <1>3 DEF syncEventInvokeConfig, updateProvisionedConcurrency
  <2>2. QED
    BY <1>1, <1>2, <2>1, RefusedWorks, AnsweredWorks
<1>4. CASE syncPermissions(k)
  <2>1. CASE EndPass(k, "Terminal")
    BY <1>1, <2>1, ShapeIs, WorkIsApart, EndWorks
  <2>2. CASE ~EndPass(k, "Terminal")
    <3>1. PICK d, f : pass' = [pass EXCEPT ![k].todo = (@ \ {"permissions"}) \cup d,
                                           ![k].found = f]
      BY <1>4, <2>2 DEF syncPermissions
    <3> DEFINE q == [pass[k] EXCEPT !.todo = (@ \ {"permissions"}) \cup d, !.found = f]
    <3>2. pass' = [pass EXCEPT ![k] = q] /\ q.pc = pass[k].pc /\ q.why = pass[k].why
      BY <3>1, ShapeIs, PassFields
    <3> HIDE DEF q
    <3>3. QED
      BY <1>1, <3>2, ShapeIs, MoveWorks
  <2>3. QED
    BY <2>1, <2>2
<1>5. CASE /\ Busy(k)
           /\ \E c \in pass[k].found.calls : removePermission(k, c) \/ addPermission(k, c)
  <2>1. PICK c : removePermission(k, c) \/ addPermission(k, c)
    BY <1>5
  <2> DEFINE q == [pass[k] EXCEPT !.found.calls = @ \ {c}]
  <2>2. q.pc = pass[k].pc /\ q.why = pass[k].why
    BY ShapeIs, PassFields
  <2>3. Refused(k) \/ Answered(k, q)
    BY <2>1 DEF removePermission, addPermission
  <2> HIDE DEF q
  <2>4. QED
    BY <1>1, <2>2, <2>3, RefusedWorks, AnsweredWorks
<1>6. CASE pass' = [pass EXCEPT ![k] = Done(k, "policy")]
  BY <1>1, <1>2, <1>6, ShapeIs, MoveWorks
<1>7. QED
  BY <1>3, <1>4, <1>5, <1>6 DEF Permissions

LEMMA CreateWorks ==
  ASSUME Inv, AllMindful(Work), NEW k \in Key, Create(k) PROVE Works(k, Work)
<1>1. ~Idle(k) /\ UNCHANGED <<cr, queued>> /\ pass[k].why # "delete"
  BY DEF Create, sdkCreate, Created, AllMindful, Mindful, Work, Held, Idle, At
<1>2. CASE sdkCreate(k)
  <2>1. PICK f, d : \/ Refused(k)
                    \/ Answered(k, [pass[k] EXCEPT !.pc = "configure", !.found = f,
                                                   !.todo = d])
    BY <1>2 DEF sdkCreate
  <2> DEFINE q == [pass[k] EXCEPT !.pc = "configure", !.found = f, !.todo = d]
  <2>2. q.pc = "configure" /\ q.why = pass[k].why
    BY ShapeIs, PassFields
  <2>3. Refused(k) \/ Answered(k, q)
    BY <2>1
  <2> HIDE DEF q
  <2>4. QED
    BY <1>1, <2>2, <2>3, RefusedWorks, AnsweredWorks
<1>3. CASE Created(k)
  <2> DEFINE q == [pass[k] EXCEPT
                     !.pc = "read", !.why = "created", !.found = Nil,
                     !.latest = [spec |-> pass[k].desired.spec,
                                 status |-> [revision |-> pass[k].found.revision]]]
  <2>1. pass' = [pass EXCEPT ![k] = q] /\ q.pc = "read" /\ q.why = "created"
    BY <1>3, ShapeIs, PassFields DEF Created
  <2> HIDE DEF q
  <2>2. QED
    BY <1>1, <2>1, ShapeIs, MoveWorks DEF Idle, At
<1>4. QED
  BY <1>2, <1>3 DEF Create

LEMMA UpdateWorks ==
  ASSUME Inv, AllMindful(Work), NEW k \in Key, Update(k) PROVE Works(k, Work)
<1>1. /\ ~Idle(k) /\ UNCHANGED <<cr, queued>> /\ pass[k].why # "delete"
      /\ cr[k].finalizer
  BY Finalized
     DEF Update, sdkUpdate, UpdateAlias, NothingExcept, AllMindful, Mindful, Work,
         Held, Idle, At
<1>2. CASE UpdateAlias(k)
  <2> DEFINE q == [pass[k] EXCEPT !.pc = "writeback", !.latest = Updated(k),
                                  !.found = Nil, !.todo = {}]
  <2>1. q.pc = "writeback" /\ q.why = pass[k].why
    BY ShapeIs, PassFields
  <2>2. Refused(k) \/ Answered(k, q)
    BY <1>2 DEF UpdateAlias
  <2> HIDE DEF q
  <2>3. QED
    BY <1>1, <2>1, <2>2, RefusedWorks, AnsweredWorks
<1>3. CASE NothingExcept(k)
  <2> DEFINE q == [pass[k] EXCEPT
                     !.pc = "finish", !.outcome = "Synced", !.found = Nil,
                     !.latest = [spec |-> pass[k].desired.spec,
                                 status |-> pass[k].desired.status]]
  <2>1. /\ pass' = [pass EXCEPT ![k] = q] /\ q.pc = "finish" /\ q.why = pass[k].why
        /\ q.outcome = "Synced"
    BY <1>3, ShapeIs, PassFields DEF NothingExcept
  <2> HIDE DEF q
  <2>2. QED
    BY <1>1, <2>1, ShapeIs, MoveWorks DEF Idle, At, Ended
<1>4. QED
  BY <1>2, <1>3 DEF Update, sdkUpdate

LEMMA DeleteWorks ==
  ASSUME Inv, AllMindful(Work), NEW k \in Key, Delete(k) PROVE Works(k, Work)
<1> DEFINE q == [pass[k] EXCEPT !.pc = "unmanage"]
<1>1. q.pc = "unmanage" /\ q.why = pass[k].why
  BY ShapeIs, PassFields
<1>2. Answered(k, q) /\ ~Idle(k) /\ UNCHANGED <<cr, queued>>
  BY DEF Delete, sdkDelete, Idle, At
<1> HIDE DEF q
<1>3. QED
  BY <1>1, <1>2, AnsweredWorks DEF Work, Held

LEMMA NextMinds ==
  ASSUME Inv, AllMindful(Work), [Next]_vars PROVE AllMindful(Work)'
<1>1. Shaped(AliasSpec, Statuses) /\ SetApart(Work)
  BY ShapeIs, WorkIsApart
<1>2. ASSUME NEW k \in Key, Handlers(k) PROVE AllMindful(Work)'
  <2>1. CASE Other(k)
    BY <1>1, <2>1, StartMinds, ManageMinds, UnmanageMinds, FinishMinds DEF Other
  <2>2. CASE WriteBack(k)
    <3>1. cr[k].finalizer /\ cr[k].exists /\ pass[k].pc \in Work
      BY <2>2, Finalized DEF WriteBack, Idle, At, Held, Work
    <3>2. QED
      BY <1>1, <2>2, <3>1, StoreMinds DEF WriteBack, PatchSpec, Work, Held
  <2>3. QED
    BY <1>2, <2>1, <2>2, ReadWorks, CreateWorks, UpdateWorks, DeleteWorks, CallsWork,
       WorkMinds DEF Handlers
<1>3. ASSUME NEW k \in Key, Environment(k) PROVE AllMindful(Work)'
  BY <1>1, <1>3, FailMinds, ResyncMinds, UserApplyMinds, UserEditMinds,
     UserDeleteMinds DEF Environment
<1>4. CASE UNCHANGED <<cr, pass, queued>>
  BY <1>4 DEF AllMindful
<1>5. QED
  BY <1>1, <1>2, <1>3, <1>4, CrashMinds DEF Next, Drift, vars, passVars

(* No Alias CR is forgotten, for any number of CRs, edits and failures.    *)
THEOREM NothingIsForgotten == Spec => []NeverForgotten
<1>1. Init => AllMindful(Work)
  BY WorkIsApart, InitMinds DEF Init
<1>2. Inv /\ AllMindful(Work) /\ [Next]_vars => AllMindful(Work)'
  BY NextMinds
<1>3. AllMindful(Work) => NeverForgotten
  BY MindfulSuffices
<1>4. QED
  BY <1>1, <1>2, <1>3, InvHolds, PTL DEF Spec
=============================================================================
