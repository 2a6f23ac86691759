------------------------ MODULE LambdaVersion_proofs ------------------------
(***************************************************************************)
(* Proofs about LambdaVersion for any CRs (a finite set), code, values,    *)
(* specs and limits.                                                       *)
(***************************************************************************)
EXTENDS LambdaVersion, AckPass_proofs, FiniteSetTheorems

(* Version numbers begin with 1, as Lambda's do: 0 stands for $LATEST.     *)
Positive == Nat \ {0}

GoodCR(c) ==
  /\ c \in CRs(VersionSpec, Statuses)
  /\ c.exists => c.status.version # 0
  /\ c.finalizer => c.exists

(* What a pass p over a CR c knows.  The number that a deletion is sent    *)
(* with comes from a read, the read's from the status, and the status's    *)
(* from a publication.  From the creation on the CR has a finalizer and so *)
(* cannot go away.                                                         *)
GoodPass(p, c) ==
  /\ DOMAIN p = DOMAIN IdlePass
  /\ p.pc \in Locations /\ p.why \in Purposes /\ p.outcome \in Conditions
  /\ p.desired \in CRs(VersionSpec, Statuses)
  /\ p.latest \in [spec : VersionSpec \cup {Nil}, status : Statuses \cup {Nil}]
  /\ p.pc # "idle" =>
       /\ p.desired.exists /\ p.desired.status.version # 0
       /\ p.latest.spec \in VersionSpec /\ p.latest.status \in Statuses
       /\ p.latest.status.version # 0
       /\ p.desired.finalizer => c.finalizer
  /\ p.pc \in {"read", "fields"} /\ p.why \in {"created", "updated"} => c.finalizer
  /\ p.pc \in {"create", "publish", "configure", "writeback", "update"} => c.finalizer
  /\ p.pc = "fields" => p.found \in [version : Positive, pending : BOOLEAN]
  /\ p.pc = "delete" => p.latest.status.version # Nil
  /\ p.pc = "configure" => \E n \in Positive : p.todo = {n}

AwsOK ==
  /\ function \in [exists : BOOLEAN, code : Code]
  /\ versions \in Seq(Version)

(* The inductive invariant: what keeps the deletion of a CR from being a   *)
(* deletion of the function is what all its passes know of numbers.        *)
NumbersInv ==
  /\ DOMAIN cr = Key /\ cr = [k \in Key |-> cr[k]]
  /\ DOMAIN pass = Key
  /\ \A k \in Key : GoodCR(cr[k]) /\ GoodPass(pass[k], cr[k])
  /\ queued \subseteq Key
  /\ spent \in Counts
  /\ AwsOK
  /\ raced \subseteq Key /\ unheard \subseteq Key

-----------------------------------------------------------------------------
LEMMA IdleIsGood ==
  ASSUME NEW c PROVE GoodPass(IdlePass, c)
BY DEF GoodPass, IdlePass, NoCR, CRs, Locations, Purposes, Conditions

LEMMA FreshIsGood ==
  ASSUME NEW s \in VersionSpec PROVE GoodCR(FreshCR(s, NoStatus))
BY VersionNil DEF GoodCR, FreshCR, NoStatus, Statuses, CRs, Conditions

LEMMA NoCRIsGood == GoodCR(NoCR)
BY DEF GoodCR, NoCR, CRs

LEMMA SpecsAreSpecs == Specs \subseteq VersionSpec
BY VersionSpecs

LEMMA EndIsGood ==
  ASSUME NEW p, NEW c, GoodPass(p, c), p.pc # "idle", NEW o \in Conditions
  PROVE  GoodPass([p EXCEPT !.pc = "finish", !.outcome = o], c)
BY DEF GoodPass, IdlePass, Locations

(* A step of the pass of k changes the pass and the CR of k at most.       *)
LEMMA OneStep ==
  ASSUME NumbersInv, NEW k \in Key, NEW p, NEW c,
         GoodCR(c), GoodPass(p, c),
         pass' = [pass EXCEPT ![k] = p], cr' = [cr EXCEPT ![k] = c],
         queued' \subseteq Key, spent' \in Counts, AwsOK',
         raced' \subseteq Key, unheard' \subseteq Key
  PROVE  NumbersInv'
BY DEF NumbersInv

LEMMA InitNumbers == Init => NumbersInv
<1> SUFFICES ASSUME Init PROVE NumbersInv
  OBVIOUS
<1>1. \A k \in Key : GoodCR(cr[k])
  BY FreshIsGood, SpecsAreSpecs DEF Init, PassInit
<1>2. \A k \in Key : GoodPass(pass[k], cr[k])
  BY IdleIsGood DEF Init, PassInit
<1>3. spent \in Counts
  BY DEF Init, PassInit, Counts
<1>4. QED
  BY <1>1, <1>2, <1>3 DEF Init, PassInit, NumbersInv, AwsOK

(* Ending a pass, whatever else has happened to AWS.                       *)
LEMMA EndingStep ==
  ASSUME NumbersInv, NEW k \in Key, ~Idle(k), NEW o \in Conditions,
         EndPass(k, o), UNCHANGED <<cr, queued>>, spent' \in Counts, AwsOK',
         raced' \subseteq Key, unheard' \subseteq Key
  PROVE  NumbersInv'
<1> DEFINE p == [pass[k] EXCEPT !.pc = "finish", !.outcome = o]
<1>1. pass' = [pass EXCEPT ![k] = p]
  BY DEF EndPass, NumbersInv
<1>2. GoodPass(p, cr[k])
  BY EndIsGood DEF NumbersInv, Idle, At
<1>3. cr' = [cr EXCEPT ![k] = cr[k]]
  BY DEF NumbersInv
<1> HIDE DEF p
<1>4. QED
  BY <1>1, <1>2, <1>3, OneStep DEF NumbersInv

-----------------------------------------------------------------------------
(* Types of what the handlers compute.                                     *)

LEMMA VersionCR ==
  ASSUME NEW c \in CRs(VersionSpec, Statuses), c.exists
  PROVE  c \in [exists : {TRUE}, spec : VersionSpec, status : Statuses,
                deleting : BOOLEAN, finalizer : BOOLEAN, cond : Conditions]
<1>1. ~NoCR.exists
  BY DEF NoCR
<1>2. QED
  BY <1>1 DEF CRs

LEMMA SpecAndStatusOfCR ==
  ASSUME NEW c \in CRs(VersionSpec, Statuses), c.exists
  PROVE  /\ c.spec \in VersionSpec /\ c.status \in Statuses
         /\ c.deleting \in BOOLEAN /\ c.finalizer \in BOOLEAN
BY VersionCR

LEMMA NumberType ==
  ASSUME NEW s \in Statuses, s.version # 0
  PROVE  s.version \in Positive \cup {Nil}
BY DEF Statuses, Positive

LEMMA PassTypes ==
  ASSUME NumbersInv, NEW k \in Key, ~Idle(k)
  PROVE  /\ pass[k].desired.spec \in VersionSpec
         /\ pass[k].desired.status \in Statuses
         /\ pass[k].desired.status.version \in Positive \cup {Nil}
         /\ pass[k].desired.deleting \in BOOLEAN
         /\ pass[k].desired.finalizer \in BOOLEAN
         /\ pass[k].latest.spec \in VersionSpec
         /\ pass[k].latest.status \in Statuses
         /\ pass[k].latest.status.version \in Positive \cup {Nil}
<1>1. GoodPass(pass[k], cr[k]) /\ pass[k].pc # "idle"
  BY DEF NumbersInv, Idle, At
<1>2. QED
  BY <1>1, SpecAndStatusOfCR, NumberType DEF GoodPass

LEMMA StoredTypes ==
  ASSUME NumbersInv, NEW k \in Key, cr[k].exists
  PROVE  /\ cr[k].spec \in VersionSpec /\ cr[k].status \in Statuses
         /\ cr[k].status.version \in Positive \cup {Nil}
<1>1. GoodCR(cr[k])
  BY DEF NumbersInv
<1>2. QED
  BY <1>1, SpecAndStatusOfCR, NumberType DEF GoodCR

LEMMA ConfigurationTypes ==
  ASSUME AwsOK, NEW n
  PROVE  /\ EventInvokeConfig(n) \in Value \cup {Nil}
         /\ ProvisionedConcurrency(n) \in Value \cup {Nil}
<1>1. CASE Exists(n)
  <2>1. versions[n] \in Version
    BY <1>1 DEF AwsOK, Exists
  <2>2. QED
    BY <1>1, <2>1 DEF EventInvokeConfig, ProvisionedConcurrency, Version
<1>2. CASE ~Exists(n)
  BY <1>2 DEF EventInvokeConfig, ProvisionedConcurrency
<1>3. QED
  BY <1>1, <1>2

LEMMA PutType ==
  ASSUME AwsOK, NEW n, Exists(n), NEW f \in {"eventInvoke", "provisioned"},
         NEW v \in Value \cup {Nil}, Put(n, f, v)
  PROVE  versions' \in Seq(Version)
<1>1. n \in 1..Len(versions) /\ versions[n] \in Version
  BY DEF AwsOK, Exists
<1>2. [versions[n] EXCEPT ![f] = v] \in Version
  BY <1>1 DEF Version
<1>3. QED
  BY <1>1, <1>2 DEF AwsOK, Put

LEMMA RemoveType ==
  ASSUME AwsOK, NEW n, Exists(n),
         versions' = [versions EXCEPT ![n].exists = FALSE]
  PROVE  versions' \in Seq(Version)
<1>1. n \in 1..Len(versions) /\ versions[n] \in Version
  BY DEF AwsOK, Exists
<1>2. [versions[n] EXCEPT !.exists = FALSE] \in Version
  BY <1>1 DEF Version
<1>3. QED
  BY <1>1, <1>2 DEF AwsOK

LEMMA NewVersionType ==
  ASSUME AwsOK, NEW k \in Key \cup {"other"} PROVE NewVersion(k) \in Version
BY DEF AwsOK, NewVersion, Version

LEMMA PatchedType ==
  ASSUME NEW g \in VersionSpec, NEW r \in VersionSpec, NEW s \in VersionSpec
  PROVE  Patched(g, r, s) \in VersionSpec
BY DEF Patched, VersionSpec

-----------------------------------------------------------------------------
(* The steps of a pass.                                                    *)

LEMMA BeginStep ==
  ASSUME NumbersInv, NEW k \in Key, Begin(k) PROVE NumbersInv'
<1> USE DEF Begin, Start
<1>0. spent' \in Counts
  BY SpendType DEF NumbersInv
<1>1. CASE ~cr[k].exists
  BY <1>0, <1>1 DEF NumbersInv, aws, AwsOK
<1>2. CASE cr[k].exists
  <2> DEFINE p == [IdlePass EXCEPT !.pc = "read",
                     !.why = IF cr[k].deleting THEN "delete" ELSE "sync",
                     !.desired = cr[k],
                     !.latest = [spec |-> cr[k].spec, status |-> cr[k].status]]
  <2>1. pass' = [pass EXCEPT ![k] = p]
    BY <1>2
  <2>2. GoodPass(p, cr[k])
    BY <1>2, StoredTypes
       DEF NumbersInv, GoodCR, GoodPass, IdlePass, Locations, Purposes,
           Conditions, Positive
  <2>3. cr' = [cr EXCEPT ![k] = cr[k]]
    BY DEF NumbersInv
  <2> HIDE DEF p
  <2>4. QED
    BY <1>0, <2>1, <2>2, <2>3, OneStep DEF NumbersInv, aws, AwsOK
<1>3. QED
  BY <1>1, <1>2

LEMMA MovingStep ==
  ASSUME NumbersInv, NEW k \in Key, NEW l, Goto(k, l),
         GoodPass([pass[k] EXCEPT !.pc = l], cr[k]),
         UNCHANGED <<cr, queued>>, spent' \in Counts, AwsOK',
         raced' \subseteq Key, unheard' \subseteq Key
  PROVE  NumbersInv'
<1>1. pass' = [pass EXCEPT ![k] = [pass[k] EXCEPT !.pc = l]]
  BY DEF Goto, NumbersInv
<1>2. cr' = [cr EXCEPT ![k] = cr[k]]
  BY DEF NumbersInv
<1>3. QED
  BY <1>1, <1>2, OneStep DEF NumbersInv

LEMMA FindStep ==
  ASSUME NumbersInv, NEW k \in Key, sdkFind(k) PROVE NumbersInv'
<1> USE DEF sdkFind
<1>0. ~Idle(k) /\ spent' \in Counts /\ AwsOK'
  BY DEF Idle, At, NumbersInv, aws, AwsOK
<1>1. CASE Found(k)
  <2> DEFINE n == Qualifier(Number(k))
             f == [version |-> n, pending |-> n > 0 /\ versions[n].pending]
             p == [pass[k] EXCEPT !.pc = "fields", !.found = f]
  <2>1. n \in Positive
    BY <1>0, <1>1, PassTypes DEF Found, Identified, Number, Qualifier, Positive
  <2>2. f \in [version : Positive, pending : BOOLEAN]
    <3>1. CASE Exists(n)
      BY <2>1, <3>1 DEF NumbersInv, AwsOK, Exists, Version, Positive
    <3>2. CASE ~Exists(n)
      BY <1>1, <2>1, <3>2 DEF Found, Identified, Qualifier, Positive
    <3>3. QED
      BY <3>1, <3>2
  <2>3. pass' = [pass EXCEPT ![k] = p]
    BY <1>1 DEF NumbersInv
  <2> HIDE DEF f
  <2>4. GoodPass(p, cr[k])
    BY <1>0, <2>2 DEF NumbersInv, GoodPass, IdlePass, Locations, At, Idle
  <2>5. cr' = [cr EXCEPT ![k] = cr[k]]
    BY DEF NumbersInv
  <2> HIDE DEF p
  <2>6. QED
    BY <1>0, <2>3, <2>4, <2>5, OneStep DEF NumbersInv, history
<1>2. CASE ~Found(k)
  <2>1. NotFound(k)
    BY <1>2
  <2>2. GoodPass(pass[k], cr[k]) /\ pass[k].pc = "read"
    BY DEF NumbersInv, At
  <2>3. CASE pass[k].why = "sync" /\ IsManaged(k)
    <3>1. Goto(k, "create")
      BY <2>1, <2>3 DEF NotFound
    <3>2. GoodPass([pass[k] EXCEPT !.pc = "create"], cr[k])
      BY <2>2, <2>3 DEF GoodPass, IdlePass, Locations, IsManaged
    <3>3. QED
      BY <1>0, <3>1, <3>2, MovingStep DEF NumbersInv, history
  <2>4. CASE pass[k].why = "sync" /\ ~IsManaged(k)
    <3>1. Goto(k, "manage")
      BY <2>1, <2>4 DEF NotFound
    <3>2. GoodPass([pass[k] EXCEPT !.pc = "manage"], cr[k])
      BY <2>2, <2>4 DEF GoodPass, IdlePass, Locations
    <3>3. QED
      BY <1>0, <3>1, <3>2, MovingStep DEF NumbersInv, history
  <2>5. CASE pass[k].why = "delete"
    <3>1. Goto(k, "unmanage")
      BY <2>1, <2>5 DEF NotFound
    <3>2. GoodPass([pass[k] EXCEPT !.pc = "unmanage"], cr[k])
      BY <2>2, <2>5 DEF GoodPass, IdlePass, Locations
    <3>3. QED
      BY <1>0, <3>1, <3>2, MovingStep DEF NumbersInv, history
  <2>6. CASE pass[k].why \notin {"sync", "delete"}
    <3>1. EndPass(k, "Recoverable")
      BY <2>1, <2>6 DEF NotFound
    <3>2. QED
      BY <1>0, <3>1, EndingStep DEF NumbersInv, history, Conditions
  <2>7. QED
    BY <2>3, <2>4, <2>5, <2>6
<1>3. QED
  BY <1>1, <1>2

LEMMA ObservedType ==
  ASSUME AwsOK, NEW k \in Key, pass[k].found.version \in Positive
  PROVE  Observed(k) \in VersionSpec
BY ConfigurationTypes DEF Observed, VersionSpec, Positive

(* Five fields of one entry.                                               *)
LEMMA FieldsOfEntry ==
  ASSUME NEW f, NEW k \in DOMAIN f, NEW a, NEW b, NEW c, NEW d, NEW e
  PROVE  [f EXCEPT ![k].pc = a, ![k].outcome = b, ![k].todo = c,
                   ![k].latest = d, ![k].found = e]
         = [f EXCEPT ![k] = [f[k] EXCEPT !.pc = a, !.outcome = b, !.todo = c,
                                         !.latest = d, !.found = e]]
OBVIOUS

(* Where setResourceAdditionalFields takes the pass.                       *)
LEMMA FieldsStep ==
  ASSUME NumbersInv, NEW k \in Key, setResourceAdditionalFields(k)
  PROVE  NumbersInv'
<1> DEFINE p == pass[k]
           s == IF p.why = "created" THEN p.latest.spec ELSE Observed(k)
           q(l, o, d) == [p EXCEPT !.pc = l, !.outcome = o, !.todo = d,
                            !.latest = [spec |-> s, status |-> p.found],
                            !.found = Nil]
           delta == newResourceDelta(p.desired.spec, s)
           Leads(l, o, d) == pass' = [pass EXCEPT ![k] = q(l, o, d)]
<1>1. p.pc = "fields" /\ ~Idle(k)
  BY DEF setResourceAdditionalFields, At, Idle
<1>2. GoodPass(p, cr[k]) /\ AwsOK
  BY DEF NumbersInv
<1>3. p.found \in [version : Positive, pending : BOOLEAN]
  BY <1>1, <1>2 DEF GoodPass
<1>4. p.found \in Statuses /\ p.found.version \in Positive
  BY <1>3 DEF Statuses, Positive
<1>5. s \in VersionSpec
  BY <1>1, <1>2, <1>4, ObservedType DEF GoodPass
<1> DEFINE next(l, o, d) ==
             pass' = [pass EXCEPT
               ![k].pc = l, ![k].outcome = o, ![k].todo = d,
               ![k].latest = [spec |-> s, status |-> p.found],
               ![k].found = Nil]
<1>b. ASSUME NEW l, NEW o, NEW d, next(l, o, d) PROVE Leads(l, o, d)
  <2>1. k \in DOMAIN pass
    BY DEF NumbersInv
  <2> HIDE DEF s
  <2>2. QED
    BY <1>b, <2>1, FieldsOfEntry
<1>c. \/ next("finish", "Synced", {})
      \/ next("writeback", "Unknown", {}) /\ p.why = "updated"
      \/ next("delete", "Unknown", {}) \/ next("finish", "Terminal", {})
      \/ next("finish", "Recoverable", {})
      \/ next("update", "Unknown", delta) /\ IsManaged(k)
  BY DEF setResourceAdditionalFields
<1>6. \/ Leads("finish", "Synced", {})
      \/ Leads("writeback", "Unknown", {}) /\ p.why = "updated"
      \/ Leads("delete", "Unknown", {}) \/ Leads("finish", "Terminal", {})
      \/ Leads("finish", "Recoverable", {})
      \/ Leads("update", "Unknown", delta) /\ IsManaged(k)
  <2> HIDE DEF next, Leads, s, delta
  <2> QED
    BY <1>b, <1>c
<1>7. cr' = [cr EXCEPT ![k] = cr[k]] /\ spent' \in Counts /\ AwsOK'
      /\ raced' \subseteq Key /\ unheard' \subseteq Key /\ queued' \subseteq Key
  BY DEF setResourceAdditionalFields, NumbersInv, aws, AwsOK, history
<1> HIDE DEF s, delta
<1>8. ASSUME NEW l \in {"finish", "writeback", "delete", "update"},
             NEW o \in Conditions, NEW d,
             l \in {"writeback", "update"} => cr[k].finalizer
      PROVE  GoodPass(q(l, o, d), cr[k])
  BY <1>1, <1>2, <1>4, <1>5, <1>8, VersionNil
     DEF GoodPass, IdlePass, Locations, Positive
<1>9. p.why = "updated" \/ IsManaged(k) => cr[k].finalizer
  BY <1>1, <1>2 DEF GoodPass, IsManaged
<1>10. \E l \in {"finish", "writeback", "delete", "update"}, o \in Conditions :
         \E d \in {{}, delta} :
           /\ Leads(l, o, d)
           /\ l \in {"writeback", "update"} => cr[k].finalizer
  BY <1>6, <1>9 DEF Conditions
<1>11. PICK l \in {"finish", "writeback", "delete", "update"}, o \in Conditions,
            d \in {{}, delta} :
         /\ Leads(l, o, d)
         /\ l \in {"writeback", "update"} => cr[k].finalizer
  BY <1>10
<1>12. GoodPass(q(l, o, d), cr[k]) /\ GoodCR(cr[k])
  BY <1>8, <1>11 DEF NumbersInv
<1> HIDE DEF q
<1>13. QED
  BY <1>7, <1>11, <1>12, OneStep

LEMMA ListStep ==
  ASSUME NumbersInv, NEW k \in Key, ListVersionsByFunction(k)
  PROVE  NumbersInv'
<1> USE DEF ListVersionsByFunction
<1>0. /\ ~Idle(k) /\ spent' \in Counts /\ AwsOK'
      /\ raced' \subseteq Key /\ unheard' \subseteq Key
  BY DEF Idle, At, NumbersInv, aws, AwsOK, history
<1>1. CASE function.exists
  <2> DEFINE p == [pass[k] EXCEPT !.pc = "publish", !.todo = Published]
  <2>1. pass' = [pass EXCEPT ![k] = p]
    BY <1>1 DEF NumbersInv
  <2>2. GoodPass(p, cr[k])
    BY DEF NumbersInv, GoodPass, IdlePass, Locations, At
  <2>3. cr' = [cr EXCEPT ![k] = cr[k]]
    BY DEF NumbersInv
  <2> HIDE DEF p
  <2>4. QED
    BY <1>0, <2>1, <2>2, <2>3, OneStep DEF NumbersInv
<1>2. CASE ~function.exists
  BY <1>0, <1>2, EndingStep DEF Conditions
<1>3. QED
  BY <1>1, <1>2

LEMMA PublishedNumber ==
  ASSUME AwsOK
  PROVE  /\ Unchanged => Max(Published) \in Positive
         /\ Len(versions) + 1 \in Positive
<1>1. Len(versions) \in Nat
  BY DEF AwsOK
<1>2. Published \subseteq Positive
  BY <1>1 DEF Published, Positive
<1>3. ASSUME Unchanged PROVE Max(Published) \in Published
  <2>1. \E n \in Published : \A m \in Published : n >= m
    BY <1>3 DEF Unchanged
  <2>2. QED
    BY <2>1 DEF Max
<1>4. Len(versions) + 1 \in Positive
  BY <1>1 DEF Positive
<1>5. QED
  BY <1>2, <1>3, <1>4

LEMMA PublishStep ==
  ASSUME NumbersInv, NEW k \in Key, PublishVersion(k)
  PROVE  NumbersInv'
<1> DEFINE n == IF Unchanged THEN Max(Published) ELSE Len(versions) + 1
           p == [pass[k] EXCEPT !.pc = "configure", !.todo = {n}]
           q == [pass[k] EXCEPT !.pc = "finish", !.outcome = "Terminal"]
<1>1. GoodPass(pass[k], cr[k]) /\ pass[k].pc = "publish" /\ ~Idle(k)
  BY DEF PublishVersion, NumbersInv, At, Idle
<1>2. n \in Positive
  BY PublishedNumber DEF NumbersInv
<1>3. versions' \in Seq(Version)
  BY NewVersionType DEF PublishVersion, NumbersInv, AwsOK
<1>4. AwsOK' /\ raced' \subseteq Key /\ unheard' \subseteq Key /\ queued' \subseteq Key
  BY <1>3 DEF PublishVersion, NumbersInv, AwsOK
<1>5. spent' \in Counts /\ UNCHANGED <<cr, queued>> /\ cr' = [cr EXCEPT ![k] = cr[k]]
  BY SpendType DEF PublishVersion, NumbersInv
<1>6. \/ EndPass(k, "Recoverable")
      \/ pass' = [pass EXCEPT ![k] = p]
      \/ pass' = [pass EXCEPT ![k] = q]
  BY DEF PublishVersion, NumbersInv
<1> HIDE DEF n
<1>7. GoodPass(p, cr[k])
  BY <1>1, <1>2 DEF GoodPass, IdlePass, Locations
<1>8. GoodPass(q, cr[k])
  BY <1>1, EndIsGood DEF Conditions
<1>9. CASE EndPass(k, "Recoverable")
  BY <1>1, <1>4, <1>5, <1>9, EndingStep DEF Conditions
<1> HIDE DEF p, q
<1>10. CASE pass' = [pass EXCEPT ![k] = p]
  BY <1>4, <1>5, <1>7, <1>10, OneStep DEF NumbersInv
<1>11. CASE pass' = [pass EXCEPT ![k] = q]
  BY <1>4, <1>5, <1>8, <1>11, OneStep DEF NumbersInv
<1>12. QED
  BY <1>6, <1>9, <1>10, <1>11

LEMMA CreatedType ==
  ASSUME NumbersInv, NEW k \in Key, At(k, "configure")
  PROVE  /\ Created(k).spec \in VersionSpec /\ Created(k).status \in Statuses
         /\ Created(k).status.version # 0
<1>1. PICK n \in Positive : pass[k].todo = {n}
  BY DEF NumbersInv, GoodPass, At
<1>2. (CHOOSE m \in pass[k].todo : TRUE) = n
  BY <1>1
<1>3. pass[k].desired.spec \in VersionSpec
  BY PassTypes DEF At, Idle
<1>4. QED
  BY <1>2, <1>3 DEF Created, VersionSpec, Statuses, Positive

LEMMA ConfigureStep ==
  ASSUME NumbersInv, NEW k \in Key, ConfigureCreated(k)
  PROVE  NumbersInv'
<1> DEFINE p == [pass[k] EXCEPT !.pc = "writeback", !.why = "created",
                                !.latest = Created(k), !.todo = {}]
<1>1. /\ pass[k].pc = "configure" /\ ~Idle(k)
      /\ UNCHANGED <<cr, queued>> /\ cr' = [cr EXCEPT ![k] = cr[k]]
      /\ spent' \in Counts /\ AwsOK' /\ raced' \subseteq Key /\ unheard' \subseteq Key
  BY DEF ConfigureCreated, Idle, At, NumbersInv, aws, AwsOK, history
<1>2. EndPass(k, "Recoverable") \/ pass' = [pass EXCEPT ![k] = p]
  BY DEF ConfigureCreated, NumbersInv
<1>3. Created(k) = [spec |-> Created(k).spec, status |-> Created(k).status]
  BY DEF Created
<1>4. GoodPass(p, cr[k])
  BY <1>1, <1>3, CreatedType DEF NumbersInv, GoodPass, IdlePass, Locations, Purposes, At
<1>5. CASE EndPass(k, "Recoverable")
  BY <1>1, <1>5, EndingStep DEF Conditions
<1> HIDE DEF p
<1>6. CASE pass' = [pass EXCEPT ![k] = p]
  BY <1>1, <1>4, <1>6, OneStep DEF NumbersInv
<1>7. QED
  BY <1>2, <1>5, <1>6

(* A call of the update that is done: it is off the list.                  *)
LEMMA DoneStep ==
  ASSUME NumbersInv, NEW k \in Key, NEW f, At(k, "update"),
         pass' = [pass EXCEPT ![k].todo = @ \ {f}],
         UNCHANGED <<cr, queued>>, spent' \in Counts, AwsOK',
         raced' \subseteq Key, unheard' \subseteq Key
  PROVE  NumbersInv'
<1> DEFINE p == [pass[k] EXCEPT !.todo = @ \ {f}]
<1>1. pass' = [pass EXCEPT ![k] = p]
  BY DEF NumbersInv
<1>2. GoodPass(p, cr[k])
  BY DEF NumbersInv, GoodPass, IdlePass, At
<1>3. cr' = [cr EXCEPT ![k] = cr[k]]
  BY DEF NumbersInv
<1> HIDE DEF p
<1>4. QED
  BY <1>1, <1>2, <1>3, OneStep DEF NumbersInv

LEMMA UpdateStep ==
  ASSUME NumbersInv, NEW k \in Key, customUpdateVersion(k)
  PROVE  NumbersInv'
<1>0. /\ At(k, "update") /\ ~Idle(k) /\ AwsOK
      /\ pass[k].desired.spec.eventInvoke \in Value \cup {Nil}
      /\ pass[k].desired.spec.provisioned \in Value \cup {Nil}
  <2>1. At(k, "update") /\ ~Idle(k)
    BY DEF customUpdateVersion, syncEventInvokeConfig,
           updateProvisionedConcurrency, ReadAgain, At, Idle
  <2>2. QED
    BY <2>1, PassTypes DEF NumbersInv, VersionSpec
<1>1. CASE syncEventInvokeConfig(k)
  <2> USE <1>1 DEF syncEventInvokeConfig
  <2>1. spent' \in Counts /\ UNCHANGED <<cr, queued, function, raced>>
    BY SpendType DEF NumbersInv
  <2>2. versions' \in Seq(Version) /\ unheard' \subseteq Key
    BY <1>0, PutType DEF NumbersInv, AwsOK
  <2>3. AwsOK' /\ raced' \subseteq Key
    BY <2>1, <2>2 DEF NumbersInv, AwsOK
  <2>4. EndPass(k, "Recoverable")
          \/ pass' = [pass EXCEPT ![k].todo = @ \ {"eventInvoke"}]
    OBVIOUS
  <2>5. QED
    BY <1>0, <2>1, <2>2, <2>3, <2>4, EndingStep, DoneStep DEF Conditions
<1>2. CASE updateProvisionedConcurrency(k)
  <2> USE <1>2 DEF updateProvisionedConcurrency
  <2>1. /\ UNCHANGED <<cr, queued, function>> /\ spent' \in Counts
        /\ raced' \subseteq Key /\ unheard' \subseteq Key
    BY DEF NumbersInv, history
  <2>2. versions' \in Seq(Version)
    BY <1>0, PutType DEF NumbersInv, AwsOK
  <2>3. AwsOK'
    BY <2>1, <2>2 DEF NumbersInv, AwsOK
  <2>4. EndPass(k, "Recoverable")
          \/ pass' = [pass EXCEPT ![k].todo = @ \ {"provisioned"}]
    OBVIOUS
  <2>5. QED
    BY <1>0, <2>1, <2>3, <2>4, EndingStep, DoneStep DEF Conditions
<1>3. CASE ReadAgain(k)
  <2> DEFINE p == [pass[k] EXCEPT !.pc = "read", !.why = "updated"]
  <2>1. pass' = [pass EXCEPT ![k] = p]
    BY <1>3 DEF ReadAgain, NumbersInv
  <2>2. GoodPass(p, cr[k])
    BY <1>0 DEF NumbersInv, GoodPass, IdlePass, Locations, Purposes, At
  <2>3. /\ cr' = [cr EXCEPT ![k] = cr[k]] /\ queued' \subseteq Key
        /\ spent' \in Counts /\ AwsOK' /\ raced' \subseteq Key /\ unheard' \subseteq Key
    BY <1>3 DEF ReadAgain, NumbersInv, AwsOK, aws, history
  <2> HIDE DEF p
  <2>4. QED
    BY <2>1, <2>2, <2>3, OneStep DEF NumbersInv
<1>4. QED
  BY <1>1, <1>2, <1>3 DEF customUpdateVersion

LEMMA EditedIsGood ==
  ASSUME NEW c, GoodCR(c), c.exists, NEW s \in VersionSpec
  PROVE  GoodCR([c EXCEPT !.spec = s])
<1>1. c \in [exists : {TRUE}, spec : VersionSpec, status : Statuses,
             deleting : BOOLEAN, finalizer : BOOLEAN, cond : Conditions]
  BY VersionCR DEF GoodCR
<1>2. [c EXCEPT !.spec = s] \in CRs(VersionSpec, Statuses)
  <2> HIDE DEF VersionSpec, Statuses
  <2> QED
    BY <1>1 DEF CRs
<1>3. [c EXCEPT !.spec = s].status = c.status
      /\ [c EXCEPT !.spec = s].exists = c.exists
  BY <1>1
<1>4. QED
  BY <1>2, <1>3 DEF GoodCR

LEMMA WriteBackStep ==
  ASSUME NumbersInv, NEW k \in Key, WriteBack(k)
  PROVE  NumbersInv'
<1> USE DEF WriteBack
<1> DEFINE s == Patched(pass[k].desired.spec, pass[k].latest.spec, cr[k].spec)
           c == [cr[k] EXCEPT !.spec = s]
           p == [pass[k] EXCEPT !.pc = "read"]
           q == [pass[k] EXCEPT !.pc = "finish", !.outcome = "Synced"]
<1>1. pass[k].pc = "writeback" /\ ~Idle(k) /\ GoodPass(pass[k], cr[k]) /\ GoodCR(cr[k])
  BY DEF At, Idle, NumbersInv
<1>2. cr[k].exists /\ cr[k].finalizer
  BY <1>1 DEF GoodPass, GoodCR
<1>3. s \in VersionSpec
  BY <1>1, <1>2, PatchedType, PassTypes, StoredTypes
<1>4. cr' = [cr EXCEPT ![k] = c]
  BY DEF PatchSpec, StoreSpec, NumbersInv
<1>5. /\ queued' \subseteq Key /\ spent' \in Counts /\ AwsOK'
      /\ raced' \subseteq Key /\ unheard' \subseteq Key
  BY DEF PatchSpec, StoreSpec, NumbersInv, AwsOK, aws, history
<1>6. \/ pass' = [pass EXCEPT ![k] = p] /\ pass[k].why = "created"
      \/ pass' = [pass EXCEPT ![k] = q]
  BY DEF Goto, EndPass, NumbersInv
<1> HIDE DEF s
<1>7. GoodCR(c) /\ c.finalizer
  BY <1>1, <1>2, <1>3, EditedIsGood DEF GoodCR, CRs, NoCR
<1> HIDE DEF c
<1>8. pass[k].why = "created" => GoodPass(p, c)
  BY <1>1, <1>7 DEF GoodPass, IdlePass, Locations
<1>9. GoodPass(q, c)
  BY <1>1, <1>7 DEF GoodPass, IdlePass, Locations, Conditions
<1> HIDE DEF p, q
<1>10. QED
  BY <1>4, <1>5, <1>6, <1>7, <1>8, <1>9, OneStep

LEMMA DeleteStep ==
  ASSUME NumbersInv, NEW k \in Key, sdkDelete(k)
  PROVE  NumbersInv' /\ function' = function
<1> USE DEF sdkDelete
<1> DEFINE n == Qualifier(pass[k].latest.status.version)
<1>1. pass[k].pc = "delete" /\ ~Idle(k) /\ GoodPass(pass[k], cr[k]) /\ AwsOK
  BY DEF At, Idle, NumbersInv
<1>2. n \in Positive
  BY <1>1, PassTypes DEF GoodPass, Qualifier, Positive
<1>3. \/ /\ Exists(n)
         /\ versions' = [versions EXCEPT ![n].exists = FALSE]
         /\ UNCHANGED function
         /\ \/ Goto(k, "unmanage") /\ UNCHANGED spent
            \/ Spend("faults") /\ EndPass(k, "Recoverable")
      \/ EndPass(k, "Recoverable") /\ UNCHANGED <<aws, spent>>
  <2>1. n # 0
    BY <1>2 DEF Positive
  <2> HIDE DEF n
  <2>2. QED
    BY <2>1 DEF n
<1> HIDE DEF n
<1>4. function' = function /\ versions' \in Seq(Version) /\ spent' \in Counts
  BY <1>1, <1>3, RemoveType, SpendType DEF NumbersInv, AwsOK, aws
<1>5. AwsOK' /\ UNCHANGED <<cr, queued>> /\ raced' \subseteq Key /\ unheard' \subseteq Key
  BY <1>4 DEF NumbersInv, AwsOK, history
<1>6. CASE EndPass(k, "Recoverable")
  BY <1>1, <1>4, <1>5, <1>6, EndingStep DEF Conditions
<1>7. CASE Goto(k, "unmanage")
  <2>1. GoodPass([pass[k] EXCEPT !.pc = "unmanage"], cr[k])
    BY <1>1 DEF GoodPass, IdlePass, Locations
  <2>2. QED
    BY <1>4, <1>5, <1>7, <2>1, MovingStep
<1>8. QED
  BY <1>3, <1>4, <1>6, <1>7

LEMMA FinalizerStep ==
  ASSUME NumbersInv, NEW k \in Key, Finalizer(k)
  PROVE  NumbersInv'
<1>0. /\ spent' \in Counts /\ queued' \subseteq Key /\ AwsOK'
      /\ raced' \subseteq Key /\ unheard' \subseteq Key
  BY DEF Finalizer, Manage, Unmanage, NumbersInv, AwsOK, aws, history
<1>1. CASE Manage(k) /\ cr[k].exists
  <2> DEFINE c == [cr[k] EXCEPT !.finalizer = TRUE]
             p == [pass[k] EXCEPT !.pc = "create"]
  <2>1. cr' = [cr EXCEPT ![k] = c] /\ pass' = [pass EXCEPT ![k] = p]
    BY <1>1 DEF Manage, Goto, NumbersInv
  <2>2. pass[k].pc = "manage" /\ GoodPass(pass[k], cr[k]) /\ GoodCR(cr[k])
    BY <1>1 DEF Manage, At, NumbersInv
  <2>3. cr[k] \in [exists : {TRUE}, spec : VersionSpec, status : Statuses,
                   deleting : BOOLEAN, finalizer : BOOLEAN, cond : Conditions]
    BY <1>1, <2>2, VersionCR DEF GoodCR
  <2>4. c \in CRs(VersionSpec, Statuses)
    <3> HIDE DEF VersionSpec, Statuses
    <3> QED
      BY <2>3 DEF CRs
  <2>5. c.finalizer /\ c.exists /\ c.status = cr[k].status
    BY <1>1, <2>3
  <2>6. GoodCR(c)
    BY <1>1, <2>2, <2>4, <2>5 DEF GoodCR
  <2> HIDE DEF c
  <2>7. GoodPass(p, c)
    BY <2>2, <2>5 DEF GoodPass, IdlePass, Locations
  <2> HIDE DEF p
  <2>8. QED
    BY <1>0, <2>1, <2>6, <2>7, OneStep
<1>2. CASE Manage(k) /\ ~cr[k].exists
  BY <1>0, <1>2, EndingStep DEF Manage, Conditions, Idle, At
<1>3. CASE Unmanage(k)
  <2>1. cr' = [cr EXCEPT ![k] = NoCR] /\ pass' = [pass EXCEPT ![k] = IdlePass]
    BY <1>3 DEF Unmanage
  <2>2. QED
    BY <1>0, <2>1, NoCRIsGood, IdleIsGood, OneStep
<1>4. QED
  BY <1>1, <1>2, <1>3 DEF Finalizer

LEMMA EndStep ==
  ASSUME NumbersInv, NEW k \in Key, End(k)
  PROVE  NumbersInv'
<1> USE DEF End, Finish
<1>0. /\ spent' \in Counts /\ queued' \subseteq Key /\ AwsOK'
      /\ raced' \subseteq Key /\ unheard' \subseteq Key
  BY DEF NumbersInv, AwsOK, aws, history
<1>1. GoodPass(pass[k], cr[k]) /\ GoodCR(cr[k]) /\ ~Idle(k)
  BY DEF NumbersInv, Idle, At
<1>2. CASE cr[k].exists
  <2> DEFINE c == [cr[k] EXCEPT !.cond = pass[k].outcome,
                                !.status = pass[k].latest.status]
  <2>1. cr' = [cr EXCEPT ![k] = c]
    BY <1>2 DEF NumbersInv
  <2>2. cr[k] \in [exists : {TRUE}, spec : VersionSpec, status : Statuses,
                   deleting : BOOLEAN, finalizer : BOOLEAN, cond : Conditions]
    BY <1>1, <1>2, VersionCR DEF GoodCR
  <2>3. pass[k].latest.status \in Statuses /\ pass[k].outcome \in Conditions
        /\ pass[k].latest.status.version # 0
    BY <1>1 DEF GoodPass, Idle, At
  <2>4. c \in CRs(VersionSpec, Statuses)
    <3> HIDE DEF VersionSpec, Statuses, Conditions
    <3> QED
      BY <2>2, <2>3 DEF CRs
  <2>5. c.exists /\ c.status = pass[k].latest.status
    BY <1>2, <2>2
  <2>6. GoodCR(c)
    BY <2>3, <2>4, <2>5 DEF GoodCR
  <2> HIDE DEF c
  <2>7. QED
    BY <1>0, <2>1, <2>6, IdleIsGood, OneStep
<1>3. CASE ~cr[k].exists
  <2>1. cr' = [cr EXCEPT ![k] = cr[k]]
    BY <1>3 DEF NumbersInv
  <2>2. QED
    BY <1>0, <1>1, <2>1, IdleIsGood, OneStep
<1>4. QED
  BY <1>2, <1>3

LEMMA HandlersStep ==
  ASSUME NumbersInv, NEW k \in Key, Handlers(k)
  PROVE  NumbersInv'
BY FindStep, FieldsStep, FinalizerStep, ListStep, PublishStep, ConfigureStep,
   UpdateStep, WriteBackStep, DeleteStep, EndStep
   DEF Handlers, ReadOne, Create, Update, Delete

-----------------------------------------------------------------------------
(* The steps of users, of failures and of AWS.                             *)

(* A CR changes under a pass, and does not lose its finalizer.             *)
LEMMA UserMoves ==
  ASSUME NumbersInv, NEW k \in Key, NEW c, GoodCR(c),
         cr[k].finalizer => c.finalizer,
         cr' = [cr EXCEPT ![k] = c], pass' = pass, queued' \subseteq Key,
         spent' \in Counts, UNCHANGED <<aws, history>>
  PROVE  NumbersInv'
<1>1. GoodPass(pass[k], c)
  BY DEF NumbersInv, GoodPass
<1>2. \A j \in Key : GoodCR(cr'[j]) /\ GoodPass(pass'[j], cr'[j])
  BY <1>1 DEF NumbersInv
<1>3. AwsOK' /\ raced' \subseteq Key /\ unheard' \subseteq Key
  BY DEF NumbersInv, AwsOK, aws, history
<1>4. QED
  BY <1>2, <1>3 DEF NumbersInv

LEMMA UsersStep ==
  ASSUME NumbersInv, NEW k \in Key, Users(k)
  PROVE  NumbersInv'
<1>0. GoodCR(cr[k]) /\ UNCHANGED <<aws, history>>
  BY DEF NumbersInv, Users
<1>1. ASSUME NEW s \in Specs, UserApply(k, s, NoStatus) PROVE NumbersInv'
  <2>1. GoodCR(FreshCR(s, NoStatus)) /\ ~cr[k].finalizer
    BY <1>0, <1>1, FreshIsGood, SpecsAreSpecs DEF UserApply, GoodCR
  <2>2. cr' = [cr EXCEPT ![k] = FreshCR(s, NoStatus)] /\ pass' = pass
        /\ queued' \subseteq Key /\ spent' \in Counts
    BY <1>1, SpendType DEF UserApply, NumbersInv
  <2>3. QED
    BY <1>0, <2>1, <2>2, UserMoves
<1>2. ASSUME cr[k].exists, NEW s \in Specs,
             UserEdit(k, [s EXCEPT !.pin = cr[k].spec.pin])
      PROVE  NumbersInv'
  <2> DEFINE e == [s EXCEPT !.pin = cr[k].spec.pin]
             c == [cr[k] EXCEPT !.spec = e]
  <2>1. s \in VersionSpec /\ cr[k].spec \in VersionSpec
    BY <1>2, SpecsAreSpecs, StoredTypes
  <2>2. e \in VersionSpec
    BY <2>1 DEF VersionSpec
  <2>3. cr' = [cr EXCEPT ![k] = c] /\ pass' = pass
        /\ queued' \subseteq Key /\ spent' \in Counts
    BY <1>2, SpendType DEF UserEdit, NumbersInv
  <2> HIDE DEF e
  <2>4. GoodCR(c)
    BY <1>0, <1>2, <2>2, EditedIsGood
  <2>5. c.finalizer = cr[k].finalizer
    BY <1>0, <1>2, VersionCR DEF GoodCR
  <2> HIDE DEF c
  <2>6. QED
    BY <1>0, <2>3, <2>4, <2>5, UserMoves
<1>3. CASE UserDelete(k)
  <2> DEFINE c == [cr[k] EXCEPT !.deleting = TRUE]
  <2>1. pass' = pass /\ queued' \subseteq Key /\ spent' \in Counts /\ cr[k].exists
    BY <1>3, SpendType DEF UserDelete, NumbersInv
  <2>2. CASE cr[k].finalizer
    <3>1. cr' = [cr EXCEPT ![k] = c]
      BY <1>3, <2>2 DEF UserDelete, NumbersInv
    <3>2. cr[k] \in [exists : {TRUE}, spec : VersionSpec, status : Statuses,
                     deleting : BOOLEAN, finalizer : BOOLEAN, cond : Conditions]
      BY <1>0, <2>1, VersionCR DEF GoodCR
    <3>3. c \in CRs(VersionSpec, Statuses)
      <4> HIDE DEF VersionSpec, Statuses
      <4> QED
        BY <3>2 DEF CRs
    <3>4. c.status = cr[k].status /\ c.exists /\ c.finalizer
      BY <2>1, <2>2, <3>2
    <3>5. GoodCR(c)
      BY <1>0, <2>1, <3>3, <3>4 DEF GoodCR
    <3> HIDE DEF c
    <3>6. QED
      BY <1>0, <2>1, <3>1, <3>4, <3>5, UserMoves
  <2>3. CASE ~cr[k].finalizer
    <3>1. cr' = [cr EXCEPT ![k] = NoCR]
      BY <1>3, <2>3 DEF UserDelete, NumbersInv
    <3>2. QED
      BY <1>0, <2>1, <2>3, <3>1, NoCRIsGood, UserMoves
  <2>4. QED
    BY <2>2, <2>3
<1>4. QED
  BY <1>1, <1>2, <1>3 DEF Users

(* Steps of which the passes and the CRs know nothing.                     *)
LEMMA OutsideStep ==
  ASSUME NumbersInv, UNCHANGED <<cr, pass, history>>, queued' \subseteq Key,
         spent' \in Counts, AwsOK'
  PROVE  NumbersInv'
BY DEF NumbersInv, history

LEMMA DriftType ==
  ASSUME NumbersInv, Drift PROVE versions' \in Seq(Version)
<1> USE DEF Drift
<1>0. AwsOK
  BY DEF NumbersInv
<1>1. ASSUME NEW n \in Published, NEW v \in Value \cup {Nil}, Put(n, "eventInvoke", v)
      PROVE  versions' \in Seq(Version)
  <2>1. Exists(n)
    BY DEF Published, Exists
  <2>2. QED
    BY <1>0, <1>1, <2>1, PutType
<1>2. ASSUME NEW n \in Published, versions' = [versions EXCEPT ![n].exists = FALSE]
      PROVE  versions' \in Seq(Version)
  <2>1. Exists(n)
    BY DEF Published, Exists
  <2>2. QED
    BY <1>0, <1>2, <2>1, RemoveType
<1>3. [NewVersion("other") EXCEPT !.pending = FALSE] \in Version
  <2>1. NewVersion("other") \in Version
    BY <1>0, NewVersionType
  <2>2. QED
    BY <2>1 DEF Version
<1>4. QED
  BY <1>0, <1>1, <1>2, <1>3 DEF AwsOK

LEMMA AwsStep ==
  ASSUME NumbersInv, UpdateFunction \/ Settle \/ Drift
  PROVE  NumbersInv' /\ (function.exists => function'.exists)
<1>0. AwsOK
  BY DEF NumbersInv
<1>1. CASE UpdateFunction
  <2>1. /\ function' \in [exists : BOOLEAN, code : Code] /\ spent' \in Counts
        /\ function.exists => function'.exists
    BY <1>0, <1>1, SpendType DEF UpdateFunction, AwsOK, NumbersInv
  <2>2. QED
    BY <1>0, <1>1, <2>1, OutsideStep DEF UpdateFunction, AwsOK, NumbersInv
<1>2. CASE Settle
  <2>1. PICK n \in Published : versions' = [versions EXCEPT ![n].pending = FALSE]
    BY <1>2 DEF Settle
  <2>2. n \in 1..Len(versions) /\ versions[n] \in Version
    BY <1>0 DEF Published, AwsOK
  <2>3. [versions[n] EXCEPT !.pending = FALSE] \in Version
    BY <2>2 DEF Version
  <2>4. versions' \in Seq(Version)
    BY <1>0, <2>1, <2>2, <2>3 DEF AwsOK
  <2>5. QED
    BY <1>0, <1>2, <2>4, OutsideStep DEF Settle, AwsOK, NumbersInv, passVars
<1>3. CASE Drift
  <2>1. spent' \in Counts
    BY <1>3, SpendType DEF Drift, NumbersInv
  <2>2. QED
    BY <1>0, <1>3, <2>1, DriftType, OutsideStep DEF Drift, AwsOK, NumbersInv
<1>4. QED
  BY <1>1, <1>2, <1>3

LEMMA NextStep ==
  ASSUME NumbersInv, [Next]_vars
  PROVE  NumbersInv'
<1>0. AwsOK
  BY DEF NumbersInv
<1>1. ASSUME NEW k \in Key, Fail(k) PROVE NumbersInv'
  <2>1. spent' \in Counts /\ ~Idle(k) /\ EndPass(k, "Recoverable")
    BY <1>1, SpendType DEF Fail, CallFails, Idle, At, NumbersInv
  <2>2. QED
    BY <1>0, <1>1, <2>1, EndingStep
       DEF Fail, CallFails, NumbersInv, AwsOK, aws, history, Conditions
<1>2. ASSUME NEW k \in Key, Resync(k), UNCHANGED <<aws, history>>
      PROVE  NumbersInv'
  BY <1>0, <1>2, OutsideStep DEF Resync, NumbersInv, AwsOK, aws, history
<1>3. CASE Crash /\ UNCHANGED <<aws, history>>
  <2>1. \A k \in Key : GoodCR(cr'[k]) /\ GoodPass(pass'[k], cr'[k])
    BY <1>3, IdleIsGood DEF Crash, NumbersInv
  <2>2. spent' \in Counts
    BY <1>3, SpendType DEF Crash, NumbersInv
  <2>3. QED
    BY <1>3, <2>1, <2>2 DEF Crash, NumbersInv, AwsOK, aws, history
<1>4. CASE UNCHANGED vars
  BY <1>0, <1>4, OutsideStep DEF vars, passVars, NumbersInv, AwsOK, aws
<1>5. ASSUME NEW k \in Key, Environment(k) PROVE NumbersInv'
  BY <1>1, <1>2, <1>5, UsersStep DEF Environment
<1>6. QED
  BY <1>3, <1>4, <1>5, BeginStep, HandlersStep, AwsStep DEF Next

(* What NumbersInv says of passes and versions holds in all behaviours.    *)
THEOREM NumbersAreKnown == Spec => []NumbersInv
BY InitNumbers, NextStep, PTL DEF Spec

LEMMA NumbersType == NumbersInv => TypeOK
<1> SUFFICES ASSUME NumbersInv PROVE TypeOK
  OBVIOUS
<1>1. cr \in [Key -> CRs(VersionSpec, Statuses)]
  BY DEF NumbersInv, GoodCR
<1>2. QED
  BY <1>1 DEF NumbersInv, GoodPass, AwsOK, TypeOK, PassTypeOK

(* The state keeps its type, whatever the CRs, the code and the limits.    *)
THEOREM TypeCorrect == Spec => []TypeOK
BY NumbersAreKnown, NumbersType, PTL

(* No pass of any Version CR deletes the function itself (sdk.go:66-68 and *)
(* 855): each of its steps leaves the function's existence alone.          *)
LEMMA FunctionStays ==
  ASSUME NumbersInv, Next
  PROVE  function.exists => function'.exists
<1>1. ASSUME NEW k \in Key, Begin(k) \/ Environment(k) PROVE function' = function
  BY <1>1 DEF Begin, Environment, Fail, Users, aws
<1>2. ASSUME NEW k \in Key, Handlers(k) PROVE function' = function
  BY <1>2, DeleteStep
     DEF Handlers, ReadOne, sdkFind, setResourceAdditionalFields, Finalizer,
         Create, ListVersionsByFunction, PublishVersion, ConfigureCreated,
         Update, customUpdateVersion, syncEventInvokeConfig,
         updateProvisionedConcurrency, ReadAgain, WriteBack, Delete, End, aws
<1>3. CASE Crash /\ UNCHANGED <<aws, history>>
  BY <1>3 DEF aws
<1>4. QED
  BY <1>1, <1>2, <1>3, AwsStep DEF Next

(* With any number of CRs, edits, failures, restarts and overlapping       *)
(* passes, the function survives the deletion of its Version CRs.          *)
THEOREM FunctionIsNotDeleted == Spec => FunctionSurvives
<1>1. NumbersInv /\ [Next]_vars => [function.exists => function'.exists]_vars
  BY FunctionStays
<1>2. QED
  BY <1>1, NumbersAreKnown, PTL DEF Spec, FunctionSurvives

-----------------------------------------------------------------------------
(* Which version is whose, and what a CR that rests knows of it.           *)

Fields == {"eventInvoke", "provisioned"}

(* vs is what has been published: versions, or versions'.                  *)
Known(vs, n) == n = Nil \/ n \in 1..Len(vs)
Mine(vs, k, n) == n = Nil \/ (n \in 1..Len(vs) /\ vs[n].by = k)
There(vs, n) == n \in 1..Len(vs) /\ vs[n].exists
Setting(vs, n, f) == IF There(vs, n) THEN vs[n][f] ELSE Nil
Serves(vs, n, s) == There(vs, n) /\ \A f \in Fields : vs[n][f] = s[f]

(* As long as no publication of k has raced with another one, every number *)
(* that its CR c and its pass p hold is that of a version which k has      *)
(* published.  What they are pinned to has been published before.          *)
Owner(vs, k, p, c) ==
  /\ c.exists => Mine(vs, k, c.status.version) /\ Known(vs, c.spec.pin)
  /\ p.pc # "idle" =>
       /\ Mine(vs, k, p.desired.status.version)
       /\ Mine(vs, k, p.latest.status.version)
       /\ Known(vs, p.desired.spec.pin) /\ Known(vs, p.latest.spec.pin)
  /\ p.pc = "fields" => Mine(vs, k, p.found.version)
  /\ p.pc = "configure" =>
       \A n \in p.todo : Mine(vs, k, n) /\ n # p.desired.spec.pin

(* Before anybody interferes or races, what is off the list of an update is*)
(* as the CR asks for, what the pass is about to write back is what it has *)
(* been given or what AWS has, and a pass that will rest has seen what is  *)
(* stored.  q is the queue, u the CRs with a deletion that failed unheard. *)
Honest(vs, k, p, c, q, u) ==
  /\ p.pc = "fields" /\ p.why # "created" =>
       p.found.version = p.desired.status.version /\ There(vs, p.found.version)
  /\ k \notin u =>
       /\ p.pc = "update" =>
            \A f \in Fields \ p.todo :
              Setting(vs, p.desired.status.version, f) = p.desired.spec[f]
       /\ p.pc \in {"read", "fields"} /\ p.why = "updated" =>
            \A f \in Fields :
              Setting(vs, p.desired.status.version, f) = p.desired.spec[f]
       /\ p.pc = "writeback" =>
            \A f \in Fields : p.latest.spec[f] = p.desired.spec[f]
  /\ p.pc = "writeback" /\ p.why = "created" =>
       p.latest.spec.pin # p.desired.spec.pin
  /\ p.pc = "writeback" /\ p.why # "created" =>
       Serves(vs, p.latest.status.version, p.latest.spec)
  /\ p.pc \in {"read", "fields"} /\ p.why = "created" => k \in q
  /\ p.pc # "idle" /\ k \notin q => c.spec = p.desired.spec
  /\ p.pc = "finish" /\ p.outcome = "Synced" /\ k \notin q =>
       Serves(vs, p.latest.status.version, c.spec)
  /\ p.pc = "idle" /\ c.exists /\ c.cond = "Synced" /\ k \notin q =>
       Serves(vs, c.status.version, c.spec)

Unraced == NoDriftYet /\ raced = {}
OwnInv(k) ==
  /\ k \notin raced => Owner(versions, k, pass[k], cr[k])
  /\ Unraced => Honest(versions, k, pass[k], cr[k], queued, unheard)

(* The inductive invariant behind SharedOnlyByRace, EditsAreKept and       *)
(* SyncedMeansApplied.                                                     *)
OwnersInv == NumbersInv /\ \A k \in Key : OwnInv(k)

(* Nothing that is published changes hands or number.                      *)
Grows(vs, ws) == /\ Len(vs) \in Nat /\ Len(ws) \in Nat /\ Len(vs) =< Len(ws)
                 /\ \A n \in 1..Len(vs) : ws[n].by = vs[n].by
Keeps(vs, ws, n) ==
  /\ There(ws, n) <=> There(vs, n)
  /\ There(vs, n) => \A f \in Fields : ws[n][f] = vs[n][f]

LEMMA NumbersGrow ==
  ASSUME NEW vs, NEW ws, Grows(vs, ws), NEW k, NEW n
  PROVE  /\ Known(vs, n) => Known(ws, n)
         /\ Mine(vs, k, n) => Mine(ws, k, n)
BY DEF Grows, Known, Mine

LEMMA OwnerGrows ==
  ASSUME NEW vs, NEW ws, Grows(vs, ws), NEW k, NEW p, NEW c, Owner(vs, k, p, c)
  PROVE  Owner(ws, k, p, c)
BY NumbersGrow DEF Owner

LEMMA SettingKept ==
  ASSUME NEW vs, NEW ws, NEW n, Keeps(vs, ws, n), NEW s
  PROVE  /\ \A f \in Fields : Setting(ws, n, f) = Setting(vs, n, f)
         /\ Serves(vs, n, s) => Serves(ws, n, s)
BY DEF Keeps, Setting, Serves

LEMMA HonestKept ==
  ASSUME NEW vs, NEW ws, NEW k, NEW p, NEW c, NEW q, NEW r, NEW u, NEW v,
         Owner(vs, k, p, c), Honest(vs, k, p, c, q, u),
         \A n : Mine(vs, k, n) => Keeps(vs, ws, n),
         k \in q <=> k \in r, k \in u <=> k \in v
  PROVE  Honest(ws, k, p, c, r, v)
<1>1. ASSUME NEW n, Mine(vs, k, n)
      PROVE  /\ There(vs, n) => There(ws, n)
             /\ \A f \in Fields : Setting(ws, n, f) = Setting(vs, n, f)
             /\ \A s : Serves(vs, n, s) => Serves(ws, n, s)
  BY <1>1, SettingKept DEF Keeps
<1>2. /\ p.pc # "idle" => Mine(vs, k, p.desired.status.version)
                          /\ Mine(vs, k, p.latest.status.version)
      /\ p.pc = "fields" => Mine(vs, k, p.found.version)
      /\ c.exists => Mine(vs, k, c.status.version)
  BY DEF Owner
<1>3. QED
  BY <1>1, <1>2 DEF Honest

-----------------------------------------------------------------------------
(* What a step of k leaves to the others.                                  *)

LEMMA TypesOfPass ==
  ASSUME NumbersInv, NEW k \in Key
  PROVE  /\ DOMAIN pass = Key /\ DOMAIN cr = Key
         /\ DOMAIN pass[k] = DOMAIN IdlePass /\ GoodPass(pass[k], cr[k])
         /\ cr[k].exists => cr[k] = [exists |-> TRUE, spec |-> cr[k].spec,
                              status |-> cr[k].status, deleting |-> cr[k].deleting,
                              finalizer |-> cr[k].finalizer, cond |-> cr[k].cond]
         /\ Len(versions) \in Nat
<1>1. GoodCR(cr[k]) /\ GoodPass(pass[k], cr[k])
  BY DEF NumbersInv
<1>2. cr[k].exists => cr[k] = [exists |-> TRUE, spec |-> cr[k].spec,
                              status |-> cr[k].status, deleting |-> cr[k].deleting,
                              finalizer |-> cr[k].finalizer, cond |-> cr[k].cond]
  BY <1>1, VersionCR DEF GoodCR
<1>3. QED
  BY <1>1, <1>2 DEF NumbersInv, AwsOK, GoodPass

LEMMA OthersOwn ==
  ASSUME OwnersInv, NEW j \in Key, Grows(versions, versions'),
         pass'[j] = pass[j], cr'[j] = cr[j], raced \subseteq raced',
         Unraced' => /\ Unraced
                     /\ \A n : Mine(versions, j, n) => Keeps(versions, versions', n)
                     /\ j \in queued' <=> j \in queued
                     /\ j \in unheard' <=> j \in unheard
  PROVE  OwnInv(j)'
<1>1. OwnInv(j)
  BY DEF OwnersInv
<1>2. ASSUME j \notin raced' PROVE Owner(versions', j, pass'[j], cr'[j])
  BY <1>1, <1>2, OwnerGrows DEF OwnInv
<1>3. ASSUME Unraced' PROVE Honest(versions', j, pass'[j], cr'[j], queued', unheard')
  <2>1. /\ Owner(versions, j, pass[j], cr[j])
        /\ Honest(versions, j, pass[j], cr[j], queued, unheard)
    BY <1>1, <1>3 DEF OwnInv, Unraced
  <2>2. QED
    BY <1>3, <2>1, HonestKept
<1>4. QED
  BY <1>2, <1>3 DEF OwnInv

(* If nothing is published, deleted or configured.                         *)
LEMMA NothingMoves ==
  ASSUME NumbersInv, versions' = versions
  PROVE  Grows(versions, versions') /\ \A n : Keeps(versions, versions', n)
BY DEF NumbersInv, AwsOK, Grows, Keeps

(* If a version is.                                                        *)
LEMMA OneMoves ==
  ASSUME NumbersInv, NEW m \in 1..Len(versions), NEW x, x.by = versions[m].by,
         versions' = [versions EXCEPT ![m] = x]
  PROVE  /\ Grows(versions, versions')
         /\ \A n : n # m => Keeps(versions, versions', n)
<1>1. versions \in Seq(Version) /\ Len(versions) \in Nat
      /\ DOMAIN versions = 1..Len(versions)
  BY DEF NumbersInv, AwsOK
<1>2. Len(versions') = Len(versions)
  BY <1>1
<1>3. QED
  BY <1>1, <1>2 DEF Grows, Keeps, There

LEMMA OneMore ==
  ASSUME NumbersInv, NEW x, versions' = Append(versions, x)
  PROVE  /\ Grows(versions, versions') /\ Len(versions') = Len(versions) + 1
         /\ versions'[Len(versions) + 1] = x
         /\ \A n \in 1..Len(versions) : Keeps(versions, versions', n)
         /\ Keeps(versions, versions', Nil)
<1>1. versions \in Seq(Version) /\ Len(versions) \in Nat
  BY DEF NumbersInv, AwsOK
<1>2. /\ Len(versions') = Len(versions) + 1
      /\ \A n \in 1..Len(versions) : versions'[n] = versions[n]
      /\ versions'[Len(versions) + 1] = x
  BY <1>1
<1>3. QED
  BY <1>1, <1>2, VersionNil DEF Grows, Keeps, There

(* What a step of k publishes, deletes or configures.                      *)
Moves(k) ==
  \/ versions' = versions
  \/ \E x : versions' = Append(versions, x)
  \/ \E m \in 1..Len(versions) : \E x :
       /\ k \notin raced => versions[m].by = k
       /\ x.by = versions[m].by
       /\ versions' = [versions EXCEPT ![m] = x]

LEMMA PutMoves ==
  ASSUME OwnersInv, NEW k \in Key, ~Idle(k), NEW f \in Fields, NEW v,
         Exists(pass[k].desired.status.version),
         Put(pass[k].desired.status.version, f, v)
  PROVE  Moves(k)
<1> DEFINE n == pass[k].desired.status.version
           x == [versions[n] EXCEPT ![f] = v]
<1>1. n \in 1..Len(versions) /\ versions[n] \in Version
  BY DEF Exists, OwnersInv, NumbersInv, AwsOK
<1>2. k \notin raced => versions[n].by = k
  <2>1. n # Nil
    BY <1>1, TypesOfPass, VersionNil DEF OwnersInv
  <2>2. QED
    BY <2>1 DEF OwnersInv, OwnInv, Owner, Mine, Idle, At
<1>3. x.by = versions[n].by
  BY <1>1 DEF Version, Fields
<1>4. versions' = [versions EXCEPT ![n] = x]
  BY DEF Put
<1> HIDE DEF x
<1>5. QED
  BY <1>1, <1>2, <1>3, <1>4 DEF Moves

LEMMA DeleteMoves ==
  ASSUME OwnersInv, NEW k \in Key, sdkDelete(k)
  PROVE  Moves(k)
<1> DEFINE m == pass[k].latest.status.version
           n == Qualifier(m)
           x == [versions[n] EXCEPT !.exists = FALSE]
<1>1. pass[k].pc = "delete" /\ ~Idle(k) /\ GoodPass(pass[k], cr[k])
  BY DEF sdkDelete, At, Idle, OwnersInv, NumbersInv
<1>2. n = m /\ n \in Positive
  BY <1>1, PassTypes DEF GoodPass, Qualifier, Positive, OwnersInv
<1>3. \/ versions' = versions
      \/ Exists(n) /\ versions' = [versions EXCEPT ![n].exists = FALSE]
  <2>1. n # 0
    BY <1>2 DEF Positive
  <2> HIDE DEF n
  <2>2. QED
    BY <2>1 DEF sdkDelete, aws, n
<1>4. ASSUME Exists(n) PROVE n \in 1..Len(versions) /\ versions[n] \in Version
  BY <1>4 DEF Exists, OwnersInv, NumbersInv, AwsOK
<1>5. k \notin raced /\ Exists(n) => versions[n].by = k
  <2>1. n # Nil
    BY <1>2, VersionNil DEF Positive
  <2>2. k \notin raced => Mine(versions, k, m)
    BY <1>1 DEF OwnersInv, OwnInv, Owner
  <2>3. QED
    BY <1>2, <2>1, <2>2 DEF Mine
<1>6. Exists(n) => x.by = versions[n].by
  BY <1>4 DEF Version
<1>7. versions' = versions \/ (Exists(n) /\ versions' = [versions EXCEPT ![n] = x])
  BY <1>3
<1> HIDE DEF x, n
<1>8. QED
  BY <1>4, <1>5, <1>6, <1>7 DEF Moves

LEMMA HandlersMove ==
  ASSUME OwnersInv, NEW k \in Key, Begin(k) \/ Handlers(k) \/ Environment(k)
  PROVE  Moves(k)
<1>1. CASE syncEventInvokeConfig(k)
  <2>1. ~Idle(k)
    BY <1>1 DEF syncEventInvokeConfig, At, Idle
  <2>2. CASE versions' = versions
    BY <2>2 DEF Moves
  <2>3. QED
    BY <1>1, <2>1, <2>2, PutMoves DEF syncEventInvokeConfig, Fields
<1>2. CASE updateProvisionedConcurrency(k)
  <2>1. ~Idle(k)
    BY <1>2 DEF updateProvisionedConcurrency, At, Idle
  <2>2. CASE versions' = versions
    BY <2>2 DEF Moves
  <2>3. QED
    BY <1>2, <2>1, <2>2, PutMoves DEF updateProvisionedConcurrency, Fields
<1>3. CASE PublishVersion(k)
  BY <1>3 DEF PublishVersion, Moves
<1>4. CASE sdkDelete(k)
  BY <1>4, DeleteMoves
<1>5. CASE \/ ReadOne(k) \/ Finalizer(k) \/ WriteBack(k) \/ End(k) \/ Begin(k)
           \/ ListVersionsByFunction(k) \/ ConfigureCreated(k) \/ ReadAgain(k)
  BY <1>5 DEF ReadOne, sdkFind, setResourceAdditionalFields, Finalizer, WriteBack,
     End, Begin, ListVersionsByFunction, ConfigureCreated, ReadAgain, aws, Moves
<1>6. CASE Environment(k)
  BY <1>6 DEF Environment, Fail, Users, aws, Moves
<1>7. QED
  BY <1>1, <1>2, <1>3, <1>4, <1>5, <1>6
     DEF Handlers, Create, Update, customUpdateVersion, Delete

LEMMA MovesKeep ==
  ASSUME NumbersInv, NEW k \in Key, Moves(k)
  PROVE  /\ Grows(versions, versions')
         /\ k \notin raced =>
              \A j \in Key \ {k} : \A n :
                Mine(versions, j, n) => Keeps(versions, versions', n)
<1>1. CASE versions' = versions
  BY <1>1, NothingMoves
<1>2. ASSUME NEW x, versions' = Append(versions, x)
      PROVE  Grows(versions, versions')
             /\ \A j, n : Mine(versions, j, n) => Keeps(versions, versions', n)
  BY <1>2, OneMore DEF Mine
<1>3. ASSUME NEW m \in 1..Len(versions), NEW x,
             k \notin raced => versions[m].by = k, x.by = versions[m].by,
             versions' = [versions EXCEPT ![m] = x]
      PROVE  /\ Grows(versions, versions')
             /\ k \notin raced =>
                  \A j \in Key \ {k} : \A n : Mine(versions, j, n)
                                              => Keeps(versions, versions', n)
  <2>1. Grows(versions, versions') /\ \A n : n # m => Keeps(versions, versions', n)
    BY <1>3, OneMoves
  <2>2. m # Nil
    BY TypesOfPass, VersionNil
  <2>3. QED
    BY <1>3, <2>1, <2>2 DEF Mine
<1>4. QED
  BY <1>1, <1>2, <1>3 DEF Moves

(* No step but Drift's is counted as one.                                  *)
LEMMA DriftsGrow ==
  ASSUME spent \in Counts,
         \/ Spend("edits") \/ Spend("faults") \/ Spend("overlaps") \/ Spend("drifts")
         \/ UNCHANGED spent,
         NoDriftYet'
  PROVE  NoDriftYet
BY DEF Spend, Counts, NoDriftYet

LEMMA HandlersSpend ==
  ASSUME NEW k, Begin(k) \/ Handlers(k) \/ Environment(k)
  PROVE  \/ Spend("edits") \/ Spend("faults") \/ Spend("overlaps") \/ UNCHANGED spent
<1>1. CASE Begin(k)
  BY <1>1 DEF Begin, Start
<1>2. CASE \/ ReadOne(k) \/ Finalizer(k) \/ WriteBack(k) \/ End(k)
           \/ ListVersionsByFunction(k) \/ ConfigureCreated(k) \/ ReadAgain(k)
  BY <1>2 DEF ReadOne, sdkFind, setResourceAdditionalFields, Finalizer, Manage,
     Unmanage, WriteBack, PatchSpec, StoreSpec, End, Finish, ListVersionsByFunction,
     ConfigureCreated, ReadAgain
<1>3. CASE PublishVersion(k)
  BY <1>3 DEF PublishVersion
<1>4. CASE sdkDelete(k)
  BY <1>4 DEF sdkDelete
<1>5. CASE syncEventInvokeConfig(k) \/ updateProvisionedConcurrency(k)
  BY <1>5 DEF syncEventInvokeConfig, updateProvisionedConcurrency
<1>6. CASE Environment(k)
  BY <1>6 DEF Environment, Fail, CallFails, Users, UserApply, UserEdit, UserDelete,
     Resync
<1>7. QED
  BY <1>1, <1>2, <1>3, <1>4, <1>5, <1>6
     DEF Handlers, Create, Update, customUpdateVersion, Delete

LEMMA StepIsOfOne ==
  ASSUME NumbersInv, NEW k \in Key, Begin(k) \/ Handlers(k) \/ Environment(k)
  PROVE  /\ raced \subseteq raced'
         /\ \A j \in Key \ {k} :
              /\ pass'[j] = pass[j] /\ cr'[j] = cr[j]
              /\ j \in queued' <=> j \in queued
              /\ j \in unheard' <=> j \in unheard
<1>0. DOMAIN pass = Key /\ DOMAIN cr = Key
  BY DEF NumbersInv
<1>1. CASE Begin(k)
  BY <1>0, <1>1 DEF Begin, Start
<1>2. CASE sdkFind(k)
  BY <1>0, <1>2 DEF sdkFind, NotFound, Goto, EndPass, history
<1>3. CASE setResourceAdditionalFields(k)
  BY <1>0, <1>3 DEF setResourceAdditionalFields, history
<1>4. CASE Finalizer(k) \/ End(k)
  BY <1>0, <1>4 DEF Finalizer, Manage, Unmanage, Goto, EndPass, End, Finish, history
<1>5. CASE ListVersionsByFunction(k) \/ ConfigureCreated(k) \/ ReadAgain(k)
  BY <1>0, <1>5 DEF ListVersionsByFunction, ConfigureCreated, ReadAgain, EndPass,
     history
<1>6. CASE PublishVersion(k)
  BY <1>0, <1>6 DEF PublishVersion, EndPass
<1>7. CASE syncEventInvokeConfig(k) \/ updateProvisionedConcurrency(k)
  BY <1>0, <1>7 DEF syncEventInvokeConfig, updateProvisionedConcurrency, EndPass,
     history
<1>8. CASE WriteBack(k)
  BY <1>0, <1>8 DEF WriteBack, PatchSpec, StoreSpec, Goto, EndPass, history
<1>9. CASE sdkDelete(k)
  BY <1>0, <1>9 DEF sdkDelete, Goto, EndPass, history
<1>10. CASE Environment(k)
  BY <1>0, <1>10 DEF Environment, Fail, CallFails, EndPass, Users, UserApply,
     UserEdit, UserDelete, Resync, history
<1>11. QED
  BY <1>1, <1>2, <1>3, <1>4, <1>5, <1>6, <1>7, <1>8, <1>9, <1>10
     DEF Handlers, ReadOne, Create, Update, customUpdateVersion, Delete

LEMMA OthersKeep ==
  ASSUME OwnersInv, NEW k \in Key, Begin(k) \/ Handlers(k) \/ Environment(k),
         OwnInv(k)', NumbersInv'
  PROVE  OwnersInv'
<1>0. NumbersInv /\ spent \in Counts
  BY DEF OwnersInv, NumbersInv
<1>1. Grows(versions, versions')
      /\ (k \notin raced =>
              \A j \in Key \ {k} : \A n :
                Mine(versions, j, n) => Keeps(versions, versions', n))
  BY <1>0, HandlersMove, MovesKeep
<1>2. raced \subseteq raced' /\ (NoDriftYet' => NoDriftYet)
  BY <1>0, StepIsOfOne, HandlersSpend, DriftsGrow
<1>3. Unraced' => Unraced /\ k \notin raced
  BY <1>2 DEF Unraced
<1>4. ASSUME NEW j \in Key \ {k} PROVE OwnInv(j)'
  BY <1>0, <1>1, <1>2, <1>3, StepIsOfOne, OthersOwn
<1>5. QED
  BY <1>4 DEF OwnersInv

-----------------------------------------------------------------------------
(* What a step of k does to its own CR and pass.                           *)

LEMMA OwnFacts ==
  ASSUME OwnersInv, NEW k \in Key, Begin(k) \/ Handlers(k) \/ Environment(k)
  PROVE  /\ Grows(versions, versions')
         /\ k \notin raced' => k \notin raced /\ Owner(versions, k, pass[k], cr[k])
         /\ Unraced' => /\ k \notin raced
                        /\ Owner(versions, k, pass[k], cr[k])
                        /\ Honest(versions, k, pass[k], cr[k], queued, unheard)
<1>0. NumbersInv /\ spent \in Counts /\ OwnInv(k)
  BY DEF OwnersInv, NumbersInv
<1>1. Grows(versions, versions')
  BY <1>0, HandlersMove, MovesKeep
<1>2. raced \subseteq raced' /\ (NoDriftYet' => NoDriftYet)
  BY <1>0, StepIsOfOne, HandlersSpend, DriftsGrow
<1>3. QED
  BY <1>0, <1>1, <1>2 DEF OwnInv, Unraced

(* The end of a pass, if not as Synced.                                    *)
LEMMA EndPassOwn ==
  ASSUME OwnersInv, NEW k \in Key, Begin(k) \/ Handlers(k) \/ Environment(k),
         ~Idle(k), NEW o, o # "Synced", EndPass(k, o), cr'[k] = cr[k],
         queued' = queued
  PROVE  OwnInv(k)'
<1>1. /\ pass'[k].pc = "finish" /\ pass'[k].outcome = o
      /\ pass'[k].desired = pass[k].desired /\ pass'[k].latest = pass[k].latest
  BY TypesOfPass DEF EndPass, IdlePass, OwnersInv
<1>2. pass[k].pc # "idle"
  BY DEF Idle, At
<1>3. k \notin raced' => Owner(versions', k, pass'[k], cr'[k])
  BY <1>1, <1>2, OwnFacts, NumbersGrow DEF Owner
<1>4. Unraced' => Honest(versions', k, pass'[k], cr'[k], queued', unheard')
  BY <1>1, <1>2, OwnFacts DEF Honest
<1>5. QED
  BY <1>3, <1>4 DEF OwnInv

(* The way on to a place of which nothing is claimed.                      *)
LEMMA GotoOwn ==
  ASSUME OwnersInv, NEW k \in Key, Begin(k) \/ Handlers(k) \/ Environment(k),
         ~Idle(k), NEW l \in {"manage", "create", "publish", "unmanage"},
         DOMAIN pass'[k] = DOMAIN IdlePass, pass'[k].pc = l,
         pass'[k].desired = pass[k].desired, pass'[k].latest = pass[k].latest,
         cr'[k].exists => cr[k].exists, cr'[k].spec = cr[k].spec,
         cr'[k].status = cr[k].status, queued' = queued
  PROVE  OwnInv(k)'
<1>2. pass[k].pc # "idle"
  BY DEF Idle, At
<1>3. k \notin raced' => Owner(versions', k, pass'[k], cr'[k])
  BY <1>2, OwnFacts, NumbersGrow DEF Owner
<1>4. Unraced' => Honest(versions', k, pass'[k], cr'[k], queued', unheard')
  BY <1>2, OwnFacts DEF Honest
<1>5. QED
  BY <1>3, <1>4 DEF OwnInv

LEMMA BeginOwn ==
  ASSUME OwnersInv, NEW k \in Key, Begin(k) PROVE OwnInv(k)'
<1>0. versions' = versions /\ raced' = raced /\ unheard' = unheard \ {k} /\ cr' = cr
      /\ queued' = queued \ {k} /\ Idle(k)
  BY DEF Begin, Start, aws
<1>1. CASE ~cr[k].exists
  <2>1. pass'[k] = pass[k] /\ pass[k].pc = "idle"
    BY <1>0, <1>1 DEF Begin, Start, Idle, At
  <2>2. k \notin raced' => Owner(versions', k, pass'[k], cr'[k])
    BY <1>0, <2>1, OwnFacts
  <2>3. Unraced' => Honest(versions', k, pass'[k], cr'[k], queued', unheard')
    BY <1>0, <1>1, <2>1 DEF Honest
  <2>4. QED
    BY <2>2, <2>3 DEF OwnInv
<1>2. CASE cr[k].exists
  <2>1. /\ pass'[k].pc = "read" /\ pass'[k].why \in {"sync", "delete"}
        /\ pass'[k].desired = cr[k] /\ pass'[k].latest.status = cr[k].status
        /\ pass'[k].latest.spec = cr[k].spec
    BY <1>2, TypesOfPass DEF Begin, Start, IdlePass, OwnersInv
  <2>2. k \notin raced' => Owner(versions', k, pass'[k], cr'[k])
    BY <1>0, <1>2, <2>1, OwnFacts DEF Owner
  <2>3. Unraced' => Honest(versions', k, pass'[k], cr'[k], queued', unheard')
    BY <1>0, <2>1 DEF Honest
  <2>4. QED
    BY <2>2, <2>3 DEF OwnInv
<1>3. QED
  BY <1>1, <1>2

LEMMA sdkFindOwn ==
  ASSUME OwnersInv, NEW k \in Key, sdkFind(k) PROVE OwnInv(k)'
<1>0. /\ versions' = versions /\ raced' = raced /\ unheard' = unheard /\ cr' = cr
      /\ queued' = queued /\ ~Idle(k) /\ pass[k].pc = "read" /\ Handlers(k)
  BY DEF sdkFind, At, Idle, aws, history, Handlers, ReadOne
<1>1. CASE Found(k)
  <2>1. /\ Number(k) \in Positive
        /\ Qualifier(Number(k)) = Number(k) /\ There(versions, Number(k))
    <3>1. Number(k) \in Positive
      BY <1>0, <1>1, PassTypes DEF Found, Identified, Number, OwnersInv
    <3>2. Qualifier(Number(k)) = Number(k) /\ Number(k) # 0
      BY <3>1, VersionNil DEF Qualifier, Positive
    <3>3. QED
      BY <1>1, <3>1, <3>2 DEF Found, Exists, There
  <2>2. /\ pass'[k].pc = "fields" /\ pass'[k].why = pass[k].why
        /\ pass'[k].desired = pass[k].desired /\ pass'[k].latest = pass[k].latest
        /\ pass'[k].found.version = Number(k)
    <3> DEFINE f == [version |-> Number(k),
                     pending |-> Number(k) > 0 /\ versions[Number(k)].pending]
    <3>1. pass' = [pass EXCEPT ![k].pc = "fields", ![k].found = f]
      BY <1>1, <2>1 DEF sdkFind
    <3>2. f.version = Number(k)
      OBVIOUS
    <3> HIDE DEF f
    <3>3. QED
      BY <3>1, <3>2, TypesOfPass DEF IdlePass, OwnersInv
  <2>3. k \notin raced' => Owner(versions', k, pass'[k], cr'[k])
    BY <1>0, <2>2, OwnFacts DEF Owner, Number
  <2>4. Unraced' => Honest(versions', k, pass'[k], cr'[k], queued', unheard')
    BY <1>0, <2>1, <2>2, OwnFacts DEF Honest, Number
  <2>5. QED
    BY <2>3, <2>4 DEF OwnInv
<1>2. CASE ~Found(k)
  <2>1. NotFound(k)
    BY <1>2 DEF sdkFind
  <2>2. CASE EndPass(k, "Recoverable")
    BY <1>0, <2>2, EndPassOwn
  <2>3. CASE Goto(k, "create") \/ Goto(k, "manage") \/ Goto(k, "unmanage")
    <3>1. PICK l \in {"create", "manage", "unmanage"} : Goto(k, l)
      BY <2>3
    <3>2. /\ DOMAIN pass'[k] = DOMAIN IdlePass /\ pass'[k].pc = l
          /\ pass'[k].desired = pass[k].desired /\ pass'[k].latest = pass[k].latest
      BY <3>1, TypesOfPass DEF Goto, IdlePass, OwnersInv
    <3>3. QED
      BY <1>0, <3>2, GotoOwn
  <2>4. QED
    <3>1. GoodPass(pass[k], cr[k])
      BY DEF OwnersInv, NumbersInv
    <3>2. CASE pass[k].why = "sync"
      BY <2>1, <2>3, <3>2 DEF NotFound
    <3>3. CASE pass[k].why = "delete"
      BY <2>1, <2>3, <3>3 DEF NotFound
    <3>4. CASE pass[k].why \notin {"sync", "delete"}
      BY <2>1, <2>2, <3>4 DEF NotFound
    <3>5. QED
      BY <3>2, <3>3, <3>4
<1>3. QED
  BY <1>1, <1>2

(* What the read has found is what there is.                               *)
LEMMA ObservedServes ==
  ASSUME NEW k, There(versions, pass[k].found.version)
  PROVE  /\ Serves(versions, pass[k].found.version, Observed(k))
         /\ \A f \in Fields :
              Setting(versions, pass[k].found.version, f) = Observed(k)[f]
         /\ Observed(k).pin = pass[k].found.version
         /\ DOMAIN Observed(k) = {"eventInvoke", "provisioned", "pin"}
BY DEF Serves, Setting, There, Exists, Observed, EventInvokeConfig,
   ProvisionedConcurrency, Fields

LEMMA setResourceAdditionalFieldsOwn ==
  ASSUME OwnersInv, NEW k \in Key, setResourceAdditionalFields(k) PROVE OwnInv(k)'
<1> DEFINE p == pass[k]
           s == IF p.why = "created" THEN p.latest.spec ELSE Observed(k)
           delta == newResourceDelta(p.desired.spec, s)
<1>0. /\ versions' = versions /\ raced' = raced /\ unheard' = unheard /\ cr' = cr
      /\ queued' = queued /\ ~Idle(k) /\ p.pc = "fields" /\ Handlers(k)
  BY DEF setResourceAdditionalFields, At, Idle, aws, history, Handlers, ReadOne
<1>1. DOMAIN pass = Key /\ DOMAIN p = DOMAIN IdlePass
  BY TypesOfPass DEF OwnersInv
<1> DEFINE Leads(l, o, d) ==
             /\ pass'[k].pc = l /\ pass'[k].outcome = o /\ pass'[k].todo = d
             /\ pass'[k].why = p.why /\ pass'[k].desired = p.desired
             /\ pass'[k].latest.spec = s /\ pass'[k].latest.status = p.found
           next(l, o, d) ==
             pass' = [pass EXCEPT
               ![k].pc = l, ![k].outcome = o, ![k].todo = d,
               ![k].latest = [spec |-> s, status |-> p.found],
               ![k].found = Nil]
<1>2. ASSUME NEW l, NEW o, NEW d, next(l, o, d) PROVE Leads(l, o, d)
  <2> HIDE DEF s
  <2> QED
    BY <1>1, <1>2 DEF IdlePass
<1>3. \/ next("finish", "Synced", {}) /\ p.why = "created"
      \/ next("writeback", "Unknown", {}) /\ p.why = "updated"
      \/ next("delete", "Unknown", {}) /\ p.why = "delete"
      \/ next("finish", "Terminal", {})
      \/ next("finish", "Recoverable", {})
      \/ next("finish", "Synced", {}) /\ p.why = "sync" /\ delta = {}
      \/ next("update", "Unknown", delta) /\ p.why = "sync"
  BY DEF setResourceAdditionalFields
<1>4. \/ Leads("finish", "Synced", {}) /\ p.why = "created"
      \/ Leads("writeback", "Unknown", {}) /\ p.why = "updated"
      \/ Leads("delete", "Unknown", {}) /\ p.why = "delete"
      \/ Leads("finish", "Terminal", {})
      \/ Leads("finish", "Recoverable", {})
      \/ Leads("finish", "Synced", {}) /\ p.why = "sync" /\ delta = {}
      \/ Leads("update", "Unknown", delta) /\ p.why = "sync"
  <2> HIDE DEF next, Leads, s, delta
  <2> QED
    BY <1>2, <1>3
<1>5. k \notin raced' => Known(versions, s.pin)
  BY <1>0, OwnFacts DEF Owner, Known, Mine, Observed
<1>6. Unraced' =>
        \/ p.why = "created" /\ k \in queued
        \/ /\ p.why # "created" /\ p.found.version = p.desired.status.version
           /\ Serves(versions, p.found.version, s)
           /\ \A f \in Fields : Setting(versions, p.found.version, f) = s[f]
  <2>1. CASE p.why = "created"
    BY <1>0, <2>1, OwnFacts DEF Honest
  <2>2. CASE p.why # "created"
    BY <1>0, <2>2, OwnFacts, ObservedServes DEF Honest
  <2>3. QED
    BY <2>1, <2>2
<1>7. /\ DOMAIN p.desired.spec = {"eventInvoke", "provisioned", "pin"}
      /\ \A f \in Fields : f \notin delta => p.desired.spec[f] = s[f]
  <2>1. p.desired.spec \in VersionSpec
    BY <1>0, PassTypes DEF OwnersInv
  <2>2. DOMAIN p.desired.spec = {"eventInvoke", "provisioned", "pin"}
    BY <2>1 DEF VersionSpec
  <2> HIDE DEF s
  <2>3. QED
    BY <2>2 DEF newResourceDelta, Fields
<1> HIDE DEF s, delta
<1>8. k \notin raced' => Owner(versions', k, pass'[k], cr'[k])
  BY <1>0, <1>4, <1>5, OwnFacts DEF Owner
<1>9. ASSUME Unraced' PROVE Honest(versions', k, pass'[k], cr'[k], queued', unheard')
  <2>1. /\ Honest(versions, k, p, cr[k], queued, unheard)
        /\ \/ p.why = "created" /\ k \in queued
           \/ /\ p.why # "created" /\ p.found.version = p.desired.status.version
              /\ Serves(versions, p.found.version, s)
              /\ \A f \in Fields : Setting(versions, p.found.version, f) = s[f]
    BY <1>0, <1>6, <1>9, OwnFacts
  <2>2. k \notin queued => cr[k].spec = p.desired.spec
    BY <1>0, <2>1 DEF Honest
  <2>3. p.why = "updated" /\ k \notin unheard =>
          \A f \in Fields : s[f] = p.desired.spec[f]
    BY <1>0, <2>1 DEF Honest
  <2>4. p.why = "sync" /\ delta = {} /\ k \notin queued =>
          Serves(versions, p.found.version, cr[k].spec)
    BY <1>7, <2>1, <2>2 DEF Serves
  <2>5. \A f \in Fields \ delta :
          p.why = "sync" => Setting(versions, p.desired.status.version, f)
                              = p.desired.spec[f]
    BY <1>7, <2>1
  <2>6. QED
    BY <1>0, <1>4, <2>1, <2>2, <2>3, <2>4, <2>5 DEF Honest
<1>10. QED
  BY <1>8, <1>9 DEF OwnInv

LEMMA FinalizerOwn ==
  ASSUME OwnersInv, NEW k \in Key, Finalizer(k) PROVE OwnInv(k)'
<1>0. /\ versions' = versions /\ raced' = raced /\ unheard' = unheard
      /\ queued' = queued /\ ~Idle(k) /\ Handlers(k)
  BY DEF Finalizer, Manage, Unmanage, At, Idle, aws, history, Handlers
<1>1. CASE Manage(k) /\ cr[k].exists
  <2>1. /\ cr'[k].exists = cr[k].exists /\ cr'[k].spec = cr[k].spec
        /\ cr'[k].status = cr[k].status
    BY <1>1, TypesOfPass DEF Manage, OwnersInv
  <2>2. /\ DOMAIN pass'[k] = DOMAIN IdlePass /\ pass'[k].pc = "create"
        /\ pass'[k].desired = pass[k].desired /\ pass'[k].latest = pass[k].latest
    <3>1. pass' = [pass EXCEPT ![k].pc = "create"]
      BY <1>1 DEF Manage, Goto
    <3>2. QED
      BY <3>1, TypesOfPass DEF IdlePass, OwnersInv
  <2>3. QED
    BY <1>0, <2>1, <2>2, GotoOwn
<1>2. CASE Manage(k) /\ ~cr[k].exists
  BY <1>0, <1>2, EndPassOwn DEF Manage
<1>3. CASE Unmanage(k)
  <2>1. cr'[k] = NoCR /\ pass'[k] = IdlePass
    BY <1>3, TypesOfPass DEF Unmanage, OwnersInv
  <2>2. OwnInv(k)'
    BY <2>1 DEF OwnInv, Owner, Honest, NoCR, IdlePass
  <2>3. QED
    BY <2>2
<1>4. QED
  BY <1>1, <1>2, <1>3 DEF Finalizer

LEMMA ListOwn ==
  ASSUME OwnersInv, NEW k \in Key, ListVersionsByFunction(k) PROVE OwnInv(k)'
<1>0. /\ versions' = versions /\ raced' = raced /\ unheard' = unheard
      /\ queued' = queued /\ cr' = cr /\ ~Idle(k) /\ Handlers(k)
  BY DEF ListVersionsByFunction, At, Idle, aws, history, Handlers, Create
<1>1. CASE function.exists
  <2>1. /\ DOMAIN pass'[k] = DOMAIN IdlePass /\ pass'[k].pc = "publish"
        /\ pass'[k].desired = pass[k].desired /\ pass'[k].latest = pass[k].latest
    <3>1. pass' = [pass EXCEPT ![k].pc = "publish", ![k].todo = Published]
      BY <1>1 DEF ListVersionsByFunction
    <3>2. QED
      BY <3>1, TypesOfPass DEF IdlePass, OwnersInv
  <2>2. QED
    BY <1>0, <2>1, GotoOwn
<1>2. CASE ~function.exists
  BY <1>0, <1>2, EndPassOwn DEF ListVersionsByFunction
<1>3. QED
  BY <1>1, <1>2

(* A version that this pass has not found in its list and that it has not  *)
(* raced for is new.                                                       *)
LEMMA PublishVersionOwn ==
  ASSUME OwnersInv, NEW k \in Key, PublishVersion(k) PROVE OwnInv(k)'
<1>0. /\ unheard' = unheard /\ queued' = queued /\ cr' = cr /\ ~Idle(k)
      /\ pass[k].pc = "publish" /\ Handlers(k) /\ NumbersInv
  BY DEF PublishVersion, At, Idle, Handlers, Create, OwnersInv
<1> DEFINE n == IF Unchanged THEN Max(Published) ELSE Len(versions) + 1
<1>1. CASE EndPass(k, "Recoverable")
  BY <1>0, <1>1, EndPassOwn
<1>2. CASE pass' = [pass EXCEPT ![k].pc = "finish", ![k].outcome = "Terminal"]
  BY <1>0, <1>2, EndPassOwn DEF EndPass
<1>3. CASE /\ pass' = [pass EXCEPT ![k].pc = "configure", ![k].todo = {n}]
           /\ n \notin pass[k].todo
           /\ raced' = IF Unchanged /\ n \notin pass[k].todo
                             THEN raced \cup {k} ELSE raced
           /\ versions' = IF Unchanged THEN versions
                          ELSE Append(versions, NewVersion(k))
  <2>1. /\ pass'[k].pc = "configure" /\ pass'[k].todo = {n}
        /\ pass'[k].desired = pass[k].desired /\ pass'[k].latest = pass[k].latest
    <3> HIDE DEF n
    <3> QED
      BY <1>3, TypesOfPass DEF IdlePass, OwnersInv
  <2>2. Unchanged => k \in raced'
    BY <1>3
  <2>3. CASE ~Unchanged
    <3>1. /\ n = Len(versions) + 1 /\ versions' = Append(versions, NewVersion(k))
      BY <1>3, <2>3
    <3>2. Mine(versions', k, n) /\ Grows(versions, versions')
      <4>1. /\ Grows(versions, versions') /\ Len(versions') = Len(versions) + 1
            /\ versions'[Len(versions) + 1] = NewVersion(k)
        BY <1>0, <3>1, OneMore
      <4>2. NewVersion(k).by = k
        BY DEF NewVersion
      <4>3. QED
        BY <3>1, <4>1, <4>2 DEF Mine, Grows
    <3>3. Known(versions, pass[k].desired.spec.pin) => n # pass[k].desired.spec.pin
      BY <1>0, <3>1, VersionNil, TypesOfPass DEF Known
    <3>4. k \notin raced' => Owner(versions', k, pass'[k], cr'[k])
      <4> HIDE DEF n
      <4> QED
        <5>1. \A m : /\ Known(versions, m) => Known(versions', m)
                     /\ Mine(versions, k, m) => Mine(versions', k, m)
          BY <3>2, NumbersGrow
        <5>2. QED
          BY <1>0, <2>1, <3>2, <3>3, <5>1, OwnFacts DEF Owner, Idle, At
    <3>5. Unraced' => Honest(versions', k, pass'[k], cr'[k], queued', unheard')
      BY <1>0, <2>1, OwnFacts DEF Honest
    <3>6. QED
      BY <3>4, <3>5 DEF OwnInv
  <2>4. QED
    BY <2>2, <2>3 DEF OwnInv, Unraced
<1>4. QED
  BY <1>1, <1>2, <1>3 DEF PublishVersion, AlreadyListed

LEMMA ConfigureCreatedOwn ==
  ASSUME OwnersInv, NEW k \in Key, ConfigureCreated(k) PROVE OwnInv(k)'
<1>0. /\ versions' = versions /\ raced' = raced /\ unheard' = unheard
      /\ queued' = queued /\ cr' = cr /\ ~Idle(k) /\ pass[k].pc = "configure"
      /\ Handlers(k)
  BY DEF ConfigureCreated, At, Idle, aws, history, Handlers, Create
<1>1. CASE EndPass(k, "Recoverable")
  BY <1>0, <1>1, EndPassOwn
<1>2. CASE pass' = [pass EXCEPT ![k].pc = "writeback", ![k].why = "created",
                                ![k].latest = Created(k), ![k].todo = {}]
  <2>1. /\ pass'[k].pc = "writeback" /\ pass'[k].why = "created"
        /\ pass'[k].desired = pass[k].desired /\ pass'[k].latest = Created(k)
    BY <1>2, TypesOfPass DEF IdlePass, OwnersInv
  <2>2. PICK n : /\ pass[k].todo = {n} /\ (CHOOSE m \in pass[k].todo : TRUE) = n
    <3>1. PICK n \in Positive : pass[k].todo = {n}
      BY <1>0 DEF OwnersInv, NumbersInv, GoodPass
    <3>2. QED
      BY <3>1
  <2>3. pass[k].desired.spec \in VersionSpec
    BY <1>0, PassTypes DEF OwnersInv
  <2>4. /\ Created(k).spec.pin = n /\ Created(k).status.version = n
        /\ \A f \in Fields : Created(k).spec[f] = pass[k].desired.spec[f]
    BY <2>2, <2>3 DEF Created, VersionSpec, Fields
  <2>5. k \notin raced' => Owner(versions', k, pass'[k], cr'[k])
    BY SMTT(30), <1>0, <2>1, <2>2, <2>4, OwnFacts DEF Owner, Known, Mine
  <2>6. Unraced' => Honest(versions', k, pass'[k], cr'[k], queued', unheard')
    BY <1>0, <2>1, <2>2, <2>4, OwnFacts DEF Honest, Owner
  <2>7. QED
    BY <2>5, <2>6 DEF OwnInv
<1>3. QED
  BY <1>1, <1>2 DEF ConfigureCreated

(* A setting that is put, or was not there to delete, is off the list.     *)
LEMMA SettingPut ==
  ASSUME OwnersInv, NEW k \in Key, Handlers(k), At(k, "update"),
         NEW f \in Fields, NEW v,
         v = pass[k].desired.spec[f],
         \/ /\ Exists(pass[k].desired.status.version)
            /\ Put(pass[k].desired.status.version, f, v)
         \/ /\ ~Exists(pass[k].desired.status.version) /\ v = Nil
            /\ versions' = versions
         \/ k \in unheard' /\ versions' = versions,
         pass' = [pass EXCEPT ![k].todo = @ \ {f}],
         cr' = cr, queued' = queued, unheard \subseteq unheard'
  PROVE  OwnInv(k)'
<1> DEFINE n == pass[k].desired.status.version
<1>1. /\ pass'[k].pc = "update" /\ pass'[k].todo = pass[k].todo \ {f}
      /\ pass'[k].desired = pass[k].desired /\ pass'[k].latest = pass[k].latest
  BY TypesOfPass DEF At, IdlePass, OwnersInv
<1>2. pass[k].pc = "update"
  BY DEF At
<1>3. k \notin raced' => Owner(versions', k, pass'[k], cr'[k])
  <2>1. \A m : /\ Known(versions, m) => Known(versions', m)
               /\ Mine(versions, k, m) => Mine(versions', k, m)
    BY OwnFacts, NumbersGrow
  <2>2. QED
    BY <1>1, <1>2, <2>1, OwnFacts DEF Owner
<1>4. ASSUME k \notin unheard'
      PROVE  /\ Setting(versions', n, f) = v
             /\ \A g \in Fields \ {f} :
                  Setting(versions', n, g) = Setting(versions, n, g)
  <2>1. CASE Exists(n) /\ Put(n, f, v)
    <3>1. n \in 1..Len(versions) /\ versions[n] \in Version /\ versions \in Seq(Version)
      BY <2>1 DEF Exists, OwnersInv, NumbersInv, AwsOK
    <3>2. /\ Len(versions') = Len(versions)
          /\ versions'[n] = [versions[n] EXCEPT ![f] = v]
      BY <2>1, <3>1 DEF Put
    <3>3. /\ versions'[n].exists = versions[n].exists /\ versions'[n][f] = v
          /\ \A g \in Fields \ {f} : versions'[n][g] = versions[n][g]
      BY <3>1, <3>2 DEF Version, Fields
    <3>4. QED
      BY <2>1, <3>1, <3>2, <3>3 DEF Setting, There, Exists
  <2>2. CASE ~Exists(n) /\ v = Nil /\ versions' = versions
    BY <2>2 DEF Setting, There, Exists
  <2>3. QED
    BY <1>4, <2>1, <2>2
<1>5. Unraced' => Honest(versions', k, pass'[k], cr'[k], queued', unheard')
  BY <1>1, <1>2, <1>4, OwnFacts DEF Honest
<1>6. QED
  BY <1>3, <1>5 DEF OwnInv

LEMMA UpdateOwn ==
  ASSUME OwnersInv, NEW k \in Key, customUpdateVersion(k) PROVE OwnInv(k)'
<1>0. /\ queued' = queued /\ cr' = cr /\ ~Idle(k) /\ pass[k].pc = "update"
      /\ At(k, "update") /\ Handlers(k) /\ unheard \subseteq unheard'
  BY DEF customUpdateVersion, syncEventInvokeConfig, updateProvisionedConcurrency,
     ReadAgain, At, Idle, history, Handlers, Update
<1>1. CASE EndPass(k, "Recoverable")
  BY <1>0, <1>1, EndPassOwn
<1>2. CASE syncEventInvokeConfig(k) /\ ~EndPass(k, "Recoverable")
  <2> DEFINE n == pass[k].desired.status.version
             v == pass[k].desired.spec.eventInvoke
  <2>1. pass' = [pass EXCEPT ![k].todo = @ \ {"eventInvoke"}]
    BY <1>2 DEF syncEventInvokeConfig
  <2>2. \/ Exists(n) /\ Put(n, "eventInvoke", v)
        \/ ~Exists(n) /\ v = Nil /\ versions' = versions
        \/ k \in unheard' /\ versions' = versions
    BY <1>2 DEF syncEventInvokeConfig
  <2>3. QED
    BY <1>0, <2>1, <2>2, SettingPut DEF Fields
<1>3. CASE updateProvisionedConcurrency(k) /\ ~EndPass(k, "Recoverable")
  <2> DEFINE n == pass[k].desired.status.version
             v == pass[k].desired.spec.provisioned
  <2>1. pass' = [pass EXCEPT ![k].todo = @ \ {"provisioned"}]
    BY <1>3 DEF updateProvisionedConcurrency
  <2>2. Exists(n) /\ Put(n, "provisioned", v)
    BY <1>3 DEF updateProvisionedConcurrency
  <2>3. QED
    BY <1>0, <2>1, <2>2, SettingPut DEF Fields
<1>4. CASE ReadAgain(k)
  <2>1. /\ pass'[k].pc = "read" /\ pass'[k].why = "updated"
        /\ pass'[k].desired = pass[k].desired /\ pass'[k].latest = pass[k].latest
        /\ \A f \in Fields : f \notin pass[k].todo
        /\ versions' = versions /\ unheard' = unheard
    BY <1>4, TypesOfPass DEF ReadAgain, IdlePass, OwnersInv, Fields, aws, history
  <2>2. k \notin raced' => Owner(versions', k, pass'[k], cr'[k])
    BY <1>0, <2>1, OwnFacts DEF Owner
  <2>3. Unraced' => Honest(versions', k, pass'[k], cr'[k], queued', unheard')
    BY <1>0, <2>1, OwnFacts DEF Honest
  <2>4. QED
    BY <2>2, <2>3 DEF OwnInv
<1>5. QED
  BY <1>1, <1>2, <1>3, <1>4 DEF customUpdateVersion

(* What a creation is given and what it returns differ in the pin: the key *)
(* is queued again. What an update has written is patched into the CR.     *)
LEMMA WriteBackOwn ==
  ASSUME OwnersInv, NEW k \in Key, WriteBack(k) PROVE OwnInv(k)'
<1> DEFINE p == pass[k]
           d == p.desired.spec
           l == p.latest.spec
           s == Patched(d, l, cr[k].spec)
<1>0. /\ versions' = versions /\ raced' = raced /\ unheard' = unheard
      /\ ~Idle(k) /\ p.pc = "writeback" /\ Handlers(k)
  BY DEF WriteBack, At, Idle, aws, history, Handlers
<1>1. cr[k].exists /\ p.why \in Purposes
  <2>1. GoodPass(p, cr[k]) /\ GoodCR(cr[k])
    BY DEF OwnersInv, NumbersInv
  <2>2. QED
    BY <1>0, <2>1 DEF GoodPass, GoodCR
<1>2. /\ d \in VersionSpec /\ l \in VersionSpec /\ cr[k].spec \in VersionSpec
  BY <1>0, <1>1, PassTypes, StoredTypes DEF OwnersInv
<1>3. /\ s = [f \in {"eventInvoke", "provisioned", "pin"} |->
                IF d[f] # l[f] THEN l[f] ELSE cr[k].spec[f]]
      /\ \A f \in {"eventInvoke", "provisioned", "pin"} :
           s[f] = IF d[f] # l[f] THEN l[f] ELSE cr[k].spec[f]
  BY <1>2 DEF Patched, VersionSpec
<1>4. /\ cr'[k].exists = cr[k].exists /\ cr'[k].spec = s
      /\ cr'[k].status = cr[k].status
      /\ queued' = IF s # cr[k].spec THEN queued \cup {k} ELSE queued
  <2>1. /\ cr' = [cr EXCEPT ![k].spec = s]
        /\ queued' = IF s # cr[k].spec THEN queued \cup {k} ELSE queued
    BY DEF WriteBack, PatchSpec, StoreSpec
  <2> HIDE DEF s, p, d, l
  <2>2. DOMAIN cr = Key /\ cr[k] \in [exists : {TRUE}, spec : VersionSpec,
           status : Statuses, deleting : BOOLEAN, finalizer : BOOLEAN,
           cond : Conditions]
    BY <1>1, VersionCR DEF OwnersInv, NumbersInv, GoodCR
  <2>3. /\ cr'[k].exists = cr[k].exists /\ cr'[k].spec = s
        /\ cr'[k].status = cr[k].status
    BY <2>1, <2>2
  <2>4. QED
    BY <2>1, <2>3
<1>5. \/ /\ p.why = "created" /\ pass'[k].pc = "read" /\ pass'[k].why = "created"
         /\ pass'[k].desired = p.desired /\ pass'[k].latest = p.latest
      \/ /\ p.why # "created" /\ pass'[k].pc = "finish" /\ pass'[k].why = p.why
         /\ pass'[k].desired = p.desired /\ pass'[k].latest = p.latest
  <2>1. \/ p.why = "created" /\ pass' = [pass EXCEPT ![k].pc = "read"]
        \/ /\ p.why # "created"
           /\ pass' = [pass EXCEPT ![k].pc = "finish", ![k].outcome = "Synced"]
    BY DEF WriteBack, Goto, EndPass
  <2>2. QED
    BY ZenonT(60), <2>1, TypesOfPass DEF IdlePass, OwnersInv
<1>6. s.pin \in {l.pin, cr[k].spec.pin}
  BY <1>3
<1>7. k \notin raced' => Owner(versions', k, pass'[k], cr'[k])
  <2> HIDE DEF s
  <2> QED
    BY <1>0, <1>1, <1>4, <1>5, <1>6, OwnFacts DEF Owner
<1>8. ASSUME Unraced' PROVE Honest(versions', k, pass'[k], cr'[k], queued', unheard')
  <2>1. /\ p.why = "created" => l.pin # d.pin
        /\ p.why # "created" => Serves(versions, p.latest.status.version, l)
        /\ k \notin queued => cr[k].spec = d
    BY <1>0, <1>8, OwnFacts DEF Honest
  <2>2. CASE p.why = "created"
    <3>1. k \in queued'
      BY <1>3, <1>4, <2>1, <2>2
    <3>2. QED
      BY <1>5, <2>2, <3>1 DEF Honest
  <2>3. CASE p.why # "created"
    <3>1. ASSUME k \notin queued'
          PROVE  s = d /\ \A f \in Fields : s[f] = l[f]
      <4>1. k \notin queued /\ s = cr[k].spec /\ s = d
        BY <1>4, <2>1, <3>1
      <4>2. QED
        BY <1>3, <4>1 DEF Fields
    <3>2. k \notin queued' => Serves(versions, p.latest.status.version, s)
      BY <2>1, <2>3, <3>1 DEF Serves
    <3> HIDE DEF s
    <3>3. QED
      BY <1>0, <1>4, <1>5, <2>3, <3>1, <3>2 DEF Honest
  <2>4. QED
    BY <2>2, <2>3
<1>9. QED
  BY <1>7, <1>8 DEF OwnInv

LEMMA sdkDeleteOwn ==
  ASSUME OwnersInv, NEW k \in Key, sdkDelete(k) PROVE OwnInv(k)'
<1>0. /\ queued' = queued /\ cr' = cr /\ ~Idle(k) /\ Handlers(k)
  BY DEF sdkDelete, At, Idle, Handlers, Delete
<1>1. Goto(k, "unmanage") \/ EndPass(k, "Recoverable")
  BY DEF sdkDelete
<1>2. CASE EndPass(k, "Recoverable")
  BY <1>0, <1>2, EndPassOwn
<1>3. CASE Goto(k, "unmanage")
  <2>1. /\ DOMAIN pass'[k] = DOMAIN IdlePass /\ pass'[k].pc = "unmanage"
        /\ pass'[k].desired = pass[k].desired /\ pass'[k].latest = pass[k].latest
    BY <1>3, TypesOfPass DEF Goto, IdlePass, OwnersInv
  <2>2. QED
    BY <1>0, <2>1, GotoOwn
<1>4. QED
  BY <1>1, <1>2, <1>3

(* What the CR records is what its pass has seen.                          *)
LEMMA EndOwn ==
  ASSUME OwnersInv, NEW k \in Key, End(k) PROVE OwnInv(k)'
<1>0. /\ versions' = versions /\ raced' = raced /\ unheard' = unheard
      /\ ~Idle(k) /\ pass[k].pc = "finish" /\ Handlers(k)
  BY DEF End, Finish, At, Idle, aws, history, Handlers
<1>1. pass'[k] = IdlePass /\ IdlePass.pc = "idle"
  BY TypesOfPass DEF End, Finish, OwnersInv, IdlePass
<1>2. CASE cr[k].exists
  <2>1. /\ cr'[k].exists /\ cr'[k].spec = cr[k].spec
        /\ cr'[k].cond = pass[k].outcome
        /\ cr'[k].status = pass[k].latest.status
        /\ queued \subseteq queued'
    <3>1. cr' = [cr EXCEPT ![k].cond = pass[k].outcome,
                           ![k].status = pass[k].latest.status]
      BY <1>2 DEF End, Finish
    <3>2. queued \subseteq queued'
      BY <1>2 DEF End, Finish
    <3>3. DOMAIN cr = Key /\ cr[k] \in [exists : {TRUE}, spec : VersionSpec,
             status : Statuses, deleting : BOOLEAN, finalizer : BOOLEAN,
             cond : Conditions]
      BY <1>2, VersionCR DEF OwnersInv, NumbersInv, GoodCR
    <3>4. /\ cr'[k].exists = cr[k].exists /\ cr'[k].spec = cr[k].spec
          /\ cr'[k].cond = pass[k].outcome
          /\ cr'[k].status = pass[k].latest.status
      BY <3>1, <3>3
    <3>5. QED
      BY <1>2, <3>2, <3>4
  <2>2. k \notin raced' => Owner(versions', k, pass'[k], cr'[k])
    BY <1>0, <1>1, <1>2, <2>1, OwnFacts DEF Owner
  <2>3. Unraced' => Honest(versions', k, pass'[k], cr'[k], queued', unheard')
    BY <1>0, <1>1, <2>1, OwnFacts DEF Honest
  <2>4. QED
    BY <2>2, <2>3 DEF OwnInv
<1>3. CASE ~cr[k].exists
  <2>1. cr' = cr
    BY <1>3 DEF End, Finish
  <2>2. QED
    BY <1>1, <1>3, <2>1 DEF OwnInv, Owner, Honest
<1>4. QED
  BY <1>2, <1>3

LEMMA HandlersOwn ==
  ASSUME OwnersInv, NEW k \in Key, Handlers(k) PROVE OwnInv(k)'
BY sdkFindOwn, setResourceAdditionalFieldsOwn, FinalizerOwn, ListOwn,
   PublishVersionOwn, ConfigureCreatedOwn, UpdateOwn, WriteBackOwn, sdkDeleteOwn,
   EndOwn
   DEF Handlers, ReadOne, Create, Update, Delete

(* Users and failures.                                                     *)
LEMMA EnvironmentOwn ==
  ASSUME OwnersInv, NEW k \in Key, Environment(k) PROVE OwnInv(k)'
<1>0. versions' = versions /\ raced' = raced /\ unheard' = unheard
  BY DEF Environment, Fail, Users, aws, history
<1>1. CASE Fail(k)
  BY <1>1, EndPassOwn DEF Fail, CallFails, Idle, At
<1>2. ASSUME pass'[k] = pass[k], k \in queued',
             cr'[k].exists =>
               \/ /\ cr[k].exists /\ cr'[k].status = cr[k].status
                  /\ cr'[k].spec.pin = cr[k].spec.pin
               \/ /\ Mine(versions, k, cr'[k].status.version)
                  /\ Known(versions, cr'[k].spec.pin)
      PROVE  OwnInv(k)'
  <2>1. k \notin raced' => Owner(versions', k, pass'[k], cr'[k])
    BY <1>0, <1>2, OwnFacts DEF Owner
  <2>2. Unraced' => Honest(versions', k, pass'[k], cr'[k], queued', unheard')
    BY <1>0, <1>2, OwnFacts DEF Honest
  <2>3. QED
    BY <2>1, <2>2 DEF OwnInv
<1>3. CASE Users(k)
  <2>0. pass'[k] = pass[k] /\ k \in queued'
    BY <1>3 DEF Users, UserApply, UserEdit, UserDelete
  <2>1. ASSUME NEW s \in Specs, UserApply(k, s, NoStatus) PROVE OwnInv(k)'
    <3>1. cr'[k] = FreshCR(s, NoStatus)
      BY <2>1, TypesOfPass DEF UserApply, OwnersInv
    <3>2. cr'[k].status.version = Nil /\ cr'[k].spec.pin = Nil
      BY <3>1, VersionSpecs DEF FreshCR, NoStatus
    <3>3. QED
      BY <1>2, <2>0, <3>2 DEF Mine, Known
  <2>2. ASSUME cr[k].exists, NEW s \in Specs,
               UserEdit(k, [s EXCEPT !.pin = cr[k].spec.pin])
        PROVE  OwnInv(k)'
    <3> DEFINE e == [s EXCEPT !.pin = cr[k].spec.pin]
    <3>1. e.pin = cr[k].spec.pin
      BY VersionSpecs DEF VersionSpec
    <3>2. cr' = [cr EXCEPT ![k].spec = e]
      BY <2>2 DEF UserEdit
    <3> HIDE DEF e
    <3>3. cr'[k].spec.pin = cr[k].spec.pin /\ cr'[k].status = cr[k].status
      BY <2>2, <3>1, <3>2, TypesOfPass DEF OwnersInv
    <3>4. QED
      BY <1>2, <2>0, <2>2, <3>3
  <2>3. CASE UserDelete(k)
    <3>1. cr[k].exists /\ cr'[k] \in {NoCR, [cr[k] EXCEPT !.deleting = TRUE]}
      BY <2>3, TypesOfPass DEF UserDelete, OwnersInv
    <3>2. cr'[k].exists =>
            cr'[k].spec.pin = cr[k].spec.pin /\ cr'[k].status = cr[k].status
      <4>1. CASE cr'[k] = NoCR
        BY <4>1 DEF NoCR
      <4>2. CASE cr'[k] = [cr[k] EXCEPT !.deleting = TRUE]
        BY <3>1, <4>2, TypesOfPass DEF OwnersInv
      <4>3. QED
        BY <3>1, <4>1, <4>2
    <3>3. QED
      BY <1>2, <2>0, <3>1, <3>2
  <2>4. QED
    BY <1>3, <2>1, <2>2, <2>3 DEF Users
<1>4. CASE Resync(k)
  BY <1>2, <1>4 DEF Resync
<1>5. QED
  BY <1>1, <1>3, <1>4 DEF Environment

-----------------------------------------------------------------------------
(* The invariant holds, and what follows from it.                          *)

LEMMA InitOwners == Init => OwnersInv
<1> SUFFICES ASSUME Init, NEW k \in Key PROVE OwnInv(k)
  BY InitNumbers DEF OwnersInv
<1>1. PICK s \in Specs : cr[k] = FreshCR(s, NoStatus)
  BY DEF Init, PassInit
<1>2. cr[k].status.version = Nil /\ cr[k].spec.pin = Nil
  BY <1>1, VersionSpecs DEF FreshCR, NoStatus
<1>3. pass[k] = IdlePass /\ IdlePass.pc = "idle" /\ queued = Key
  BY DEF Init, PassInit, IdlePass
<1>4. QED
  BY <1>2, <1>3 DEF OwnInv, Owner, Honest, Mine, Known

(* The steps of AWS, and those of others that are counted.                 *)
LEMMA OutsideOwners ==
  ASSUME OwnersInv, NumbersInv', UpdateFunction \/ Settle \/ Drift
  PROVE  OwnersInv'
<1>0. NumbersInv /\ spent \in Counts /\ UNCHANGED <<cr, queued, pass, history>>
  BY DEF OwnersInv, NumbersInv, UpdateFunction, Settle, Drift, passVars
<1>1. /\ Grows(versions, versions')
      /\ ~Drift => \A n : Keeps(versions, versions', n)
  <2>1. CASE UpdateFunction
    BY <1>0, <2>1, NothingMoves DEF UpdateFunction
  <2>2. CASE Settle
    <3>1. PICK m \in 1..Len(versions) :
            versions' = [versions EXCEPT ![m].pending = FALSE]
      BY <2>2 DEF Settle, Published
    <3> DEFINE x == [versions[m] EXCEPT !.pending = FALSE]
    <3>2. versions \in Seq(Version) /\ versions[m] \in Version
      BY <1>0, <3>1 DEF NumbersInv, AwsOK
    <3>3. /\ x.by = versions[m].by /\ x.exists = versions[m].exists
          /\ \A f \in Fields : x[f] = versions[m][f]
      BY <3>2 DEF Version, Fields
    <3>4. versions' = [versions EXCEPT ![m] = x]
      BY <3>1
    <3> HIDE DEF x
    <3>5. Grows(versions, versions') /\ \A n : n # m => Keeps(versions, versions', n)
      BY <1>0, <3>3, <3>4, OneMoves
    <3>6. Keeps(versions, versions', m)
      BY <3>2, <3>3, <3>4 DEF Keeps, There
    <3>7. QED
      BY <3>5, <3>6
  <2>3. CASE Drift
    <3>1. \/ \E x : versions' = Append(versions, x)
          \/ \E m \in 1..Len(versions) : \E x :
               x.by = versions[m].by /\ versions' = [versions EXCEPT ![m] = x]
      <4>1. ASSUME NEW m \in 1..Len(versions)
            PROVE  /\ [versions[m] EXCEPT !.exists = FALSE].by = versions[m].by
                   /\ \A v : [versions[m] EXCEPT !["eventInvoke"] = v].by
                              = versions[m].by
        <5>1. versions[m] \in Version
          BY <1>0 DEF NumbersInv, AwsOK
        <5>2. QED
          BY <5>1 DEF Version
      <4>2. CASE \E n \in Published : versions' = [versions EXCEPT ![n].exists = FALSE]
        <5>1. PICK n \in Published : versions' = [versions EXCEPT ![n].exists = FALSE]
          BY <4>2
        <5> DEFINE x == [versions[n] EXCEPT !.exists = FALSE]
        <5>2. n \in 1..Len(versions) /\ x.by = versions[n].by
          BY <4>1 DEF Published
        <5>3. versions' = [versions EXCEPT ![n] = x]
          BY <5>1
        <5> HIDE DEF x
        <5>4. QED
          BY <5>2, <5>3
      <4>3. CASE \E n \in Published : \E v \in Value \cup {Nil} : Put(n, "eventInvoke", v)
        <5>1. PICK n \in Published, v \in Value \cup {Nil} : Put(n, "eventInvoke", v)
          BY <4>3
        <5> DEFINE x == [versions[n] EXCEPT !["eventInvoke"] = v]
        <5>2. n \in 1..Len(versions) /\ x.by = versions[n].by
          BY <4>1 DEF Published
        <5>3. versions' = [versions EXCEPT ![n] = x]
          BY <5>1 DEF Put
        <5> HIDE DEF x
        <5>4. QED
          BY <5>2, <5>3
      <4>4. QED
        BY <2>3, <4>2, <4>3 DEF Drift
    <3>2. QED
      BY <1>0, <2>3, <3>1, OneMore, OneMoves
  <2>4. QED
    BY <2>1, <2>2, <2>3
<1>2. NoDriftYet' => NoDriftYet /\ ~Drift
  <2>1. Drift => Spend("drifts")
    BY DEF Drift
  <2>2. ~Drift => Spend("edits") \/ UNCHANGED spent
    BY DEF UpdateFunction, Settle, passVars
  <2>3. Spend("drifts") => ~NoDriftYet'
    BY <1>0 DEF Spend, Counts, NoDriftYet
  <2>4. QED
    BY <1>0, <2>1, <2>2, <2>3, DriftsGrow
<1>3. ASSUME NEW j \in Key PROVE OwnInv(j)'
  BY <1>0, <1>1, <1>2, OthersOwn DEF Unraced, history
<1>4. QED
  BY <1>3 DEF OwnersInv

LEMMA NextKeepsOwners == OwnersInv /\ [Next]_vars => OwnersInv'
<1> SUFFICES ASSUME OwnersInv, [Next]_vars PROVE OwnersInv'
  OBVIOUS
<1>0. NumbersInv /\ NumbersInv'
  BY NextStep DEF OwnersInv
<1>1. ASSUME NEW k \in Key, Begin(k) \/ Handlers(k) \/ Environment(k)
      PROVE  OwnersInv'
  BY <1>0, <1>1, BeginOwn, HandlersOwn, EnvironmentOwn, OthersKeep
<1>2. CASE Crash /\ UNCHANGED <<aws, history>>
  <2>1. ASSUME NEW k \in Key PROVE OwnInv(k)'
    <3>1. /\ pass'[k] = IdlePass /\ IdlePass.pc = "idle" /\ cr' = cr
          /\ cr[k].exists => k \in queued'
          /\ versions' = versions /\ raced' = raced
      BY <1>2 DEF Crash, IdlePass, aws, history
    <3>2. OwnInv(k)
      BY DEF OwnersInv
    <3>3. QED
      BY <3>1, <3>2 DEF OwnInv, Owner, Honest
  <2>2. QED
    BY <1>0, <2>1 DEF OwnersInv
<1>3. CASE UpdateFunction \/ Settle \/ Drift
  BY <1>0, <1>3, OutsideOwners
<1>4. CASE UNCHANGED vars
  <2>1. ASSUME NEW k \in Key PROVE OwnInv(k)'
    <3>1. OwnInv(k) /\ UNCHANGED <<cr, queued, pass, spent, versions, raced, unheard>>
      BY <1>4 DEF OwnersInv, vars, passVars, aws, history
    <3>2. QED
      BY <3>1 DEF OwnInv, Unraced, NoDriftYet
  <2>2. QED
    BY <1>0, <2>1 DEF OwnersInv
<1>5. QED
  BY <1>1, <1>2, <1>3, <1>4 DEF Next

LEMMA OwnersHold == Spec => []OwnersInv
BY InitOwners, NextKeepsOwners, PTL DEF Spec

(* Two Version CRs get hold of the same version, of which each would delete*)
(* what the other one has, only if one of them has published within the    *)
(* other one's list and publish calls: however many CRs, restarts, lost    *)
(* answers, deletions and re-creations there are.                          *)
THEOREM VersionsAreShared == Spec => []SharedOnlyByRace
<1>1. OwnersInv => SharedOnlyByRace
  <2> SUFFICES ASSUME OwnersInv, NEW j \in Key, NEW k \in Key, j # k,
                      cr[j].status # Nil, cr[k].status # Nil,
                      cr[j].status.version = cr[k].status.version,
                      cr[k].status.version # Nil,
                      j \notin raced, k \notin raced
               PROVE  FALSE
    BY DEF SharedOnlyByRace
  <2>1. cr[j].exists /\ cr[k].exists
    <3>1. GoodCR(cr[j]) /\ GoodCR(cr[k])
      BY DEF OwnersInv, NumbersInv
    <3>2. \A c \in CRs(VersionSpec, Statuses) : c = NoCR \/ c.exists
      BY DEF CRs
    <3>3. NoCR.status = Nil
      BY DEF NoCR
    <3>4. QED
      BY <3>1, <3>2, <3>3 DEF GoodCR
  <2>2. Owner(versions, j, pass[j], cr[j]) /\ Owner(versions, k, pass[k], cr[k])
    BY DEF OwnersInv, OwnInv
  <2>3. QED
    BY <2>1, <2>2 DEF Owner, Mine
<1>2. QED
  BY <1>1, OwnersHold, PTL

(* A CR that rests as Synced has its version, with the two configurations  *)
(* that it asks for, although the creation skips them: it is queued again. *)
THEOREM SyncedHasItsVersion == Spec => []SyncedMeansApplied
<1>1. OwnersInv => SyncedMeansApplied
  <2> SUFFICES ASSUME OwnersInv, NoDriftYet, raced = {}, NEW k \in Key, Rests(k),
                      cr[k].exists, cr[k].cond = "Synced"
               PROVE  Applied(k)
    BY DEF SyncedMeansApplied
  <2>1. Honest(versions, k, pass[k], cr[k], queued, unheard)
    BY DEF OwnersInv, OwnInv, Unraced
  <2>2. Serves(versions, cr[k].status.version, cr[k].spec)
    BY <2>1 DEF Honest, Rests, Idle, At
  <2>3. QED
    BY <2>2 DEF Serves, There, Applied, Exists, Fields
<1>2. QED
  BY <1>1, OwnersHold, PTL

(* No step of the controller changes the two configurations in the spec of *)
(* a CR, if no deletion of an event-invoke config failed silently.         *)
THEOREM SpecsAreTheUsers == Spec => EditsAreKept
<1>1. OwnersInv /\ [Next]_vars =>
        [\A k \in Key :
           /\ NoDriftYet /\ raced = {} /\ k \notin unheard
           /\ cr[k].exists /\ cr'[k].exists /\ spent'.edits = spent.edits
           => \A f \in {"eventInvoke", "provisioned"} :
                cr'[k].spec[f] = cr[k].spec[f]]_vars
  <2> SUFFICES ASSUME OwnersInv, Next, NEW k \in Key, NoDriftYet, raced = {},
                      k \notin unheard, cr[k].exists, cr'[k].exists,
                      spent'.edits = spent.edits, NEW f \in Fields
               PROVE  cr'[k].spec[f] = cr[k].spec[f]
    BY DEF Fields
  <2>0. NumbersInv /\ spent \in Counts
    BY DEF OwnersInv, NumbersInv
  <2>1. CASE cr'[k] = cr[k]
    BY <2>1
  <2>2. CASE WriteBack(k)
    <3> DEFINE d == pass[k].desired.spec
               l == pass[k].latest.spec
               s == Patched(d, l, cr[k].spec)
    <3>1. l[f] = d[f] /\ ~Idle(k)
      BY <2>2 DEF OwnersInv, OwnInv, Unraced, Honest, WriteBack, At, Idle
    <3>2. d \in VersionSpec
      BY <2>0, <3>1, PassTypes
    <3>3. s[f] = cr[k].spec[f]
      BY <3>1, <3>2 DEF Patched, VersionSpec, Fields
    <3>4. cr' = [cr EXCEPT ![k].spec = s]
      BY <2>2 DEF WriteBack, PatchSpec, StoreSpec
    <3> HIDE DEF s, d, l
    <3>5. cr'[k].spec = s
      <4>1. DOMAIN cr = Key /\ cr[k] \in [exists : {TRUE}, spec : VersionSpec,
               status : Statuses, deleting : BOOLEAN, finalizer : BOOLEAN,
               cond : Conditions]
        BY <2>0, VersionCR DEF NumbersInv, GoodCR
      <4>2. QED
        BY <3>4, <4>1
    <3>6. QED
      BY <3>3, <3>5
  <2>3. CASE Finalizer(k) \/ End(k)
    <3>1. DOMAIN cr = Key
      BY <2>0 DEF NumbersInv
    <3>2. CASE Manage(k)
      BY <3>1, <3>2, <2>0, TypesOfPass DEF Manage
    <3>3. CASE Unmanage(k)
      BY <3>1, <3>3 DEF Unmanage, NoCR
    <3>4. CASE End(k)
      <4>1. \/ cr' = [cr EXCEPT ![k].cond = pass[k].outcome,
                              ![k].status = pass[k].latest.status]
            \/ cr' = cr
        BY <3>4 DEF End, Finish
      <4>2. QED
        BY <3>1, <4>1, <2>0, TypesOfPass
    <3>5. QED
      BY <2>3, <3>2, <3>3, <3>4 DEF Finalizer
  <2>4. ~Spend("edits")
    BY <2>0 DEF Spend, Counts
  <2>5. CASE Users(k)
    BY <2>4, <2>5 DEF Users, UserApply, UserEdit, UserDelete
  <2>6. CASE \E j \in Key \ {k} : Begin(j) \/ Handlers(j) \/ Environment(j)
    BY <2>0, <2>1, <2>6, StepIsOfOne
  <2>7. CASE \/ Begin(k) \/ ReadOne(k) \/ Create(k) \/ Update(k) \/ Delete(k)
             \/ Fail(k) \/ Resync(k)
    <3>1. cr' = cr
      BY <2>7 DEF Begin, Start, ReadOne, sdkFind, setResourceAdditionalFields, Create,
         ListVersionsByFunction, PublishVersion, ConfigureCreated, Update,
         customUpdateVersion, syncEventInvokeConfig, updateProvisionedConcurrency,
         ReadAgain, Delete, sdkDelete, Fail, CallFails, Resync
    <3>2. QED
      BY <3>1
  <2>8. CASE \/ Crash \/ UpdateFunction \/ Settle \/ Drift
    <3>1. cr' = cr
      BY <2>8 DEF Crash, UpdateFunction, Settle, Drift, passVars
    <3>2. QED
      BY <3>1
  <2>9. QED
    BY <2>2, <2>3, <2>5, <2>6, <2>7, <2>8 DEF Next, Handlers, Environment
<1>2. QED
  BY <1>1, OwnersHold, PTL DEF Spec, EditsAreKept

-----------------------------------------------------------------------------
(* How many published versions nobody knows any more.  An answer that is   *)
(* lost, and each pass that a restart ends, may cost one.  Otherwise only  *)
(* the version that a CR publishes without configuring it is lost, which   *)
(* takes a number that is gone; and to publish at all, something must have *)
(* made the newest version another one than the function's code.           *)

(* Creation will not configure the version that it publishes, since its CR *)
(* has the number of another one.                                          *)
Unsafe(p) == Configured(p.desired.spec) # {} /\ p.desired.status.version # Nil

Retains(p, n) ==
  \/ p.pc = "configure" /\ n \in p.todo /\ ~Unsafe(p)
  \/ p.pc # "idle" /\ p.latest.status.version = n

Records(c, n) == c.exists /\ c.status.version = n

(* The published versions that nobody is going to know.                    *)
Endangered ==
  {n \in Published :
     /\ versions[n].by # "other"
     /\ \A k \in Key : ~Records(cr[k], n) /\ ~Retains(pass[k], n)}

(* A deletion that may still delete a version.                             *)
Removes(vs, p, c) ==
  /\ c.deleting
  /\ (p.pc # "idle" /\ p.why # "delete") \/ There(vs, c.status.version)

Removers == {k \in Key : Removes(versions, pass[k], cr[k])}
Running == {k \in Key : ~Idle(k)}

Gone(vs, n) == n = Nil \/ ~There(vs, n)

(* What a place in the pass says of its numbers.                           *)
Located(vs, p) ==
  /\ p.pc \in {"manage", "create", "publish", "configure", "unmanage"} =>
       Gone(vs, p.desired.status.version)
  /\ p.pc \in {"create", "publish", "configure", "update"} => p.why = "sync"
  /\ p.pc = "manage" => p.why = "sync" /\ ~p.desired.finalizer
  /\ p.pc \in {"delete", "unmanage"} => p.why = "delete"
  /\ p.pc = "fields" =>
       p.found.version = IF p.why = "created" THEN p.latest.status.version
                         ELSE p.desired.status.version
  /\ p.pc \in {"publish", "configure"} => p.todo \subseteq 1..Len(vs)

(* What passes and CRs know of numbers: a pass has another one than its CR *)
(* only when the CR's is gone.                                             *)
Learned(vs, p, c) ==
  /\ c.deleting => c.exists /\ c.finalizer
  /\ c.exists => Known(vs, c.status.version)
  /\ c.exists /\ ~c.finalizer => c.status.version = Nil
  /\ p.pc # "idle" =>
       /\ Known(vs, p.desired.status.version) /\ Known(vs, p.latest.status.version)
       /\ c.exists => c.status.version = p.desired.status.version
       /\ p.why # "created" => p.latest.status.version = p.desired.status.version
       /\ ~p.desired.finalizer => p.desired.status.version = Nil
       /\ p.why = "created" => c.finalizer /\ Gone(vs, p.desired.status.version)
       /\ p.why = "delete" => c.deleting
  /\ Located(vs, p)

(* As long as nobody interferes or races, the numbers are of versions that *)
(* are there, and only a CR that has none publishes.                       *)
Undisturbed(vs, p, c) ==
  /\ c.exists /\ ~c.deleting =>
       c.status.version = Nil \/ There(vs, c.status.version)
  /\ p.pc # "idle" /\ p.why # "delete" =>
       /\ p.desired.status.version = Nil \/ There(vs, p.desired.status.version)
       /\ p.latest.status.version = Nil \/ There(vs, p.latest.status.version)
  /\ p.pc = "configure" => \A n \in p.todo : There(vs, n)

(* What may happen to the versions still: that one is published, since the *)
(* newest is not of the function's code, and that one is deleted.          *)
Stale == IF Unchanged THEN 0 ELSE 1

Forgiven == (1 + spent.overlaps) * spent.faults
Happened == spent.edits + spent.drifts

(* l versions have been published, the newest of them is stale or not (o), *)
(* r deletions are to come and e versions endangered, where f are forgiven *)
(* and s things have happened.                                             *)
Balance(l, o, r, e, f, s, calm) ==
  /\ l + o + r =< 1 + s
  /\ calm => e =< f
  /\ ~calm => e + o + r =< f + s

FewRun == Cardinality(Running) =< 1 + spent.overlaps

Balanced ==
  /\ IsFiniteSet(Endangered)
  /\ Balance(Len(versions), Stale, Cardinality(Removers), Cardinality(Endangered),
             Forgiven, Happened, Unraced)

AllLearned == \A k \in Key : Learned(versions, pass[k], cr[k])
AllUndisturbed == \A k \in Key : Undisturbed(versions, pass[k], cr[k])

Accounted == AllLearned /\ (Unraced => AllUndisturbed) /\ Balanced

(* The inductive invariant.                                                *)
LossInv == OwnersInv /\ FewRun /\ Accounted
-----------------------------------------------------------------------------
(* Arithmetic.                                                             *)

LEMMA KeySets ==
  ASSUME NEW S, S \subseteq Key
  PROVE  IsFiniteSet(S) /\ Cardinality(S) \in Nat
BY VersionKeys, FS_Subset, FS_CardinalityType

LEMMA CountsAre ==
  ASSUME spent \in Counts
  PROVE  /\ DOMAIN spent = {"edits", "faults", "drifts", "overlaps"}
         /\ spent.edits \in Nat /\ spent.faults \in Nat
         /\ spent.drifts \in Nat /\ spent.overlaps \in Nat
BY DEF Counts

(* What each event that is counted adds to what is forgiven.               *)
LEMMA Forgives ==
  ASSUME spent \in Counts
  PROVE  /\ Forgiven \in Nat /\ Happened \in Nat
         /\ UNCHANGED spent => Forgiven' = Forgiven /\ Happened' = Happened
         /\ Spend("overlaps") =>
              Forgiven' \in Nat /\ Forgiven' >= Forgiven /\ Happened' = Happened
         /\ Spend("faults") =>
              Forgiven' = Forgiven + 1 + spent.overlaps /\ Happened' = Happened
         /\ Spend("edits") \/ Spend("drifts") =>
              Forgiven' = Forgiven /\ Happened' = Happened + 1
<1> DEFINE e == spent.edits
           d == spent.drifts
           o == spent.overlaps
           f == spent.faults
<1>1. /\ e \in Nat /\ d \in Nat /\ o \in Nat /\ f \in Nat
      /\ DOMAIN spent = {"edits", "faults", "drifts", "overlaps"}
  BY CountsAre
<1>2. ASSUME NEW b \in {"edits", "faults", "drifts", "overlaps"}, Spend(b)
      PROVE  /\ spent'.edits = IF b = "edits" THEN e + 1 ELSE e
             /\ spent'.drifts = IF b = "drifts" THEN d + 1 ELSE d
             /\ spent'.overlaps = IF b = "overlaps" THEN o + 1 ELSE o
             /\ spent'.faults = IF b = "faults" THEN f + 1 ELSE f
  BY <1>1, <1>2 DEF Spend
<1>3. /\ Forgiven = (1 + o) * f /\ Happened = e + d
      /\ Forgiven' = (1 + spent'.overlaps) * spent'.faults
      /\ Happened' = spent'.edits + spent'.drifts
  BY DEF Forgiven, Happened
<1>4. UNCHANGED spent => Forgiven' = Forgiven /\ Happened' = Happened
  BY DEF Forgiven, Happened
<1> HIDE DEF e, d, o, f
<1>5. /\ (1 + o) * f \in Nat /\ (1 + o) * (f + 1) = (1 + o) * f + 1 + o
      /\ (1 + (o + 1)) * f = (1 + o) * f + f
  BY <1>1
<1>6. ASSUME Spend("overlaps")
      PROVE  Forgiven' \in Nat /\ Forgiven' >= Forgiven /\ Happened' = Happened
  <2> DEFINE a == (1 + o) * f
  <2>1. Forgiven' = a + f /\ Forgiven = a /\ a \in Nat
    BY <1>2, <1>3, <1>5, <1>6
  <2> HIDE DEF a
  <2>2. Forgiven' \in Nat /\ Forgiven' >= Forgiven
    BY <1>1, <2>1
  <2>3. QED
    BY <1>2, <1>3, <1>6, <2>2
<1>7. ASSUME Spend("faults")
      PROVE  Forgiven' = Forgiven + 1 + o /\ Happened' = Happened
  BY <1>2, <1>3, <1>5, <1>7
<1>8. ASSUME Spend("edits") \/ Spend("drifts")
      PROVE  Forgiven' = Forgiven /\ Happened' = Happened + 1
  BY <1>1, <1>2, <1>3, <1>8
<1>9. Forgiven \in Nat /\ Happened \in Nat
  BY <1>1, <1>3, <1>5
<1>10. QED
  BY <1>4, <1>6, <1>7, <1>8, <1>9 DEF o

LEMMA StaleIs == Stale \in 0..1 /\ Stale' \in 0..1
BY DEF Stale

-----------------------------------------------------------------------------
(* What the steps of a pass do to what is known.                           *)

(* Versions may be deleted and published.                                  *)
Ages(vs, ws) ==
  /\ Grows(vs, ws)
  /\ \A n \in 1..Len(vs) : There(ws, n) => There(vs, n)

Alone(k) == \A j \in Key \ {k} : pass'[j] = pass[j] /\ cr'[j] = cr[j]

(* A pass goes on with the numbers that it had.                            *)
Continues(p, c, q, d) ==
  /\ p.pc # "idle" /\ q.pc # "idle"
  /\ q.desired = p.desired
  /\ q.latest.status.version = p.latest.status.version
  /\ q.why = p.why \/ (p.why = "sync" /\ q.why = "updated")
  /\ d.exists = c.exists /\ d.deleting = c.deleting /\ d.status = c.status
  /\ d.finalizer = c.finalizer \/ (c.exists /\ d.finalizer)

LEMMA NilIsNowhere ==
  ASSUME NEW vs, Len(vs) \in Nat PROVE ~There(vs, Nil)
BY VersionNil DEF There

LEMMA NumbersAge ==
  ASSUME NEW vs, NEW ws, Ages(vs, ws), NEW n, Known(vs, n)
  PROVE  Known(ws, n) /\ (Gone(vs, n) => Gone(ws, n)) /\ (There(ws, n) => There(vs, n))
<1>1. CASE n = Nil
  BY <1>1, NilIsNowhere DEF Ages, Grows, Known, Gone
<1>2. CASE n \in 1..Len(vs)
  BY <1>2 DEF Ages, Grows, Known, Gone
<1>3. QED
  BY <1>1, <1>2 DEF Known

LEMMA LocatedAges ==
  ASSUME NEW vs, NEW ws, Ages(vs, ws), NEW p, Located(vs, p),
         p.pc # "idle" => Known(vs, p.desired.status.version)
  PROVE  Located(ws, p)
<1>1. 1..Len(vs) \subseteq 1..Len(ws)
  BY DEF Ages, Grows
<1>2. p.pc # "idle" =>
        (Gone(vs, p.desired.status.version) => Gone(ws, p.desired.status.version))
  BY NumbersAge
<1>3. QED
  BY <1>1, <1>2 DEF Located

LEMMA LearnedAges ==
  ASSUME NEW vs, NEW ws, Ages(vs, ws), NEW p, NEW c, Learned(vs, p, c)
  PROVE  Learned(ws, p, c)
<1>1. p.pc # "idle" =>
        /\ Known(ws, p.desired.status.version) /\ Known(ws, p.latest.status.version)
        /\ Gone(vs, p.desired.status.version) => Gone(ws, p.desired.status.version)
  BY NumbersAge DEF Learned
<1>2. c.exists => Known(ws, c.status.version)
  BY NumbersAge DEF Learned
<1>3. Located(ws, p)
  BY LocatedAges DEF Learned
<1>4. QED
  BY <1>1, <1>2, <1>3 DEF Learned

LEMMA GoOnLearned ==
  ASSUME NEW vs, NEW ws, Ages(vs, ws), NEW p, NEW c, Learned(vs, p, c),
         NEW q, NEW d, Continues(p, c, q, d), Located(ws, q)
  PROVE  Learned(ws, q, d)
<1>1. Learned(ws, p, c)
  BY LearnedAges
<1>2. QED
  BY <1>1 DEF Learned, Continues

LEMMA GoOnUndisturbed ==
  ASSUME NEW vs, NEW ws, \A n : There(vs, n) => There(ws, n),
         NEW p, NEW c, Undisturbed(vs, p, c),
         NEW q, NEW d, Continues(p, c, q, d),
         q.pc = "configure" => \A n \in q.todo : There(ws, n)
  PROVE  Undisturbed(ws, q, d)
BY DEF Undisturbed, Continues

LEMMA GoOnRetains ==
  ASSUME NEW p, NEW c, NEW q, NEW d, Continues(p, c, q, d), NEW n,
         Records(c, n) \/ Retains(p, n)
  PROVE  \/ Records(d, n) \/ Retains(q, n)
         \/ p.pc = "configure" /\ n \in p.todo /\ ~Unsafe(p)
BY DEF Continues, Records, Retains

LEMMA RemovesAges ==
  ASSUME NEW vs, NEW ws, Ages(vs, ws), NEW p, NEW c, Learned(vs, p, c),
         Removes(ws, p, c)
  PROVE  Removes(vs, p, c)
<1>1. c.deleting => (There(ws, c.status.version) => There(vs, c.status.version))
  BY NumbersAge DEF Learned
<1>2. QED
  BY <1>1 DEF Removes

LEMMA GoOnRemoves ==
  ASSUME NEW vs, NEW ws, Ages(vs, ws), NEW p, NEW c, Learned(vs, p, c),
         NEW q, NEW d, Continues(p, c, q, d), Removes(ws, q, d)
  PROVE  Removes(vs, p, c)
<1>1. Removes(ws, p, c)
  BY DEF Removes, Continues
<1>2. QED
  BY <1>1, RemovesAges

(* What others know.                                                       *)
LEMMA LossTypes ==
  ASSUME LossInv
  PROVE  /\ NumbersInv /\ OwnersInv /\ AllLearned /\ FewRun /\ Balanced
         /\ spent \in Counts /\ Len(versions) \in Nat /\ versions \in Seq(Version)
         /\ DOMAIN pass = Key /\ DOMAIN cr = Key
         /\ \A k \in Key : /\ DOMAIN pass[k] = DOMAIN IdlePass
                           /\ GoodPass(pass[k], cr[k]) /\ GoodCR(cr[k])
                           /\ Learned(versions, pass[k], cr[k])
BY DEF LossInv, Accounted, OwnersInv, NumbersInv, AwsOK, AllLearned, GoodPass

LEMMA OthersLearn ==
  ASSUME LossInv, NEW k \in Key, Alone(k), Ages(versions, versions'),
         Learned(versions', pass'[k], cr'[k])
  PROVE  AllLearned'
<1> SUFFICES ASSUME NEW j \in Key \ {k} PROVE Learned(versions', pass'[j], cr'[j])
  BY DEF AllLearned
<1>1. Learned(versions, pass[j], cr[j]) /\ pass'[j] = pass[j] /\ cr'[j] = cr[j]
  BY LossTypes DEF Alone
<1>2. Learned(versions', pass[j], cr[j])
  BY <1>1, LearnedAges
<1>3. QED
  BY <1>1, <1>2

LEMMA MineThere ==
  ASSUME NEW vs, NEW ws, NEW j, \A n : Mine(vs, j, n) => Keeps(vs, ws, n),
         NEW p, NEW c, Owner(vs, j, p, c), Undisturbed(vs, p, c)
  PROVE  Undisturbed(ws, p, c)
<1>1. \A n : Mine(vs, j, n) /\ There(vs, n) => There(ws, n)
  BY DEF Keeps
<1>2. /\ c.exists => Mine(vs, j, c.status.version)
      /\ p.pc # "idle" => /\ Mine(vs, j, p.desired.status.version)
                          /\ Mine(vs, j, p.latest.status.version)
      /\ p.pc = "configure" => \A n \in p.todo : Mine(vs, j, n)
  BY DEF Owner
<1>3. QED
  BY <1>1, <1>2 DEF Undisturbed

LEMMA OthersUndisturbed ==
  ASSUME LossInv, Unraced, NEW k \in Key, Alone(k),
         \A j \in Key \ {k} : \A n :
           Mine(versions, j, n) => Keeps(versions, versions', n),
         Undisturbed(versions', pass'[k], cr'[k])
  PROVE  AllUndisturbed'
<1> SUFFICES ASSUME NEW j \in Key \ {k}
             PROVE  Undisturbed(versions', pass'[j], cr'[j])
  BY DEF AllUndisturbed
<1>1. /\ pass'[j] = pass[j] /\ cr'[j] = cr[j]
      /\ Undisturbed(versions, pass[j], cr[j])
      /\ Owner(versions, j, pass[j], cr[j])
  BY DEF Alone, LossInv, Accounted, AllUndisturbed, Unraced, OwnersInv, OwnInv
<1>2. \A n : Mine(versions, j, n) => Keeps(versions, versions', n)
  OBVIOUS
<1>3. Undisturbed(versions', pass[j], cr[j])
  BY <1>1, <1>2, MineThere
<1>4. QED
  BY <1>1, <1>3

-----------------------------------------------------------------------------
(* What a step weighs.                                                     *)

(* Versions that are configured only.                                      *)
Alike(vs, ws) ==
  /\ Len(vs) \in Nat /\ Len(ws) = Len(vs)
  /\ \A n \in 1..Len(vs) :
       ws[n].exists = vs[n].exists /\ ws[n].by = vs[n].by /\ ws[n].code = vs[n].code

LEMMA AlikeAges ==
  ASSUME NEW vs, NEW ws, Alike(vs, ws)
  PROVE  Ages(vs, ws) /\ \A n : There(vs, n) <=> There(ws, n)
BY DEF Alike, Ages, Grows, There

LEMMA AlikeStale ==
  ASSUME Alike(versions, versions'), function'.code = function.code
  PROVE  Published' = Published /\ Stale' = Stale
<1>1. Published' = Published
  BY DEF Alike, Published
<1>2. \A n \in Published : versions'[n].code = versions[n].code
  BY DEF Alike, Published
<1>3. Unchanged' <=> Unchanged
  BY <1>1, <1>2 DEF Unchanged
<1>4. QED
  BY <1>1, <1>3 DEF Stale

LEMMA SameAlike ==
  ASSUME NumbersInv, versions' = versions PROVE Alike(versions, versions')
BY DEF NumbersInv, AwsOK, Alike

(* A step of k endangers what is published by it or what only k knew of.   *)
LEMMA EndangeredBy ==
  ASSUME NEW k \in Key, Alone(k), NEW X,
         \A n \in Published' \ X :
           /\ n \in Published /\ versions'[n].by = versions[n].by
           /\ Records(cr[k], n) \/ Retains(pass[k], n)
                => Records(cr'[k], n) \/ Retains(pass'[k], n)
  PROVE  Endangered' \subseteq Endangered \cup X
<1> SUFFICES ASSUME NEW n \in Endangered', n \notin X PROVE n \in Endangered
  OBVIOUS
<1>1. /\ n \in Published' /\ versions'[n].by # "other"
      /\ \A j \in Key : ~Records(cr'[j], n) /\ ~Retains(pass'[j], n)
  BY DEF Endangered
<1>2. /\ n \in Published /\ versions[n].by # "other"
      /\ ~Records(cr[k], n) /\ ~Retains(pass[k], n)
  BY <1>1
<1>3. \A j \in Key \ {k} : ~Records(cr[j], n) /\ ~Retains(pass[j], n)
  BY <1>1 DEF Alone
<1>4. QED
  BY <1>2, <1>3 DEF Endangered

LEMMA RemoversBy ==
  ASSUME LossInv, NEW k \in Key, Alone(k), Ages(versions, versions')
  PROVE  /\ Removers' \subseteq Removers \cup {k}
         /\ ~Removes(versions', pass'[k], cr'[k]) => Removers' \subseteq Removers \ {k}
         /\ (Removes(versions', pass'[k], cr'[k]) => Removes(versions, pass[k], cr[k]))
              => Removers' \subseteq Removers
<1>1. ASSUME NEW j \in Key \ {k}, Removes(versions', pass'[j], cr'[j])
      PROVE  Removes(versions, pass[j], cr[j])
  <2>1. Learned(versions, pass[j], cr[j]) /\ pass'[j] = pass[j] /\ cr'[j] = cr[j]
    BY LossTypes DEF Alone
  <2>2. Removes(versions', pass[j], cr[j])
    BY <1>1, <2>1
  <2>3. QED
    BY <2>1, <2>2, RemovesAges
<1>2. \A j \in Removers' : j \in Key /\ Removes(versions', pass'[j], cr'[j])
  BY DEF Removers
<1>3. QED
  BY <1>1, <1>2 DEF Removers

(* Fewer deletions to come.                                                *)
LEMMA RemoversCount ==
  /\ Cardinality(Removers) \in Nat /\ Cardinality(Removers') \in Nat
  /\ Removers' \subseteq Removers => Cardinality(Removers') =< Cardinality(Removers)
  /\ \A k \in Key :
       /\ Removers' \subseteq Removers \cup {k}
            => Cardinality(Removers') =< Cardinality(Removers) + 1
       /\ k \in Removers /\ Removers' \subseteq Removers \ {k}
            => Cardinality(Removers') =< Cardinality(Removers) - 1
<1>1. Removers \subseteq Key /\ Removers' \subseteq Key
  BY DEF Removers
<1>2. /\ IsFiniteSet(Removers) /\ IsFiniteSet(Removers')
      /\ Cardinality(Removers) \in Nat /\ Cardinality(Removers') \in Nat
  BY <1>1, KeySets
<1>3. Removers' \subseteq Removers => Cardinality(Removers') =< Cardinality(Removers)
  BY <1>2, FS_Subset
<1>4. ASSUME NEW k \in Key, Removers' \subseteq Removers \cup {k}
      PROVE  Cardinality(Removers') =< Cardinality(Removers) + 1
  <2>1. /\ IsFiniteSet(Removers \cup {k})
        /\ \/ Cardinality(Removers \cup {k}) = Cardinality(Removers)
           \/ Cardinality(Removers \cup {k}) = Cardinality(Removers) + 1
    BY <1>2, FS_AddElement
  <2>2. /\ Cardinality(Removers') =< Cardinality(Removers \cup {k})
    BY <1>4, <2>1, FS_Subset
  <2>3. QED
    BY <1>2, <2>1, <2>2
<1>5. ASSUME NEW k \in Key, k \in Removers, Removers' \subseteq Removers \ {k}
      PROVE  Cardinality(Removers') =< Cardinality(Removers) - 1
  <2>1. /\ IsFiniteSet(Removers \ {k})
        /\ Cardinality(Removers \ {k}) = Cardinality(Removers) - 1
    BY <1>2, <1>5, FS_RemoveElement
  <2>2. Cardinality(Removers') =< Cardinality(Removers \ {k})
    BY <1>5, <2>1, FS_Subset
  <2>3. QED
    BY <2>1, <2>2
<1>6. QED
  BY <1>2, <1>3, <1>4, <1>5

LEMMA Weighs ==
  ASSUME LossInv, spent' \in Counts, Len(versions') \in Nat,
         NEW X, IsFiniteSet(X), Endangered' \subseteq Endangered \cup X,
         NEW x \in Nat, Cardinality(X) =< x,
         Unraced' => Unraced, Unraced /\ ~Unraced' => Len(versions') >= 1,
         Len(versions') + Stale' + Cardinality(Removers') + Happened
           =< Len(versions) + Stale + Cardinality(Removers) + Happened',
         Unraced => x + Forgiven =< Forgiven',
         ~Unraced => x + Stale' + Cardinality(Removers') + Forgiven + Happened
                       =< Stale + Cardinality(Removers) + Forgiven' + Happened'
  PROVE  Balanced'
<1> DEFINE l == Len(versions)
           l2 == Len(versions')
           o == Stale
           o2 == Stale'
           r == Cardinality(Removers)
           r2 == Cardinality(Removers')
           e == Cardinality(Endangered)
           e2 == Cardinality(Endangered')
           f == Forgiven
           f2 == Forgiven'
           s == Happened
           s2 == Happened'
           u == Unraced
           u2 == Unraced'
<1>1. Balanced /\ spent \in Counts /\ l \in Nat
  BY LossTypes
<1>2. IsFiniteSet(Endangered) /\ Balance(l, o, r, e, f, s, u)
  BY <1>1 DEF Balanced
<1>3. f \in Nat /\ s \in Nat
  BY <1>1, Forgives
<1>4. f2 \in Nat /\ s2 \in Nat
  <2>1. /\ spent'.edits \in Nat /\ spent'.faults \in Nat
        /\ spent'.drifts \in Nat /\ spent'.overlaps \in Nat
    BY DEF Counts
  <2>2. QED
    BY <2>1 DEF Forgiven, Happened
<1>5. o \in Nat /\ o2 \in Nat
  BY StaleIs
<1>6. r \in Nat /\ r2 \in Nat
  BY RemoversCount
<1>7. /\ IsFiniteSet(Endangered') /\ e \in Nat /\ e2 \in Nat /\ e2 =< e + x
  <2>1. /\ IsFiniteSet(Endangered \cup X)
        /\ Cardinality(Endangered \cup X) =< Cardinality(Endangered) + Cardinality(X)
    <3>1. /\ IsFiniteSet(Endangered \cup X) /\ IsFiniteSet(Endangered \cap X)
          /\ Cardinality(Endangered \cup X) = Cardinality(Endangered)
               + Cardinality(X) - Cardinality(Endangered \cap X)
      BY <1>2, FS_Union, FS_Intersection
    <3>2. /\ Cardinality(Endangered \cap X) \in Nat /\ Cardinality(Endangered) \in Nat
          /\ Cardinality(X) \in Nat
      BY <1>2, <3>1, FS_CardinalityType
    <3>3. QED
      BY <3>1, <3>2
  <2>2. /\ IsFiniteSet(Endangered')
        /\ Cardinality(Endangered') =< Cardinality(Endangered \cup X)
    BY <2>1, FS_Subset
  <2>3. /\ Cardinality(X) \in Nat /\ e \in Nat /\ e2 \in Nat
        /\ Cardinality(Endangered \cup X) \in Nat
    BY <1>2, <2>1, <2>2, FS_CardinalityType
  <2>4. QED
    BY <2>1, <2>2, <2>3
<1>8. u \in BOOLEAN /\ u2 \in BOOLEAN
  BY DEF Unraced, NoDriftYet
<1>9. /\ u2 => u
      /\ l2 + o2 + r2 + s =< l + o + r + s2
      /\ u => x + f =< f2
      /\ u /\ ~u2 => l2 >= 1
      /\ ~u => x + o2 + r2 + f + s =< o + r + f2 + s2
  OBVIOUS
<1>10. l2 \in Nat
  OBVIOUS
<1> HIDE DEF l, l2, o, o2, r, r2, e, e2, f, f2, s, s2, u, u2
<1>11. Balance(l2, o2, r2, e2, f2, s2, u2)
  <2>1. l + o + r =< 1 + s /\ (u => e =< f) /\ (~u => e + o + r =< f + s)
    BY <1>2 DEF Balance
  <2>2. l2 + o2 + r2 =< 1 + s2
    BY <1>1, <1>3, <1>4, <1>5, <1>6, <1>9, <1>10, <2>1
  <2>3. u2 => e2 =< f2
    BY <1>3, <1>4, <1>7, <1>9, <2>1
  <2>4. u /\ ~u2 => e2 + o2 + r2 =< f2 + s2
    BY <1>3, <1>4, <1>5, <1>6, <1>7, <1>9, <1>10, <2>1, <2>2
  <2>5. ~u => e2 + o2 + r2 =< f2 + s2
    BY <1>3, <1>4, <1>5, <1>6, <1>7, <1>9, <2>1
  <2>6. QED
    BY <1>9, <2>2, <2>3, <2>4, <2>5 DEF Balance
<1>12. QED
  BY <1>7, <1>11 DEF Balanced, l2, o2, r2, e2, f2, s2, u2

-----------------------------------------------------------------------------
(* Steps of a pass that neither publish nor delete.                        *)

LEMMA CalmStays ==
  ASSUME spent \in Counts, raced' = raced,
         UNCHANGED spent \/ Spend("edits") \/ Spend("faults") \/ Spend("overlaps")
  PROVE  Unraced' <=> Unraced
<1>1. DOMAIN spent = {"edits", "faults", "drifts", "overlaps"} /\ spent.drifts \in Nat
  BY CountsAre
<1>2. spent'.drifts = spent.drifts
  BY <1>1 DEF Spend
<1>3. QED
  BY <1>2 DEF Unraced, NoDriftYet

LEMMA StayUndisturbed ==
  ASSUME NEW vs, NEW ws, \A n : There(vs, n) => There(ws, n),
         NEW p, NEW c, Undisturbed(vs, p, c)
  PROVE  Undisturbed(ws, p, c)
BY DEF Undisturbed

LEMMA OthersStay ==
  ASSUME LossInv, Unraced, NEW k \in Key, Alone(k),
         \A n : There(versions, n) => There(versions', n),
         Undisturbed(versions', pass'[k], cr'[k])
  PROVE  AllUndisturbed'
<1> SUFFICES ASSUME NEW j \in Key \ {k}
             PROVE  Undisturbed(versions', pass'[j], cr'[j])
  BY DEF AllUndisturbed
<1>1. /\ pass'[j] = pass[j] /\ cr'[j] = cr[j]
      /\ Undisturbed(versions, pass[j], cr[j])
  BY DEF Alone, LossInv, Accounted, AllUndisturbed
<1>2. Undisturbed(versions', pass[j], cr[j])
  BY <1>1, StayUndisturbed
<1>3. QED
  BY <1>1, <1>2

(* What a step of k may cost.                                              *)
LEMMA SpentFor ==
  ASSUME spent \in Counts,
         NEW x \in Nat,
         \/ UNCHANGED spent /\ x = 0
         \/ Spend("faults") /\ x =< 1
         \/ Spend("overlaps") /\ x = 0
  PROVE  /\ spent' \in Counts /\ Happened' = Happened
         /\ Forgiven \in Nat /\ Happened \in Nat /\ Forgiven' \in Nat
         /\ x + Forgiven =< Forgiven'
<1>1. Forgiven \in Nat /\ Happened \in Nat /\ spent.overlaps \in Nat
  BY Forgives, CountsAre
<1>2. CASE UNCHANGED spent /\ x = 0
  BY <1>1, <1>2, Forgives
<1>3. CASE Spend("faults") /\ x =< 1
  <2>1. spent' \in Counts
    BY <1>3, SpendType
  <2>2. Forgiven' = Forgiven + 1 + spent.overlaps /\ Happened' = Happened
    BY <1>3, Forgives
  <2>3. QED
    BY <1>1, <1>3, <2>1, <2>2
<1>4. CASE Spend("overlaps") /\ x = 0
  <2>1. spent' \in Counts
    BY <1>4, SpendType
  <2>2. Forgiven' \in Nat /\ Forgiven' >= Forgiven /\ Happened' = Happened
    BY <1>4, Forgives
  <2>3. QED
    BY <1>1, <1>4, <2>1, <2>2
<1>5. QED
  BY <1>2, <1>3, <1>4

(* A step of k that leaves the numbers of versions alone.                  *)
LEMMA NumbersRest ==
  ASSUME LossInv, NEW k \in Key, Alone(k), Alike(versions, versions'),
         function'.code = function.code, raced' = raced,
         Removes(versions, pass'[k], cr'[k]) => Removes(versions, pass[k], cr[k]),
         NEW X, IsFiniteSet(X), NEW x \in Nat, Cardinality(X) =< x,
         \A n \in Published \ X :
           Records(cr[k], n) \/ Retains(pass[k], n)
             => Records(cr'[k], n) \/ Retains(pass'[k], n),
         \/ UNCHANGED spent /\ x = 0
         \/ Spend("faults") /\ x =< 1
         \/ Spend("overlaps") /\ x = 0
  PROVE  Balanced'
<1>1. /\ Ages(versions, versions') /\ \A n : There(versions, n) <=> There(versions', n)
      /\ Published' = Published /\ Stale' = Stale
  BY AlikeAges, AlikeStale
<1>2. Endangered' \subseteq Endangered \cup X
  <2>1. \A n \in Published : versions'[n].by = versions[n].by
    BY DEF Alike, Published
  <2>2. QED
    BY <1>1, <2>1, EndangeredBy
<1>3. Removers' \subseteq Removers
  <2>1. Removes(versions', pass'[k], cr'[k]) => Removes(versions, pass'[k], cr'[k])
    BY <1>1 DEF Removes
  <2>2. QED
    BY <1>1, <2>1, RemoversBy
<1>4. /\ Cardinality(Removers) \in Nat /\ Cardinality(Removers') \in Nat
      /\ Cardinality(Removers') =< Cardinality(Removers)
  BY <1>3, RemoversCount
<1>5. spent \in Counts /\ Len(versions) \in Nat /\ Len(versions') = Len(versions)
  BY LossTypes DEF Alike
<1>6. /\ spent' \in Counts /\ Happened' = Happened
      /\ Forgiven \in Nat /\ Happened \in Nat /\ Forgiven' \in Nat
      /\ x + Forgiven =< Forgiven'
  BY <1>5, SpentFor
<1>7. Unraced' <=> Unraced
  BY <1>5, CalmStays
<1>8. Stale \in Nat /\ Stale' \in Nat
  BY StaleIs
<1>9. /\ Len(versions') + Stale' + Cardinality(Removers') + Happened
           =< Len(versions) + Stale + Cardinality(Removers) + Happened'
      /\ x + Stale' + Cardinality(Removers') + Forgiven + Happened
           =< Stale + Cardinality(Removers) + Forgiven' + Happened'
  BY <1>1, <1>4, <1>5, <1>6, <1>8
<1>10. QED
  BY <1>2, <1>5, <1>6, <1>7, <1>9, Weighs

(* A pass that goes on.                                                    *)
LEMMA QuietStep ==
  ASSUME LossInv, NEW k \in Key, Alone(k), Alike(versions, versions'),
         function'.code = function.code, raced' = raced,
         Continues(pass[k], cr[k], pass'[k], cr'[k]),
         Located(versions, pass'[k]), pass'[k].pc # "configure",
         UNCHANGED spent \/ Spend("faults"),
         pass[k].pc = "configure" => Unsafe(pass[k]) \/ Spend("faults")
  PROVE  Accounted'
<1>1. /\ Ages(versions, versions') /\ \A n : There(versions, n) <=> There(versions', n)
  BY AlikeAges
<1>2. /\ spent \in Counts /\ Learned(versions, pass[k], cr[k])
      /\ GoodPass(pass[k], cr[k]) /\ Ages(versions, versions)
  BY LossTypes, SameAlike, AlikeAges DEF Ages, Grows
<1>3. AllLearned'
  <2>1. Learned(versions, pass'[k], cr'[k])
    BY <1>2, GoOnLearned
  <2>2. Learned(versions', pass'[k], cr'[k])
    BY <1>1, <2>1, LearnedAges
  <2>3. QED
    BY <1>1, <2>2, OthersLearn
<1>4. ASSUME Unraced' PROVE AllUndisturbed'
  <2>1. Unraced
    BY <1>2, <1>4, CalmStays
  <2>2. Undisturbed(versions, pass[k], cr[k])
    BY <2>1 DEF LossInv, Accounted, AllUndisturbed
  <2>3. Undisturbed(versions', pass'[k], cr'[k])
    BY <1>1, <2>2, GoOnUndisturbed
  <2>4. QED
    BY <1>1, <2>1, <2>3, OthersStay
<1>5. Removes(versions, pass'[k], cr'[k]) => Removes(versions, pass[k], cr[k])
  BY <1>2, GoOnRemoves
<1>6. \A n : Records(cr[k], n) \/ Retains(pass[k], n)
               => \/ Records(cr'[k], n) \/ Retains(pass'[k], n)
                  \/ pass[k].pc = "configure" /\ n \in pass[k].todo /\ ~Unsafe(pass[k])
  BY GoOnRetains
<1>7. CASE UNCHANGED spent /\ ~Spend("faults")
  <2>1. \A n : Records(cr[k], n) \/ Retains(pass[k], n)
                 => Records(cr'[k], n) \/ Retains(pass'[k], n)
    BY <1>6, <1>7
  <2>2. IsFiniteSet({}) /\ Cardinality({}) = 0
    BY FS_EmptySet
  <2>3. Balanced'
    <3>1. Cardinality({}) =< 0 /\ 0 \in Nat /\ (UNCHANGED spent /\ 0 = 0)
      BY <1>7, <2>2
    <3>2. \A n \in Published \ {} : Records(cr[k], n) \/ Retains(pass[k], n)
                 => Records(cr'[k], n) \/ Retains(pass'[k], n)
      BY <2>1
    <3>3. QED
      BY <1>5, <2>2, <3>1, <3>2, NumbersRest
  <2>4. QED
    BY <1>3, <1>4, <2>3 DEF Accounted
<1>8. CASE Spend("faults")
  <2> DEFINE X == IF pass[k].pc = "configure" THEN pass[k].todo ELSE {}
  <2>1. IsFiniteSet(X) /\ Cardinality(X) =< 1
    <3>1. CASE pass[k].pc = "configure"
      <4>1. PICK n \in Positive : pass[k].todo = {n}
        BY <1>2, <3>1 DEF GoodPass
      <4>2. IsFiniteSet({n}) /\ Cardinality({n}) = 1
        BY FS_Singleton
      <4>3. QED
        BY <3>1, <4>1, <4>2
    <3>2. CASE pass[k].pc # "configure"
      <4>1. IsFiniteSet({}) /\ Cardinality({}) = 0
        BY FS_EmptySet
      <4>2. QED
        BY <3>2, <4>1
    <3>3. QED
      BY <3>1, <3>2
  <2>2. \A n \in Published \ X : Records(cr[k], n) \/ Retains(pass[k], n)
                 => Records(cr'[k], n) \/ Retains(pass'[k], n)
    BY <1>6
  <2> HIDE DEF X
  <2>3. 1 \in Nat /\ 1 =< 1
    OBVIOUS
  <2>4. Balanced'
    BY <1>5, <1>8, <2>1, <2>2, <2>3, NumbersRest
  <2>5. QED
    BY <1>3, <1>4, <2>4 DEF Accounted
<1>9. QED
  BY <1>7, <1>8

-----------------------------------------------------------------------------
(* The handlers that neither publish nor delete.                           *)

LEMMA AloneIs ==
  ASSUME LossInv, NEW k \in Key, Begin(k) \/ Handlers(k) \/ Environment(k)
  PROVE  Alone(k)
BY LossTypes, StepIsOfOne DEF Alone

LEMMA OneRuns ==
  ASSUME LossInv, NEW k \in Key, ~Idle(k)
  PROVE  /\ DOMAIN pass = Key /\ DOMAIN cr = Key /\ pass[k].pc # "idle"
         /\ DOMAIN pass[k] = DOMAIN IdlePass
         /\ GoodPass(pass[k], cr[k]) /\ GoodCR(cr[k])
         /\ Learned(versions, pass[k], cr[k]) /\ Located(versions, pass[k])
BY LossTypes DEF Idle, At, Learned

LEMMA EndQuiet ==
  ASSUME LossInv, NEW k \in Key, ~Idle(k), NEW o, EndPass(k, o), cr' = cr,
         Alike(versions, versions'), function'.code = function.code, raced' = raced,
         UNCHANGED spent \/ Spend("faults"),
         pass[k].pc = "configure" => Unsafe(pass[k]) \/ Spend("faults")
  PROVE  Accounted'
<1>1. /\ pass'[k].pc = "finish" /\ pass'[k].why = pass[k].why
      /\ pass'[k].desired = pass[k].desired /\ pass'[k].latest = pass[k].latest
  BY OneRuns DEF EndPass, IdlePass
<1>2. Alone(k)
  BY OneRuns DEF EndPass, Alone
<1>3. Continues(pass[k], cr[k], pass'[k], cr'[k])
  BY <1>1, OneRuns DEF Continues
<1>4. Located(versions, pass'[k])
  BY <1>1 DEF Located
<1>5. QED
  BY <1>1, <1>2, <1>3, <1>4, QuietStep

(* A pass that moves on, with the same copies of its CR.                   *)
LEMMA GotoQuiet ==
  ASSUME LossInv, NEW k \in Key, ~Idle(k), NEW l, Goto(k, l), cr' = cr,
         versions' = versions, function'.code = function.code, raced' = raced,
         UNCHANGED spent, pass[k].pc # "configure",
         l \notin {"idle", "fields", "publish", "configure"},
         l \in {"manage", "create", "unmanage"} =>
           Gone(versions, pass[k].desired.status.version),
         l \in {"create", "update"} => pass[k].why = "sync",
         l = "manage" => pass[k].why = "sync" /\ ~pass[k].desired.finalizer,
         l \in {"delete", "unmanage"} => pass[k].why = "delete"
  PROVE  Accounted'
<1>1. /\ pass'[k].pc = l /\ pass'[k].why = pass[k].why
      /\ pass'[k].desired = pass[k].desired /\ pass'[k].latest = pass[k].latest
  BY OneRuns DEF Goto, IdlePass
<1>2. Alone(k)
  BY OneRuns DEF Goto, Alone
<1>3. Continues(pass[k], cr[k], pass'[k], cr'[k])
  BY <1>1, OneRuns DEF Continues
<1>4. Located(versions, pass'[k])
  BY <1>1 DEF Located
<1>5. Alike(versions, versions')
  BY LossTypes, SameAlike
<1>6. QED
  BY <1>1, <1>2, <1>3, <1>4, <1>5, QuietStep

LEMMA FindQuiet == ASSUME LossInv, NEW k \in Key, sdkFind(k) PROVE Accounted'
<1>0. /\ versions' = versions /\ function' = function /\ raced' = raced /\ cr' = cr
      /\ ~Idle(k) /\ pass[k].pc = "read" /\ Handlers(k) /\ UNCHANGED spent
      /\ Alike(versions, versions') /\ NumbersInv
  BY LossTypes, SameAlike DEF sdkFind, At, Idle, aws, history, Handlers, ReadOne
<1>1. Number(k) \in Positive \cup {Nil}
  BY <1>0, PassTypes DEF Number
<1>2. Found(k) <=> There(versions, Number(k))
  <2>1. CASE Number(k) = Nil
    BY <1>0, <2>1, NilIsNowhere, LossTypes DEF Found, Identified
  <2>2. CASE Number(k) \in Positive
    <3>1. Number(k) # Nil /\ Number(k) # 0 /\ Qualifier(Number(k)) = Number(k)
      BY <2>2, VersionNil DEF Qualifier, Positive
    <3>2. QED
      BY <3>1 DEF Found, Identified, Exists, There
  <2>3. QED
    BY <1>1, <2>1, <2>2
<1>3. CASE Found(k)
  <2>1. Qualifier(Number(k)) = Number(k)
    <3>1. Number(k) # Nil
      BY <1>3 DEF Found, Identified
    <3>2. QED
      BY <3>1 DEF Qualifier
  <2> DEFINE f == [version |-> Number(k),
                   pending |-> Number(k) > 0 /\ versions[Number(k)].pending]
  <2>2. pass' = [pass EXCEPT ![k].pc = "fields", ![k].found = f]
    BY <1>3, <2>1 DEF sdkFind
  <2>3. f.version = Number(k)
    OBVIOUS
  <2> HIDE DEF f
  <2>4. /\ pass'[k].pc = "fields" /\ pass'[k].why = pass[k].why
        /\ pass'[k].desired = pass[k].desired /\ pass'[k].latest = pass[k].latest
        /\ pass'[k].found.version = Number(k)
    BY <1>0, <2>2, <2>3, OneRuns DEF IdlePass
  <2>5. Continues(pass[k], cr[k], pass'[k], cr'[k])
    BY <1>0, <2>4, OneRuns DEF Continues
  <2>6. Located(versions, pass'[k])
    BY <2>4 DEF Located, Number
  <2>7. QED
    BY <1>0, <2>4, <2>5, <2>6, AloneIs, QuietStep
<1>4. CASE ~Found(k)
  <2>1. NotFound(k) /\ pass[k].why \in Purposes
    BY <1>0, <1>4, OneRuns DEF sdkFind, GoodPass
  <2>2. pass[k].why # "created" => Gone(versions, pass[k].desired.status.version)
    BY <1>2, <1>4 DEF Number, Gone
  <2>3. CASE pass[k].why = "sync" /\ IsManaged(k)
    <3>1. Goto(k, "create")
      BY <2>1, <2>3 DEF NotFound
    <3>2. QED
      BY <1>0, <2>2, <2>3, <3>1, GotoQuiet
  <2>4. CASE pass[k].why = "sync" /\ ~IsManaged(k)
    <3>1. Goto(k, "manage")
      BY <2>1, <2>4 DEF NotFound
    <3>2. QED
      BY <1>0, <2>2, <2>4, <3>1, GotoQuiet DEF IsManaged
  <2>5. CASE pass[k].why = "delete"
    <3>1. Goto(k, "unmanage")
      BY <2>1, <2>5 DEF NotFound
    <3>2. QED
      BY <1>0, <2>2, <2>5, <3>1, GotoQuiet
  <2>6. CASE pass[k].why \notin {"sync", "delete"}
    <3>1. EndPass(k, "Recoverable")
      BY <2>1, <2>6 DEF NotFound
    <3>2. QED
      BY <1>0, <3>1, EndQuiet
  <2>7. QED
    BY <2>3, <2>4, <2>5, <2>6
<1>5. QED
  BY <1>3, <1>4

LEMMA FieldsQuiet ==
  ASSUME LossInv, NEW k \in Key, setResourceAdditionalFields(k) PROVE Accounted'
<1> DEFINE p == pass[k]
           s == IF p.why = "created" THEN p.latest.spec ELSE Observed(k)
           delta == newResourceDelta(p.desired.spec, s)
           Leads(l, o, d) == /\ pass'[k].pc = l /\ pass'[k].why = p.why
                             /\ pass'[k].desired = p.desired
                             /\ pass'[k].latest.status = p.found
           next(l, o, d) ==
             pass' = [pass EXCEPT
               ![k].pc = l, ![k].outcome = o, ![k].todo = d,
               ![k].latest = [spec |-> s, status |-> p.found],
               ![k].found = Nil]
<1>0. /\ versions' = versions /\ function' = function /\ raced' = raced /\ cr' = cr
      /\ ~Idle(k) /\ p.pc = "fields" /\ Handlers(k) /\ UNCHANGED spent
      /\ Alike(versions, versions')
  BY LossTypes, SameAlike
     DEF setResourceAdditionalFields, At, Idle, aws, history, Handlers, ReadOne
<1>1. DOMAIN pass = Key /\ DOMAIN p = DOMAIN IdlePass
  BY <1>0, OneRuns
<1>2. ASSUME NEW l, NEW o, NEW d, next(l, o, d) PROVE Leads(l, o, d)
  <2> HIDE DEF s
  <2> QED
    BY <1>1, <1>2 DEF IdlePass
<1>3. \/ next("finish", "Synced", {})
      \/ next("writeback", "Unknown", {})
      \/ next("delete", "Unknown", {}) /\ p.why = "delete"
      \/ next("finish", "Terminal", {})
      \/ next("finish", "Recoverable", {})
      \/ next("update", "Unknown", delta) /\ p.why = "sync"
  BY DEF setResourceAdditionalFields
<1>4. \/ Leads("finish", "Synced", {})
      \/ Leads("writeback", "Unknown", {})
      \/ Leads("delete", "Unknown", {}) /\ p.why = "delete"
      \/ Leads("finish", "Terminal", {})
      \/ Leads("finish", "Recoverable", {})
      \/ Leads("update", "Unknown", delta) /\ p.why = "sync"
  <2> HIDE DEF next, Leads, s, delta
  <2> QED
    BY <1>2, <1>3
<1> HIDE DEF s, delta, next
<1>5. p.found.version = p.latest.status.version
  <2>1. Located(versions, p) /\ Learned(versions, p, cr[k]) /\ p.pc # "idle"
    BY <1>0, OneRuns
  <2>2. QED
    BY <1>0, <2>1 DEF Located, Learned
<1>6. Continues(p, cr[k], pass'[k], cr'[k])
  BY <1>0, <1>4, <1>5 DEF Continues
<1>7. Located(versions, pass'[k]) /\ pass'[k].pc # "configure"
  BY <1>4 DEF Located
<1>8. QED
  BY <1>0, <1>6, <1>7, AloneIs, QuietStep

LEMMA ManageQuiet ==
  ASSUME LossInv, NEW k \in Key, Manage(k), UNCHANGED <<aws, history>>
  PROVE  Accounted'
<1>0. /\ versions' = versions /\ function' = function /\ raced' = raced
      /\ ~Idle(k) /\ pass[k].pc = "manage" /\ Handlers(k) /\ UNCHANGED spent
      /\ Alike(versions, versions')
  BY LossTypes, SameAlike DEF Manage, At, Idle, aws, history, Handlers, Finalizer
<1>1. CASE cr[k].exists
  <2>1. pass' = [pass EXCEPT ![k].pc = "create"] /\ cr' = [cr EXCEPT ![k].finalizer = TRUE]
    BY <1>1 DEF Manage, Goto
  <2>2. /\ pass'[k].pc = "create" /\ pass'[k].why = pass[k].why
        /\ pass'[k].desired = pass[k].desired /\ pass'[k].latest = pass[k].latest
    BY <1>0, <2>1, OneRuns DEF IdlePass
  <2>3. cr[k] = [exists |-> TRUE, spec |-> cr[k].spec,
                 status |-> cr[k].status, deleting |-> cr[k].deleting,
                 finalizer |-> cr[k].finalizer, cond |-> cr[k].cond]
    BY <1>1, TypesOfPass, LossTypes
  <2>4. /\ cr'[k].exists = cr[k].exists /\ cr'[k].deleting = cr[k].deleting
        /\ cr'[k].status = cr[k].status /\ cr'[k].finalizer
    BY <1>0, <2>1, <2>3, OneRuns
  <2>5. Continues(pass[k], cr[k], pass'[k], cr'[k])
    BY <1>0, <1>1, <2>2, <2>4 DEF Continues
  <2>6. Located(versions, pass'[k])
    BY <1>0, <2>2, OneRuns DEF Located
  <2>7. QED
    BY <1>0, <2>2, <2>5, <2>6, AloneIs, QuietStep
<1>2. CASE ~cr[k].exists
  BY <1>0, <1>2, EndQuiet DEF Manage
<1>3. QED
  BY <1>1, <1>2

LEMMA ListQuiet ==
  ASSUME LossInv, NEW k \in Key, ListVersionsByFunction(k) PROVE Accounted'
<1>0. /\ versions' = versions /\ function' = function /\ raced' = raced /\ cr' = cr
      /\ ~Idle(k) /\ pass[k].pc = "create" /\ Handlers(k) /\ UNCHANGED spent
      /\ Alike(versions, versions')
  BY LossTypes, SameAlike
     DEF ListVersionsByFunction, At, Idle, aws, history, Handlers, Create
<1>1. CASE function.exists
  <2>1. pass' = [pass EXCEPT ![k].pc = "publish", ![k].todo = Published]
    BY <1>1 DEF ListVersionsByFunction
  <2>2. /\ pass'[k].pc = "publish" /\ pass'[k].why = pass[k].why
        /\ pass'[k].desired = pass[k].desired /\ pass'[k].latest = pass[k].latest
        /\ pass'[k].todo = Published
    BY <1>0, <2>1, OneRuns DEF IdlePass
  <2>3. Continues(pass[k], cr[k], pass'[k], cr'[k])
    BY <1>0, <2>2 DEF Continues
  <2>4. Published \subseteq 1..Len(versions)
    BY DEF Published
  <2>5. Located(versions, pass'[k])
    BY <1>0, <2>2, <2>4, OneRuns DEF Located
  <2>6. QED
    BY <1>0, <2>2, <2>3, <2>5, AloneIs, QuietStep
<1>2. CASE ~function.exists
  BY <1>0, <1>2, EndQuiet DEF ListVersionsByFunction
<1>3. QED
  BY <1>1, <1>2

(* What is put for a version changes neither its existence nor its code.   *)
LEMMA PutAlike ==
  ASSUME NumbersInv, NEW n, Exists(n), NEW f \in Fields, NEW v, Put(n, f, v)
  PROVE  Alike(versions, versions')
<1>1. versions \in Seq(Version) /\ n \in 1..Len(versions) /\ versions[n] \in Version
  BY DEF NumbersInv, AwsOK, Exists
<1> DEFINE x == [versions[n] EXCEPT ![f] = v]
<1>2. x.by = versions[n].by /\ x.exists = versions[n].exists /\ x.code = versions[n].code
  BY <1>1 DEF Version, Fields
<1>3. versions' = [versions EXCEPT ![n] = x]
  BY DEF Put
<1> HIDE DEF x
<1>4. QED
  BY <1>1, <1>2, <1>3 DEF Alike

LEMMA UpdateQuiet ==
  ASSUME LossInv, NEW k \in Key, customUpdateVersion(k) PROVE Accounted'
<1>0. /\ function' = function /\ raced' = raced /\ cr' = cr
      /\ ~Idle(k) /\ pass[k].pc = "update" /\ Handlers(k)
      /\ UNCHANGED spent \/ Spend("faults")
  BY DEF customUpdateVersion, syncEventInvokeConfig, updateProvisionedConcurrency,
     ReadAgain, At, Idle, aws, history, Handlers, Update
<1>1. Alike(versions, versions')
  <2>1. NumbersInv /\ (versions' = versions => Alike(versions, versions'))
    BY LossTypes, SameAlike
  <2>2. \/ versions' = versions
        \/ \E n : Exists(n) /\ \E v : \E f \in Fields : Put(n, f, v)
    BY DEF customUpdateVersion, syncEventInvokeConfig, updateProvisionedConcurrency,
       ReadAgain, aws, Fields
  <2>3. QED
    BY <2>1, <2>2, PutAlike
<1>2. CASE EndPass(k, "Recoverable")
  BY <1>0, <1>1, <1>2, EndQuiet
<1>3. CASE ~EndPass(k, "Recoverable")
  <2>1. \/ \E t : pass' = [pass EXCEPT ![k].todo = @ \ t]
        \/ pass' = [pass EXCEPT ![k].pc = "read", ![k].why = "updated"]
    BY <1>3 DEF customUpdateVersion, syncEventInvokeConfig,
       updateProvisionedConcurrency, ReadAgain
  <2>2. pass[k].why = "sync"
    BY <1>0, OneRuns DEF Located
  <2>3. /\ \/ pass'[k].pc = "update" /\ pass'[k].why = "sync"
           \/ pass'[k].pc = "read" /\ pass'[k].why = "updated"
        /\ pass'[k].desired = pass[k].desired /\ pass'[k].latest = pass[k].latest
    BY <1>0, <2>1, <2>2, OneRuns DEF IdlePass
  <2>4. Continues(pass[k], cr[k], pass'[k], cr'[k])
    BY <1>0, <2>2, <2>3 DEF Continues
  <2>5. Located(versions, pass'[k]) /\ pass'[k].pc # "configure"
    BY <2>3 DEF Located
  <2>6. QED
    BY <1>0, <1>1, <2>4, <2>5, AloneIs, QuietStep
<1>4. QED
  BY <1>2, <1>3

LEMMA WriteBackQuiet ==
  ASSUME LossInv, NEW k \in Key, WriteBack(k) PROVE Accounted'
<1>0. /\ versions' = versions /\ function' = function /\ raced' = raced
      /\ ~Idle(k) /\ pass[k].pc = "writeback" /\ Handlers(k) /\ UNCHANGED spent
      /\ Alike(versions, versions')
  BY LossTypes, SameAlike
     DEF WriteBack, PatchSpec, StoreSpec, At, Idle, aws, history, Handlers
<1>1. cr[k].exists
  BY <1>0, OneRuns DEF GoodPass, GoodCR
<1> DEFINE s == Patched(pass[k].desired.spec, pass[k].latest.spec, cr[k].spec)
<1>2. cr' = [cr EXCEPT ![k].spec = s]
  BY DEF WriteBack, PatchSpec, StoreSpec
<1> HIDE DEF s
<1>3. cr[k] = [exists |-> TRUE, spec |-> cr[k].spec,
               status |-> cr[k].status, deleting |-> cr[k].deleting,
               finalizer |-> cr[k].finalizer, cond |-> cr[k].cond]
  BY <1>1, TypesOfPass, LossTypes
<1>4. /\ cr'[k].exists = cr[k].exists /\ cr'[k].deleting = cr[k].deleting
      /\ cr'[k].status = cr[k].status /\ cr'[k].finalizer = cr[k].finalizer
  BY <1>0, <1>2, <1>3, OneRuns
<1>5. \/ pass' = [pass EXCEPT ![k].pc = "read"]
      \/ pass' = [pass EXCEPT ![k].pc = "finish", ![k].outcome = "Synced"]
  BY DEF WriteBack, Goto, EndPass
<1>6. /\ pass'[k].pc \in {"read", "finish"} /\ pass'[k].why = pass[k].why
      /\ pass'[k].desired = pass[k].desired /\ pass'[k].latest = pass[k].latest
  BY <1>0, <1>5, OneRuns DEF IdlePass
<1>7. Continues(pass[k], cr[k], pass'[k], cr'[k])
  BY <1>0, <1>4, <1>6 DEF Continues
<1>8. Located(versions, pass'[k]) /\ pass'[k].pc # "configure"
  BY <1>6 DEF Located
<1>9. QED
  BY <1>0, <1>7, <1>8, AloneIs, QuietStep

LEMMA FailQuiet == ASSUME LossInv, NEW k \in Key, Fail(k) PROVE Accounted'
<1>1. /\ versions' = versions /\ function' = function /\ raced' = raced /\ cr' = cr
      /\ ~Idle(k) /\ Spend("faults") /\ EndPass(k, "Recoverable")
      /\ Alike(versions, versions')
  BY LossTypes, SameAlike DEF Fail, CallFails, At, Idle, aws, history
<1>2. QED
  BY <1>1, EndQuiet

-----------------------------------------------------------------------------
(* The ends of a pass, and the creation's answer.                          *)

(* A step of k after which its CR and its pass know what they knew.        *)
LEMMA RestStep ==
  ASSUME LossInv, NEW k \in Key, Alone(k), versions' = versions,
         function'.code = function.code, raced' = raced,
         UNCHANGED spent \/ Spend("overlaps"),
         Learned(versions, pass'[k], cr'[k]),
         Unraced => Undisturbed(versions, pass'[k], cr'[k]),
         Removes(versions, pass'[k], cr'[k]) => Removes(versions, pass[k], cr[k]),
         \A n \in Published : Records(cr[k], n) \/ Retains(pass[k], n)
                                => Records(cr'[k], n) \/ Retains(pass'[k], n)
  PROVE  Accounted'
<1>1. Alike(versions, versions') /\ spent \in Counts
  BY LossTypes, SameAlike
<1>2. /\ Ages(versions, versions') /\ \A n : There(versions, n) <=> There(versions', n)
  BY <1>1, AlikeAges
<1>3. AllLearned'
  BY <1>2, OthersLearn
<1>4. Unraced' => AllUndisturbed'
  BY <1>1, <1>2, CalmStays, OthersStay
<1>5. Balanced'
  <2>1. IsFiniteSet({}) /\ Cardinality({}) =< 0 /\ 0 \in Nat
    BY FS_EmptySet
  <2>2. \A n \in Published \ {} : Records(cr[k], n) \/ Retains(pass[k], n)
                                   => Records(cr'[k], n) \/ Retains(pass'[k], n)
    OBVIOUS
  <2>3. \/ UNCHANGED spent /\ 0 = 0
        \/ Spend("faults") /\ 0 =< 1
        \/ Spend("overlaps") /\ 0 = 0
    OBVIOUS
  <2>4. QED
    BY <1>1, <2>1, <2>2, <2>3, NumbersRest
<1>6. QED
  BY <1>3, <1>4, <1>5 DEF Accounted

LEMMA Nobody ==
  ASSUME NEW n \in Published, NEW m, Gone(versions, m) PROVE n # m
BY VersionNil, LossTypes DEF Published, Gone, There

LEMMA NilUnpublished ==
  ASSUME LossInv, NEW n \in Published PROVE n # Nil /\ There(versions, n)
BY VersionNil, LossTypes DEF Published, There

LEMMA BeginLoses == ASSUME LossInv, NEW k \in Key, Begin(k) PROVE Accounted'
<1>0. /\ versions' = versions /\ function' = function /\ raced' = raced /\ cr' = cr
      /\ pass[k].pc = "idle" /\ (UNCHANGED spent \/ Spend("overlaps"))
      /\ DOMAIN pass = Key /\ Learned(versions, pass[k], cr[k]) /\ Alone(k)
  BY LossTypes, AloneIs DEF Begin, Start, aws, Idle, At
<1>1. Unraced => Undisturbed(versions, pass[k], cr[k])
  BY DEF LossInv, Accounted, AllUndisturbed
<1>2. CASE ~cr[k].exists
  <2>1. pass' = pass
    BY <1>2 DEF Begin, Start
  <2>2. QED
    BY <1>0, <1>1, <2>1, RestStep
<1>3. CASE cr[k].exists
  <2>1. /\ pass'[k].pc = "read"
        /\ pass'[k].why = IF cr[k].deleting THEN "delete" ELSE "sync"
        /\ pass'[k].desired = cr[k] /\ pass'[k].latest.status = cr[k].status
    BY <1>0, <1>3 DEF Begin, Start, IdlePass
  <2>2. Learned(versions, pass'[k], cr'[k])
    BY <1>0, <1>3, <2>1 DEF Learned, Located
  <2>3. Unraced => Undisturbed(versions, pass'[k], cr'[k])
    BY <1>0, <1>1, <1>3, <2>1 DEF Undisturbed
  <2>4. Removes(versions, pass'[k], cr'[k]) => Removes(versions, pass[k], cr[k])
    BY <1>0, <2>1 DEF Removes
  <2>5. \A n \in Published : Records(cr[k], n) \/ Retains(pass[k], n)
                                => Records(cr'[k], n) \/ Retains(pass'[k], n)
    BY <1>0 DEF Retains
  <2>6. QED
    BY <1>0, <2>2, <2>3, <2>4, <2>5, RestStep
<1>4. QED
  BY <1>2, <1>3

LEMMA ResyncLoses ==
  ASSUME LossInv, NEW k \in Key, Resync(k), UNCHANGED <<aws, history>>
  PROVE  Accounted'
<1>1. /\ versions' = versions /\ function' = function /\ raced' = raced /\ cr' = cr
      /\ pass' = pass /\ UNCHANGED spent /\ Alone(k)
      /\ Learned(versions, pass[k], cr[k])
  BY LossTypes DEF Resync, aws, history, Alone
<1>2. Unraced => Undisturbed(versions, pass[k], cr[k])
  BY DEF LossInv, Accounted, AllUndisturbed
<1>3. QED
  BY <1>1, <1>2, RestStep

(* What a pass has of numbers, its CR has.                                 *)
LEMMA NumbersOfPass ==
  ASSUME LossInv, NEW k \in Key, ~Idle(k)
  PROVE  /\ pass[k].desired.finalizer => cr[k].exists
         /\ ~cr[k].exists => /\ pass[k].desired.status.version = Nil
                             /\ pass[k].latest.status.version = Nil
         /\ pass[k].why # "created" =>
              pass[k].latest.status.version = pass[k].desired.status.version
         /\ cr[k].exists => cr[k].status.version = pass[k].desired.status.version
<1>1. /\ GoodPass(pass[k], cr[k]) /\ GoodCR(cr[k]) /\ pass[k].pc # "idle"
      /\ Learned(versions, pass[k], cr[k])
  BY OneRuns
<1>2. pass[k].desired.finalizer => cr[k].exists
  BY <1>1 DEF GoodPass, GoodCR
<1>3. pass[k].why = "created" => cr[k].exists
  BY <1>1 DEF Learned, GoodCR
<1>4. QED
  BY <1>1, <1>2, <1>3 DEF Learned

LEMMA UnmanageLoses ==
  ASSUME LossInv, NEW k \in Key, Unmanage(k), UNCHANGED <<aws, history>>
  PROVE  Accounted'
<1>0. /\ versions' = versions /\ function' = function /\ raced' = raced
      /\ pass[k].pc = "unmanage" /\ UNCHANGED spent /\ ~Idle(k) /\ Alone(k)
  BY AloneIs DEF Unmanage, aws, history, Idle, At, Handlers, Finalizer
<1>1. /\ cr'[k] = NoCR /\ pass'[k] = IdlePass
  BY <1>0, OneRuns DEF Unmanage
<1>2. /\ ~cr'[k].exists /\ ~cr'[k].deleting /\ pass'[k].pc = "idle" /\ ~cr'[k].finalizer
  BY <1>1 DEF NoCR, IdlePass
<1>3. Learned(versions, pass'[k], cr'[k])
  BY <1>2 DEF Learned, Located
<1>4. Undisturbed(versions, pass'[k], cr'[k])
  BY <1>2 DEF Undisturbed
<1>5. ~Removes(versions, pass'[k], cr'[k])
  BY <1>2 DEF Removes
<1>6. \A n \in Published : ~Records(cr[k], n) /\ ~Retains(pass[k], n)
  <2>1. /\ Gone(versions, pass[k].desired.status.version) /\ pass[k].why # "created"
    BY <1>0, OneRuns DEF Located
  <2>2. \A n \in Published : n # pass[k].desired.status.version
    BY <2>1, Nobody
  <2>3. /\ cr[k].exists => cr[k].status.version = pass[k].desired.status.version
        /\ pass[k].latest.status.version = pass[k].desired.status.version
    BY <1>0, <2>1, NumbersOfPass
  <2>4. QED
    BY <1>0, <2>2, <2>3 DEF Records, Retains
<1>7. QED
  BY <1>0, <1>3, <1>4, <1>5, <1>6, RestStep

LEMMA FinishLoses ==
  ASSUME LossInv, NEW k \in Key, Finish(k), UNCHANGED <<aws, history>>
  PROVE  Accounted'
<1>0. /\ versions' = versions /\ function' = function /\ raced' = raced
      /\ pass[k].pc = "finish" /\ UNCHANGED spent /\ ~Idle(k) /\ Alone(k)
  BY AloneIs DEF Finish, aws, history, Idle, At, Handlers, End
<1>1. /\ GoodPass(pass[k], cr[k]) /\ GoodCR(cr[k]) /\ pass[k].pc # "idle"
      /\ Learned(versions, pass[k], cr[k])
  BY <1>0, OneRuns
<1>2. pass'[k] = IdlePass /\ pass'[k].pc = "idle"
  BY <1>0, OneRuns DEF Finish, IdlePass
<1>3. CASE cr[k].exists
  <2>1. cr' = [cr EXCEPT ![k].cond = pass[k].outcome, ![k].status = pass[k].latest.status]
    BY <1>3 DEF Finish
  <2>2. cr[k] = [exists |-> TRUE, spec |-> cr[k].spec,
                 status |-> cr[k].status, deleting |-> cr[k].deleting,
                 finalizer |-> cr[k].finalizer, cond |-> cr[k].cond]
    BY <1>3, TypesOfPass, LossTypes
  <2>3. /\ cr'[k].exists /\ cr'[k].deleting = cr[k].deleting
        /\ cr'[k].status = pass[k].latest.status /\ cr'[k].finalizer = cr[k].finalizer
    BY <1>0, <2>1, <2>2, OneRuns
  <2>4. pass[k].desired.finalizer => cr[k].finalizer
    BY <1>1 DEF GoodPass
  <2>5. Learned(versions, pass'[k], cr'[k])
    BY <1>1, <1>2, <1>3, <2>3, <2>4 DEF Learned, Located
  <2>6. Unraced => Undisturbed(versions, pass'[k], cr'[k])
    <3>1. Unraced => Undisturbed(versions, pass[k], cr[k])
      BY DEF LossInv, Accounted, AllUndisturbed
    <3>2. QED
      BY <1>1, <1>2, <2>3, <3>1 DEF Undisturbed, Learned
  <2>7. Removes(versions, pass'[k], cr'[k]) => Removes(versions, pass[k], cr[k])
    BY <1>1, <1>2, <1>3, <2>3 DEF Removes, Learned
  <2>8. \A n \in Published : Records(cr[k], n) \/ Retains(pass[k], n)
                                => Records(cr'[k], n) \/ Retains(pass'[k], n)
    <3>1. \A n \in Published : Gone(versions, pass[k].desired.status.version)
                                 => n # pass[k].desired.status.version
      BY Nobody
    <3>2. \A n \in Published : Records(cr[k], n) => n = pass[k].latest.status.version
      BY <1>1, <1>3, <3>1 DEF Learned, Records
    <3>3. QED
      BY <1>0, <2>3, <3>2 DEF Records, Retains
  <2>9. QED
    BY <1>0, <2>5, <2>6, <2>7, <2>8, RestStep
<1>4. CASE ~cr[k].exists
  <2>1. cr' = cr
    BY <1>4 DEF Finish
  <2>2. ~cr[k].finalizer /\ ~cr[k].deleting
    BY <1>1, <1>4 DEF GoodCR, Learned
  <2>3. Learned(versions, pass'[k], cr'[k]) /\ Undisturbed(versions, pass'[k], cr'[k])
    BY <1>2, <1>4, <2>1, <2>2 DEF Learned, Located, Undisturbed
  <2>4. ~Removes(versions, pass'[k], cr'[k])
    BY <2>1, <2>2 DEF Removes
  <2>5. \A n \in Published : ~Records(cr[k], n) /\ ~Retains(pass[k], n)
    <3>1. pass[k].latest.status.version = Nil
      BY <1>0, <1>4, NumbersOfPass
    <3>2. QED
      BY <1>0, <1>4, <3>1, NilUnpublished DEF Records, Retains
  <2>6. QED
    BY <1>0, <2>3, <2>4, <2>5, RestStep
<1>5. QED
  BY <1>3, <1>4

(* The answer of PublishVersion is what the pass goes on with, and the     *)
(* number that the CR has is gone.                                         *)
LEMMA ConfigureLoses ==
  ASSUME LossInv, NEW k \in Key, ConfigureCreated(k) PROVE Accounted'
<1>0. /\ versions' = versions /\ function' = function /\ raced' = raced /\ cr' = cr
      /\ pass[k].pc = "configure" /\ UNCHANGED spent /\ ~Idle(k) /\ Alone(k)
      /\ Alike(versions, versions')
  BY AloneIs, SameAlike, LossTypes
     DEF ConfigureCreated, aws, history, Idle, At, Handlers, Create
<1>1. /\ GoodPass(pass[k], cr[k]) /\ GoodCR(cr[k]) /\ pass[k].pc # "idle"
      /\ Learned(versions, pass[k], cr[k]) /\ Located(versions, pass[k])
  BY <1>0, OneRuns
<1>2. CASE Unsafe(pass[k])
  <2>1. EndPass(k, "Recoverable")
    BY <1>2 DEF ConfigureCreated, Unsafe
  <2>2. QED
    BY <1>0, <1>2, <2>1, EndQuiet
<1>3. CASE ~Unsafe(pass[k])
  <2>1. pass' = [pass EXCEPT ![k].pc = "writeback", ![k].why = "created",
                             ![k].latest = Created(k), ![k].todo = {}]
    BY <1>3 DEF ConfigureCreated, Unsafe
  <2>2. PICK n : /\ pass[k].todo = {n} /\ (CHOOSE m \in pass[k].todo : TRUE) = n
    <3>1. PICK n \in Positive : pass[k].todo = {n}
      BY <1>0, <1>1 DEF GoodPass
    <3>2. QED
      BY <3>1
  <2>3. Created(k).status.version = n
    BY <2>2 DEF Created
  <2>4. /\ pass'[k].pc = "writeback" /\ pass'[k].why = "created"
        /\ pass'[k].desired = pass[k].desired /\ pass'[k].latest.status.version = n
    BY <1>0, <2>1, <2>3, OneRuns DEF IdlePass
  <2>5. n \in 1..Len(versions) /\ Gone(versions, pass[k].desired.status.version)
        /\ cr[k].finalizer /\ cr[k].exists /\ pass[k].why = "sync"
    BY <1>0, <1>1, <2>2 DEF Located, GoodPass, GoodCR
  <2>6. Learned(versions, pass'[k], cr'[k])
    BY <1>0, <1>1, <2>4, <2>5 DEF Learned, Located, Known
  <2>7. Unraced => Undisturbed(versions, pass'[k], cr'[k])
    <3>1. Unraced => Undisturbed(versions, pass[k], cr[k])
      BY DEF LossInv, Accounted, AllUndisturbed
    <3>2. QED
      BY <1>0, <1>1, <2>2, <2>4, <2>5, <3>1 DEF Undisturbed
  <2>8. Removes(versions, pass'[k], cr'[k]) => Removes(versions, pass[k], cr[k])
    BY <1>0, <1>1, <2>5 DEF Removes
  <2>9. \A m \in Published : Records(cr[k], m) \/ Retains(pass[k], m)
                                => Records(cr'[k], m) \/ Retains(pass'[k], m)
    <3>1. pass[k].latest.status.version = pass[k].desired.status.version
          /\ cr[k].status.version = pass[k].desired.status.version
      BY <1>0, <2>5, NumbersOfPass
    <3>2. \A m \in Published : Retains(pass[k], m) => m = n
      BY <1>0, <2>2, <2>5, <3>1, Nobody DEF Retains
    <3>3. QED
      BY <1>0, <2>4, <3>2 DEF Records, Retains
  <2>10. QED
    BY <1>0, <2>6, <2>7, <2>8, <2>9, RestStep
<1>4. QED
  BY <1>2, <1>3

-----------------------------------------------------------------------------
(* A publication.                                                          *)

LEMMA MoreAges ==
  ASSUME NumbersInv, NEW v, versions' = Append(versions, v), v.exists,
         v.code = function.code, function' = function, ~Unchanged
  PROVE  /\ Ages(versions, versions') /\ Len(versions') = Len(versions) + 1
         /\ versions'[Len(versions) + 1] = v /\ There(versions', Len(versions) + 1)
         /\ \A n : There(versions, n) => There(versions', n)
         /\ \A n \in Published' \ {Len(versions) + 1} :
              n \in Published /\ versions'[n].by = versions[n].by
         /\ Stale = 1 /\ Stale' = 0
<1>1. /\ Grows(versions, versions') /\ Len(versions') = Len(versions) + 1
      /\ versions'[Len(versions) + 1] = v
      /\ \A n \in 1..Len(versions) : Keeps(versions, versions', n)
  BY OneMore
<1>2. Len(versions) \in Nat
  BY DEF NumbersInv, AwsOK
<1>3. /\ Ages(versions, versions') /\ There(versions', Len(versions) + 1)
      /\ \A n : There(versions, n) => There(versions', n)
  BY <1>1, <1>2 DEF Ages, Keeps, There
<1>4. \A n \in Published' : n \in 1..(Len(versions) + 1) /\ versions'[n].exists
  BY <1>1 DEF Published
<1>5. \A n \in Published' \ {Len(versions) + 1} :
        n \in Published /\ versions'[n].by = versions[n].by
  <2> SUFFICES ASSUME NEW n \in Published' \ {Len(versions) + 1}
               PROVE  n \in Published /\ versions'[n].by = versions[n].by
    OBVIOUS
  <2>1. n \in 1..Len(versions) /\ versions'[n].exists
    BY <1>2, <1>4
  <2>2. QED
    BY <1>1, <2>1 DEF Published, Grows, Keeps, There
<1>6. Unchanged'
  <2>1. Len(versions) + 1 \in Published'
    BY <1>1, <1>2 DEF Published
  <2>2. \A m \in Published' : Len(versions) + 1 >= m
    BY <1>2, <1>4
  <2>3. versions'[Len(versions) + 1].code = function'.code
    BY <1>1
  <2>4. QED
    BY <2>1, <2>2, <2>3 DEF Unchanged
<1>7. QED
  BY <1>1, <1>3, <1>5, <1>6 DEF Stale

(* A new version weighs what the function's code weighed; it is endangered *)
(* if its number is lost or its configuration fails.                       *)
LEMMA NewLoses ==
  ASSUME LossInv, NEW k \in Key, Alone(k), ~Unchanged,
         versions' = Append(versions, NewVersion(k)), function' = function,
         raced' = raced, Continues(pass[k], cr[k], pass'[k], cr'[k]),
         Located(versions', pass'[k]), pass[k].pc = "publish",
         pass'[k].pc = "configure" => \A n \in pass'[k].todo : There(versions', n),
         NEW x \in {0, 1}, x = 0 => Retains(pass'[k], Len(versions) + 1),
         \/ UNCHANGED spent /\ (Unraced => x = 0)
         \/ Spend("faults") /\ x = 1
  PROVE  Accounted'
<1> DEFINE N == Len(versions) + 1
           X == IF x = 0 THEN {} ELSE {N}
<1>1. /\ NumbersInv /\ spent \in Counts /\ Len(versions) \in Nat
      /\ Learned(versions, pass[k], cr[k])
  BY LossTypes
<1>2. /\ Ages(versions, versions') /\ Len(versions') = Len(versions) + 1
      /\ \A n : There(versions, n) => There(versions', n)
      /\ \A n \in Published' \ {N} : n \in Published /\ versions'[n].by = versions[n].by
      /\ Stale = 1 /\ Stale' = 0
  <2>1. NewVersion(k).exists /\ NewVersion(k).code = function.code
    BY DEF NewVersion
  <2>2. QED
    BY <1>1, <2>1, MoreAges
<1>3. AllLearned'
  <2>1. Learned(versions', pass'[k], cr'[k])
    BY <1>1, <1>2, GoOnLearned
  <2>2. QED
    BY <1>2, <2>1, OthersLearn
<1>4. Unraced' <=> Unraced
  BY <1>1, CalmStays
<1>5. ASSUME Unraced' PROVE AllUndisturbed'
  <2>1. Unraced /\ Undisturbed(versions, pass[k], cr[k])
    BY <1>4, <1>5 DEF LossInv, Accounted, AllUndisturbed
  <2>2. Undisturbed(versions', pass'[k], cr'[k])
    BY <1>2, <2>1, GoOnUndisturbed
  <2>3. QED
    BY <1>2, <2>1, <2>2, OthersStay
<1>6. Endangered' \subseteq Endangered \cup {N}
  <2>1. \A n : Records(cr[k], n) \/ Retains(pass[k], n)
                 => Records(cr'[k], n) \/ Retains(pass'[k], n)
    BY GoOnRetains
  <2>2. \A n \in Published' \ {N} :
           /\ n \in Published /\ versions'[n].by = versions[n].by
           /\ Records(cr[k], n) \/ Retains(pass[k], n)
                => Records(cr'[k], n) \/ Retains(pass'[k], n)
    BY <1>2, <2>1
  <2> HIDE DEF N
  <2>3. QED
    BY <2>2, EndangeredBy
<1>7. Endangered' \subseteq Endangered \cup X
  <2>1. x = 0 => N \notin Endangered'
    BY DEF Endangered
  <2>2. QED
    BY <1>6, <2>1
<1>8. IsFiniteSet(X) /\ Cardinality(X) =< x
  <2>1. /\ IsFiniteSet({}) /\ Cardinality({}) = 0
        /\ IsFiniteSet({N}) /\ Cardinality({N}) = 1
    BY FS_EmptySet, FS_Singleton
  <2>2. QED
    BY <2>1
<1>9. Removers' \subseteq Removers
  <2>1. Removes(versions', pass'[k], cr'[k]) => Removes(versions, pass[k], cr[k])
    BY <1>1, <1>2, GoOnRemoves
  <2>2. QED
    BY <1>2, <2>1, RemoversBy
<1>10. /\ Cardinality(Removers) \in Nat /\ Cardinality(Removers') \in Nat
       /\ Cardinality(Removers') =< Cardinality(Removers)
  BY <1>9, RemoversCount
<1>11. /\ spent' \in Counts /\ Happened' = Happened /\ Forgiven \in Nat
       /\ Happened \in Nat /\ Forgiven' \in Nat /\ Forgiven =< Forgiven'
       /\ Unraced => x + Forgiven =< Forgiven'
  <2>1. CASE UNCHANGED spent
    <3>1. /\ spent' \in Counts /\ Happened' = Happened /\ Forgiven \in Nat
          /\ Happened \in Nat /\ Forgiven' = Forgiven
      BY <1>1, <2>1, Forgives
    <3>2. Unraced => x = 0
      BY <1>1, <2>1 DEF Spend, Counts
    <3>3. QED
      BY <3>1, <3>2
  <2>2. CASE Spend("faults")
    <3>1. x \in Nat /\ x =< 1
      OBVIOUS
    <3>2. /\ spent' \in Counts /\ Happened' = Happened
          /\ Forgiven \in Nat /\ Happened \in Nat /\ Forgiven' \in Nat
          /\ x + Forgiven =< Forgiven'
      BY <1>1, <2>2, <3>1, SpentFor
    <3>3. QED
      BY <3>1, <3>2
  <2>3. QED
    BY <2>1, <2>2
<1> HIDE DEF X, N
<1>12. /\ x \in Nat /\ x =< 1
  OBVIOUS
<1>13. /\ Len(versions') \in Nat
       /\ Len(versions') + Stale' + Cardinality(Removers') + Happened
           =< Len(versions) + Stale + Cardinality(Removers) + Happened'
       /\ x + Stale' + Cardinality(Removers') + Forgiven + Happened
           =< Stale + Cardinality(Removers) + Forgiven' + Happened'
  BY <1>1, <1>2, <1>10, <1>11, <1>12
<1>14. Balanced'
  BY <1>4, <1>7, <1>8, <1>11, <1>12, <1>13, Weighs
<1>15. QED
  BY <1>3, <1>5, <1>14 DEF Accounted

LEMMA NewestPublished ==
  ASSUME Unchanged PROVE Max(Published) \in Published
<1>1. \E n \in Published : \A m \in Published : n >= m
  BY DEF Unchanged
<1>2. QED
  BY <1>1 DEF Max

(* Somebody else has published the version that the answer names.          *)
LEMMA RaceLoses ==
  ASSUME LossInv, NEW k \in Key, Alone(k), versions' = versions, function' = function,
         raced' = raced \cup {k}, Continues(pass[k], cr[k], pass'[k], cr'[k]),
         Located(versions, pass'[k]), pass[k].pc = "publish", Published # {},
         UNCHANGED spent
  PROVE  Accounted'
<1>1. /\ NumbersInv /\ spent \in Counts /\ Len(versions) \in Nat
      /\ Learned(versions, pass[k], cr[k]) /\ Alike(versions, versions')
  BY LossTypes, SameAlike
<1>2. /\ Ages(versions, versions') /\ Published' = Published /\ Stale' = Stale
  BY <1>1, AlikeAges, AlikeStale
<1>3. AllLearned'
  <2>1. Learned(versions', pass'[k], cr'[k])
    BY <1>1, <1>2, GoOnLearned
  <2>2. QED
    BY <1>2, <2>1, OthersLearn
<1>4. ~Unraced'
  BY DEF Unraced
<1>5. Endangered' \subseteq Endangered \cup {}
  <2>1. \A n : Records(cr[k], n) \/ Retains(pass[k], n)
                 => Records(cr'[k], n) \/ Retains(pass'[k], n)
    BY GoOnRetains
  <2>2. \A n \in Published' \ {} :
           /\ n \in Published /\ versions'[n].by = versions[n].by
           /\ Records(cr[k], n) \/ Retains(pass[k], n)
                => Records(cr'[k], n) \/ Retains(pass'[k], n)
    BY <1>2, <2>1
  <2>3. QED
    BY <2>2, EndangeredBy
<1>6. IsFiniteSet({}) /\ Cardinality({}) =< 0
  BY FS_EmptySet
<1>7. Removers' \subseteq Removers
  <2>1. Removes(versions', pass'[k], cr'[k]) => Removes(versions, pass[k], cr[k])
    BY <1>1, <1>2, GoOnRemoves
  <2>2. QED
    BY <1>2, <2>1, RemoversBy
<1>8. /\ Cardinality(Removers) \in Nat /\ Cardinality(Removers') \in Nat
      /\ Cardinality(Removers') =< Cardinality(Removers)
  BY <1>7, RemoversCount
<1>9. /\ spent' \in Counts /\ Happened' = Happened /\ Forgiven \in Nat
      /\ Happened \in Nat /\ Forgiven' = Forgiven
  BY <1>1, Forgives
<1>10. Len(versions) >= 1
  BY <1>1 DEF Published
<1>11. Stale \in Nat
  BY StaleIs
<1>12. /\ Len(versions') \in Nat /\ Len(versions') >= 1 /\ 0 \in Nat
       /\ Len(versions') + Stale' + Cardinality(Removers') + Happened
           =< Len(versions) + Stale + Cardinality(Removers) + Happened'
       /\ 0 + Forgiven =< Forgiven'
       /\ 0 + Stale' + Cardinality(Removers') + Forgiven + Happened
           =< Stale + Cardinality(Removers) + Forgiven' + Happened'
  BY <1>1, <1>2, <1>8, <1>9, <1>10, <1>11
<1>13. Balanced'
  BY <1>4, <1>5, <1>6, <1>9, <1>12, Weighs
<1>14. QED
  BY <1>3, <1>4, <1>13 DEF Accounted

LEMMA PublishLoses == ASSUME LossInv, NEW k \in Key, PublishVersion(k) PROVE Accounted'
<1> DEFINE n == IF Unchanged THEN Max(Published) ELSE Len(versions) + 1
<1>0. /\ function' = function /\ cr' = cr /\ pass[k].pc = "publish" /\ ~Idle(k)
      /\ Alone(k) /\ NumbersInv /\ Len(versions) \in Nat
      /\ (versions' = versions => Alike(versions, versions'))
  BY AloneIs, SameAlike, LossTypes DEF PublishVersion, Idle, At, Handlers, Create
<1>1. /\ GoodPass(pass[k], cr[k]) /\ GoodCR(cr[k]) /\ pass[k].pc # "idle"
      /\ Learned(versions, pass[k], cr[k]) /\ Located(versions, pass[k])
      /\ DOMAIN pass = Key /\ DOMAIN pass[k] = DOMAIN IdlePass
  BY <1>0, OneRuns
<1>2. ASSUME EndPass(k, "Recoverable"), UNCHANGED <<versions, raced>>,
             UNCHANGED spent \/ Spend("faults")
      PROVE  Accounted'
  BY <1>0, <1>2, EndQuiet
<1>3. CASE /\ pass' = [pass EXCEPT ![k].pc = "finish", ![k].outcome = "Terminal"]
           /\ versions' = versions /\ raced' = raced /\ UNCHANGED spent
  BY <1>0, <1>3, EndQuiet DEF EndPass
<1>4. ASSUME /\ pass' = [pass EXCEPT ![k].pc = "configure", ![k].todo = {n}]
      PROVE  /\ pass'[k].pc = "configure" /\ pass'[k].todo = {n}
             /\ Continues(pass[k], cr[k], pass'[k], cr'[k])
             /\ \A ws : Ages(versions, ws) /\ n \in 1..Len(ws) => Located(ws, pass'[k])
             /\ Unsafe(pass'[k]) <=> Unsafe(pass[k])
  <2> HIDE DEF n
  <2>1. /\ pass'[k].pc = "configure" /\ pass'[k].todo = {n}
        /\ pass'[k].why = pass[k].why
        /\ pass'[k].desired = pass[k].desired /\ pass'[k].latest = pass[k].latest
    BY <1>1, <1>4 DEF IdlePass
  <2>2. Continues(pass[k], cr[k], pass'[k], cr'[k])
    BY <1>0, <1>1, <2>1 DEF Continues
  <2>3. /\ Gone(versions, pass[k].desired.status.version) /\ pass[k].why = "sync"
        /\ Known(versions, pass[k].desired.status.version)
    BY <1>0, <1>1 DEF Located, Learned
  <2>4. ASSUME NEW ws, Ages(versions, ws), n \in 1..Len(ws) PROVE Located(ws, pass'[k])
    <3>1. Gone(ws, pass[k].desired.status.version)
      BY <2>3, <2>4, NumbersAge
    <3>2. QED
      BY <2>1, <2>3, <2>4, <3>1 DEF Located
  <2>5. QED
    BY <2>1, <2>2, <2>4 DEF Unsafe
<1>5. CASE /\ Unchanged /\ versions' = versions /\ raced' = raced \cup {k}
           /\ pass' = [pass EXCEPT ![k].pc = "configure", ![k].todo = {n}]
           /\ UNCHANGED spent
  <2>1. n \in Published /\ n \in 1..Len(versions)
    BY <1>5, NewestPublished DEF Published
  <2>2. Ages(versions, versions)
    BY <1>0, <1>5, AlikeAges
  <2> HIDE DEF n
  <2>3. /\ Continues(pass[k], cr[k], pass'[k], cr'[k])
        /\ Located(versions, pass'[k])
    BY <1>4, <1>5, <2>1, <2>2
  <2>4. QED
    BY <1>0, <1>5, <2>1, <2>3, RaceLoses
<1>6. CASE /\ ~Unchanged /\ versions' = Append(versions, NewVersion(k))
           /\ raced' = raced
  <2>1. n = Len(versions) + 1
    BY <1>6
  <2>2. /\ Ages(versions, versions') /\ Len(versions') = Len(versions) + 1
        /\ There(versions', n)
    <3>1. NewVersion(k).exists /\ NewVersion(k).code = function.code
      BY DEF NewVersion
    <3>2. QED
      BY <1>0, <1>6, <2>1, <3>1, MoreAges
  <2>3. CASE /\ pass' = [pass EXCEPT ![k].pc = "configure", ![k].todo = {n}]
             /\ UNCHANGED spent
    <3>1. n \in 1..Len(versions')
      BY <1>0, <2>1, <2>2
    <3> HIDE DEF n
    <3>2. /\ pass'[k].pc = "configure" /\ pass'[k].todo = {n}
          /\ Continues(pass[k], cr[k], pass'[k], cr'[k])
          /\ Located(versions', pass'[k])
          /\ Unsafe(pass'[k]) <=> Unsafe(pass[k])
      BY <1>4, <2>2, <2>3, <3>1
    <3>3. Unraced => ~Unsafe(pass[k])
      <4>1. Unraced => Undisturbed(versions, pass[k], cr[k])
        BY DEF LossInv, Accounted, AllUndisturbed
      <4>2. QED
        BY <1>0, <1>1, <4>1 DEF Undisturbed, Located, Gone, Unsafe
    <3>4. ~Unsafe(pass[k]) => Retains(pass'[k], Len(versions) + 1)
      BY <2>1, <3>2 DEF Retains
    <3> DEFINE x == IF Unsafe(pass[k]) THEN 1 ELSE 0
    <3>5. /\ x \in {0, 1} /\ (x = 0 => Retains(pass'[k], Len(versions) + 1))
          /\ (Unraced => x = 0)
      BY <3>3, <3>4
    <3> HIDE DEF x
    <3>6. QED
      BY <1>0, <1>6, <2>2, <2>3, <3>2, <3>5, NewLoses
  <2>4. CASE EndPass(k, "Recoverable") /\ Spend("faults")
    <3>1. /\ pass'[k].pc = "finish" /\ pass'[k].why = pass[k].why
          /\ pass'[k].desired = pass[k].desired /\ pass'[k].latest = pass[k].latest
      BY <1>1, <2>4 DEF EndPass, IdlePass
    <3>2. Continues(pass[k], cr[k], pass'[k], cr'[k])
      BY <1>0, <1>1, <3>1 DEF Continues
    <3>3. Located(versions', pass'[k])
      BY <3>1 DEF Located
    <3>4. 1 \in {0, 1} /\ 1 # 0
      OBVIOUS
    <3>5. QED
      BY <1>0, <1>6, <2>4, <3>1, <3>2, <3>3, <3>4, NewLoses
  <2>5. ~AlreadyListed(k, n)
    BY <1>0, <1>1, <2>1 DEF AlreadyListed, Located
  <2>6. \/ pass' = [pass EXCEPT ![k].pc = "configure", ![k].todo = {n}] /\ UNCHANGED spent
        \/ EndPass(k, "Recoverable") /\ Spend("faults")
        \/ Refused(k) /\ versions' = versions
    BY <2>5 DEF PublishVersion
  <2>7. versions' # versions
    BY <1>0, <2>2
  <2>8. QED
    BY <2>3, <2>4, <2>6, <2>7
<1>7. QED
  BY <1>2, <1>3, <1>5, <1>6 DEF PublishVersion, AlreadyListed

-----------------------------------------------------------------------------
(* A deletion.                                                             *)

(* A version that is deleted may have been the newest.                     *)
LEMMA LessAges ==
  ASSUME NumbersInv, NEW n, Exists(n),
         versions' = [versions EXCEPT ![n].exists = FALSE]
  PROVE  /\ Ages(versions, versions') /\ Len(versions') = Len(versions)
         /\ ~There(versions', n) /\ Len(versions) >= 1
         /\ \A m \in Published' : m \in Published /\ versions'[m].by = versions[m].by
<1>1. versions \in Seq(Version) /\ n \in 1..Len(versions) /\ versions[n] \in Version
      /\ Len(versions) \in Nat
  BY DEF NumbersInv, AwsOK, Exists
<1> DEFINE x == [versions[n] EXCEPT !.exists = FALSE]
<1>2. x.by = versions[n].by /\ ~x.exists
  BY <1>1 DEF Version
<1>3. versions' = [versions EXCEPT ![n] = x]
  OBVIOUS
<1> HIDE DEF x
<1>4. /\ Len(versions') = Len(versions) /\ versions'[n] = x
      /\ \A m \in 1..Len(versions) : m # n => versions'[m] = versions[m]
  BY <1>1, <1>3
<1>5. Ages(versions, versions') /\ ~There(versions', n)
  BY <1>1, <1>2, <1>4 DEF Ages, Grows, There
<1>6. Len(versions) >= 1
  BY <1>1
<1>7. \A m \in Published' : m \in Published /\ versions'[m].by = versions[m].by
  BY <1>1, <1>2, <1>4 DEF Published
<1>8. QED
  BY <1>4, <1>5, <1>6, <1>7

LEMMA DeleteLoses == ASSUME LossInv, NEW k \in Key, sdkDelete(k) PROVE Accounted'
<1> DEFINE m == pass[k].latest.status.version
           n == Qualifier(m)
<1>0. /\ cr' = cr /\ raced' = raced /\ pass[k].pc = "delete" /\ ~Idle(k)
      /\ Alone(k) /\ NumbersInv /\ Len(versions) \in Nat /\ spent \in Counts
      /\ OwnersInv /\ Handlers(k)
      /\ (versions' = versions => Alike(versions, versions'))
  BY AloneIs, SameAlike, LossTypes DEF sdkDelete, history, Idle, At, Handlers, Delete
<1>1. /\ GoodPass(pass[k], cr[k]) /\ pass[k].pc # "idle"
      /\ Learned(versions, pass[k], cr[k]) /\ Located(versions, pass[k])
      /\ DOMAIN pass = Key /\ DOMAIN pass[k] = DOMAIN IdlePass
  BY <1>0, OneRuns
<1>2. n = m /\ n \in Positive /\ function' = function
  <2>1. m \in Positive
    BY <1>0, <1>1, PassTypes DEF GoodPass
  <2>2. m # Nil
    BY <2>1, VersionNil DEF Positive
  <2>3. QED
    BY <1>0, <2>1, <2>2, DeleteStep DEF Qualifier
<1>3. /\ pass[k].why = "delete" /\ cr[k].deleting /\ cr[k].exists
      /\ cr[k].status.version = n /\ pass[k].desired.status.version = n
  <2>1. pass[k].why = "delete" /\ cr[k].deleting /\ cr[k].exists
    BY <1>0, <1>1 DEF Located, Learned
  <2>2. /\ cr[k].status.version = pass[k].desired.status.version
        /\ m = pass[k].desired.status.version
    BY <1>0, <2>1, NumbersOfPass
  <2>3. QED
    BY <1>2, <2>1, <2>2
<1>4. \/ /\ Exists(n)
         /\ versions' = [versions EXCEPT ![n].exists = FALSE]
         /\ \/ Goto(k, "unmanage") /\ UNCHANGED spent
            \/ Spend("faults") /\ EndPass(k, "Recoverable")
      \/ EndPass(k, "Recoverable") /\ UNCHANGED <<versions, spent>>
  <2>1. n # 0
    BY <1>2 DEF Positive
  <2> HIDE DEF n
  <2>2. QED
    BY <2>1 DEF sdkDelete, n, aws
<1> HIDE DEF n, m
<1>5. CASE EndPass(k, "Recoverable") /\ UNCHANGED <<versions, spent>>
  BY <1>0, <1>2, <1>5, EndQuiet
<1>6. CASE /\ Exists(n)
           /\ versions' = [versions EXCEPT ![n].exists = FALSE]
           /\ \/ Goto(k, "unmanage") /\ UNCHANGED spent
              \/ Spend("faults") /\ EndPass(k, "Recoverable")
  <2>1. /\ Ages(versions, versions') /\ Len(versions') = Len(versions)
        /\ ~There(versions', n)
        /\ \A i \in Published' : i \in Published /\ versions'[i].by = versions[i].by
    BY <1>0, <1>6, LessAges
  <2>2. /\ pass'[k].pc \in {"unmanage", "finish"} /\ pass'[k].why = pass[k].why
        /\ pass'[k].desired = pass[k].desired /\ pass'[k].latest = pass[k].latest
    BY <1>1, <1>6 DEF Goto, EndPass, IdlePass
  <2>3. Continues(pass[k], cr[k], pass'[k], cr'[k])
    BY <1>0, <1>1, <2>2 DEF Continues
  <2>4. Located(versions', pass'[k])
    BY <1>3, <2>1, <2>2 DEF Located, Gone
  <2>5. AllLearned'
    <3>1. Learned(versions', pass'[k], cr'[k])
      BY <1>1, <2>1, <2>3, <2>4, GoOnLearned
    <3>2. QED
      BY <1>0, <2>1, <3>1, OthersLearn
  <2>6. Unraced' <=> Unraced
    BY <1>0, <1>6, CalmStays
  <2>7. ASSUME Unraced' PROVE AllUndisturbed'
    <3>1. Unraced /\ k \notin raced
      BY <2>6, <2>7 DEF Unraced
    <3>2. \A j \in Key \ {k} : \A i :
            Mine(versions, j, i) => Keeps(versions, versions', i)
      BY <1>0, <3>1, HandlersMove, MovesKeep
    <3>3. Undisturbed(versions', pass'[k], cr'[k])
      BY <1>0, <1>3, <2>2 DEF Undisturbed
    <3>4. QED
      BY <1>0, <3>1, <3>2, <3>3, OthersUndisturbed
  <2>8. Endangered' \subseteq Endangered \cup {}
    <3>1. \A i : Records(cr[k], i) \/ Retains(pass[k], i)
                   => Records(cr'[k], i) \/ Retains(pass'[k], i)
      BY <1>0, <2>3, GoOnRetains
    <3>2. \A i \in Published' \ {} :
             /\ i \in Published /\ versions'[i].by = versions[i].by
             /\ Records(cr[k], i) \/ Retains(pass[k], i)
                  => Records(cr'[k], i) \/ Retains(pass'[k], i)
      BY <2>1, <3>1
    <3>3. QED
      BY <1>0, <3>2, EndangeredBy
  <2>9. /\ Cardinality(Removers) \in Nat /\ Cardinality(Removers') \in Nat
        /\ Cardinality(Removers') =< Cardinality(Removers) - 1
    <3>1. k \in Removers
      BY <1>3, <1>6 DEF Removers, Removes, Exists, There
    <3>2. ~Removes(versions', pass'[k], cr'[k])
      BY <1>0, <1>3, <2>1, <2>2 DEF Removes
    <3>3. Removers' \subseteq Removers \ {k}
      BY <1>0, <2>1, <3>2, RemoversBy
    <3>4. QED
      BY <3>1, <3>3, RemoversCount
  <2>10. /\ spent' \in Counts /\ Happened' = Happened /\ Forgiven \in Nat
         /\ Happened \in Nat /\ Forgiven' \in Nat /\ 0 + Forgiven =< Forgiven'
    <3>1. 0 \in Nat /\ 0 =< 1
      OBVIOUS
    <3>2. (UNCHANGED spent /\ 0 = 0) \/ (Spend("faults") /\ 0 =< 1)
      BY <1>6
    <3>3. QED
      BY <1>0, <3>1, <3>2, SpentFor
  <2>11. /\ Stale \in Nat /\ Stale' \in Nat /\ Stale' =< Stale + 1
         /\ Len(versions) \in Nat /\ Len(versions') = Len(versions)
    <3>1. Stale \in 0..1 /\ Stale' \in 0..1
      BY StaleIs
    <3>2. QED
      BY <1>0, <2>1, <3>1
  <2>12. /\ Len(versions') \in Nat /\ 0 \in Nat
         /\ Len(versions') + Stale' + Cardinality(Removers') + Happened
             =< Len(versions) + Stale + Cardinality(Removers) + Happened'
         /\ 0 + Stale' + Cardinality(Removers') + Forgiven + Happened
             =< Stale + Cardinality(Removers) + Forgiven' + Happened'
    BY <2>9, <2>10, <2>11
  <2>13. IsFiniteSet({}) /\ Cardinality({}) =< 0
    BY FS_EmptySet
  <2>14. Balanced'
    BY <2>6, <2>8, <2>10, <2>12, <2>13, Weighs
  <2>15. QED
    BY <2>5, <2>7, <2>14 DEF Accounted
<1>7. QED
  BY <1>4, <1>5, <1>6

-----------------------------------------------------------------------------
(* Users, and what happens behind the controller's back.                   *)

(* What is counted adds one to what may happen.                            *)
LEMMA HappenedMore ==
  ASSUME spent \in Counts, Spend("edits") \/ Spend("drifts")
  PROVE  /\ spent' \in Counts /\ Forgiven \in Nat /\ Happened \in Nat
         /\ Forgiven' = Forgiven /\ Happened' = Happened + 1
BY Forgives, SpendType

(* An edit of a CR: the versions and the passes are left alone.            *)
LEMMA UserStep ==
  ASSUME LossInv, NEW k \in Key, Alone(k), versions' = versions,
         function' = function, raced' = raced, pass' = pass, Spend("edits"),
         Learned(versions, pass[k], cr'[k]),
         Unraced => Undisturbed(versions, pass[k], cr'[k]),
         \A n \in Published : Records(cr[k], n) => Records(cr'[k], n) \/ Retains(pass[k], n)
  PROVE  Accounted'
<1>1. Alike(versions, versions') /\ spent \in Counts /\ Len(versions) \in Nat
  BY LossTypes, SameAlike
<1>2. /\ Ages(versions, versions') /\ Published' = Published /\ Stale' = Stale
      /\ \A n : There(versions, n) <=> There(versions', n)
  BY <1>1, AlikeAges, AlikeStale
<1>3. AllLearned'
  BY <1>2, OthersLearn
<1>4. Unraced' <=> Unraced
  BY <1>1, CalmStays
<1>5. Unraced' => AllUndisturbed'
  BY <1>2, <1>4, OthersStay
<1>6. Endangered' \subseteq Endangered \cup {}
  <2>1. \A n \in Published' \ {} :
           /\ n \in Published /\ versions'[n].by = versions[n].by
           /\ Records(cr[k], n) \/ Retains(pass[k], n)
                => Records(cr'[k], n) \/ Retains(pass'[k], n)
    BY <1>2
  <2>2. QED
    BY <2>1, EndangeredBy
<1>7. /\ Cardinality(Removers) \in Nat /\ Cardinality(Removers') \in Nat
      /\ Cardinality(Removers') =< Cardinality(Removers) + 1
  BY <1>2, RemoversBy, RemoversCount
<1>8. /\ spent' \in Counts /\ Forgiven \in Nat /\ Happened \in Nat
      /\ Forgiven' = Forgiven /\ Happened' = Happened + 1
  BY <1>1, HappenedMore
<1>9. Stale \in Nat
  BY StaleIs
<1>10. /\ Len(versions') \in Nat /\ 0 \in Nat
       /\ Len(versions') + Stale' + Cardinality(Removers') + Happened
           =< Len(versions) + Stale + Cardinality(Removers) + Happened'
       /\ 0 + Forgiven =< Forgiven'
       /\ 0 + Stale' + Cardinality(Removers') + Forgiven + Happened
           =< Stale + Cardinality(Removers) + Forgiven' + Happened'
  BY <1>1, <1>2, <1>7, <1>8, <1>9
<1>11. IsFiniteSet({}) /\ Cardinality({}) =< 0
  BY FS_EmptySet
<1>12. Balanced'
  BY <1>4, <1>6, <1>8, <1>10, <1>11, Weighs
<1>13. QED
  BY <1>3, <1>5, <1>12 DEF Accounted

LEMMA UsersLose == ASSUME LossInv, NEW k \in Key, Users(k) PROVE Accounted'
<1>0. /\ versions' = versions /\ function' = function /\ raced' = raced
      /\ pass' = pass /\ Spend("edits") /\ Alone(k) /\ DOMAIN cr = Key
      /\ GoodPass(pass[k], cr[k]) /\ GoodCR(cr[k]) /\ Learned(versions, pass[k], cr[k])
  BY AloneIs, LossTypes
     DEF Users, UserApply, UserEdit, UserDelete, aws, history, Environment
<1>1. Unraced => Undisturbed(versions, pass[k], cr[k])
  BY DEF LossInv, Accounted, AllUndisturbed
<1>2. cr[k].exists => cr[k] = [exists |-> TRUE, spec |-> cr[k].spec,
                 status |-> cr[k].status, deleting |-> cr[k].deleting,
                 finalizer |-> cr[k].finalizer, cond |-> cr[k].cond]
  BY TypesOfPass, LossTypes
<1>3. pass[k].pc # "idle" /\ pass[k].desired.finalizer => cr[k].finalizer
  BY <1>0 DEF GoodPass
<1>4. ASSUME NEW s \in Specs, UserApply(k, s, NoStatus) PROVE Accounted'
  <2>1. cr'[k] = FreshCR(s, NoStatus) /\ ~cr[k].exists
    BY <1>0, <1>4 DEF UserApply
  <2>2. /\ cr'[k].exists /\ ~cr'[k].deleting /\ ~cr'[k].finalizer
        /\ cr'[k].status.version = Nil
    BY <2>1 DEF FreshCR, NoStatus
  <2>3. ~cr[k].finalizer
    BY <1>0, <2>1 DEF GoodCR
  <2>4. Learned(versions, pass[k], cr'[k])
    BY <1>0, <1>3, <2>1, <2>2, <2>3 DEF Learned, Known
  <2>5. Unraced => Undisturbed(versions, pass[k], cr'[k])
    BY <1>1, <2>2 DEF Undisturbed
  <2>6. \A n : ~Records(cr[k], n)
    BY <2>1 DEF Records
  <2>7. QED
    BY <1>0, <2>4, <2>5, <2>6, UserStep
<1>5. ASSUME NEW s, UserEdit(k, s) PROVE Accounted'
  <2>1. cr' = [cr EXCEPT ![k].spec = s] /\ cr[k].exists
    BY <1>5 DEF UserEdit
  <2>2. /\ cr'[k].exists = cr[k].exists /\ cr'[k].deleting = cr[k].deleting
        /\ cr'[k].status = cr[k].status /\ cr'[k].finalizer = cr[k].finalizer
    BY <1>0, <1>2, <2>1
  <2>3. Learned(versions, pass[k], cr'[k])
    BY <1>0, <2>2 DEF Learned
  <2>4. Unraced => Undisturbed(versions, pass[k], cr'[k])
    BY <1>1, <2>2 DEF Undisturbed
  <2>5. \A n : Records(cr[k], n) => Records(cr'[k], n)
    BY <2>2 DEF Records
  <2>6. QED
    BY <1>0, <2>3, <2>4, <2>5, UserStep
<1>6. CASE UserDelete(k) /\ cr[k].finalizer
  <2>1. cr' = [cr EXCEPT ![k] = [cr[k] EXCEPT !.deleting = TRUE]] /\ cr[k].exists
    BY <1>6 DEF UserDelete
  <2>2. /\ cr'[k].exists = cr[k].exists /\ cr'[k].deleting
        /\ cr'[k].status = cr[k].status /\ cr'[k].finalizer = cr[k].finalizer
    BY <1>0, <1>2, <2>1
  <2>3. Learned(versions, pass[k], cr'[k])
    BY <1>0, <1>6, <2>1, <2>2 DEF Learned
  <2>4. Unraced => Undisturbed(versions, pass[k], cr'[k])
    BY <1>1, <2>2 DEF Undisturbed
  <2>5. \A n : Records(cr[k], n) => Records(cr'[k], n)
    BY <2>2 DEF Records
  <2>6. QED
    BY <1>0, <2>3, <2>4, <2>5, UserStep
<1>7. CASE UserDelete(k) /\ ~cr[k].finalizer
  <2>1. cr'[k] = NoCR /\ cr[k].exists
    BY <1>0, <1>7 DEF UserDelete
  <2>2. ~cr'[k].exists /\ ~cr'[k].deleting /\ ~cr'[k].finalizer
    BY <2>1 DEF NoCR
  <2>3. cr[k].status.version = Nil
    BY <1>0, <1>7, <2>1 DEF Learned
  <2>4. Learned(versions, pass[k], cr'[k])
    BY <1>0, <1>7, <2>2 DEF Learned
  <2>5. Unraced => Undisturbed(versions, pass[k], cr'[k])
    BY <1>1, <2>2 DEF Undisturbed
  <2>6. \A n \in Published : ~Records(cr[k], n)
    BY <2>3, NilUnpublished DEF Records
  <2>7. QED
    BY <1>0, <2>4, <2>5, <2>6, UserStep
<1>8. QED
  BY <1>4, <1>5, <1>6, <1>7 DEF Users

-----------------------------------------------------------------------------
(* What nobody's pass or CR changes with.                                  *)

LEMMA OutsideLoses ==
  ASSUME LossInv, cr' = cr, pass' = pass, raced' = raced,
         Ages(versions, versions'), spent' \in Counts,
         \A n \in Published' : \/ versions'[n].by = "other"
                               \/ n \in Published /\ versions'[n].by = versions[n].by,
         Unraced' => Unraced /\ \A n : There(versions, n) => There(versions', n),
         Unraced /\ ~Unraced' => Len(versions') >= 1,
         Len(versions') + Stale' + Happened =< Len(versions) + Stale + Happened',
         Stale' + Happened =< Stale + Happened',
         Forgiven' = Forgiven
  PROVE  Accounted'
<1>1. /\ spent \in Counts /\ Len(versions) \in Nat /\ Len(versions') \in Nat
      /\ AllLearned
  BY LossTypes DEF Ages, Grows
<1>2. AllLearned'
  BY <1>1, LearnedAges DEF AllLearned
<1>3. ASSUME Unraced' PROVE AllUndisturbed'
  <2>1. AllUndisturbed /\ \A n : There(versions, n) => There(versions', n)
    BY <1>3 DEF LossInv, Accounted
  <2>2. ASSUME NEW j \in Key PROVE Undisturbed(versions', pass[j], cr[j])
    BY <2>1, StayUndisturbed DEF AllUndisturbed
  <2>3. QED
    BY <2>2 DEF AllUndisturbed
<1>4. Endangered' \subseteq Endangered \cup {}
  BY DEF Endangered
<1>5. Removers' \subseteq Removers
  <2>1. ASSUME NEW j \in Removers' PROVE j \in Removers
    <3>1. j \in Key /\ Removes(versions', pass[j], cr[j])
      BY DEF Removers
    <3>2. QED
      BY <1>1, <3>1, RemovesAges DEF AllLearned, Removers
  <2>2. QED
    BY <2>1
<1>6. /\ Cardinality(Removers) \in Nat /\ Cardinality(Removers') \in Nat
      /\ Cardinality(Removers') =< Cardinality(Removers)
  BY <1>5, RemoversCount
<1>7. /\ Stale \in Nat /\ Stale' \in Nat /\ Forgiven \in Nat /\ Happened \in Nat
  BY <1>1, StaleIs, Forgives
<1>8. Happened' \in Nat
  <2>1. spent'.edits \in Nat /\ spent'.drifts \in Nat
    BY DEF Counts
  <2>2. QED
    BY <2>1 DEF Happened
<1>9. /\ 0 \in Nat /\ 0 + Forgiven =< Forgiven'
      /\ Len(versions') + Stale' + Cardinality(Removers') + Happened
           =< Len(versions) + Stale + Cardinality(Removers) + Happened'
      /\ 0 + Stale' + Cardinality(Removers') + Forgiven + Happened
           =< Stale + Cardinality(Removers) + Forgiven' + Happened'
  <2> DEFINE l == Len(versions)
             l2 == Len(versions')
             o == Stale
             o2 == Stale'
             r == Cardinality(Removers)
             r2 == Cardinality(Removers')
             f == Forgiven
             f2 == Forgiven'
             s == Happened
             s2 == Happened'
  <2>1. /\ l \in Nat /\ l2 \in Nat /\ o \in Nat /\ o2 \in Nat /\ r \in Nat
        /\ r2 \in Nat /\ f \in Nat /\ s \in Nat /\ s2 \in Nat /\ f2 = f /\ r2 =< r
        /\ l2 + o2 + s =< l + o + s2 /\ o2 + s =< o + s2
    BY <1>1, <1>6, <1>7, <1>8
  <2> HIDE DEF l, l2, o, o2, r, r2, f, f2, s, s2
  <2>2. /\ 0 \in Nat /\ 0 + f =< f2
        /\ l2 + o2 + r2 + s =< l + o + r + s2
        /\ 0 + o2 + r2 + f + s =< o + r + f2 + s2
    BY <2>1
  <2>3. QED
    BY <2>2 DEF l, l2, o, o2, r, r2, f, f2, s, s2
<1>10. IsFiniteSet({}) /\ Cardinality({}) =< 0
  BY FS_EmptySet
<1>11. Balanced'
  BY <1>1, <1>4, <1>9, <1>10, Weighs
<1>12. QED
  BY <1>2, <1>3, <1>11 DEF Accounted

LEMMA UpdateFunctionLoses == ASSUME LossInv, UpdateFunction PROVE Accounted'
<1>1. /\ cr' = cr /\ pass' = pass /\ raced' = raced /\ versions' = versions
      /\ UNCHANGED spent \/ Spend("edits")
  BY DEF UpdateFunction, history
<1>2. /\ spent \in Counts /\ Len(versions) \in Nat /\ Alike(versions, versions')
      /\ NumbersInv
  BY <1>1, LossTypes, SameAlike
<1>3. /\ Ages(versions, versions') /\ Published' = Published
      /\ \A n : There(versions, n) => There(versions', n)
  BY <1>1, <1>2, AlikeAges DEF Published
<1>4. Unraced' <=> Unraced
  BY <1>1, <1>2, CalmStays
<1>5. /\ spent' \in Counts /\ Happened' \in Nat /\ Happened \in Nat
      /\ Forgiven' = Forgiven
      /\ Stale \in 0..1 /\ Stale' \in 0..1
      /\ \/ Happened' = Happened /\ Stale' = Stale
         \/ Happened' = Happened + 1
  <2>1. CASE Spend("edits")
    BY <1>2, <2>1, HappenedMore, StaleIs
  <2>2. CASE UNCHANGED spent
    <3>1. function'.code = function.code \/ Spend("edits")
      <4>1. function \in [exists : BOOLEAN, code : Code]
        BY <1>2 DEF NumbersInv, AwsOK
      <4>2. QED
        BY <4>1 DEF UpdateFunction
    <3>2. CASE function'.code = function.code
      BY <1>2, <2>2, <3>2, AlikeStale, StaleIs, Forgives
    <3>3. QED
      BY <2>1, <3>1, <3>2
  <2>3. QED
    BY <1>1, <2>1, <2>2
<1>6. /\ Len(versions') + Stale' + Happened =< Len(versions) + Stale + Happened'
      /\ Stale' + Happened =< Stale + Happened'
  <2> DEFINE l == Len(versions)
             o == Stale
             o2 == Stale'
             s == Happened
             s2 == Happened'
  <2>1. /\ Len(versions') = l /\ l \in Nat /\ o \in 0..1 /\ o2 \in 0..1
        /\ s \in Nat /\ s2 \in Nat /\ ((s2 = s /\ o2 = o) \/ s2 = s + 1)
    BY <1>1, <1>2, <1>5
  <2> HIDE DEF l, o, o2, s, s2
  <2>2. l + o2 + s =< l + o + s2 /\ o2 + s =< o + s2
    BY <2>1
  <2>3. QED
    BY <2>1, <2>2 DEF l, o, o2, s, s2
<1>7. QED
  BY <1>1, <1>3, <1>4, <1>5, <1>6, OutsideLoses

(* Versions that settle or are configured by others.                       *)
LEMMA SettleLoses == ASSUME LossInv, Settle PROVE Accounted'
<1>1. /\ cr' = cr /\ pass' = pass /\ raced' = raced /\ function' = function
      /\ UNCHANGED spent
  BY DEF Settle, history, passVars
<1>2. /\ spent \in Counts /\ Len(versions) \in Nat /\ NumbersInv
      /\ versions \in Seq(Version)
  BY LossTypes
<1>3. Alike(versions, versions')
  <2>1. PICK m \in 1..Len(versions) :
            versions' = [versions EXCEPT ![m].pending = FALSE]
    BY DEF Settle, Published
  <2> DEFINE x == [versions[m] EXCEPT !.pending = FALSE]
  <2>2. versions[m] \in Version
    BY <1>2, <2>1
  <2>3. /\ x.by = versions[m].by /\ x.exists = versions[m].exists
        /\ x.code = versions[m].code
    BY <2>2 DEF Version
  <2>4. versions' = [versions EXCEPT ![m] = x]
    BY <2>1
  <2> HIDE DEF x
  <2>5. QED
    BY <1>2, <2>3, <2>4 DEF Alike
<1>4. /\ Ages(versions, versions') /\ Published' = Published /\ Stale' = Stale
      /\ \A n : There(versions, n) <=> There(versions', n)
      /\ \A n \in Published : versions'[n].by = versions[n].by
  BY <1>1, <1>3, AlikeAges, AlikeStale DEF Alike, Published
<1>5. /\ spent' \in Counts /\ Happened' = Happened /\ Happened \in Nat
      /\ Forgiven' = Forgiven /\ Stale \in Nat
  BY <1>1, <1>2, Forgives, StaleIs
<1>6. Unraced' <=> Unraced
  BY <1>1, <1>2, CalmStays
<1>7. /\ Len(versions') + Stale' + Happened =< Len(versions) + Stale + Happened'
      /\ Stale' + Happened =< Stale + Happened'
  BY <1>2, <1>3, <1>4, <1>5 DEF Alike
<1>8. QED
  BY <1>1, <1>4, <1>5, <1>6, <1>7, OutsideLoses

LEMMA DriftLoses == ASSUME LossInv, Drift PROVE Accounted'
<1>1. /\ cr' = cr /\ pass' = pass /\ raced' = raced /\ function' = function
      /\ Spend("drifts")
  BY DEF Drift, history
<1>2. /\ spent \in Counts /\ Len(versions) \in Nat /\ NumbersInv
      /\ versions \in Seq(Version)
  BY LossTypes
<1>3. /\ spent' \in Counts /\ Forgiven \in Nat /\ Happened \in Nat
      /\ Forgiven' = Forgiven /\ Happened' = Happened + 1
  BY <1>1, <1>2, HappenedMore
<1>4. Stale \in 0..1 /\ Stale' \in 0..1
  BY StaleIs
<1>5. ~Unraced'
  <2>1. DOMAIN spent = {"edits", "faults", "drifts", "overlaps"} /\ spent.drifts \in Nat
    BY <1>2, CountsAre
  <2>2. spent'.drifts = spent.drifts + 1
    BY <1>1, <2>1 DEF Spend
  <2>3. QED
    BY <2>1, <2>2 DEF Unraced, NoDriftYet
<1>6. ASSUME Ages(versions, versions'), Len(versions') >= 1, Len(versions') \in Nat,
             \A n \in Published' : \/ versions'[n].by = "other"
                                   \/ n \in Published /\ versions'[n].by = versions[n].by,
             \/ Len(versions') = Len(versions)
             \/ Len(versions') = Len(versions) + 1 /\ Stale = 1 /\ Stale' = 0
      PROVE  Accounted'
  <2>1. /\ Len(versions') + Stale' + Happened =< Len(versions) + Stale + Happened'
        /\ Stale' + Happened =< Stale + Happened'
    <3> DEFINE l == Len(versions)
               l2 == Len(versions')
               o == Stale
               o2 == Stale'
               s == Happened
               s2 == Happened'
    <3>1. /\ l \in Nat /\ l2 \in Nat /\ o \in 0..1 /\ o2 \in 0..1 /\ s \in Nat
          /\ s2 = s + 1 /\ (l2 = l \/ (l2 = l + 1 /\ o = 1 /\ o2 = 0))
      BY <1>2, <1>3, <1>4, <1>6
    <3> HIDE DEF l, l2, o, o2, s, s2
    <3>2. l2 + o2 + s =< l + o + s2 /\ o2 + s =< o + s2
      BY <3>1
    <3>3. QED
      BY <3>2 DEF l, l2, o, o2, s, s2
  <2>2. QED
    BY <1>1, <1>3, <1>5, <1>6, <2>1, OutsideLoses
<1>7. CASE /\ ~Unchanged
           /\ versions' = Append(versions, [NewVersion("other") EXCEPT !.pending = FALSE])
  <2> DEFINE v == [NewVersion("other") EXCEPT !.pending = FALSE]
  <2>1. v.exists /\ v.code = function.code /\ v.by = "other"
    BY DEF NewVersion
  <2>2. versions' = Append(versions, v)
    BY <1>7
  <2> HIDE DEF v
  <2>3. /\ Ages(versions, versions') /\ Len(versions') = Len(versions) + 1
        /\ versions'[Len(versions) + 1] = v
        /\ \A n \in Published' \ {Len(versions) + 1} :
              n \in Published /\ versions'[n].by = versions[n].by
        /\ Stale = 1 /\ Stale' = 0
    BY <1>1, <1>2, <1>7, <2>1, <2>2, MoreAges
  <2>4. Len(versions') >= 1 /\ Len(versions') \in Nat
    BY <1>2, <2>3
  <2>5. \A n \in Published' : \/ versions'[n].by = "other"
                              \/ n \in Published /\ versions'[n].by = versions[n].by
    BY <2>1, <2>3
  <2>6. QED
    BY <1>6, <2>3, <2>4, <2>5
<1>8. CASE \E n \in Published : versions' = [versions EXCEPT ![n].exists = FALSE]
  <2>1. PICK n \in Published : versions' = [versions EXCEPT ![n].exists = FALSE]
    BY <1>8
  <2>2. Exists(n)
    BY DEF Published, Exists
  <2>3. /\ Ages(versions, versions') /\ Len(versions') = Len(versions)
        /\ Len(versions) >= 1
        /\ \A m \in Published' : m \in Published /\ versions'[m].by = versions[m].by
    BY <1>2, <2>1, <2>2, LessAges
  <2>4. Len(versions') >= 1 /\ Len(versions') \in Nat
    BY <1>2, <2>3
  <2>5. \A m \in Published' : \/ versions'[m].by = "other"
                              \/ m \in Published /\ versions'[m].by = versions[m].by
    BY <2>3
  <2>6. QED
    BY <1>6, <2>3, <2>4, <2>5
<1>9. CASE \E n \in Published : \E v \in Value \cup {Nil} : Put(n, "eventInvoke", v)
  <2>1. PICK n \in Published, v \in Value \cup {Nil} : Put(n, "eventInvoke", v)
    BY <1>9
  <2>2. Exists(n) /\ Len(versions) >= 1
    BY <1>2, <2>1 DEF Published, Exists
  <2>3. Alike(versions, versions')
    BY <1>2, <2>1, <2>2, PutAlike DEF Fields
  <2>4. /\ Ages(versions, versions') /\ Published' = Published
        /\ Len(versions') = Len(versions)
        /\ \A m \in Published : versions'[m].by = versions[m].by
    BY <1>1, <2>3, AlikeAges, AlikeStale DEF Alike, Published
  <2>5. Len(versions') >= 1 /\ Len(versions') \in Nat
    BY <1>2, <2>2, <2>4
  <2>6. \A m \in Published' : \/ versions'[m].by = "other"
                              \/ m \in Published /\ versions'[m].by = versions[m].by
    BY <2>4
  <2>7. QED
    BY <1>6, <2>4, <2>5, <2>6
<1>10. QED
  BY <1>7, <1>8, <1>9 DEF Drift

(* A restart: each pass that it ends may have been about to record one     *)
(* number, which is what the pass has configured or been answered.         *)
Holding(p) == IF p.pc = "configure" THEN CHOOSE n \in p.todo : TRUE
              ELSE p.latest.status.version

LEMMA CrashLoses ==
  ASSUME LossInv, Crash, UNCHANGED <<aws, history>> PROVE Accounted'
<1> DEFINE X == {Holding(pass[j]) : j \in Running}
           h == [j \in Running |-> Holding(pass[j])]
           x == Cardinality(Running)
<1>1. /\ cr' = cr /\ raced' = raced /\ versions' = versions /\ function' = function
      /\ Spend("faults") /\ \A j \in Key : pass'[j] = IdlePass
      /\ spent \in Counts /\ Len(versions) \in Nat
      /\ Alike(versions, versions') /\ FewRun
  BY LossTypes, SameAlike DEF Crash, aws, history
<1>2. /\ Published' = Published /\ Stale' = Stale /\ Ages(versions, versions')
      /\ IdlePass.pc = "idle"
  BY <1>1, AlikeStale, AlikeAges DEF IdlePass
<1>3. Unraced' <=> Unraced
  BY <1>1, CalmStays
<1>4. AllLearned'
  <2>1. ASSUME NEW j \in Key PROVE Learned(versions', pass'[j], cr'[j])
    <3>1. Learned(versions, pass[j], cr[j])
      BY LossTypes
    <3>2. QED
      BY <1>1, <1>2, <3>1 DEF Learned, Located
  <2>2. QED
    BY <2>1 DEF AllLearned
<1>5. ASSUME Unraced' PROVE AllUndisturbed'
  <2>1. ASSUME NEW j \in Key PROVE Undisturbed(versions', pass'[j], cr'[j])
    <3>1. Undisturbed(versions, pass[j], cr[j])
      BY <1>3, <1>5 DEF LossInv, Accounted, AllUndisturbed
    <3>2. QED
      BY <1>1, <1>2, <3>1 DEF Undisturbed
  <2>2. QED
    BY <2>1 DEF AllUndisturbed
<1>6. Endangered' \subseteq Endangered \cup X
  <2> SUFFICES ASSUME NEW n \in Endangered', n \notin Endangered PROVE n \in X
    OBVIOUS
  <2>1. /\ n \in Published /\ versions[n].by # "other"
        /\ \A j \in Key : ~Records(cr[j], n)
    BY <1>1, <1>2 DEF Endangered
  <2>2. PICK j \in Key : Retains(pass[j], n)
    BY <2>1 DEF Endangered
  <2>3. ~Idle(j) /\ j \in Running
    BY <2>2 DEF Retains, Running, Idle, At
  <2>4. Holding(pass[j]) = n
    <3>1. CASE pass[j].pc # "configure"
      BY <2>2, <3>1 DEF Retains, Holding
    <3>2. CASE pass[j].pc = "configure"
      <4>1. PICK m \in Positive : pass[j].todo = {m}
        BY <2>3, <3>2, OneRuns DEF GoodPass
      <4>2. pass[j].latest.status.version # n
        <5>1. /\ pass[j].why = "sync" /\ cr[j].exists
          BY <2>3, <3>2, OneRuns DEF Located, GoodPass, GoodCR
        <5>2. cr[j].status.version = pass[j].latest.status.version
          BY <2>3, <5>1, NumbersOfPass
        <5>3. QED
          BY <2>1, <5>1, <5>2 DEF Records
      <4>3. n = m /\ (CHOOSE i \in pass[j].todo : TRUE) = m
        BY <2>2, <4>1, <4>2 DEF Retains
      <4>4. QED
        BY <3>2, <4>3 DEF Holding
    <3>3. QED
      BY <3>1, <3>2
  <2>5. QED
    BY <2>3, <2>4
<1>7. IsFiniteSet(X) /\ Cardinality(X) =< x /\ x \in Nat
  <2>1. Running \subseteq Key
    BY DEF Running
  <2>2. IsFiniteSet(Running) /\ x \in Nat
    BY <2>1, KeySets
  <2>3. h \in Surjection(Running, X)
    BY DEF Surjection
  <2> HIDE DEF h, X
  <2>4. QED
    BY <2>2, <2>3, FS_Surjection
<1>8. Removers' \subseteq Removers
  BY <1>1, <1>2 DEF Removers, Removes
<1>9. /\ Cardinality(Removers) \in Nat /\ Cardinality(Removers') \in Nat
      /\ Cardinality(Removers') =< Cardinality(Removers)
  BY <1>8, RemoversCount
<1>10. /\ spent' \in Counts /\ Forgiven \in Nat /\ Happened \in Nat
       /\ Forgiven' = Forgiven + 1 + spent.overlaps /\ Happened' = Happened
       /\ spent.overlaps \in Nat /\ x =< 1 + spent.overlaps
  BY <1>1, Forgives, SpendType, CountsAre DEF FewRun
<1> HIDE DEF x, X, h
<1>11. Stale \in Nat
  BY StaleIs
<1>12. /\ x + Forgiven =< Forgiven'
       /\ Len(versions') \in Nat
       /\ Len(versions') + Stale' + Cardinality(Removers') + Happened
           =< Len(versions) + Stale + Cardinality(Removers) + Happened'
       /\ x + Stale' + Cardinality(Removers') + Forgiven + Happened
           =< Stale + Cardinality(Removers) + Forgiven' + Happened'
  <2> DEFINE l == Len(versions)
             l2 == Len(versions')
             o == Stale
             o2 == Stale'
             r == Cardinality(Removers)
             r2 == Cardinality(Removers')
             f == Forgiven
             f2 == Forgiven'
             s == Happened
             s2 == Happened'
             v == spent.overlaps
  <2>1. /\ l \in Nat /\ l2 = l /\ o \in Nat /\ o2 = o /\ r \in Nat /\ r2 \in Nat
        /\ r2 =< r /\ f \in Nat /\ f2 = f + 1 + v /\ s \in Nat /\ s2 = s
        /\ v \in Nat /\ x \in Nat /\ x =< 1 + v
    BY <1>1, <1>2, <1>7, <1>9, <1>10, <1>11
  <2> HIDE DEF l, l2, o, o2, r, r2, f, f2, s, s2, v
  <2>2. /\ x + f =< f2 /\ l2 \in Nat
        /\ l2 + o2 + r2 + s =< l + o + r + s2
        /\ x + o2 + r2 + f + s =< o + r + f2 + s2
    BY <2>1
  <2>3. QED
    BY <2>2 DEF l, l2, o, o2, r, r2, f, f2, s, s2
<1>13. Balanced'
  BY <1>3, <1>6, <1>7, <1>10, <1>12, Weighs
<1>14. QED
  BY <1>4, <1>5, <1>13 DEF Accounted

-----------------------------------------------------------------------------
(* Few passes run at a time.                                               *)

LEMMA SpentOverlaps ==
  ASSUME spent \in Counts
  PROVE  /\ spent.overlaps \in Nat
         /\ Spend("overlaps") => spent'.overlaps = spent.overlaps + 1
         /\ UNCHANGED spent \/ Spend("edits") \/ Spend("faults") \/ Spend("drifts")
              => spent'.overlaps = spent.overlaps
<1>1. DOMAIN spent = {"edits", "faults", "drifts", "overlaps"} /\ spent.overlaps \in Nat
  BY CountsAre
<1>2. QED
  BY <1>1 DEF Spend

LEMMA NoMoreRun ==
  ASSUME LossInv, Running' \subseteq Running,
         \/ Spend("edits") \/ Spend("faults") \/ Spend("overlaps") \/ Spend("drifts")
         \/ UNCHANGED spent
  PROVE  FewRun'
<1> DEFINE a == Cardinality(Running)
           b == Cardinality(Running')
           o == spent.overlaps
           u == spent'.overlaps
<1>1. a \in Nat /\ b \in Nat /\ b =< a
  <2>1. Running \subseteq Key /\ Running' \subseteq Key
    BY DEF Running
  <2>2. IsFiniteSet(Running)
    BY <2>1, KeySets
  <2>3. QED
    BY <2>1, <2>2, KeySets, FS_Subset
<1>2. o \in Nat /\ (u = o \/ u = o + 1)
  BY LossTypes, SpentOverlaps
<1>3. a =< 1 + o
  BY LossTypes DEF FewRun
<1> HIDE DEF a, b, o, u
<1>4. b =< 1 + u
  BY <1>1, <1>2, <1>3
<1>5. QED
  BY <1>4 DEF FewRun, b, u

LEMMA BeginRuns == ASSUME LossInv, NEW k \in Key, Begin(k) PROVE FewRun'
<1>1. FewRun /\ spent \in Counts /\ \A j \in Key \ {k} : pass'[j] = pass[j]
  BY LossTypes, StepIsOfOne
<1>2. Running' \subseteq Running \cup {k}
  BY <1>1 DEF Running, Idle, At
<1>3. CASE \A j \in Key : Idle(j)
  <2>1. Running' \subseteq {k}
    BY <1>2, <1>3 DEF Running
  <2>2. IsFiniteSet({k}) /\ Cardinality({k}) = 1
    BY FS_Singleton
  <2>3. Cardinality(Running') =< 1 /\ Cardinality(Running') \in Nat
    BY <2>1, <2>2, FS_Subset, FS_CardinalityType
  <2>4. spent'.overlaps = spent.overlaps /\ spent.overlaps \in Nat
    BY <1>1, <1>3, SpentOverlaps DEF Begin, Start
  <2>5. QED
    BY <2>3, <2>4 DEF FewRun
<1>4. CASE ~\A j \in Key : Idle(j)
  <2>1. Spend("overlaps")
    BY <1>4 DEF Begin, Start
  <2>2. Running' \subseteq Key /\ Running \subseteq Key
    BY DEF Running
  <2>3. IsFiniteSet(Running) /\ Cardinality(Running) \in Nat
        /\ Cardinality(Running') \in Nat
    BY <2>2, KeySets
  <2>4. /\ IsFiniteSet(Running \cup {k})
        /\ \/ Cardinality(Running \cup {k}) = Cardinality(Running)
           \/ Cardinality(Running \cup {k}) = Cardinality(Running) + 1
    BY <2>3, FS_AddElement
  <2>5. Cardinality(Running') =< Cardinality(Running \cup {k})
    BY <1>2, <2>4, FS_Subset
  <2>6. spent'.overlaps = spent.overlaps + 1 /\ spent.overlaps \in Nat
    BY <1>1, <2>1, SpentOverlaps
  <2>7. QED
    BY <1>1, <2>3, <2>4, <2>5, <2>6 DEF FewRun
<1>5. QED
  BY <1>3, <1>4

LEMMA OthersRun ==
  ASSUME LossInv, NEW k \in Key, Handlers(k) \/ Environment(k) PROVE FewRun'
<1>1. \A j \in Key \ {k} : pass'[j] = pass[j]
  BY LossTypes, StepIsOfOne
<1>2. ~Idle(k) \/ pass' = pass
  BY DEF Handlers, ReadOne, sdkFind, setResourceAdditionalFields, Finalizer, Manage,
     Unmanage, Create, ListVersionsByFunction, PublishVersion, ConfigureCreated,
     Update, customUpdateVersion, syncEventInvokeConfig,
     updateProvisionedConcurrency, ReadAgain, WriteBack, Delete, sdkDelete, End,
     Finish, Environment, Fail, CallFails, Users, UserApply, UserEdit, UserDelete,
     Resync, Idle, At
<1>3. Running' \subseteq Running
  BY <1>1, <1>2 DEF Running, Idle, At
<1>4. QED
  BY <1>3, HandlersSpend, NoMoreRun

-----------------------------------------------------------------------------
(* The bound.                                                              *)

LEMMA HandlersLose ==
  ASSUME LossInv, NEW k \in Key, Handlers(k) PROVE Accounted'
BY FindQuiet, FieldsQuiet, ManageQuiet, UnmanageLoses, ListQuiet, PublishLoses,
   ConfigureLoses, UpdateQuiet, WriteBackQuiet, DeleteLoses, FinishLoses
   DEF Handlers, ReadOne, Finalizer, Create, Update, Delete, End

LEMMA StutterLoses == ASSUME LossInv, UNCHANGED vars PROVE FewRun' /\ Accounted'
<1>1. UNCHANGED <<cr, pass, spent, versions, function, raced>>
  BY DEF vars, passVars, aws, history
<1>2. FewRun'
  BY <1>1 DEF LossInv, FewRun, Running, Idle, At
<1>3. /\ Endangered' = Endangered /\ Removers' = Removers /\ Stale' = Stale
      /\ Forgiven' = Forgiven /\ Happened' = Happened /\ Unraced' = Unraced
  BY <1>1 DEF Endangered, Published, Removers, Stale, Unchanged, Forgiven, Happened,
     Unraced, NoDriftYet
<1>4. AllLearned' = AllLearned /\ AllUndisturbed' = AllUndisturbed
  BY <1>1 DEF AllLearned, AllUndisturbed
<1>5. Balanced'
  BY <1>1, <1>3 DEF LossInv, Accounted, Balanced
<1>6. QED
  BY <1>2, <1>3, <1>4, <1>5 DEF LossInv, Accounted

LEMMA NextLoses == LossInv /\ [Next]_vars => LossInv'
<1> SUFFICES ASSUME LossInv, [Next]_vars PROVE LossInv'
  OBVIOUS
<1>1. OwnersInv'
  BY LossTypes, NextKeepsOwners
<1>2. ASSUME NEW k \in Key, Begin(k) \/ Handlers(k) \/ Environment(k)
      PROVE  FewRun' /\ Accounted'
  <2>1. FewRun'
    BY <1>2, BeginRuns, OthersRun
  <2>2. CASE Environment(k)
    BY <2>1, <2>2, FailQuiet, UsersLose, ResyncLoses DEF Environment
  <2>3. QED
    BY <1>2, <2>1, <2>2, BeginLoses, HandlersLose
<1>3. ASSUME Crash, UNCHANGED <<aws, history>> PROVE FewRun' /\ Accounted'
  <2>1. Running' \subseteq Running
    BY <1>3 DEF Crash, Running, Idle, At, IdlePass
  <2>2. FewRun'
    BY <1>3, <2>1, NoMoreRun DEF Crash
  <2>3. QED
    BY <1>3, <2>2, CrashLoses
<1>4. ASSUME UpdateFunction \/ Settle \/ Drift PROVE FewRun' /\ Accounted'
  <2>1. /\ pass' = pass
        /\ UNCHANGED spent \/ Spend("edits") \/ Spend("drifts")
    BY <1>4 DEF UpdateFunction, Settle, Drift, passVars
  <2>2. Running' \subseteq Running
    BY <2>1 DEF Running, Idle, At
  <2>3. FewRun'
    BY <2>1, <2>2, NoMoreRun
  <2>4. QED
    BY <1>4, <2>3, UpdateFunctionLoses, SettleLoses, DriftLoses
<1>5. FewRun' /\ Accounted'
  BY <1>2, <1>3, <1>4, StutterLoses DEF Next
<1>6. QED
  BY <1>1, <1>5 DEF LossInv

LEMMA InitLoses == Init => LossInv
<1> SUFFICES ASSUME Init PROVE LossInv
  OBVIOUS
<1>1. OwnersInv
  BY InitOwners
<1>2. /\ \A k \in Key : pass[k] = IdlePass
      /\ spent = [edits |-> 0, faults |-> 0, drifts |-> 0, overlaps |-> 0]
      /\ \A k \in Key : cr[k] \in {FreshCR(s, NoStatus) : s \in Specs}
      /\ versions = <<>>
  BY DEF Init, PassInit
<1>3. \A k \in Key : pass[k].pc = "idle"
  <2>1. IdlePass.pc = "idle"
    BY DEF IdlePass
  <2>2. QED
    BY <1>2, <2>1
<1>4. ASSUME NEW k \in Key
      PROVE  /\ cr[k].exists /\ ~cr[k].deleting /\ cr[k].status.version = Nil
  <2>1. PICK s \in Specs : cr[k] = FreshCR(s, NoStatus)
    BY <1>2
  <2>2. QED
    BY <2>1 DEF FreshCR, NoStatus
<1>5. AllLearned /\ AllUndisturbed
  BY <1>3, <1>4 DEF AllLearned, AllUndisturbed, Learned, Undisturbed, Located, Known
<1>6. Running = {} /\ Removers = {} /\ Published = {} /\ Endangered = {}
  <2>1. Published = {}
    BY <1>2 DEF Published
  <2>2. QED
    BY <1>3, <1>4, <2>1 DEF Running, Removers, Removes, Endangered, Idle, At
<1>7. IsFiniteSet({}) /\ Cardinality({}) = 0
  BY FS_EmptySet
<1>8. FewRun
  BY <1>2, <1>6, <1>7 DEF FewRun
<1>9. Len(versions) = 0 /\ Forgiven = 0 /\ Happened = 0 /\ Stale = 1
  BY <1>2, <1>6 DEF Forgiven, Happened, Stale, Unchanged
<1>10. Unraced
  BY <1>2 DEF Init, Unraced, NoDriftYet
<1>11. Balanced
  BY <1>6, <1>7, <1>9, <1>10 DEF Balanced, Balance
<1>12. QED
  BY <1>1, <1>5, <1>8, <1>11 DEF LossInv, Accounted

LEMMA LossInvHolds == Spec => []LossInv
BY InitLoses, NextLoses, PTL DEF Spec

(* However many CRs there are, the controller loses no more versions than  *)
(* answers were lost and passes ended by a restart, as long as nobody      *)
(* deletes a CR's version behind its back or publishes while it does; and  *)
(* then no more than one for each edit and each change from outside.       *)
THEOREM LossesAreFew == Spec => []LossesAreBounded
<1>1. LossInv => LossesAreBounded
  <2> SUFFICES ASSUME LossInv PROVE LossesAreBounded
    OBVIOUS
  <2>1. Lost \subseteq Endangered
    <3> SUFFICES ASSUME NEW n \in Lost PROVE n \in Endangered
      OBVIOUS
    <3>1. /\ n \in Published /\ versions[n].by # "other"
          /\ \A k \in Key : /\ cr[k].exists => cr[k].status.version # n
                            /\ ~Holds(k, n)
      BY DEF Lost
    <3>3. \A k \in Key : ~Records(cr[k], n)
      BY <3>1 DEF Records
    <3>4. \A k \in Key : ~Retains(pass[k], n)
      BY <3>1 DEF Holds, Retains, Idle, At
    <3>5. QED
      BY <3>1, <3>3, <3>4 DEF Endangered
  <2> DEFINE a == Cardinality(Lost)
             e == Cardinality(Endangered)
             r == Cardinality(Removers)
             o == Stale
             f == Forgiven
             s == Happened
  <2>2. a =< e /\ a \in Nat /\ e \in Nat
    <3>1. IsFiniteSet(Endangered)
      BY LossTypes DEF Balanced
    <3>2. QED
      BY <2>1, <3>1, FS_Subset, FS_CardinalityType
  <2>3. f \in Nat /\ s \in Nat /\ o \in Nat /\ r \in Nat
    BY LossTypes, Forgives, StaleIs, RemoversCount
  <2>4. (Unraced => e =< f) /\ (~Unraced => e + o + r =< f + s)
    BY LossTypes DEF Balanced, Balance
  <2> HIDE DEF a, e, r, o, f, s
  <2>5. (Unraced => a =< f + 0) /\ (~Unraced => a =< f + s)
    BY <2>2, <2>3, <2>4
  <2>6. QED
    BY <2>5 DEF LossesAreBounded, Unraced, Forgiven, Happened, a, f, s
<1>2. QED
  BY <1>1, LossInvHolds, PTL

-----------------------------------------------------------------------------
(* Nothing is forgotten.                                                   *)

Work == {"manage", "create", "publish", "configure", "update", "writeback"}

LEMMA WorkIsApart == SetApart(Work)
BY DEF SetApart, Work

LEMMA ShapeIs == ASSUME NumbersInv PROVE Shaped(VersionSpec, Statuses)
BY DEF NumbersInv, GoodCR, GoodPass, Shaped

LEMMA FieldsOfPass ==
  ASSUME NumbersInv, NEW k \in Key
  PROVE  /\ k \in DOMAIN pass
         /\ DOMAIN pass[k] =
              {"pc", "why", "desired", "latest", "found", "todo", "outcome"}
BY ShapeIs, PassFields

LEMMA Finalized ==
  ASSUME NumbersInv, NEW k \in Key, ~Idle(k)
  PROVE  /\ IsManaged(k) => cr[k].finalizer
         /\ At(k, "fields") /\ pass[k].why = "created" => cr[k].finalizer
         /\ At(k, "writeback") => cr[k].finalizer /\ cr[k].exists
BY DEF NumbersInv, GoodCR, GoodPass, IsManaged, Idle, At

LEMMA MovingWorks ==
  ASSUME NumbersInv, NEW k \in Key, ~Idle(k), NEW p, pass' = [pass EXCEPT ![k] = p],
         UNCHANGED <<cr, queued>>, p.pc # "idle",
         pass[k].why = "delete" => p.why = "delete" /\ p.pc \notin Work,
         pass[k].why # "delete" => p.why # "delete",
         p.pc = "finish" => Ended(p, cr[k])
  PROVE  Works(k, Work)
BY ShapeIs, MoveWorks DEF Idle, At

LEMMA RefusedWorks ==
  ASSUME NumbersInv, NEW k \in Key, ~Idle(k), EndPass(k, "Recoverable"),
         UNCHANGED <<cr, queued>>
  PROVE  Works(k, Work)
BY ShapeIs, WorkIsApart, EndWorks

LEMMA FindWorks ==
  ASSUME NumbersInv, NEW k \in Key, sdkFind(k) PROVE Works(k, Work)
<1>1. ~Idle(k) /\ UNCHANGED <<cr, queued>>
  BY DEF sdkFind, Idle, At
<1>2. CASE NotFound(k)
  BY <1>1, <1>2, ShapeIs, WorkIsApart, NotFoundWorks
<1>3. CASE ~NotFound(k)
  <2>1. PICK v : pass' = [pass EXCEPT ![k].pc = "fields", ![k].found = v]
    BY <1>3 DEF sdkFind
  <2> DEFINE q == [pass[k] EXCEPT !.pc = "fields", !.found = v]
  <2>2. pass' = [pass EXCEPT ![k] = q] /\ q.pc = "fields" /\ q.why = pass[k].why
    BY <2>1, FieldsOfPass
  <2> HIDE DEF q
  <2>3. QED
    BY <1>1, <2>2, MovingWorks DEF Work
<1>4. QED
  BY <1>2, <1>3

LEMMA FieldsWork ==
  ASSUME NumbersInv, NEW k \in Key, setResourceAdditionalFields(k)
  PROVE  Works(k, Work)
<1>1. ~Idle(k) /\ At(k, "fields") /\ UNCHANGED <<cr, queued>>
  BY DEF setResourceAdditionalFields, Idle, At
<1> DEFINE q(l, o, d, s) == [pass[k] EXCEPT !.pc = l, !.outcome = o, !.todo = d,
                                            !.latest = s, !.found = Nil]
<1>2. PICK l, o, d, s :
        /\ pass' = [pass EXCEPT ![k] = q(l, o, d, s)]
        /\ \/ pass[k].why = "created" /\ l = "finish" /\ o = "Synced"
           \/ pass[k].why = "updated" /\ l = "writeback"
           \/ pass[k].why = "delete" /\ l = "delete"
           \/ pass[k].why = "sync" /\ l = "finish" /\ o \in {"Terminal", "Recoverable"}
           \/ pass[k].why = "sync" /\ IsManaged(k) /\ l = "finish" /\ o = "Synced"
           \/ pass[k].why = "sync" /\ l = "update"
  <2> DEFINE p == pass[k]
             s == IF p.why = "created" THEN p.latest.spec ELSE Observed(k)
             both == [spec |-> s, status |-> p.found]
             delta == newResourceDelta(p.desired.spec, s)
             next(l, o, d) ==
               pass' = [pass EXCEPT ![k].pc = l, ![k].outcome = o, ![k].todo = d,
                                    ![k].latest = both, ![k].found = Nil]
  <2>1. \/ p.why = "created" /\ next("finish", "Synced", {})
        \/ p.why = "updated" /\ next("writeback", "Unknown", {})
        \/ p.why = "delete" /\ next("delete", "Unknown", {})
        \/ p.why = "sync" /\ next("finish", "Terminal", {})
        \/ p.why = "sync" /\ IsManaged(k) /\ next("finish", "Synced", {})
        \/ p.why = "sync" /\ next("finish", "Recoverable", {})
        \/ p.why = "sync" /\ next("update", "Unknown", delta)
    BY DEF setResourceAdditionalFields
  <2> HIDE DEF both, delta
  <2> DEFINE moved(l, o, d) == pass' = [pass EXCEPT ![k] = q(l, o, d, both)]
  <2>2. ASSUME NEW l, NEW o, NEW d, next(l, o, d) PROVE moved(l, o, d)
    BY <2>2, FieldsOfPass
  <2> HIDE DEF q, next, moved
  <2>3. \/ p.why = "created" /\ moved("finish", "Synced", {})
        \/ p.why = "updated" /\ moved("writeback", "Unknown", {})
        \/ p.why = "delete" /\ moved("delete", "Unknown", {})
        \/ p.why = "sync" /\ moved("finish", "Terminal", {})
        \/ p.why = "sync" /\ IsManaged(k) /\ moved("finish", "Synced", {})
        \/ p.why = "sync" /\ moved("finish", "Recoverable", {})
        \/ p.why = "sync" /\ moved("update", "Unknown", delta)
    BY <2>1, <2>2
  <2>4. QED
    BY <2>3, Zenon DEF moved
<1> DEFINE r == q(l, o, d, s)
<1>3. r.pc = l /\ r.outcome = o /\ r.why = pass[k].why
  BY FieldsOfPass
<1>4. pass' = [pass EXCEPT ![k] = r]
  BY <1>2
<1> HIDE DEF r
<1>5. IsManaged(k) \/ pass[k].why = "created" => cr[k].finalizer
  BY <1>1, Finalized
<1>6. /\ r.pc # "idle"
      /\ pass[k].why = "delete" => r.why = "delete" /\ r.pc \notin Work
      /\ r.pc = "finish" => Ended(r, cr[k])
  BY <1>2, <1>3, <1>5 DEF Ended, Work
<1>7. QED
  BY <1>1, <1>3, <1>4, <1>6, MovingWorks

LEMMA CreateWorks ==
  ASSUME NumbersInv, AllMindful(Work), NEW k \in Key, Create(k)
  PROVE  Works(k, Work)
<1>1. ~Idle(k) /\ UNCHANGED <<cr, queued>> /\ pass[k].why # "delete"
  BY DEF Create, ListVersionsByFunction, PublishVersion, ConfigureCreated, AllMindful,
         Mindful, Work, Idle, At
<1>2. CASE EndPass(k, "Recoverable")
  BY <1>1, <1>2, RefusedWorks
<1>3. CASE ~EndPass(k, "Recoverable")
  <2> DEFINE q(l, o, w, d, s) == [pass[k] EXCEPT !.pc = l, !.outcome = o, !.why = w,
                                                 !.todo = d, !.latest = s]
             p == pass[k]
  <2>1. PICK l, o, w, d, s :
          /\ pass' = [pass EXCEPT ![k] = q(l, o, w, d, s)] /\ w # "delete"
          /\ l \in {"publish", "configure", "writeback"} \/ (l = "finish" /\ o = "Terminal")
    <3>1. CASE ListVersionsByFunction(k)
      <4>1. pass' = [pass EXCEPT ![k] = q("publish", p.outcome, p.why, Published, p.latest)]
        BY <1>3, <3>1, FieldsOfPass DEF ListVersionsByFunction
      <4> HIDE DEF q
      <4>2. QED
        BY <1>1, <4>1
    <3>2. CASE PublishVersion(k)
      <4>1. PICK n : \/ pass' = [pass EXCEPT ![k].pc = "finish", ![k].outcome = "Terminal"]
                     \/ pass' = [pass EXCEPT ![k].pc = "configure", ![k].todo = {n}]
        BY <1>3, <3>2 DEF PublishVersion
      <4>2. \/ pass' = [pass EXCEPT ![k] = q("finish", "Terminal", p.why, p.todo, p.latest)]
            \/ pass' = [pass EXCEPT ![k] = q("configure", p.outcome, p.why, {n}, p.latest)]
        BY <4>1, FieldsOfPass
      <4> HIDE DEF q
      <4>3. QED
        BY <1>1, <4>2
    <3>3. CASE ConfigureCreated(k)
      <4> DEFINE c == Created(k)
      <4>1. pass' = [pass EXCEPT ![k] = q("writeback", p.outcome, "created", {}, c)]
        BY <1>3, <3>3, FieldsOfPass DEF ConfigureCreated
      <4> HIDE DEF q, c
      <4>2. QED
        BY <4>1
    <3>4. QED
      BY <3>1, <3>2, <3>3 DEF Create
  <2> DEFINE r == q(l, o, w, d, s)
  <2>2. r.pc = l /\ r.outcome = o /\ r.why = w
    BY FieldsOfPass
  <2>3. pass' = [pass EXCEPT ![k] = r]
    BY <2>1
  <2> HIDE DEF r
  <2>4. QED
    BY <1>1, <2>1, <2>2, <2>3, MovingWorks DEF Ended
<1>4. QED
  BY <1>2, <1>3

LEMMA UpdateWorks ==
  ASSUME NumbersInv, AllMindful(Work), NEW k \in Key, Update(k)
  PROVE  Works(k, Work)
<1>1. /\ ~Idle(k) /\ UNCHANGED <<cr, queued>> /\ pass[k].why # "delete"
      /\ pass[k].pc = "update"
  BY DEF Update, customUpdateVersion, syncEventInvokeConfig, updateProvisionedConcurrency,
         ReadAgain, AllMindful, Mindful, Work, Idle, At
<1>2. CASE EndPass(k, "Recoverable")
  BY <1>1, <1>2, RefusedWorks
<1>3. CASE ReadAgain(k)
  <2> DEFINE q == [pass[k] EXCEPT !.pc = "read", !.why = "updated"]
  <2>1. pass' = [pass EXCEPT ![k] = q] /\ q.pc = "read" /\ q.why = "updated"
    BY <1>3, FieldsOfPass DEF ReadAgain
  <2> HIDE DEF q
  <2>2. QED
    BY <1>1, <2>1, MovingWorks
<1>4. CASE ~EndPass(k, "Recoverable") /\ ~ReadAgain(k)
  <2>1. PICK f : pass' = [pass EXCEPT ![k].todo = @ \ {f}]
    BY <1>4 DEF Update, customUpdateVersion, syncEventInvokeConfig,
               updateProvisionedConcurrency
  <2> DEFINE q == [pass[k] EXCEPT !.todo = @ \ {f}]
  <2>2. pass' = [pass EXCEPT ![k] = q] /\ q.pc = "update" /\ q.why = pass[k].why
    BY <1>1, <2>1, FieldsOfPass
  <2> HIDE DEF q
  <2>3. QED
    BY <1>1, <2>2, MovingWorks
<1>5. QED
  BY <1>2, <1>3, <1>4

LEMMA DeleteWorks ==
  ASSUME NumbersInv, NEW k \in Key, sdkDelete(k) PROVE Works(k, Work)
<1>1. ~Idle(k) /\ UNCHANGED <<cr, queued>>
  BY DEF sdkDelete, Idle, At
<1>2. EndPass(k, "Recoverable") \/ Goto(k, "unmanage")
  BY DEF sdkDelete
<1>3. QED
  BY <1>1, <1>2, ShapeIs, RefusedWorks, GotoWorks DEF Work

LEMMA NextMinds ==
  ASSUME NumbersInv, AllMindful(Work), [Next]_vars PROVE AllMindful(Work)'
<1>1. Shaped(VersionSpec, Statuses) /\ SetApart(Work)
  BY ShapeIs, WorkIsApart
<1>2. ASSUME NEW k \in Key, Begin(k) \/ Handlers(k) PROVE AllMindful(Work)'
  <2>1. CASE Begin(k) \/ Finalizer(k) \/ End(k)
    BY <1>1, <2>1, StartMinds, ManageMinds, UnmanageMinds, FinishMinds
       DEF Begin, Finalizer, End
  <2>2. CASE WriteBack(k)
    <3>1. cr[k].finalizer /\ cr[k].exists /\ pass[k].pc \in Work
      BY <2>2, Finalized DEF WriteBack, Idle, At, Work
    <3>2. QED
      BY <1>1, <2>2, <3>1, StoreMinds DEF WriteBack, PatchSpec, Work
  <2>3. QED
    BY <1>2, <2>1, <2>2, FindWorks, FieldsWork, CreateWorks, UpdateWorks, DeleteWorks,
       WorkMinds DEF Handlers, ReadOne, Delete
<1>3. ASSUME NEW k \in Key, Environment(k) PROVE AllMindful(Work)'
  BY <1>1, <1>3, FailMinds, ResyncMinds, UserApplyMinds, UserEditMinds,
     UserDeleteMinds DEF Environment, Fail, Users
<1>4. CASE UNCHANGED <<cr, pass, queued>>
  BY <1>4 DEF AllMindful
<1>5. QED
  BY <1>1, <1>2, <1>3, <1>4, CrashMinds
     DEF Next, UpdateFunction, Settle, Drift, vars, passVars

(* No Version CR is forgotten, for any number of CRs, edits and failures.  *)
THEOREM NothingIsForgotten == Spec => []NeverForgotten
<1>1. Init => AllMindful(Work)
  BY WorkIsApart, InitMinds DEF Init
<1>2. NumbersInv /\ AllMindful(Work) /\ [Next]_vars => AllMindful(Work)'
  BY NextMinds
<1>3. AllMindful(Work) => NeverForgotten
  BY MindfulSuffices
<1>4. QED
  BY <1>1, <1>2, <1>3, NumbersAreKnown, PTL DEF Spec
=============================================================================
