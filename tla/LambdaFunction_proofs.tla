----------------------- MODULE LambdaFunction_proofs -----------------------
(***************************************************************************)
(* Proofs about LambdaFunction for any values, specs, package types and    *)
(* bounds.                                                                 *)
(***************************************************************************)
EXTENDS LambdaFunction, TLAPS

(* Why a function of ours always has a CR with the finalizer: the worker's *)
(* copy of the CR never claims a finalizer that is gone, Create is only    *)
(* reached with the finalizer in Kubernetes, and the finalizer is removed  *)
(* only in a deletion pass that has seen that there is no function.        *)
FinalizerInv ==
  /\ cr.finalizer => cr.exists
  /\ cr.deleting => cr.finalizer
  /\ desired.finalizer => cr.finalizer
  /\ pc = "create" => cr.finalizer
  /\ pc # "idle" /\ why = "delete" => cr.deleting
  /\ pc = "unmanage" => cr.deleting /\ fn.origin # "ours"
  /\ fn.state = "None" => fn.origin = "none"
  /\ fn.origin = "ours" => cr.finalizer

-----------------------------------------------------------------------------
LEMMA NoCRType == NoCR \in CRs /\ \A s \in Specs : FreshCR(s) \in CRs
BY SpecsAssumption DEF NoCR, FreshCR, CRs, Configs, Unset, Conditions, ARNs

LEMMA NoFunctionType == NoFunction \in Functions
BY DEF NoFunction, Functions, Configs, Unset, States, Origins

LEMMA ForeignType ==
  ASSUME NEW o \in Origins, NEW f \in Foreign(o)
  PROVE  f \in Functions
<1>1. PICK s \in Specs :
        f = [state |-> "Active", busy |-> FALSE, cfg |-> s, origin |-> o]
  BY DEF Foreign
<1>2. s \in Configs
  BY SpecsAssumption
<1>3. QED
  BY <1>1, <1>2 DEF Functions, States

LEMMA UnreadType == Unread \in [state : States, cfg : Configs]
BY DEF Unread, Configs, Unset, States

(* Spending keeps the budget a record of naturals.                         *)
LEMMA SpendType ==
  ASSUME NEW k \in {"edits", "faults", "drifts"},
         budget \in [{"edits", "faults", "drifts"} -> Nat],
         Spend(k)
  PROVE  budget' \in [{"edits", "faults", "drifts"} -> Nat]
BY DEF Spend

LEMMA InitTypeOK == Init => TypeOK
<1> SUFFICES ASSUME Init PROVE TypeOK
  OBVIOUS
<1> USE DEF Init
<1>1. cr \in CRs /\ desired \in CRs
  BY NoCRType
<1>2. fn \in Functions
  BY NoFunctionType, ForeignType DEF Origins
<1>3. latest \in [state : States, cfg : Configs]
  BY UnreadType
<1>4. budget \in [{"edits", "faults", "drifts"} -> Nat]
  BY BoundsAssumption
<1>5. QED
  BY <1>1, <1>2, <1>3, <1>4 DEF TypeOK, Locations, Purposes, Conditions

(* Merging what was read of the function with the CR's spec gives a spec.  *)
LEMMA MergedType ==
  ASSUME TypeOK
  PROVE  /\ MergedConfiguration(desired.spec) \in Configs
         /\ WithAdditionalFields(latest.cfg) \in Configs
BY DEF TypeOK, CRs, Functions, Configs, MergedConfiguration,
       WithAdditionalFields, Fields

(* The worker's part of TypeOK.                                            *)
PassTypeOK ==
  /\ pc \in Locations
  /\ why \in Purposes
  /\ desired \in CRs
  /\ latest \in [state : States, cfg : Configs]
  /\ delta \in SUBSET Fields
  /\ left \in SUBSET Fields
  /\ outcome \in Conditions

LEMMA GotoType ==
  ASSUME PassTypeOK, NEW l \in Locations, Goto(l) PROVE PassTypeOK'
BY DEF PassTypeOK, Goto

LEMMA EndPassType ==
  ASSUME PassTypeOK, NEW o \in Conditions, EndPass(o) PROVE PassTypeOK'
BY DEF PassTypeOK, EndPass, Locations

LEMMA ProceedType ==
  ASSUME PassTypeOK, NEW rest \in SUBSET Fields, Proceed(rest)
  PROVE  PassTypeOK'
BY DEF PassTypeOK, Proceed, Locations, Purposes

LEMMA PutType ==
  ASSUME TypeOK, NEW c \in Configs, NEW busy \in BOOLEAN,
         NEW rest \in SUBSET Fields, Put(c, busy, rest)
  PROVE  TypeOK'
<1>1. PassTypeOK
  BY DEF TypeOK, PassTypeOK
<1>2. fn' \in Functions
  BY DEF Put, TypeOK, Functions
<1>3. PassTypeOK'
  BY <1>1, ProceedType, EndPassType DEF Put, Conditions
<1>4. budget' \in [{"edits", "faults", "drifts"} -> Nat]
  BY SpendType DEF Put, TypeOK
<1>5. QED
  BY <1>2, <1>3, <1>4 DEF TypeOK, PassTypeOK, Put, kubeVars

LEMMA PutFieldType ==
  ASSUME TypeOK, NEW f \in Fields, NEW v \in Value \cup {Nil},
         NEW rest \in SUBSET Fields, PutField(f, v, rest)
  PROVE  TypeOK'
<1>1. [fn.cfg EXCEPT ![f] = v] \in Configs /\ fn.busy \in BOOLEAN
  BY DEF TypeOK, Functions, Configs
<1>2. QED
  BY <1>1, PutType DEF PutField

(* The passes' steps.                                                      *)
LEMMA ReadType ==
  ASSUME TypeOK,
         Start \/ GetFunction \/ FunctionNotFound
           \/ SetResourceAdditionalFields
  PROVE  TypeOK'
<1> PassTypeOK
  BY DEF TypeOK, PassTypeOK
<1>1. CASE Start
  BY <1>1 DEF Start, TypeOK, Locations, Purposes
<1>2. CASE GetFunction
  <2>1. latest' \in [state : States, cfg : Configs]
    BY <1>2, MergedType DEF GetFunction, TypeOK, Functions
  <2>2. QED
    BY <1>2, <2>1 DEF GetFunction, TypeOK, Locations, kubeVars
<1>3. CASE FunctionNotFound
  <2>1. PassTypeOK'
    BY <1>3, GotoType, EndPassType
       DEF FunctionNotFound, Locations, Conditions
  <2>2. QED
    BY <1>3, <2>1 DEF FunctionNotFound, TypeOK, PassTypeOK, kubeVars
<1>4. CASE SetResourceAdditionalFields
  <2> DEFINE c == WithAdditionalFields(latest.cfg)
             d == Differing(desired.spec, c)
             go(l, todo) ==
               /\ pc' = l
               /\ latest' = [latest EXCEPT !.cfg = c]
               /\ delta' = todo
               /\ left' = todo
               /\ UNCHANGED <<why, desired, outcome>>
  <2>1. d \in SUBSET Fields
    BY DEF Differing
  <2>2. ASSUME NEW l \in Locations, NEW t \in SUBSET Fields, go(l, t)
        PROVE  PassTypeOK'
    BY <2>2, MergedType DEF PassTypeOK
  <2>3. \/ \E o \in Conditions : EndPass(o)
        \/ \E l \in Locations : \E t \in {{}, delta, d} : go(l, t)
    BY <1>4 DEF SetResourceAdditionalFields, Conditions, Locations
  <2>4. PassTypeOK'
    BY <2>1, <2>2, <2>3, EndPassType DEF PassTypeOK
  <2>5. QED
    BY <1>4, <2>4
       DEF SetResourceAdditionalFields, TypeOK, PassTypeOK, kubeVars
<1>5. QED
  BY <1>1, <1>2, <1>3, <1>4

LEMMA CreateType ==
  ASSUME TypeOK, Manage \/ CreateFunction PROVE TypeOK'
<1> PassTypeOK
  BY DEF TypeOK, PassTypeOK
<1>1. CASE Manage
  <2>1. PassTypeOK'
    BY <1>1, GotoType, EndPassType DEF Manage, Locations, Conditions
  <2>2. cr' \in CRs
    BY <1>1 DEF Manage, TypeOK, CRs
  <2>3. QED
    BY <1>1, <2>1, <2>2 DEF Manage, TypeOK, PassTypeOK
<1>2. CASE CreateFunction
  <2>1. Created(desired.spec) \in Functions
    BY DEF TypeOK, CRs, Configs, Created, Functions, States, Origins
  <2>2. fn' \in Functions
    BY <1>2, <2>1 DEF CreateFunction, TypeOK
  <2>3. PassTypeOK'
    <3>1. desired.spec \in Configs
      BY DEF TypeOK, CRs
    <3>2. QED
      BY <1>2, <3>1, EndPassType
         DEF CreateFunction, PassTypeOK, Conditions, Locations, Purposes, States
  <2>4. budget' \in [{"edits", "faults", "drifts"} -> Nat]
    BY <1>2, SpendType DEF CreateFunction, TypeOK
  <2>5. QED
    BY <1>2, <2>2, <2>3, <2>4
       DEF CreateFunction, TypeOK, PassTypeOK, kubeVars
<1>3. QED
  BY <1>1, <1>2

LEMMA UpdateType == ASSUME TypeOK, Update PROVE TypeOK'
<1> PassTypeOK
  BY DEF TypeOK, PassTypeOK
<1> DEFINE rest(f) == left \ {f}
<1>0. /\ desired.spec \in Configs /\ fn.cfg \in Configs
      /\ \A f \in Fields : desired.spec[f] \in Value \cup {Nil}
      /\ \A f : rest(f) \in SUBSET Fields
  BY DEF TypeOK, CRs, Functions, Configs
<1>1. CASE UntagResource
  <2>1. fn' \in Functions
    <3>1. [fn.cfg EXCEPT !["tags"] = Nil] \in Configs
      BY DEF TypeOK, Functions, Configs
    <3>2. QED
      BY <1>1, <3>1 DEF UntagResource, TypeOK, Functions
  <2>2. PassTypeOK'
    <3>1. [latest EXCEPT !.cfg["tags"] = Nil]
            \in [state : States, cfg : Configs]
      BY DEF TypeOK, Configs
    <3>2. QED
      BY <1>1, <3>1, <1>0, ProceedType, EndPassType
         DEF UntagResource, PassTypeOK, Conditions
  <2>3. budget' \in [{"edits", "faults", "drifts"} -> Nat]
    BY <1>1, SpendType DEF UntagResource, TypeOK
  <2>4. QED
    BY <1>1, <2>1, <2>2, <2>3
       DEF UntagResource, TypeOK, PassTypeOK, kubeVars
<1>2. CASE TagResource
  BY ZenonT(60), <1>2, <1>0, PutFieldType DEF TagResource, Fields
<1>3. CASE TagsPanic
  BY <1>3, NoCRType, UnreadType DEF TagsPanic, TypeOK, Locations
<1>4. CASE UpdateFunctionConcurrency
  BY <1>4, <1>0, PutFieldType DEF UpdateFunctionConcurrency, Fields
<1>5. CASE SyncFunctionEventInvokeConfig
  BY <1>5, <1>0, PutFieldType DEF SyncFunctionEventInvokeConfig, Fields
<1>6. CASE UpdateFunctionCodeSigningConfig
  BY <1>6, <1>0, PutFieldType DEF UpdateFunctionCodeSigningConfig, Fields
<1>7. CASE TagsRefused \/ RefuseTenancy \/ UpdateRefused
  <2>1. PassTypeOK'
    BY <1>7, EndPassType
       DEF TagsRefused, RefuseTenancy, UpdateRefused, Conditions
  <2>2. QED
    BY <1>7, <2>1
       DEF TagsRefused, RefuseTenancy, UpdateRefused, TypeOK, PassTypeOK, kubeVars
<1>8. CASE UpdateFunctionCode
  <2> DEFINE c == [fn.cfg EXCEPT !["code"] = desired.spec["code"]]
  <2>1. c \in Configs
    BY <1>0 DEF Configs, Fields
  <2>2. Put(c, TRUE, {})
    BY <1>8 DEF UpdateFunctionCode
  <2> HIDE DEF c
  <2>3. QED
    BY <2>1, <2>2, PutType
<1>9. CASE UpdateFunctionConfiguration
  <2> DEFINE c == [f \in Fields |->
                     IF f \in left /\ (f = "config" \/ desired.spec[f] # Nil)
                     THEN desired.spec[f] ELSE fn.cfg[f]]
  <2>1. c \in Configs
    BY <1>0 DEF Configs
  <2>2. Put(c, TRUE, {})
    BY <1>9 DEF UpdateFunctionConfiguration
  <2> HIDE DEF c
  <2>3. QED
    BY <2>1, <2>2, PutType
<1>10. QED
  BY <1>1, <1>2, <1>3, <1>4, <1>5, <1>6, <1>7, <1>8, <1>9 DEF Update

LEMMA EndType ==
  ASSUME TypeOK,
         WriteBack \/ LateInitialize \/ DeleteFunction \/ Unmanage \/ Finish
  PROVE  TypeOK'
<1> PassTypeOK
  BY DEF TypeOK, PassTypeOK
<1>1. CASE WriteBack
  <2>1. cr' \in CRs
    BY <1>1 DEF WriteBack, TypeOK, CRs, Configs
  <2>2. PassTypeOK'
    BY <1>1, GotoType DEF WriteBack, Locations
  <2>3. queued' \in BOOLEAN
    BY <1>1 DEF WriteBack, TypeOK
  <2>4. QED
    BY <1>1, <2>1, <2>2, <2>3 DEF WriteBack, TypeOK, PassTypeOK
<1>2. CASE LateInitialize
  <2>1. PassTypeOK'
    BY <1>2, EndPassType DEF LateInitialize, Conditions
  <2>2. QED
    BY <1>2, <2>1 DEF LateInitialize, TypeOK, PassTypeOK, kubeVars
<1>3. CASE DeleteFunction
  <2>1. PassTypeOK'
    BY <1>3, EndPassType DEF DeleteFunction, Conditions
  <2>2. fn' \in Functions
    BY <1>3, NoFunctionType DEF DeleteFunction, TypeOK, Functions, States
  <2>3. QED
    BY <1>3, <2>1, <2>2 DEF DeleteFunction, TypeOK, PassTypeOK, kubeVars
<1>4. CASE Unmanage
  BY <1>4, NoCRType DEF Unmanage, TypeOK, Locations
<1>5. CASE Finish
  <2>1. cr' \in CRs /\ queued' \in BOOLEAN
    <3>1. CASE cr.exists
      BY ZenonT(60), <1>5, <3>1 DEF Finish, TypeOK, CRs, ARNs
    <3>2. CASE ~cr.exists
      BY <1>5, <3>2 DEF Finish, TypeOK, kubeVars
    <3>3. QED
      BY <3>1, <3>2
  <2>2. QED
    BY <1>5, <2>1, NoCRType, UnreadType
       DEF Finish, TypeOK, Locations, Conditions
<1>6. QED
  BY <1>1, <1>2, <1>3, <1>4, <1>5

LEMMA EnvironmentType == ASSUME TypeOK, Environment PROVE TypeOK'
<1> PassTypeOK
  BY DEF TypeOK, PassTypeOK
<1>1. CASE CallFails
  <2>1. PassTypeOK'
    BY <1>1, EndPassType DEF CallFails, Conditions
  <2>2. budget' \in [{"edits", "faults", "drifts"} -> Nat]
    BY <1>1, SpendType DEF CallFails, TypeOK
  <2>3. QED
    BY <1>1, <2>1, <2>2 DEF CallFails, TypeOK, PassTypeOK, kubeVars
<1>2. CASE Crash
  <2>1. budget' \in [{"edits", "faults", "drifts"} -> Nat]
    BY <1>2, SpendType DEF Crash, TypeOK
  <2>2. QED
    BY <1>2, <2>1, NoCRType, UnreadType
       DEF Crash, TypeOK, CRs, Locations, Purposes, Conditions
<1>3. CASE Resync
  BY <1>3 DEF Resync, TypeOK, passVars
<1>4. CASE UserApply \/ UserDelete \/ \E s \in Specs : UserEdit(s)
  <2>1. cr' \in CRs /\ queued' \in BOOLEAN
    BY ZenonT(60), <1>4, NoCRType, SpecsAssumption
       DEF UserApply, UserDelete, UserEdit, TypeOK, CRs
  <2>2. budget' \in [{"edits", "faults", "drifts"} -> Nat]
    BY <1>4, SpendType DEF UserApply, UserDelete, UserEdit, TypeOK
  <2>3. QED
    BY <1>4, <2>1, <2>2
       DEF UserApply, UserDelete, UserEdit, TypeOK, passVars
<1>5. CASE Settle \/ IdleOrWake \/ DriftAway \/ \E s \in Specs : Drift(s)
  <2>1. fn' \in Functions
    BY <1>5, NoFunctionType, ForeignType, SpecsAssumption
       DEF Settle, IdleOrWake, DriftAway, Drift, TypeOK, Functions, States,
           Origins
  <2>2. budget' \in [{"edits", "faults", "drifts"} -> Nat]
    BY <1>5, SpendType DEF Settle, IdleOrWake, DriftAway, Drift, TypeOK
  <2>3. QED
    BY <1>5, <2>1, <2>2
       DEF Settle, IdleOrWake, DriftAway, Drift, TypeOK, passVars, kubeVars
<1>6. QED
  BY <1>1, <1>2, <1>3, <1>4, <1>5 DEF Environment

(* Every reachable state is well typed, for any values, specs and bounds.  *)
THEOREM TypeCorrect == Spec => []TypeOK
<1>1. TypeOK /\ [Next]_vars => TypeOK'
  <2>1. CASE UNCHANGED vars
    BY <2>1 DEF vars, kubeVars, passVars, TypeOK
  <2>2. QED
    BY <2>1, ReadType, CreateType, UpdateType, EndType, EnvironmentType
       DEF Next, Worker
<1>2. QED
  BY <1>1, InitTypeOK, PTL DEF Spec

-----------------------------------------------------------------------------
LEMMA FinalizerInvWorker ==
  ASSUME TypeOK, FinalizerInv, Worker PROVE FinalizerInv'
<1> USE DEF FinalizerInv, kubeVars
<1>1. CASE Start
  BY <1>1 DEF Start
<1>2. CASE GetFunction
  BY <1>2 DEF GetFunction
<1>3. CASE FunctionNotFound
  BY <1>3 DEF FunctionNotFound, Goto, EndPass, IsManaged
<1>4. CASE SetResourceAdditionalFields
  <2>1. /\ UNCHANGED <<cr, fn, desired, why>>
        /\ pc' \notin {"create", "unmanage", "idle"} /\ pc = "fields"
    BY <1>4 DEF SetResourceAdditionalFields, EndPass
  <2>2. QED
    BY <2>1
<1>5. CASE Manage
  BY <1>5 DEF Manage, Goto, EndPass, TypeOK, CRs
<1>6. CASE CreateFunction
  BY <1>6 DEF CreateFunction, EndPass, Created
<1>7. CASE Update
  <2>1. /\ UNCHANGED <<cr>>
        /\ fn'.state = fn.state /\ fn'.origin = fn.origin
        /\ desired' \in {desired, NoCR}
        /\ pc = "update" /\ pc' \notin {"create", "unmanage"}
        /\ pc' = "idle" \/ why' = "updated" \/ why' = why
    <3> USE DEF Put, PutField, Proceed, EndPass, Turn, TypeOK, Functions
    <3>1. CASE UntagResource
      BY <1>7, <3>1 DEF UntagResource
    <3>2. CASE TagResource
      BY <1>7, <3>2 DEF TagResource
    <3>3. CASE TagsPanic
      BY <1>7, <3>3 DEF TagsPanic
    <3>4. CASE UpdateFunctionConcurrency
      BY <1>7, <3>4 DEF UpdateFunctionConcurrency
    <3>5. CASE SyncFunctionEventInvokeConfig
      BY <1>7, <3>5 DEF SyncFunctionEventInvokeConfig
    <3>6. CASE UpdateFunctionCodeSigningConfig
      BY <1>7, <3>6 DEF UpdateFunctionCodeSigningConfig
    <3>7. CASE TagsRefused \/ RefuseTenancy \/ UpdateRefused
      BY <1>7, <3>7 DEF TagsRefused, RefuseTenancy, UpdateRefused
    <3>8. CASE UpdateFunctionCode
      BY <1>7, <3>8 DEF UpdateFunctionCode
    <3>9. CASE UpdateFunctionConfiguration
      BY <1>7, <3>9 DEF UpdateFunctionConfiguration
    <3>10. QED
      BY <1>7, <3>1, <3>2, <3>3, <3>4, <3>5, <3>6, <3>7, <3>8, <3>9 DEF Update
  <2>2. QED
    BY <2>1 DEF NoCR
<1>8. CASE WriteBack
  BY <1>8 DEF WriteBack, Goto, TypeOK, CRs
<1>9. CASE LateInitialize
  BY <1>9 DEF LateInitialize, EndPass
<1>10. CASE DeleteFunction
  BY <1>10 DEF DeleteFunction, EndPass, NoFunction, Reachable, TypeOK, Functions
<1>11. CASE Unmanage
  BY <1>11 DEF Unmanage, NoCR, TypeOK, Functions, Origins
<1>12. CASE Finish
  BY <1>12 DEF Finish, NoCR, TypeOK, CRs, ARNs
<1>13. QED
  BY <1>1, <1>2, <1>3, <1>4, <1>5, <1>6, <1>7, <1>8, <1>9, <1>10, <1>11, <1>12
     DEF Worker

LEMMA FinalizerInvEnvironment ==
  ASSUME TypeOK, FinalizerInv, Environment PROVE FinalizerInv'
<1> USE DEF FinalizerInv, kubeVars, passVars
<1>1. CASE CallFails
  BY <1>1 DEF CallFails, EndPass
<1>2. CASE Crash
  BY <1>2 DEF Crash, NoCR
<1>3. CASE Resync
  BY <1>3 DEF Resync
<1>4. CASE UserApply
  <2>1. PICK s \in Specs : cr' = FreshCR(s)
    BY <1>4 DEF UserApply
  <2>2. QED
    BY <1>4, <2>1 DEF UserApply, FreshCR
<1>5. CASE \E s \in Specs : UserEdit(s)
  BY <1>5 DEF UserEdit, TypeOK, CRs
<1>6. CASE UserDelete
  BY <1>6 DEF UserDelete, TypeOK, CRs, NoCR
<1>7. CASE Settle
  BY <1>7 DEF Settle, TypeOK, Functions, NoFunction
<1>8. CASE IdleOrWake
  BY <1>8 DEF IdleOrWake, TypeOK, Functions
<1>9. CASE \E s \in Specs : Drift(s)
  BY <1>9 DEF Drift, TypeOK, Functions
<1>10. CASE DriftAway
  BY <1>10 DEF DriftAway, Reachable, NoFunction, Foreign
<1>11. QED
  BY <1>1, <1>2, <1>3, <1>4, <1>5, <1>6, <1>7, <1>8, <1>9, <1>10
     DEF Environment

LEMMA FinalizerInvInductive ==
  /\ Init => FinalizerInv
  /\ TypeOK /\ FinalizerInv /\ [Next]_vars => FinalizerInv'
<1>1. Init => FinalizerInv
  BY DEF Init, FinalizerInv, FreshCR, NoCR, NoFunction, Foreign
<1>2. TypeOK /\ FinalizerInv /\ UNCHANGED vars => FinalizerInv'
  BY DEF FinalizerInv, vars, kubeVars, passVars
<1>3. QED
  BY <1>1, <1>2, FinalizerInvWorker, FinalizerInvEnvironment DEF Next

(* Whatever is edited, lost or restarted, for any number of times: no      *)
(* function of ours is without a CR that holds the finalizer.              *)
THEOREM NoFunctionIsOrphaned == Spec => []NoOrphan
<1>1. FinalizerInv => NoOrphan
  BY DEF FinalizerInv, NoOrphan
<1>2. QED
  BY <1>1, TypeCorrect, FinalizerInvInductive, PTL DEF Spec

-----------------------------------------------------------------------------
(* Refinement: each step of the detailed specification is a step of the    *)
(* contract, or leaves the CR's presence, its finalizer and whose function *)
(* there is as they were.                                                  *)
ContractVars == <<Kube, cr.finalizer, Backend>>

LEMMA Stutter ==
  ASSUME cr'.exists = cr.exists, cr'.deleting = cr.deleting,
         cr'.finalizer = cr.finalizer, fn'.origin = fn.origin
  PROVE  ContractVars' = ContractVars
BY DEF ContractVars, Kube, Backend

LEMMA BackendOrigin ==
  ASSUME TypeOK
  PROVE  /\ Backend = "none" <=> fn.origin = "none"
         /\ Backend = "ours" <=> fn.origin = "ours"
         /\ Backend \in {"none", "ours", "other"}
BY DEF Backend

LEMMA ContractWorker ==
  ASSUME TypeOK, FinalizerInv, Worker
  PROVE  Contract!Next \/ ContractVars' = ContractVars
<1> USE DEF FinalizerInv, kubeVars
<1>1. CASE \/ Start \/ GetFunction \/ FunctionNotFound
           \/ SetResourceAdditionalFields \/ LateInitialize
  BY <1>1, Stutter
     DEF Start, GetFunction, FunctionNotFound, SetResourceAdditionalFields,
         LateInitialize
<1>2. CASE Manage
  <2>1. CASE cr.exists /\ ~cr.deleting /\ ~cr.finalizer
    BY <1>2, <2>1 DEF Manage, Kube, Backend, TypeOK, CRs, Contract!Next,
       Contract!Manage
  <2>2. CASE cr.exists /\ cr.finalizer
    BY <1>2, <2>2, Stutter DEF Manage, TypeOK, CRs
  <2>3. CASE ~cr.exists
    BY <1>2, <2>3, Stutter DEF Manage
  <2>4. QED
    BY <2>1, <2>2, <2>3
<1>3. CASE CreateFunction
  <2>1. CASE fn' = fn
    BY <1>3, <2>1, Stutter DEF CreateFunction
  <2>2. CASE ~CreateRefused /\ fn' = Created(desired.spec)
    BY <1>3, <2>2
       DEF CreateFunction, CreateRefused, Created, Kube, Backend,
           Contract!Next, Contract!Create
  <2>3. QED
    BY <1>3, <2>1, <2>2 DEF CreateFunction
<1>4. CASE Update
  <2> USE DEF Put, PutField, TypeOK, Functions
  <2>1. cr' = cr /\ fn'.origin = fn.origin
    <3>1. CASE UntagResource \/ TagResource \/ TagsPanic \/ TagsRefused
      BY <3>1 DEF UntagResource, TagResource, TagsPanic, TagsRefused
    <3>2. CASE UpdateFunctionConcurrency \/ SyncFunctionEventInvokeConfig
      BY <3>2 DEF UpdateFunctionConcurrency, SyncFunctionEventInvokeConfig
    <3>3. CASE UpdateFunctionCodeSigningConfig \/ RefuseTenancy \/ UpdateRefused
      BY <3>3 DEF UpdateFunctionCodeSigningConfig, RefuseTenancy, UpdateRefused
    <3>4. CASE UpdateFunctionCode
      BY <3>4 DEF UpdateFunctionCode
    <3>5. CASE UpdateFunctionConfiguration
      BY <3>5 DEF UpdateFunctionConfiguration
    <3>6. QED
      BY <1>4, <3>1, <3>2, <3>3, <3>4, <3>5 DEF Update
  <2>2. QED
    BY <2>1, Stutter
<1>5. CASE WriteBack
  BY <1>5, Stutter DEF WriteBack, TypeOK, CRs
<1>6. CASE DeleteFunction
  <2>1. CASE fn'.origin = fn.origin
    BY <1>6, <2>1, Stutter DEF DeleteFunction
  <2>2. CASE fn' = NoFunction /\ fn.origin # "none"
    BY <1>6, <2>2 DEF DeleteFunction, NoFunction, Kube, Backend, Contract!Next,
       Contract!Vanish
  <2>3. QED
    BY <1>6, <2>1, <2>2 DEF DeleteFunction, NoFunction, TypeOK, Functions
<1>7. CASE Unmanage
  BY <1>7 DEF Unmanage, NoCR, Kube, Backend, TypeOK, CRs, Functions, Origins,
     Contract!Next, Contract!Release
<1>8. CASE Finish
  BY <1>8, Stutter DEF Finish, TypeOK, CRs
<1>9. QED
  BY <1>1, <1>2, <1>3, <1>4, <1>5, <1>6, <1>7, <1>8 DEF Worker

LEMMA ContractEnvironment ==
  ASSUME TypeOK, FinalizerInv, Environment
  PROVE  Contract!Next \/ ContractVars' = ContractVars
<1> USE DEF FinalizerInv, kubeVars
<1>1. CASE CallFails \/ Crash \/ Resync
  BY <1>1, Stutter DEF CallFails, Crash, Resync
<1>2. CASE UserApply
  <2>1. PICK s \in Specs : cr' = FreshCR(s)
    BY <1>2 DEF UserApply
  <2>2. QED
    BY <1>2, <2>1 DEF UserApply, FreshCR, Kube, Backend, Contract!Next,
       Contract!Apply
<1>3. CASE \E s \in Specs : UserEdit(s)
  BY <1>3, Stutter DEF UserEdit, TypeOK, CRs
<1>4. CASE UserDelete
  <2>1. CASE cr.finalizer
    BY <1>4, <2>1 DEF UserDelete, TypeOK, CRs, Kube, Backend, Contract!Next,
       Contract!RequestDelete
  <2>2. CASE ~cr.finalizer
    BY <1>4, <2>2 DEF UserDelete, NoCR, TypeOK, CRs, Kube, Backend,
       Contract!Next, Contract!Discard
  <2>3. QED
    BY <2>1, <2>2
<1>5. CASE Settle \/ DriftAway
  <2>1. CASE fn'.origin = fn.origin
    BY <1>5, <2>1, Stutter DEF Settle, DriftAway
  <2>2. CASE fn' = NoFunction /\ fn.origin # "none"
    BY <1>5, <2>2 DEF Settle, DriftAway, NoFunction, Kube, Backend,
       Contract!Next, Contract!Vanish
  <2>3. CASE fn.state = "None" /\ fn' \in Foreign("raced")
    BY <1>5, <2>3 DEF Settle, DriftAway, Foreign, Kube, Backend,
       Contract!Next, Contract!Intrude
  <2>4. QED
    BY <1>5, <2>1, <2>2, <2>3
       DEF Settle, DriftAway, NoFunction, TypeOK, Functions
<1>6. CASE IdleOrWake \/ \E s \in Specs : Drift(s)
  BY <1>6, Stutter DEF IdleOrWake, Drift, TypeOK, Functions
<1>7. QED
  BY <1>1, <1>2, <1>3, <1>4, <1>5, <1>6 DEF Environment

(* The function controller implements the finalizer contract: it creates   *)
(* only under the finalizer and lets the CR go only when nothing of ours   *)
(* is left, for any values, specs and bounds.                              *)
THEOREM ImplementsContract == Spec => KeepsContract
<1>1. Init => Contract!Init
  BY DEF Init, Contract!Init, FreshCR, NoFunction, Foreign, Kube, Backend
<1>2. TypeOK /\ FinalizerInv /\ [Next]_vars
        => [Contract!Next]_<<Kube, cr.finalizer, Backend>>
  <2>1. CASE UNCHANGED vars
    BY <2>1, Stutter DEF vars, kubeVars, ContractVars
  <2>2. QED
    BY <2>1, ContractWorker, ContractEnvironment DEF Next, ContractVars
<1>3. QED
  BY <1>1, <1>2, TypeCorrect, FinalizerInvInductive, PTL
     DEF Spec, KeepsContract, Contract!Spec, Contract!vars

-----------------------------------------------------------------------------
(* While a function that was there first exists, the CR stays without      *)
(* finalizer and the worker on the read-only part of its path: to leave it *)
(* ReadOne would have to find no function.                                 *)
BeforeInv ==
  fn.origin = "before" =>
    /\ ~cr.finalizer /\ ~desired.finalizer
    /\ pc \in {"idle", "read", "fields", "lateInit", "finish"}
    /\ pc # "idle" => why = "sync"
    /\ fn.state \notin {"None", "Deleting"}

(* Where the worker writes to the function, and whose it can become.       *)
LEMMA WorkerWrites ==
  ASSUME TypeOK, Worker
  PROVE  \/ fn' = fn
         \/ /\ pc \in {"create", "update", "delete"}
            /\ fn'.origin \in {fn.origin, "ours", "none"}
<1>1. CASE CreateFunction
  BY <1>1 DEF CreateFunction, Created
<1>2. CASE DeleteFunction
  BY <1>2 DEF DeleteFunction, NoFunction, TypeOK, Functions
<1>3. CASE Update
  <2> USE DEF Put, PutField, TypeOK, Functions, Turn
  <2>1. CASE UntagResource \/ TagResource \/ TagsPanic \/ TagsRefused
    BY <2>1 DEF UntagResource, TagResource, TagsPanic, TagsRefused
  <2>2. CASE UpdateFunctionConcurrency \/ SyncFunctionEventInvokeConfig
    BY <2>2 DEF UpdateFunctionConcurrency, SyncFunctionEventInvokeConfig
  <2>3. CASE UpdateFunctionCodeSigningConfig \/ RefuseTenancy \/ UpdateRefused
    BY <2>3 DEF UpdateFunctionCodeSigningConfig, RefuseTenancy, UpdateRefused
  <2>4. CASE UpdateFunctionCode
    BY <2>4 DEF UpdateFunctionCode
  <2>5. CASE UpdateFunctionConfiguration
    BY <2>5 DEF UpdateFunctionConfiguration
  <2>6. QED
    BY <1>3, <2>1, <2>2, <2>3, <2>4, <2>5 DEF Update
<1>4. CASE \/ Start \/ GetFunction \/ FunctionNotFound
           \/ SetResourceAdditionalFields \/ Manage \/ WriteBack
           \/ LateInitialize \/ Unmanage \/ Finish
  BY <1>4 DEF Start, GetFunction, FunctionNotFound,
     SetResourceAdditionalFields, Manage, WriteBack, LateInitialize,
     Unmanage, Finish
<1>5. QED
  BY <1>1, <1>2, <1>3, <1>4 DEF Worker

LEMMA BeforeInvWorker ==
  ASSUME TypeOK, FinalizerInv, BeforeInv, Worker PROVE BeforeInv'
<1> SUFFICES ASSUME fn'.origin = "before" PROVE BeforeInv'
  BY DEF BeforeInv
<1>1. fn' = fn /\ fn.origin = "before"
  BY WorkerWrites DEF BeforeInv
<1>2. /\ ~cr.finalizer /\ ~desired.finalizer /\ ~cr.deleting
      /\ pc \in {"idle", "read", "fields", "lateInit", "finish"}
      /\ pc # "idle" => why = "sync"
      /\ fn.state \notin {"None", "Deleting"}
  BY <1>1 DEF BeforeInv, FinalizerInv
<1> USE <1>1, <1>2 DEF BeforeInv, kubeVars
<1>3. CASE Start \/ GetFunction
  BY <1>3 DEF Start, GetFunction
<1>4. CASE SetResourceAdditionalFields
  BY <1>4 DEF SetResourceAdditionalFields, IsManaged, EndPass
<1>5. CASE LateInitialize
  BY <1>5 DEF LateInitialize, EndPass
<1>6. CASE Finish
  BY <1>6 DEF Finish, NoCR, TypeOK, CRs, ARNs
<1>7. ~ (FunctionNotFound \/ Manage \/ CreateFunction \/ WriteBack
           \/ DeleteFunction \/ Unmanage)
  BY DEF FunctionNotFound, Manage, CreateFunction, WriteBack, DeleteFunction,
         Unmanage
<1>8. ~Update
  BY DEF Update, UntagResource, TagResource, TagsPanic, TagsRefused,
         UpdateFunctionConcurrency, SyncFunctionEventInvokeConfig,
         UpdateFunctionCodeSigningConfig, RefuseTenancy, UpdateRefused,
         UpdateFunctionCode, UpdateFunctionConfiguration, Turn
<1>9. QED
  BY <1>3, <1>4, <1>5, <1>6, <1>7, <1>8 DEF Worker

LEMMA BeforeInvEnvironment ==
  ASSUME TypeOK, FinalizerInv, BeforeInv, Environment PROVE BeforeInv'
<1> USE DEF BeforeInv, kubeVars, passVars
<1>1. CASE CallFails
  BY <1>1 DEF CallFails, EndPass
<1>2. CASE Crash
  BY <1>2 DEF Crash, NoCR
<1>3. CASE Resync
  BY <1>3 DEF Resync
<1>4. CASE UserApply
  <2>1. PICK s \in Specs : cr' = FreshCR(s)
    BY <1>4 DEF UserApply
  <2>2. QED
    BY <1>4, <2>1 DEF UserApply, FreshCR
<1>5. CASE UserDelete \/ \E s \in Specs : UserEdit(s)
  BY <1>5 DEF UserDelete, UserEdit, TypeOK, CRs, NoCR
<1>6. CASE Settle \/ IdleOrWake \/ \E s \in Specs : Drift(s)
  BY <1>6 DEF Settle, IdleOrWake, Drift, NoFunction, TypeOK, Functions
<1>7. CASE DriftAway
  BY <1>7 DEF DriftAway, NoFunction, Foreign
<1>8. QED
  BY <1>1, <1>2, <1>3, <1>4, <1>5, <1>6, <1>7 DEF Environment

(* A function that was there before the CR is never changed, taken over or *)
(* deleted by the controller, for any specs and bounds.                    *)
THEOREM PreexistingIsSafe == Spec => PreexistingUntouched
<1>1. Init => BeforeInv
  BY DEF Init, BeforeInv, NoFunction, Foreign, FreshCR, NoCR
<1>2. TypeOK /\ FinalizerInv /\ BeforeInv /\ [Next]_vars => BeforeInv'
  <2>1. BeforeInv /\ UNCHANGED vars => BeforeInv'
    BY DEF BeforeInv, vars, kubeVars, passVars
  <2>2. QED
    BY <2>1, BeforeInvWorker, BeforeInvEnvironment DEF Next
<1>3. TypeOK /\ BeforeInv /\ [Next]_vars =>
        [fn.origin = "before" /\ budget'.drifts = budget.drifts
           => /\ fn'.origin = "before" /\ fn'.cfg = fn.cfg
              /\ fn'.state # "Deleting"]_vars
  <2> SUFFICES ASSUME TypeOK, BeforeInv, Next, fn.origin = "before",
                      budget'.drifts = budget.drifts
               PROVE  /\ fn'.origin = "before" /\ fn'.cfg = fn.cfg
                      /\ fn'.state # "Deleting"
    OBVIOUS
  <2>1. CASE Worker
    BY <2>1, WorkerWrites DEF BeforeInv
  <2>2. CASE IdleOrWake \/ DriftAway \/ \E s \in Specs : Drift(s)
    BY <2>2 DEF IdleOrWake, DriftAway, Drift, Spend, TypeOK
  <2>3. CASE Settle
    BY <2>3 DEF Settle, BeforeInv, TypeOK, Functions
  <2>4. CASE \/ CallFails \/ Crash \/ Resync \/ UserApply \/ UserDelete
             \/ \E s \in Specs : UserEdit(s)
    BY <2>4 DEF CallFails, Crash, Resync, UserApply, UserDelete, UserEdit,
       BeforeInv
  <2>5. QED
    BY <2>1, <2>2, <2>3, <2>4 DEF Next, Environment
<1>4. QED
  BY <1>1, <1>2, <1>3, TypeCorrect, FinalizerInvInductive, PTL
     DEF Spec, PreexistingUntouched
-----------------------------------------------------------------------------
(* Why no unfinished work is forgotten: as long as nothing queues the key, *)
(* the worker's copy is the CR that users see, and a deletion pass ends    *)
(* for good only with the error about the code signing config of an image, *)
(* which is the CR's: ReadOne hands it on as it was asked.                 *)
RestInv ==
  /\ pc # "idle" /\ ~queued =>
       cr.exists /\ cr.deleting = desired.deleting /\ cr.spec = desired.spec
  /\ pc # "idle" => (why = "delete" <=> desired.deleting)
  /\ pc \in {"manage", "create", "update"} => why = "sync"
  /\ pc = "writeback" => why = "updated"
  /\ pc \in {"delete", "unmanage"} => why = "delete"
  /\ pc = "lateInit" => why # "delete"
  /\ pc = "fields" => latest.cfg["csc"] = desired.spec["csc"]
  /\ pc = "update" => /\ left \subseteq delta
                      /\ packageType = "Image" => "csc" \notin left
  /\ packageType = "Image" => fn.cfg["csc"] = Nil
  /\ pc = "finish" =>
       /\ outcome # "Unknown"
       /\ why = "delete" =>
            \/ outcome = "Recoverable"
            \/ /\ outcome = "Terminal" /\ packageType = "Image"
               /\ desired.spec["csc"] # Nil
  /\ NeverForgotten

(* What the steps of customUpdateFunction leave alone, and where they go.  *)
UpdateGoes ==
  \/ /\ pc' = "update"
     /\ left' \in SUBSET left
     /\ UNCHANGED <<why, desired, delta, outcome, queued>>
  \/ /\ pc' = "read" /\ why' = "updated"
     /\ UNCHANGED <<desired, delta, outcome, queued>>
  \/ /\ pc' = "finish" /\ outcome' \in {"Recoverable", "Terminal"}
     /\ UNCHANGED <<why, desired, delta, left, queued>>
  \/ pc' = "idle" /\ queued'

LEMMA PutGoes ==
  ASSUME NEW c, NEW busy, NEW rest \in SUBSET left, pc = "update",
         Put(c, busy, rest)
  PROVE  UpdateGoes /\ fn' = [fn EXCEPT !.cfg = c, !.busy = busy]
BY DEF Put, Proceed, EndPass, UpdateGoes, kubeVars

LEMMA UpdateSteps ==
  ASSUME TypeOK, Update
  PROVE  /\ pc = "update" /\ UNCHANGED <<cr, packageType>>
         /\ UpdateGoes
         /\ "csc" \in left \/ fn'.cfg["csc"] = fn.cfg["csc"]
<1>0. /\ fn \in Functions /\ fn.cfg \in Configs /\ desired.spec \in Configs
      /\ left \in SUBSET Fields
      /\ {} \in SUBSET left /\ \A f \in Fields : left \ {f} \in SUBSET left
  BY DEF TypeOK, Functions, CRs
<1>f. /\ {"tags", "concurrency", "eventInvoke", "csc", "code"} \subseteq Fields
      /\ "csc" \notin Configuration /\ Configuration \subseteq Fields
  BY DEF Fields, Configuration
<1>P. ASSUME NEW f \in Fields, f = "csc" => "csc" \in left, NEW v,
             pc = "update", PutField(f, v, left \ {f})
      PROVE  /\ pc = "update" /\ UNCHANGED <<cr, packageType>>
             /\ UpdateGoes
             /\ "csc" \in left \/ fn'.cfg["csc"] = fn.cfg["csc"]
  <2> DEFINE c == [fn.cfg EXCEPT ![f] = v]
  <2>1. Put(c, fn.busy, left \ {f})
    BY <1>P DEF PutField
  <2>2. c["csc"] = fn.cfg["csc"] \/ f = "csc"
    BY <1>0, <1>f DEF Configs
  <2> HIDE DEF c
  <2>3. UpdateGoes /\ fn' = [fn EXCEPT !.cfg = c, !.busy = fn.busy]
    BY <2>1, <1>P, <1>0, PutGoes
  <2>4. UNCHANGED <<cr, packageType>>
    BY <2>1 DEF Put, kubeVars
  <2>5. QED
    BY <2>2, <2>3, <2>4, <1>0, <1>P DEF Functions
<1>1. CASE UntagResource
  <2>1. fn' = [fn EXCEPT !.cfg["tags"] = Nil] /\ pc = "update"
    BY <1>1 DEF UntagResource, Turn
  <2>2. fn'.cfg["csc"] = fn.cfg["csc"]
    BY <2>1, <1>0, <1>f DEF Functions, Configs
  <2>3. UpdateGoes
    BY <1>1, <1>0, <1>f
       DEF UntagResource, Turn, Proceed, EndPass, UpdateGoes, kubeVars
  <2>4. QED
    BY <1>1, <2>1, <2>2, <2>3 DEF UntagResource, kubeVars
<1>2. CASE TagResource
  BY <1>2, <1>P, <1>f DEF TagResource, Turn
<1>3. CASE TagsPanic
  BY <1>3 DEF TagsPanic, Turn, UpdateGoes
<1>4. CASE UpdateFunctionConcurrency
  BY <1>4, <1>P, <1>f DEF UpdateFunctionConcurrency, Turn
<1>5. CASE SyncFunctionEventInvokeConfig
  BY <1>5, <1>P, <1>f DEF SyncFunctionEventInvokeConfig, Turn
<1>6. CASE UpdateFunctionCodeSigningConfig
  BY <1>6, <1>P, <1>f DEF UpdateFunctionCodeSigningConfig, Turn
<1>7. CASE TagsRefused \/ RefuseTenancy \/ UpdateRefused
  BY <1>7 DEF TagsRefused, RefuseTenancy, UpdateRefused, Turn, EndPass,
     UpdateGoes, kubeVars
<1>8. CASE UpdateFunctionCode
  <2> DEFINE c == [fn.cfg EXCEPT !["code"] = desired.spec["code"]]
  <2>1. Put(c, TRUE, {}) /\ pc = "update"
    BY <1>8 DEF UpdateFunctionCode, Turn
  <2>2. c["csc"] = fn.cfg["csc"]
    BY <1>0, <1>f DEF Configs
  <2> HIDE DEF c
  <2>3. UpdateGoes /\ fn' = [fn EXCEPT !.cfg = c, !.busy = TRUE]
    BY <2>1, <1>0, PutGoes
  <2>4. UNCHANGED <<cr, packageType>>
    BY <2>1 DEF Put, kubeVars
  <2>5. QED
    BY <2>1, <2>2, <2>3, <2>4, <1>0 DEF Functions
<1>9. CASE UpdateFunctionConfiguration
  <2> DEFINE c == [f \in Fields |->
                     IF f \in left /\ (f = "config" \/ desired.spec[f] # Nil)
                     THEN desired.spec[f] ELSE fn.cfg[f]]
  <2>1. Put(c, TRUE, {}) /\ pc = "update" /\ left \subseteq Configuration
    BY <1>9 DEF UpdateFunctionConfiguration
  <2>2. c["csc"] = fn.cfg["csc"]
    BY <2>1, <1>0, <1>f
  <2> HIDE DEF c
  <2>3. UpdateGoes /\ fn' = [fn EXCEPT !.cfg = c, !.busy = TRUE]
    BY <2>1, <1>0, PutGoes
  <2>4. UNCHANGED <<cr, packageType>>
    BY <2>1 DEF Put, kubeVars
  <2>5. QED
    BY <2>1, <2>2, <2>3, <2>4, <1>0 DEF Functions
<1>10. QED
  BY <1>1, <1>2, <1>3, <1>4, <1>5, <1>6, <1>7, <1>8, <1>9 DEF Update

LEMMA RestInvWorker ==
  ASSUME TypeOK, RestInv, Worker PROVE RestInv'
<1> USE DEF RestInv, NeverForgotten, Blocked, kubeVars
<1>0. /\ fn \in Functions /\ fn.cfg \in Configs /\ "csc" \in Fields
      /\ desired \in CRs /\ desired.spec \in Configs /\ cr \in CRs
      /\ latest \in [state : States, cfg : Configs]
  BY DEF TypeOK, Functions, CRs, Fields
<1>1. CASE Start
  BY <1>1 DEF Start
<1>2. CASE GetFunction
  <2>1. MergedConfiguration(desired.spec)["csc"] = desired.spec["csc"]
    BY <1>0 DEF MergedConfiguration, AdditionalFields
  <2>2. QED
    BY <1>2, <2>1 DEF GetFunction
<1>3. CASE FunctionNotFound
  BY <1>3 DEF FunctionNotFound, Goto, EndPass
<1>4. CASE SetResourceAdditionalFields
  <2> DEFINE c == WithAdditionalFields(latest.cfg)
             d == Differing(desired.spec, c)
             go(l, todo) ==
               /\ pc' = l
               /\ latest' = [latest EXCEPT !.cfg = c]
               /\ delta' = todo
               /\ left' = todo
               /\ UNCHANGED <<why, desired, outcome>>
  <2>1. packageType = "Image" => c["csc"] = desired.spec["csc"]
    BY <1>4, <1>0 DEF WithAdditionalFields, SetResourceAdditionalFields, Configs
  <2>2. packageType = "Image" => "csc" \notin d
    BY <2>1 DEF Differing
  <2>3. \/ /\ EndPass("Terminal")
           /\ (packageType = "Image" /\ c["csc"] # Nil) \/ why = "sync"
        \/ EndPass("Recoverable")
        \/ why # "delete" /\ go("lateInit", {})
        \/ why = "updated" /\ go("writeback", delta)
        \/ why = "delete" /\ go("delete", {})
        \/ why = "sync" /\ go("update", d)
    BY <1>4 DEF SetResourceAdditionalFields
  <2>4. UNCHANGED <<kubeVars, fn, packageType, budget>> /\ pc = "fields"
    BY <1>4 DEF SetResourceAdditionalFields
  <2> HIDE DEF c, d
  <2>5. QED
    BY <2>1, <2>2, <2>3, <2>4 DEF EndPass
<1>5. CASE Manage
  BY <1>5, <1>0 DEF Manage, Goto, EndPass, CRs
<1>6. CASE CreateFunction
  <2>1. fn' = fn \/ (fn' = Created(desired.spec) /\ ~CreateRefused)
    BY <1>6 DEF CreateFunction
  <2>2. packageType = "Image" => fn'.cfg["csc"] = Nil
    BY <2>1, <1>0 DEF Created, CreateRefused, Configs
  <2>3. QED
    BY <1>6, <2>2 DEF CreateFunction, EndPass
<1>7. CASE Update
  BY <1>7, UpdateSteps DEF UpdateGoes
<1>8. CASE WriteBack
  BY <1>8, <1>0 DEF WriteBack, Goto, CRs
<1>9. CASE LateInitialize
  BY <1>9 DEF LateInitialize, EndPass
<1>10. CASE DeleteFunction
  <2>1. fn'.cfg["csc"] = fn.cfg["csc"] \/ fn'.cfg["csc"] = Nil
    BY <1>10, <1>0 DEF DeleteFunction, NoFunction, Unset, Functions
  <2>2. QED
    BY <1>10, <2>1 DEF DeleteFunction, EndPass
<1>11. CASE Unmanage
  BY <1>11 DEF Unmanage, NoCR
<1>12. CASE Finish
  <2>1. CASE cr.exists
    <3>1. /\ cr'.exists /\ cr'.cond = outcome /\ cr'.spec = cr.spec
          /\ cr'.deleting = cr.deleting
      BY <1>12, <2>1, <1>0 DEF Finish, CRs
    <3>2. outcome \in {"Synced", "Terminal"} \/ outcome \in Requeued
          \/ outcome = "Unknown"
      BY DEF TypeOK, Conditions, Requeued
    <3>3. QED
      BY <1>12, <2>1, <3>1, <3>2 DEF Finish, Requeued
  <2>2. CASE ~cr.exists
    BY <1>12, <2>2 DEF Finish
  <2>3. QED
    BY <2>1, <2>2
<1>13. QED
  BY <1>1, <1>2, <1>3, <1>4, <1>5, <1>6, <1>7, <1>8, <1>9, <1>10, <1>11, <1>12
     DEF Worker

LEMMA RestInvEnvironment ==
  ASSUME TypeOK, FinalizerInv, RestInv, Environment PROVE RestInv'
<1> USE DEF RestInv, NeverForgotten, Blocked, kubeVars, passVars
<1>0. /\ fn \in Functions /\ fn.cfg \in Configs /\ "csc" \in Fields
      /\ cr \in CRs /\ cr.exists \in BOOLEAN
  BY DEF TypeOK, Functions, CRs, Fields
<1>1. CASE CallFails
  BY <1>1 DEF CallFails, EndPass
<1>2. CASE Crash
  BY <1>2 DEF Crash
<1>3. CASE Resync
  BY <1>3 DEF Resync
<1>4. CASE UserApply \/ UserDelete \/ \E s \in Specs : UserEdit(s)
  BY <1>4 DEF UserApply, UserDelete, UserEdit
<1>5. CASE Settle \/ IdleOrWake \/ DriftAway \/ \E s \in Specs : Drift(s)
  <2>1. packageType = "Image" => fn'.cfg["csc"] = Nil
    <3>1. CASE Settle \/ IdleOrWake
      BY <1>0, <3>1 DEF Settle, IdleOrWake, NoFunction, Unset, Functions
    <3>2. CASE \E s \in Specs : Drift(s)
      BY <1>0, <3>2 DEF Drift, Functions
    <3>3. CASE DriftAway
      BY <1>0, <3>3 DEF DriftAway, NoFunction, Unset, Foreign
    <3>4. QED
      BY <1>5, <3>1, <3>2, <3>3
  <2>2. UNCHANGED <<kubeVars, packageType, passVars>>
    BY <1>5 DEF Settle, IdleOrWake, DriftAway, Drift
  <2>3. QED
    BY <2>1, <2>2
<1>6. QED
  BY <1>1, <1>2, <1>3, <1>4, <1>5 DEF Environment

LEMMA RestInvInductive ==
  /\ Init => RestInv
  /\ TypeOK /\ FinalizerInv /\ RestInv /\ [Next]_vars => RestInv'
<1>1. Init => RestInv
  <2> SUFFICES ASSUME Init PROVE RestInv
    OBVIOUS
  <2>1. fn.cfg["csc"] = Nil
    BY DEF Init, NoFunction, Unset, Foreign, Fields
  <2>2. QED
    BY <2>1 DEF Init, RestInv, NeverForgotten
<1>2. RestInv /\ UNCHANGED vars => RestInv'
  BY DEF RestInv, NeverForgotten, Blocked, vars, kubeVars, passVars
<1>3. QED
  BY <1>1, <1>2, RestInvWorker, RestInvEnvironment DEF Next

(* The controller never rests on unfinished work, for any number of edits, *)
(* faults and changes behind its back: a CR it will not look at again by   *)
(* itself is synced or reported Terminal, and one to be deleted is one     *)
(* whose code signing config keeps ReadOne from succeeding.                *)
THEOREM NothingIsForgotten == Spec => []NeverForgotten
<1>1. RestInv => NeverForgotten
  BY DEF RestInv
<1>2. QED
  BY <1>1, TypeCorrect, FinalizerInvInductive, RestInvInductive, PTL DEF Spec

-----------------------------------------------------------------------------
(* What a pass knows of the function.  Nobody else having changed it, it   *)
(* only changes where the worker writes, and a value that ReadOne reports  *)
(* to be as asked is so, or is one that ReadOne cannot report.             *)
Agrees(t, f, v, w) ==
  \/ v = w
  \/ f = "imageConfig"
  \/ f = "csc" /\ (t # "Zip" \/ v = Nil)
  \/ f \in OnlyWhenPresent /\ v = Nil

Applied(f, s) == Agrees(packageType, f, fn.cfg[f], s[f])

(* What Update may leave undone, and Create for the first read after it.   *)
Deferred(f) ==
  \/ f \in Configuration /\ "code" \in delta
  \/ f \in {"layers", "fileSystems"} /\ desired.spec[f] = Nil
Missing(f) == why = "created" /\ f \in {"concurrency", "eventInvoke"}

Mirror ==
  /\ fn.state = "Deleting" => cr.deleting /\ (pc # "idle" => why = "delete")
  /\ pc = "unmanage" => fn.state = "None"
  /\ pc = "fields" /\ why # "delete" =>
       latest.cfg = MergedConfiguration(desired.spec)
  /\ pc = "update" => \A f \in Fields \ left : Applied(f, desired.spec)
  /\ pc \in {"read", "fields", "writeback"} /\ why = "updated" =>
       \A f \in Fields : Applied(f, desired.spec) \/ Deferred(f)
  /\ pc = "writeback" =>
       \A f \in Fields :
         latest.cfg[f] = desired.spec[f] <=> Applied(f, desired.spec)
  /\ pc \in {"read", "fields"} /\ why = "created" =>
       \A f \in Fields : Applied(f, desired.spec) \/ Missing(f)
  /\ pc = "lateInit" \/ (pc = "finish" /\ outcome = "Synced") =>
       queued \/ \A f \in Fields : Applied(f, desired.spec) \/ Missing(f)
  /\ pc = "idle" /\ ~queued /\ cr.exists /\ cr.cond = "Synced" =>
       \A f \in Fields : Applied(f, cr.spec) \/ Missing(f)

MirrorInv == budget.drifts =< MaxDrifts /\ (NoDriftYet => Mirror)

(* What the two halves of ReadOne report to differ.                        *)
LEMMA ReadAgrees ==
  ASSUME TypeOK, latest.cfg = MergedConfiguration(desired.spec)
  PROVE  \A f \in Fields :
           WithAdditionalFields(latest.cfg)[f] = desired.spec[f]
             <=> Applied(f, desired.spec)
<1> DEFINE m == MergedConfiguration(desired.spec)
           s == desired.spec
           g == fn.cfg
<1>0. /\ s \in Configs /\ g \in Configs /\ m \in Configs
  BY MergedType DEF TypeOK, CRs, Functions
<1>1. \A f \in Fields :
        m[f] = IF \/ f = "imageConfig" \/ f \in AdditionalFields
                  \/ f \in OnlyWhenPresent /\ g[f] = Nil
               THEN s[f] ELSE g[f]
  BY DEF MergedConfiguration
<1>2. OnlyWhenPresent \cap {"csc", "concurrency", "eventInvoke"} = {}
  BY DEF OnlyWhenPresent
<1> SUFFICES ASSUME NEW f \in Fields
             PROVE  WithAdditionalFields(m)[f] = s[f]
                      <=> Agrees(packageType, f, g[f], s[f])
  BY DEF Applied
<1> HIDE DEF m
<1>3. CASE f \in {"concurrency", "eventInvoke"}
  BY <1>0, <1>2, <1>3 DEF WithAdditionalFields, Agrees, Configs, Fields
<1>4. CASE f = "csc"
  <2>1. m["csc"] = s["csc"]
    BY <1>1, <1>4 DEF AdditionalFields
  <2>2. WithAdditionalFields(m)["csc"] =
          IF packageType = "Zip" /\ g["csc"] # Nil THEN g["csc"] ELSE m["csc"]
    BY <1>0, <1>4 DEF WithAdditionalFields, Configs
  <2>3. QED
    BY <2>1, <2>2, <1>2, <1>4 DEF Agrees
<1>5. CASE f \notin AdditionalFields
  <2>1. WithAdditionalFields(m)[f] = m[f]
    BY <1>0, <1>5 DEF WithAdditionalFields, Configs, AdditionalFields
  <2>2. QED
    BY <2>1, <1>1, <1>5 DEF Agrees, AdditionalFields
<1>6. QED
  BY <1>3, <1>4, <1>5 DEF AdditionalFields

(* Only changes behind the controller's back spend what is left of them.   *)
LEMMA SpendKeeps ==
  ASSUME TypeOK, NEW k \in {"edits", "faults", "drifts"}, Spend(k),
         budget.drifts =< MaxDrifts
  PROVE  /\ budget'.drifts =< MaxDrifts
         /\ k # "drifts" => budget'.drifts = budget.drifts
         /\ k = "drifts" => budget'.drifts # MaxDrifts
<1>1. budget \in [{"edits", "faults", "drifts"} -> Nat] /\ MaxDrifts \in Nat
  BY BoundsAssumption DEF TypeOK
<1>2. budget' = [budget EXCEPT ![k] = budget[k] - 1] /\ budget[k] > 0
  BY DEF Spend
<1>3. CASE k = "drifts"
  <2>1. budget'.drifts = budget.drifts - 1 /\ budget.drifts \in Nat
    BY <1>1, <1>2, <1>3
  <2>2. QED
    BY <2>1, <1>1, <1>3
<1>4. CASE k # "drifts"
  <2>1. budget'.drifts = budget.drifts
    BY <1>1, <1>2, <1>4
  <2>2. QED
    BY <2>1, <1>4
<1>5. QED
  BY <1>3, <1>4

(* The steps that read the function, or find it gone.                      *)
LEMMA MirrorRead ==
  ASSUME TypeOK, FinalizerInv, RestInv, Mirror,
         Start \/ GetFunction \/ FunctionNotFound
           \/ SetResourceAdditionalFields
  PROVE  Mirror' /\ UNCHANGED budget
<1> USE DEF kubeVars
<1>0. UNCHANGED budget
  BY DEF Start, GetFunction, FunctionNotFound, SetResourceAdditionalFields
<1>1. CASE Start
  BY <1>1, <1>0 DEF Start, Mirror, Applied, Missing
<1>2. CASE GetFunction
  <2>1. /\ latest'.cfg = MergedConfiguration(desired.spec)'
        /\ pc = "read" /\ pc' = "fields"
        /\ UNCHANGED <<kubeVars, fn, packageType, why, desired, delta>>
    BY <1>2 DEF GetFunction, MergedConfiguration
  <2>2. QED
    BY <1>0, <2>1 DEF Mirror, Applied, Missing, Deferred
<1>3. CASE FunctionNotFound
  BY <1>3, <1>0 DEF FunctionNotFound, Mirror, Goto, EndPass
<1>4. CASE SetResourceAdditionalFields
  <2> DEFINE c == WithAdditionalFields(latest.cfg)
             d == Differing(desired.spec, c)
             go(l, todo) ==
               /\ pc' = l
               /\ latest' = [latest EXCEPT !.cfg = c]
               /\ delta' = todo
               /\ left' = todo
               /\ UNCHANGED <<why, desired, outcome>>
  <2>1. \/ EndPass("Recoverable") \/ EndPass("Terminal")
        \/ why = "created" /\ go("lateInit", {})
        \/ why = "updated" /\ go("writeback", delta)
        \/ why = "delete" /\ go("delete", {})
        \/ why = "sync" /\ d = {} /\ go("lateInit", {})
        \/ why = "sync" /\ go("update", d)
    BY <1>4 DEF SetResourceAdditionalFields
  <2>2. UNCHANGED <<cr, queued, fn, packageType>> /\ pc = "fields"
    BY <1>4 DEF SetResourceAdditionalFields
  <2>3. why # "delete" => \A f \in Fields : c[f] = desired.spec[f]
                                              <=> Applied(f, desired.spec)
    <3> SUFFICES ASSUME why # "delete"
                 PROVE  \A f \in Fields : c[f] = desired.spec[f]
                                            <=> Applied(f, desired.spec)
      OBVIOUS
    <3>1. latest.cfg = MergedConfiguration(desired.spec)
      BY <2>2 DEF Mirror
    <3>2. QED
      BY <3>1, ReadAgrees
  <2>4. \A f \in Fields \ d : c[f] = desired.spec[f]
    BY DEF Differing
  <2>5. latest \in [state : States, cfg : Configs]
    BY DEF TypeOK
  <2> HIDE DEF c, d
  <2>6. CASE EndPass("Recoverable") \/ EndPass("Terminal")
    BY <1>0, <2>2, <2>6 DEF Mirror, EndPass
  <2>7. CASE why = "created" /\ go("lateInit", {})
    BY <1>0, <2>2, <2>7 DEF Mirror, Applied, Missing
  <2>8. CASE why = "updated" /\ go("writeback", delta)
    BY <1>0, <2>2, <2>8, <2>3, <2>5 DEF Mirror, Applied, Deferred
  <2>9. CASE why = "delete" /\ go("delete", {})
    BY <1>0, <2>2, <2>9 DEF Mirror
  <2>10. CASE why = "sync" /\ d = {} /\ go("lateInit", {})
    BY <1>0, <2>2, <2>10, <2>3, <2>4 DEF Mirror, Applied
  <2>11. CASE why = "sync" /\ go("update", d)
    BY <1>0, <2>2, <2>11, <2>3, <2>4 DEF Mirror, Applied
  <2>12. QED
    BY <1>0, <2>1, <2>6, <2>7, <2>8, <2>9, <2>10, <2>11
<1>5. QED
  BY <1>0, <1>1, <1>2, <1>3, <1>4

LEMMA MirrorCreate ==
  ASSUME TypeOK, FinalizerInv, RestInv, Mirror, budget.drifts =< MaxDrifts,
         Manage \/ CreateFunction
  PROVE  Mirror' /\ budget'.drifts = budget.drifts
<1> USE DEF kubeVars
<1>0. /\ cr \in CRs /\ desired \in CRs /\ desired.spec \in Configs
  BY DEF TypeOK, CRs
<1>1. CASE Manage
  <2>1. cr'.deleting = cr.deleting
    BY <1>1, <1>0 DEF Manage, CRs
  <2>2. QED
    BY <1>1, <2>1 DEF Manage, Mirror, Goto, EndPass
<1>2. CASE CreateFunction
  <2>0. budget'.drifts = budget.drifts
    BY <1>2, SpendKeeps DEF CreateFunction
  <2>1. pc = "create" /\ why = "sync" /\ UNCHANGED <<cr, queued, packageType>>
    BY <1>2 DEF CreateFunction, RestInv
  <2>2. CASE EndPass("Recoverable") /\ fn' = fn
    BY <2>0, <2>1, <2>2 DEF Mirror, EndPass
  <2>3. CASE fn' = Created(desired.spec)
    <3> DEFINE c == [desired.spec EXCEPT !["concurrency"] = Nil,
                                         !["eventInvoke"] = Nil]
    <3>1. fn'.state = "Pending" /\ fn'.cfg = c
      BY <2>3 DEF Created
    <3>2. \A f \in Fields \ {"concurrency", "eventInvoke"} :
            c[f] = desired.spec[f]
      BY <1>0 DEF Configs
    <3>3. \/ EndPass("Recoverable")
          \/ pc' = "read" /\ why' = "created" /\ desired' = desired
      BY <1>2, <2>3, <2>1 DEF CreateFunction, CreateRefused, Created
    <3> HIDE DEF c
    <3>4. CASE EndPass("Recoverable")
      BY <2>0, <2>1, <3>1, <3>4 DEF Mirror, EndPass
    <3>5. CASE pc' = "read" /\ why' = "created" /\ desired' = desired
      BY <2>0, <2>1, <3>1, <3>2, <3>5 DEF Mirror, Applied, Missing, Agrees
    <3>6. QED
      BY <3>3, <3>4, <3>5
  <2>4. QED
    BY <1>2, <2>2, <2>3 DEF CreateFunction
<1>3. QED
  BY <1>1, <1>2

(* A call of Update: the fields outside done are as they were, those in    *)
(* done are as asked, and what is not done is still in the list or given   *)
(* up on.                                                                  *)
LEMMA MirrorCall ==
  ASSUME TypeOK, RestInv, Mirror, budget.drifts =< MaxDrifts, pc = "update",
         NEW c, NEW busy, NEW rest \in SUBSET left, Put(c, busy, rest),
         \A f \in Fields \ rest :
           \/ Agrees(packageType, f, c[f], desired.spec[f])
           \/ rest = {} /\ Deferred(f)
  PROVE  Mirror' /\ budget'.drifts = budget.drifts
<1>0. /\ budget'.drifts = budget.drifts
      /\ UNCHANGED <<cr, queued, packageType>>
  BY SpendKeeps DEF Put, kubeVars
<1>1. why = "sync"
  BY DEF RestInv
<1>2. fn' = [fn EXCEPT !.cfg = c, !.busy = busy] /\ Reachable
  BY DEF Put
<1>3. fn'.cfg = c /\ fn'.state = fn.state /\ fn.state # "Deleting"
  BY <1>2 DEF TypeOK, Functions, Reachable
<1>4. Proceed(rest) \/ EndPass("Recoverable")
  BY DEF Put
<1>5. CASE EndPass("Recoverable")
  BY <1>0, <1>3, <1>5 DEF Mirror, EndPass
<1>6. CASE Proceed(rest) /\ rest # {}
  <2>1. pc' = "update" /\ left' = rest /\ UNCHANGED <<why, desired>>
    BY <1>6 DEF Proceed
  <2>2. \A f \in Fields \ left' : Applied(f, desired.spec)'
    BY <1>0, <1>3, <1>6, <2>1 DEF Applied
  <2>3. QED
    BY <1>0, <1>1, <1>3, <2>1, <2>2 DEF Mirror
<1>7. CASE Proceed(rest) /\ rest = {}
  <2>1. pc' = "read" /\ why' = "updated" /\ UNCHANGED <<desired, delta>>
    BY <1>7 DEF Proceed
  <2>2. \A f \in Fields : Applied(f, desired.spec)' \/ Deferred(f)'
    BY <1>0, <1>3, <1>7, <2>1 DEF Applied, Deferred
  <2>3. QED
    BY <1>0, <1>3, <2>1, <2>2 DEF Mirror
<1>8. QED
  BY <1>4, <1>5, <1>6, <1>7

LEMMA MirrorPutField ==
  ASSUME TypeOK, RestInv, Mirror, budget.drifts =< MaxDrifts,
         NEW f \in Fields, Turn(f),
         PutField(f, desired.spec[f], left \ {f})
  PROVE  Mirror' /\ budget'.drifts = budget.drifts
<1> DEFINE c == [fn.cfg EXCEPT ![f] = desired.spec[f]]
<1>1. Put(c, fn.busy, left \ {f}) /\ pc = "update"
  BY DEF PutField, Turn
<1>2. fn.cfg \in Configs
  BY DEF TypeOK, Functions
<1>3. c[f] = desired.spec[f] /\ \A g \in Fields \ {f} : c[g] = fn.cfg[g]
  BY <1>2 DEF Configs
<1> HIDE DEF c
<1>4. \A g \in Fields \ left : Agrees(packageType, g, fn.cfg[g], desired.spec[g])
  BY <1>1 DEF Mirror, Applied
<1>5. \A g \in Fields \ (left \ {f}) :
        Agrees(packageType, g, c[g], desired.spec[g])
  <2> SUFFICES ASSUME NEW g \in Fields \ (left \ {f})
               PROVE  Agrees(packageType, g, c[g], desired.spec[g])
    OBVIOUS
  <2>1. CASE g = f
    BY <2>1, <1>3 DEF Agrees
  <2>2. CASE g # f
    BY <2>2, <1>3, <1>4
  <2>3. QED
    BY <2>1, <2>2
<1>6. QED
  BY <1>1, <1>5, MirrorCall

LEMMA MirrorUpdate ==
  ASSUME TypeOK, RestInv, Mirror, budget.drifts =< MaxDrifts, Update
  PROVE  Mirror' /\ budget'.drifts = budget.drifts
<1>0. /\ pc = "update" /\ why = "sync" /\ UNCHANGED <<cr, packageType>>
      /\ left \in SUBSET delta /\ left \in SUBSET Fields
      /\ fn \in Functions /\ fn.cfg \in Configs /\ desired.spec \in Configs
      /\ \A f \in Fields \ left :
           Agrees(packageType, f, fn.cfg[f], desired.spec[f])
      /\ {} \in SUBSET left
  BY UpdateSteps DEF RestInv, TypeOK, Functions, CRs, Mirror, Applied
<1>1. CASE UntagResource
  <2>1. /\ fn' = [fn EXCEPT !.cfg["tags"] = Nil] /\ queued' = queued
        /\ Reachable
    BY <1>1 DEF UntagResource, kubeVars
  <2>2. /\ fn'.state = fn.state /\ fn.state # "Deleting"
        /\ fn'.cfg["tags"] = Nil
        /\ \A f \in Fields \ {"tags"} : fn'.cfg[f] = fn.cfg[f]
    BY <2>1, <1>0 DEF Functions, Configs, Reachable, Fields
  <2>3. budget'.drifts = budget.drifts
    BY <1>1, SpendKeeps DEF UntagResource
  <2>4. CASE desired.spec["tags"] = Nil /\ Proceed(left \ {"tags"})
    <3>1. \A f \in Fields \ (left \ {"tags"}) :
            Agrees(packageType, f, fn'.cfg[f], desired.spec[f])
      <4> SUFFICES ASSUME NEW f \in Fields \ (left \ {"tags"})
                   PROVE  Agrees(packageType, f, fn'.cfg[f], desired.spec[f])
        OBVIOUS
      <4>1. CASE f = "tags"
        BY <4>1, <2>2, <2>4 DEF Agrees
      <4>2. CASE f # "tags"
        BY <4>2, <2>2, <1>0
      <4>3. QED
        BY <4>1, <4>2
    <3>2. \/ /\ pc' = "update" /\ left' = left \ {"tags"}
             /\ UNCHANGED <<why, desired>>
          \/ /\ left \ {"tags"} = {} /\ pc' = "read" /\ why' = "updated"
             /\ UNCHANGED desired
      BY <2>4, <1>0 DEF Proceed
    <3>3. QED
      BY <1>0, <2>1, <2>2, <2>3, <3>1, <3>2 DEF Mirror, Applied
  <2>5. CASE UNCHANGED <<pc, why, desired, delta, left, outcome>>
    <3>1. "tags" \in left
      BY <1>1 DEF UntagResource, Turn
    <3>2. \A f \in Fields \ left :
            Agrees(packageType, f, fn'.cfg[f], desired.spec[f])
      BY <3>1, <2>2, <1>0
    <3>3. QED
      BY <1>0, <2>1, <2>2, <2>3, <2>5, <3>2 DEF Mirror, Applied
  <2>6. CASE EndPass("Recoverable")
    BY <1>0, <2>1, <2>2, <2>3, <2>6 DEF Mirror, EndPass
  <2>7. QED
    BY <1>1, <2>4, <2>5, <2>6 DEF UntagResource
<1>2. CASE TagResource
  BY <1>2, MirrorPutField DEF TagResource, Fields
<1>3. CASE TagsPanic
  BY <1>3, <1>0 DEF TagsPanic, Mirror
<1>4. CASE UpdateFunctionConcurrency
  BY <1>4, MirrorPutField DEF UpdateFunctionConcurrency, Fields
<1>5. CASE SyncFunctionEventInvokeConfig
  BY <1>5, MirrorPutField DEF SyncFunctionEventInvokeConfig, Fields
<1>6. CASE UpdateFunctionCodeSigningConfig
  BY <1>6, MirrorPutField DEF UpdateFunctionCodeSigningConfig, Fields
<1>7. CASE TagsRefused \/ RefuseTenancy \/ UpdateRefused
  <2>1. /\ UNCHANGED <<fn, budget, why, queued>> /\ pc' = "finish"
        /\ outcome' # "Synced"
    BY <1>7 DEF TagsRefused, RefuseTenancy, UpdateRefused, EndPass, kubeVars
  <2>2. QED
    BY <1>0, <2>1 DEF Mirror
<1>8. CASE UpdateFunctionCode
  <2> DEFINE c == [fn.cfg EXCEPT !["code"] = desired.spec["code"]]
  <2>1. Put(c, TRUE, {}) /\ Turn("code")
    BY <1>8 DEF UpdateFunctionCode
  <2>2. /\ c["code"] = desired.spec["code"]
        /\ \A f \in Fields \ {"code"} : c[f] = fn.cfg[f]
    BY <1>0 DEF Configs, Fields
  <2> HIDE DEF c
  <2>3. "code" \in delta /\ left \subseteq Configuration \cup {"code"}
    <3>1. "code" \in left /\ \A g \in left : Rank["code"] =< Rank[g]
      BY <2>1 DEF Turn
    <3>2. \A g \in Fields : Rank["code"] =< Rank[g]
                              => g \in Configuration \cup {"code"}
      BY DEF Rank, Fields, Configuration
    <3>3. QED
      BY <3>1, <3>2, <1>0
  <2>4. \A f \in Fields :
          \/ Agrees(packageType, f, c[f], desired.spec[f])
          \/ Deferred(f)
    <3> SUFFICES ASSUME NEW f \in Fields, ~Deferred(f)
                 PROVE  Agrees(packageType, f, c[f], desired.spec[f])
      OBVIOUS
    <3>1. f \notin Configuration
      BY <2>3 DEF Deferred
    <3>2. CASE f = "code"
      BY <3>2, <2>2 DEF Agrees
    <3>3. CASE f # "code"
      BY <3>1, <3>3, <2>2, <2>3, <1>0
    <3>4. QED
      BY <3>2, <3>3
  <2>5. QED
    BY <1>0, <2>1, <2>4, MirrorCall
<1>9. CASE UpdateFunctionConfiguration
  <2> DEFINE c == [f \in Fields |->
                     IF f \in left /\ (f = "config" \/ desired.spec[f] # Nil)
                     THEN desired.spec[f] ELSE fn.cfg[f]]
  <2>1. Put(c, TRUE, {}) /\ left \subseteq Configuration
    BY <1>9 DEF UpdateFunctionConfiguration
  <2>2. \A f \in Fields :
          \/ Agrees(packageType, f, c[f], desired.spec[f])
          \/ Deferred(f)
    <3> SUFFICES ASSUME NEW f \in Fields, ~Deferred(f)
                 PROVE  Agrees(packageType, f, c[f], desired.spec[f])
      OBVIOUS
    <3>1. CASE f \notin left
      BY <3>1, <1>0
    <3>2. CASE f \in left /\ (f = "config" \/ desired.spec[f] # Nil)
      BY <3>2 DEF Agrees
    <3>3. CASE f \in left /\ f # "config" /\ desired.spec[f] = Nil
      BY <3>3, <2>1 DEF Agrees, Deferred, Configuration
    <3>4. QED
      BY <3>1, <3>2, <3>3
  <2> HIDE DEF c
  <2>3. QED
    BY <1>0, <2>1, <2>2, MirrorCall
<1>10. QED
  BY <1>1, <1>2, <1>3, <1>4, <1>5, <1>6, <1>7, <1>8, <1>9 DEF Update

(* No step of Update is a change behind the controller's back.             *)
LEMMA UpdateDrifts ==
  ASSUME TypeOK, budget.drifts =< MaxDrifts, Update
  PROVE  budget'.drifts = budget.drifts
BY SpendKeeps
   DEF Update, UntagResource, TagResource, TagsPanic, TagsRefused,
       UpdateFunctionConcurrency, SyncFunctionEventInvokeConfig,
       UpdateFunctionCodeSigningConfig, RefuseTenancy, UpdateFunctionCode,
       UpdateFunctionConfiguration, UpdateRefused, PutField, Put

LEMMA MirrorEnd ==
  ASSUME TypeOK, FinalizerInv, RestInv, Mirror,
         WriteBack \/ LateInitialize \/ DeleteFunction \/ Unmanage \/ Finish
  PROVE  Mirror' /\ UNCHANGED budget
<1> USE DEF kubeVars
<1>0. /\ cr \in CRs /\ fn \in Functions /\ latest.cfg \in Configs
      /\ UNCHANGED <<budget, packageType>>
      /\ cr.spec \in Configs /\ desired.spec \in Configs
  BY DEF TypeOK, CRs, WriteBack, LateInitialize, DeleteFunction, Unmanage,
         Finish
<1>1. CASE WriteBack
  <2> DEFINE s == [f \in Fields |-> IF f \in Overwritten
                                    THEN latest.cfg[f] ELSE cr.spec[f]]
  <2>1. /\ pc = "writeback" /\ pc' = "lateInit" /\ why = "updated"
        /\ cr' = [cr EXCEPT !.spec = s] /\ queued' = (queued \/ cr'.spec # cr.spec)
        /\ UNCHANGED <<fn, desired, why>>
    BY <1>1 DEF WriteBack, Goto, RestInv
  <2>2. cr'.spec = s /\ cr'.deleting = cr.deleting
    BY <1>0, <2>1 DEF CRs
  <2>3. ASSUME ~queued', NEW f \in Fields
        PROVE  Applied(f, desired.spec)
    <3>1. s = cr.spec /\ cr.spec = desired.spec
      BY <2>1, <2>2, <2>3 DEF RestInv, TypeOK
    <3>2. f \in Overwritten => latest.cfg[f] = desired.spec[f]
      BY <3>1
    <3>3. latest.cfg[f] = desired.spec[f] \/ f = "code"
      BY <3>2 DEF Overwritten, Differing
    <3>4. CASE latest.cfg[f] = desired.spec[f]
      BY <3>4, <2>1 DEF Mirror
    <3>5. CASE f = "code"
      BY <3>5, <2>1 DEF Mirror, Deferred, Configuration
    <3>6. QED
      BY <3>3, <3>4, <3>5
  <2> HIDE DEF s
  <2>4. queued' \/ \A f \in Fields : Applied(f, desired.spec)
    BY <2>3
  <2>5. QED
    BY <1>0, <2>1, <2>2, <2>4 DEF Mirror, Applied
<1>2. CASE LateInitialize
  BY <1>0, <1>2 DEF LateInitialize, EndPass, Mirror, Applied, Missing
<1>3. CASE DeleteFunction
  <2>1. /\ cr.deleting /\ why = "delete" /\ pc' = "finish"
        /\ outcome' = "Recoverable" /\ UNCHANGED <<cr, queued, why>>
    BY <1>3 DEF DeleteFunction, EndPass, RestInv, FinalizerInv
  <2>2. QED
    BY <1>0, <2>1 DEF Mirror
<1>4. CASE Unmanage
  BY <1>0, <1>4 DEF Unmanage, Mirror, NoCR
<1>5. CASE Finish
  <2>1. CASE cr.exists
    <3>1. /\ cr'.cond = outcome /\ cr'.spec = cr.spec
          /\ cr'.deleting = cr.deleting
      BY <1>0, <1>5, <2>1 DEF Finish, CRs
    <3>2. /\ pc = "finish" /\ pc' = "idle" /\ UNCHANGED <<fn, why>>
          /\ queued' = (queued \/ outcome \in Requeued)
      BY <1>5, <2>1 DEF Finish
    <3>3. ~queued' => ~queued /\ cr.spec = desired.spec
      BY <3>2 DEF RestInv, TypeOK
    <3>4. QED
      BY <1>0, <3>1, <3>2, <3>3 DEF Mirror, Applied, Missing
  <2>2. CASE ~cr.exists
    BY <1>0, <1>5, <2>2 DEF Finish, Mirror
  <2>3. QED
    BY <2>1, <2>2
<1>6. QED
  BY <1>1, <1>2, <1>3, <1>4, <1>5

LEMMA MirrorEnvironment ==
  ASSUME TypeOK, FinalizerInv, RestInv, MirrorInv, Environment
  PROVE  MirrorInv'
<1> USE DEF kubeVars, passVars
<1>0. /\ cr \in CRs /\ fn \in Functions /\ cr.exists \in BOOLEAN
      /\ budget.drifts =< MaxDrifts
  BY DEF TypeOK, CRs, MirrorInv
<1>1. CASE IdleOrWake \/ DriftAway \/ \E s \in Specs : Drift(s)
  <2>1. Spend("drifts")
    BY <1>1 DEF IdleOrWake, DriftAway, Drift
  <2>2. QED
    BY <2>1, <1>0, SpendKeeps DEF MirrorInv, NoDriftYet
<1>2. ASSUME budget'.drifts = budget.drifts, Mirror => Mirror'
      PROVE  MirrorInv'
  BY <1>2 DEF MirrorInv, NoDriftYet
<1>3. CASE CallFails
  <2>1. budget'.drifts = budget.drifts
    BY <1>0, <1>3, SpendKeeps DEF CallFails
  <2>2. Mirror => Mirror'
    BY <1>3 DEF CallFails, EndPass, Mirror
  <2>3. QED
    BY <1>2, <2>1, <2>2
<1>4. CASE Crash
  <2>1. budget'.drifts = budget.drifts
    BY <1>0, <1>4, SpendKeeps DEF Crash
  <2>2. Mirror => Mirror'
    BY <1>4 DEF Crash, Mirror
  <2>3. QED
    BY <1>2, <2>1, <2>2
<1>5. CASE Resync
  <2>1. Mirror => Mirror'
    BY <1>5 DEF Resync, Mirror
  <2>2. QED
    BY <1>2, <1>5, <2>1 DEF Resync
<1>6. CASE UserApply \/ UserDelete \/ \E s \in Specs : UserEdit(s)
  <2>1. budget'.drifts = budget.drifts
    BY <1>0, <1>6, SpendKeeps DEF UserApply, UserDelete, UserEdit
  <2>2. /\ UNCHANGED <<fn, packageType, passVars>> /\ queued'
        /\ cr.deleting => cr'.deleting
    BY <1>0, <1>6 DEF UserApply, UserDelete, UserEdit, FinalizerInv, CRs
  <2>3. Mirror => Mirror'
    BY <2>2 DEF Mirror, Applied, Missing, Deferred, MergedConfiguration
  <2>4. QED
    BY <1>2, <2>1, <2>3
<1>7. CASE Settle
  <2>1. UNCHANGED <<cr, queued, packageType, passVars, budget>>
    BY <1>7 DEF Settle
  <2>2. CASE fn.state = "Deleting"
    <3>1. fn'.state # "Deleting" /\ fn'.state = "None"
      BY <1>7, <2>2 DEF Settle, NoFunction
    <3>2. pc = "idle" /\ ~queued /\ cr.exists /\ cr.deleting
            => cr.cond # "Synced"
      BY DEF RestInv, NeverForgotten
    <3>3. Mirror => Mirror'
      <4> SUFFICES ASSUME Mirror PROVE Mirror'
        OBVIOUS
      <4>1. cr.deleting /\ (pc # "idle" => why = "delete")
        BY <2>2 DEF Mirror
      <4>2. pc = "finish" => outcome # "Synced"
        BY <4>1 DEF RestInv
      <4>3. pc \notin {"update", "writeback", "lateInit"}
        BY <4>1 DEF RestInv
      <4>4. QED
        BY <2>1, <3>1, <3>2, <4>1, <4>2, <4>3 DEF Mirror
    <3>4. QED
      BY <1>2, <2>1, <3>3
  <2>3. CASE fn.state # "Deleting"
    <3>1. fn'.cfg = fn.cfg /\ fn'.state # "Deleting"
          /\ (fn.state = "None" => fn'.state = "None")
      BY <1>0, <1>7, <2>3 DEF Settle, Functions
    <3>2. Mirror => Mirror'
      BY <2>1, <3>1 DEF Mirror, Applied, Missing, Deferred, MergedConfiguration
    <3>3. QED
      BY <1>2, <2>1, <3>2
  <2>4. QED
    BY <2>2, <2>3
<1>8. QED
  BY <1>1, <1>3, <1>4, <1>5, <1>6, <1>7 DEF Environment

LEMMA MirrorInvInductive ==
  /\ Init => MirrorInv
  /\ TypeOK /\ FinalizerInv /\ RestInv /\ MirrorInv /\ [Next]_vars
       => MirrorInv'
<1>1. Init => MirrorInv
  <2> SUFFICES ASSUME Init PROVE MirrorInv
    OBVIOUS
  <2>1. pc = "idle" /\ queued /\ fn.state # "Deleting"
    BY DEF Init, NoFunction, Foreign
  <2>2. budget.drifts =< MaxDrifts
    BY BoundsAssumption DEF Init
  <2>3. QED
    BY <2>1, <2>2 DEF MirrorInv, Mirror
<1>2. ASSUME TypeOK, FinalizerInv, RestInv, MirrorInv, Worker
      PROVE  MirrorInv'
  <2>1. budget.drifts =< MaxDrifts
    BY <1>2 DEF MirrorInv
  <2>2. budget'.drifts = budget.drifts
    <3>1. CASE Update
      BY <1>2, <2>1, <3>1, UpdateDrifts
    <3>2. CASE CreateFunction
      BY <1>2, <2>1, <3>2, SpendKeeps DEF CreateFunction
    <3>3. CASE ~Update /\ ~CreateFunction
      BY <1>2, <3>3
         DEF Worker, Start, GetFunction, FunctionNotFound,
             SetResourceAdditionalFields, Manage, WriteBack, LateInitialize,
             DeleteFunction, Unmanage, Finish
    <3>4. QED
      BY <3>1, <3>2, <3>3
  <2>3. Mirror => Mirror'
    <3>1. CASE \/ Start \/ GetFunction \/ FunctionNotFound
               \/ SetResourceAdditionalFields
      BY <1>2, <3>1, MirrorRead
    <3>2. CASE Manage \/ CreateFunction
      BY <1>2, <2>1, <3>2, MirrorCreate
    <3>3. CASE Update
      BY <1>2, <2>1, <3>3, MirrorUpdate
    <3>4. CASE \/ WriteBack \/ LateInitialize \/ DeleteFunction \/ Unmanage
               \/ Finish
      BY <1>2, <3>4, MirrorEnd
    <3>5. QED
      BY <1>2, <3>1, <3>2, <3>3, <3>4 DEF Worker
  <2>4. QED
    BY <1>2, <2>1, <2>2, <2>3 DEF MirrorInv, NoDriftYet
<1>3. MirrorInv /\ UNCHANGED vars => MirrorInv'
  BY DEF MirrorInv, NoDriftYet, Mirror, Applied, Missing, Deferred,
         MergedConfiguration, vars, kubeVars, passVars
<1>4. QED
  BY <1>1, <1>2, <1>3, MirrorEnvironment DEF Next

(* When the controller rests with the Synced condition, the function has   *)
(* what the CR's spec says, but for the values ReadOne cannot see and      *)
(* those that Create leaves to a later pass, for any specs and bounds.     *)
THEOREM SyncedIsApplied == Spec => []SyncedMeansApplied
<1>1. TypeOK /\ RestInv /\ MirrorInv => SyncedMeansApplied
  <2> SUFFICES ASSUME TypeOK, RestInv, MirrorInv, NoDriftYet, pc = "idle",
                      ~queued, cr.exists, cr.cond = "Synced",
                      NEW f \in Fields
               PROVE  \/ fn.cfg[f] = cr.spec[f]
                      \/ Blind(f)
                      \/ why = "created" /\ f \in {"concurrency", "eventInvoke"}
    BY DEF SyncedMeansApplied
  <2>1. Applied(f, cr.spec) \/ Missing(f)
    BY DEF MirrorInv, Mirror
  <2>2. packageType \in {"Zip", "Image"}
    BY PackageTypesAssumption DEF TypeOK
  <2>3. packageType = "Image" => fn.cfg["csc"] = Nil
    BY DEF RestInv
  <2>4. QED
    BY <2>1, <2>2, <2>3 DEF Applied, Agrees, Missing, Blind
<1>2. QED
  BY <1>1, TypeCorrect, FinalizerInvInductive, RestInvInductive,
     MirrorInvInductive, PTL DEF Spec

(* Without users' edits and changes behind its back, the controller never  *)
(* changes a value of the CR's spec, except one of the two kinds that      *)
(* Update leaves undone, for any specs and bounds.                         *)
THEOREM NothingElseIsOverwritten == Spec => OverwritesAreKnown
<1> DEFINE Known ==
      NoDriftYet /\ cr.exists /\ cr'.exists /\ budget'.edits = budget.edits
        => \A f \in Fields : cr'.spec[f] # cr.spec[f] =>
             \/ f \in Configuration /\ "code" \in delta
             \/ f \in {"layers", "fileSystems"} /\ desired.spec[f] = Nil
<1>1. TypeOK /\ RestInv /\ MirrorInv /\ Next => Known
  <2> SUFFICES ASSUME TypeOK, RestInv, MirrorInv, Next, NoDriftYet, cr.exists,
                      cr'.exists, budget'.edits = budget.edits,
                      NEW f \in Fields, cr'.spec[f] # cr.spec[f]
               PROVE  Deferred(f)
    BY DEF Deferred
  <2>0. cr \in CRs /\ Mirror
    BY DEF TypeOK, MirrorInv
  <2>1. CASE WriteBack
    <3>1. pc = "writeback" /\ f \in Overwritten
      BY <2>0, <2>1 DEF WriteBack, CRs
    <3>2. latest.cfg[f] # desired.spec[f] /\ why = "updated"
      BY <3>1 DEF Overwritten, Differing, RestInv
    <3>3. QED
      BY <2>0, <3>1, <3>2 DEF Mirror
  <2>2. CASE UserApply \/ UserDelete \/ \E s \in Specs : UserEdit(s)
    BY <2>2 DEF UserApply, UserDelete, UserEdit, Spend, TypeOK
  <2>3. CASE Update
    BY <2>3, UpdateSteps
  <2>4. CASE Manage \/ Finish
    BY <2>0, <2>4 DEF Manage, Finish, kubeVars, CRs
  <2>5. CASE Unmanage
    BY <2>5 DEF Unmanage, NoCR
  <2>6. CASE \/ Start \/ GetFunction \/ FunctionNotFound
             \/ SetResourceAdditionalFields \/ CreateFunction
             \/ LateInitialize \/ DeleteFunction
    BY <2>6 DEF Start, GetFunction, FunctionNotFound, CreateFunction,
       SetResourceAdditionalFields, LateInitialize, DeleteFunction, kubeVars
  <2>7. CASE \/ CallFails \/ Crash \/ Resync \/ Settle \/ IdleOrWake
             \/ DriftAway \/ \E s \in Specs : Drift(s)
    BY <2>7 DEF CallFails, Crash, Resync, Settle, IdleOrWake, DriftAway, Drift,
       kubeVars
  <2>8. QED
    BY <2>1, <2>2, <2>3, <2>4, <2>5, <2>6, <2>7 DEF Next, Worker, Environment
<1>2. TypeOK /\ RestInv /\ MirrorInv /\ [Next]_vars => [Known]_vars
  BY <1>1
<1>3. QED
  BY <1>2, TypeCorrect, FinalizerInvInductive, RestInvInductive,
     MirrorInvInductive, PTL DEF Spec, OverwritesAreKnown
=============================================================================
