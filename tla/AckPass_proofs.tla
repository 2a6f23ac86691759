--------------------------- MODULE AckPass_proofs ---------------------------
(***************************************************************************)
(* What AckPass keeps true of the CRs and of the passes over them, for any *)
(* kind, and that no CR is forgotten: lemmas that the proofs about the     *)
(* kinds share.                                                            *)
(***************************************************************************)
EXTENDS AckPass, FiniteSets, FiniteSetTheorems, TLAPS

(* A CR with specs from S and statuses from T. It is held by its finalizer *)
(* from the moment its deletion is asked for.                              *)
SoundCR(c, S, T) ==
  /\ c \in CRs(S, T)
  /\ c.finalizer => c.exists
  /\ c.deleting => c.finalizer

(* What a pass p over a CR c knows: a finalizer that it has seen is there  *)
(* until the pass itself removes it, and so is a deletion that it has seen.*)
(* L are the locations of the kind, and those in Held are only reached with*)
(* the finalizer.                                                          *)
SoundPass(p, c, L, Held, S, T) ==
  /\ DOMAIN p = DOMAIN IdlePass
  /\ p.pc \in L /\ p.why \in Purposes /\ p.outcome \in Conditions
  /\ p.desired \in CRs(S, T)
  /\ p.latest \in [spec : S \cup {Nil}, status : T \cup {Nil}]
  /\ p.pc # "idle" =>
       /\ p.desired.exists
       /\ p.latest.spec \in S /\ p.latest.status \in T
       /\ p.desired.finalizer => c.finalizer
       /\ p.why = "delete" => c.deleting
       /\ p.why \in {"created", "updated"} => c.finalizer
       /\ p.pc \in Held => c.finalizer
       /\ p.pc = "unmanage" => p.why = "delete"

PassInv(L, Held, S, T) ==
  /\ DOMAIN cr = Key /\ cr = [k \in Key |-> cr[k]]
  /\ DOMAIN pass = Key /\ pass = [k \in Key |-> pass[k]]
  /\ \A k \in Key : /\ SoundCR(cr[k], S, T)
                    /\ SoundPass(pass[k], cr[k], L, Held, S, T)
  /\ queued \subseteq Key
  /\ spent \in Counts

(* Where the passes of every kind begin, and what they have in common.     *)
Common(L, Held) ==
  /\ {"idle", "read", "manage", "create", "unmanage", "finish"} \subseteq L
  /\ Held \cap {"idle", "read", "manage", "unmanage", "finish"} = {}

-----------------------------------------------------------------------------
LEMMA InvGivesType ==
  ASSUME NEW L, NEW Held, NEW S, NEW T, PassInv(L, Held, S, T)
  PROVE  PassTypeOK(L, S, T)
<1>1. cr \in [Key -> CRs(S, T)]
  BY DEF PassInv, SoundCR
<1>2. QED
  BY <1>1 DEF PassInv, SoundPass, PassTypeOK

LEMMA ExistingCR ==
  ASSUME NEW S, NEW T, NEW c \in CRs(S, T), c.exists
  PROVE  /\ c \in [exists : {TRUE}, spec : S, status : T, deleting : BOOLEAN,
                   finalizer : BOOLEAN, cond : Conditions]
         /\ c.spec \in S /\ c.status \in T
         /\ c.deleting \in BOOLEAN /\ c.finalizer \in BOOLEAN
<1>1. ~NoCR.exists
  BY DEF NoCR
<1>2. QED
  BY <1>1 DEF CRs

LEMMA AbsentCR ==
  ASSUME NEW S, NEW T, NEW c \in CRs(S, T), ~c.exists
  PROVE  c = NoCR /\ c.status = Nil /\ c.finalizer = FALSE
<1>1. \A d \in [exists : {TRUE}, spec : S, status : T, deleting : BOOLEAN,
               finalizer : BOOLEAN, cond : Conditions] : d.exists
  OBVIOUS
<1>2. c = NoCR
  BY <1>1 DEF CRs
<1>3. QED
  BY <1>2 DEF NoCR

LEMMA IdleIsSound ==
  ASSUME NEW L, NEW Held, NEW S, NEW T, NEW c, "idle" \in L
  PROVE  SoundPass(IdlePass, c, L, Held, S, T)
BY DEF SoundPass, IdlePass, NoCR, CRs, Purposes, Conditions

LEMMA NoCRIsSound == ASSUME NEW S, NEW T PROVE SoundCR(NoCR, S, T)
BY DEF SoundCR, NoCR, CRs

LEMMA FreshIsSound ==
  ASSUME NEW S, NEW T, NEW s \in S, NEW t \in T
  PROVE  SoundCR(FreshCR(s, t), S, T) /\ ~FreshCR(s, t).finalizer
BY DEF SoundCR, FreshCR, CRs, Conditions

LEMMA SpendType ==
  ASSUME spent \in Counts,
         NEW b \in {"edits", "faults", "drifts", "overlaps"}, Spend(b)
  PROVE  spent' \in Counts
BY DEF Spend, Counts

LEMMA InitInv ==
  ASSUME NEW L, NEW Held, NEW S, NEW T, NEW W, W \subseteq S, NEW t \in T,
         "idle" \in L, PassInit(W, t)
  PROVE  PassInv(L, Held, S, T)
<1>1. \A k \in Key : SoundCR(cr[k], S, T)
  BY FreshIsSound DEF PassInit
<1>2. \A k \in Key : SoundPass(pass[k], cr[k], L, Held, S, T)
  BY IdleIsSound DEF PassInit
<1>3. spent \in Counts
  BY DEF PassInit, Counts
<1>4. QED
  BY <1>1, <1>2, <1>3 DEF PassInit, PassInv

(* A step of the pass of k changes the pass and the CR of k at most.       *)
LEMMA StepOfOne ==
  ASSUME NEW L, NEW Held, NEW S, NEW T, PassInv(L, Held, S, T),
         NEW k \in Key, NEW p, NEW c,
         SoundCR(c, S, T), SoundPass(p, c, L, Held, S, T),
         pass' = [pass EXCEPT ![k] = p], cr' = [cr EXCEPT ![k] = c],
         queued' \subseteq Key, spent' \in Counts
  PROVE  PassInv(L, Held, S, T)'
BY DEF PassInv

(* Most steps change the pass only.                                        *)
LEMMA StepOfPass ==
  ASSUME NEW L, NEW Held, NEW S, NEW T, PassInv(L, Held, S, T),
         NEW k \in Key, NEW p, SoundPass(p, cr[k], L, Held, S, T),
         pass' = [pass EXCEPT ![k] = p], UNCHANGED <<cr, queued>>,
         spent' \in Counts
  PROVE  PassInv(L, Held, S, T)'
BY DEF PassInv

LEMMA NoStep ==
  ASSUME NEW L, NEW Held, NEW S, NEW T, PassInv(L, Held, S, T),
         UNCHANGED <<cr, pass>>, queued' \subseteq Key, spent' \in Counts
  PROVE  PassInv(L, Held, S, T)'
BY DEF PassInv

LEMMA EndIsSound ==
  ASSUME NEW L, NEW Held, NEW S, NEW T, NEW p, NEW c, Common(L, Held),
         SoundPass(p, c, L, Held, S, T), p.pc # "idle", NEW o \in Conditions
  PROVE  SoundPass([p EXCEPT !.pc = "finish", !.outcome = o], c, L, Held, S, T)
BY DEF SoundPass, IdlePass, Common

(* A pass of which only the location changes.                              *)
LEMMA MovedIsSound ==
  ASSUME NEW L, NEW Held, NEW S, NEW T, NEW p, NEW c,
         SoundPass(p, c, L, Held, S, T), p.pc # "idle",
         NEW l \in L, l \in Held => c.finalizer,
         l = "unmanage" => p.why = "delete"
  PROVE  SoundPass([p EXCEPT !.pc = l], c, L, Held, S, T)
BY DEF SoundPass, IdlePass

(* One that has read an answer into its copy, and then moves.              *)
LEMMA FilledIsSound ==
  ASSUME NEW L, NEW Held, NEW S, NEW T, NEW p, NEW c,
         SoundPass(p, c, L, Held, S, T), p.pc # "idle",
         NEW l \in L, l \in Held => c.finalizer, l # "unmanage",
         NEW o \in Conditions, NEW s \in S
  PROVE  SoundPass([p EXCEPT !.pc = l, !.outcome = o, !.latest.spec = s],
                   c, L, Held, S, T)
<1> DEFINE q == [p EXCEPT !.pc = l, !.outcome = o, !.latest.spec = s]
<1>1. /\ p.latest \in [spec : S \cup {Nil}, status : T \cup {Nil}]
      /\ DOMAIN p = DOMAIN IdlePass
  BY DEF SoundPass
<1>2. [p.latest EXCEPT !.spec = s] = [spec |-> s, status |-> p.latest.status]
  BY <1>1
<1>3. /\ q.pc = l /\ q.outcome = o /\ q.why = p.why /\ q.desired = p.desired
      /\ q.latest = [spec |-> s, status |-> p.latest.status]
      /\ DOMAIN q = DOMAIN p
  BY <1>1, <1>2 DEF IdlePass
<1> HIDE DEF q
<1>4. QED
  BY <1>1, <1>3 DEF SoundPass

(* One that has got an answer of Create or Update.                         *)
LEMMA AnsweredIsSound ==
  ASSUME NEW L, NEW Held, NEW S, NEW T, NEW p, NEW c,
         SoundPass(p, c, L, Held, S, T), p.pc # "idle", c.finalizer,
         NEW q, DOMAIN q = DOMAIN p, q.pc \in L, q.pc # "unmanage",
         q.why \in {"created", "updated", p.why}, q.desired = p.desired,
         q.outcome = p.outcome, q.latest \in [spec : S, status : T]
  PROVE  SoundPass(q, c, L, Held, S, T)
BY DEF SoundPass, Purposes

(* The CR changes under a pass, but keeps its finalizer and its deletion.  *)
LEMMA KeptIsSound ==
  ASSUME NEW L, NEW Held, NEW S, NEW T, NEW p, NEW c, NEW d,
         SoundPass(p, c, L, Held, S, T),
         c.finalizer => d.finalizer, c.deleting => d.deleting
  PROVE  SoundPass(p, d, L, Held, S, T)
BY DEF SoundPass

LEMMA RespecIsCR ==
  ASSUME NEW S, NEW T, NEW c \in CRs(S, T), c.exists, NEW s \in S
  PROVE  LET d == [c EXCEPT !.spec = s] IN
         /\ d \in CRs(S, T) /\ d.exists /\ d.spec = s /\ d.status = c.status
         /\ d.finalizer = c.finalizer /\ d.deleting = c.deleting
<1>1. c \in [exists : {TRUE}, spec : S, status : T, deleting : BOOLEAN,
             finalizer : BOOLEAN, cond : Conditions]
  BY ExistingCR
<1>2. QED
  BY <1>1 DEF CRs

LEMMA EditedIsSound ==
  ASSUME NEW S, NEW T, NEW c, SoundCR(c, S, T), c.exists, NEW s \in S
  PROVE  LET d == [c EXCEPT !.spec = s] IN
         /\ SoundCR(d, S, T)
         /\ d.finalizer = c.finalizer /\ d.deleting = c.deleting
         /\ d.exists /\ d.status = c.status /\ d.spec = s
BY RespecIsCR DEF SoundCR

-----------------------------------------------------------------------------
(* The steps that all kinds share keep PassInv.                            *)

LEMMA EndPassStep ==
  ASSUME NEW L, NEW Held, NEW S, NEW T, PassInv(L, Held, S, T), Common(L, Held),
         NEW k \in Key, ~Idle(k), NEW o \in Conditions, EndPass(k, o),
         UNCHANGED <<cr, queued>>, spent' \in Counts
  PROVE  PassInv(L, Held, S, T)'
<1> DEFINE p == [pass[k] EXCEPT !.pc = "finish", !.outcome = o]
<1>1. pass' = [pass EXCEPT ![k] = p]
  BY DEF EndPass, PassInv
<1>2. SoundPass(p, cr[k], L, Held, S, T)
  BY EndIsSound DEF PassInv, Idle, At
<1> HIDE DEF p
<1>3. QED
  BY <1>1, <1>2, StepOfPass

LEMMA GotoStep ==
  ASSUME NEW L, NEW Held, NEW S, NEW T, PassInv(L, Held, S, T),
         NEW k \in Key, ~Idle(k), NEW l \in L, Goto(k, l),
         l \in Held => cr[k].finalizer, l = "unmanage" => pass[k].why = "delete",
         UNCHANGED <<cr, queued>>, spent' \in Counts
  PROVE  PassInv(L, Held, S, T)'
<1> DEFINE p == [pass[k] EXCEPT !.pc = l]
<1>1. pass' = [pass EXCEPT ![k] = p]
  BY DEF Goto, PassInv
<1>2. SoundPass(p, cr[k], L, Held, S, T)
  BY MovedIsSound DEF PassInv, Idle, At
<1> HIDE DEF p
<1>3. QED
  BY <1>1, <1>2, StepOfPass

LEMMA StartStep ==
  ASSUME NEW L, NEW Held, NEW S, NEW T, PassInv(L, Held, S, T), Common(L, Held),
         NEW k \in Key, Start(k)
  PROVE  PassInv(L, Held, S, T)'
<1> USE DEF Start
<1>0. spent' \in Counts /\ queued' \subseteq Key
  BY SpendType DEF PassInv
<1>1. CASE ~cr[k].exists
  BY <1>0, <1>1, NoStep
<1>2. CASE cr[k].exists
  <2> DEFINE p == [IdlePass EXCEPT !.pc = "read",
                     !.why = IF cr[k].deleting THEN "delete" ELSE "sync",
                     !.desired = cr[k],
                     !.latest = [spec |-> cr[k].spec, status |-> cr[k].status]]
  <2>1. pass' = [pass EXCEPT ![k] = p]
    BY <1>2
  <2>2. SoundCR(cr[k], S, T)
    BY DEF PassInv
  <2>3. cr[k].spec \in S /\ cr[k].status \in T
    BY <1>2, <2>2, ExistingCR DEF SoundCR
  <2>4. SoundPass(p, cr[k], L, Held, S, T)
    BY <1>2, <2>2, <2>3
       DEF SoundCR, SoundPass, IdlePass, Common, Purposes, Conditions
  <2>5. cr' = [cr EXCEPT ![k] = cr[k]]
    BY DEF PassInv
  <2> HIDE DEF p
  <2>6. QED
    BY <1>0, <2>1, <2>2, <2>4, <2>5, StepOfOne
<1>3. QED
  BY <1>1, <1>2

LEMMA ManageStep ==
  ASSUME NEW L, NEW Held, NEW S, NEW T, PassInv(L, Held, S, T), Common(L, Held),
         NEW k \in Key, Manage(k)
  PROVE  PassInv(L, Held, S, T)'
<1> USE DEF Manage
<1>1. spent' \in Counts /\ UNCHANGED queued /\ ~Idle(k)
  BY DEF PassInv, Idle, At
<1>2. CASE cr[k].exists
  <2> DEFINE c == [cr[k] EXCEPT !.finalizer = TRUE]
             p == [pass[k] EXCEPT !.pc = "create"]
  <2>1. cr' = [cr EXCEPT ![k] = c] /\ pass' = [pass EXCEPT ![k] = p]
    BY <1>2 DEF Goto, PassInv
  <2>2. SoundCR(cr[k], S, T) /\ SoundPass(pass[k], cr[k], L, Held, S, T)
    BY DEF PassInv
  <2>3. cr[k] \in [exists : {TRUE}, spec : S, status : T, deleting : BOOLEAN,
                   finalizer : BOOLEAN, cond : Conditions]
    BY <1>2, <2>2, ExistingCR DEF SoundCR
  <2>4. SoundCR(c, S, T) /\ c.finalizer /\ c.deleting = cr[k].deleting
    BY <2>3 DEF SoundCR, CRs
  <2> HIDE DEF c
  <2>5. SoundPass(pass[k], c, L, Held, S, T)
    BY <2>2, <2>4, KeptIsSound
  <2>6. SoundPass(p, c, L, Held, S, T)
    BY <1>1, <2>4, <2>5, MovedIsSound DEF Common, Idle, At
  <2> HIDE DEF p
  <2>7. QED
    BY <1>1, <2>1, <2>4, <2>6, StepOfOne DEF PassInv
<1>3. CASE ~cr[k].exists
  BY <1>1, <1>3, EndPassStep DEF Conditions
<1>4. QED
  BY <1>2, <1>3

LEMMA UnmanageStep ==
  ASSUME NEW L, NEW Held, NEW S, NEW T, PassInv(L, Held, S, T), Common(L, Held),
         NEW k \in Key, Unmanage(k)
  PROVE  PassInv(L, Held, S, T)'
<1>1. /\ cr' = [cr EXCEPT ![k] = NoCR] /\ pass' = [pass EXCEPT ![k] = IdlePass]
      /\ spent' \in Counts /\ queued' \subseteq Key
  BY DEF Unmanage, PassInv
<1>2. "idle" \in L
  BY DEF Common
<1>3. QED
  BY <1>1, <1>2, NoCRIsSound, IdleIsSound, StepOfOne

LEMMA FinishStep ==
  ASSUME NEW L, NEW Held, NEW S, NEW T, PassInv(L, Held, S, T), Common(L, Held),
         NEW k \in Key, Finish(k)
  PROVE  PassInv(L, Held, S, T)'
<1> USE DEF Finish
<1>1. spent' \in Counts /\ queued' \subseteq Key
  BY DEF PassInv
<1>2. SoundCR(cr[k], S, T) /\ SoundPass(pass[k], cr[k], L, Held, S, T)
  BY DEF PassInv
<1>3. SoundPass(IdlePass, cr[k], L, Held, S, T)
  BY IdleIsSound DEF Common
<1>4. CASE cr[k].exists
  <2> DEFINE c == [cr[k] EXCEPT !.cond = pass[k].outcome,
                                !.status = pass[k].latest.status]
  <2>1. cr' = [cr EXCEPT ![k] = c]
    BY <1>4 DEF PassInv
  <2>2. pass[k].latest.status \in T /\ pass[k].outcome \in Conditions
    BY <1>2 DEF SoundPass, At
  <2>3. SoundCR(c, S, T)
    <3> HIDE DEF Conditions
    <3> QED
      BY <1>2, <1>4, <2>2, ExistingCR DEF SoundCR, CRs
  <2> HIDE DEF c
  <2>4. SoundPass(IdlePass, c, L, Held, S, T)
    BY IdleIsSound DEF Common
  <2>5. QED
    BY <1>1, <2>1, <2>3, <2>4, StepOfOne
<1>5. CASE ~cr[k].exists
  BY <1>1, <1>2, <1>3, <1>5, StepOfPass
<1>6. QED
  BY <1>4, <1>5

LEMMA CallFailsStep ==
  ASSUME NEW L, NEW Held, NEW S, NEW T, PassInv(L, Held, S, T), Common(L, Held),
         NEW k \in Key, CallFails(k)
  PROVE  PassInv(L, Held, S, T)'
<1>1. spent' \in Counts /\ ~Idle(k) /\ EndPass(k, "Recoverable")
  BY SpendType DEF CallFails, Idle, At, PassInv
<1>2. QED
  BY <1>1, EndPassStep DEF CallFails, Conditions

LEMMA ResyncStep ==
  ASSUME NEW L, NEW Held, NEW S, NEW T, PassInv(L, Held, S, T),
         NEW k \in Key, Resync(k)
  PROVE  PassInv(L, Held, S, T)'
BY NoStep DEF Resync, PassInv

LEMMA CrashStep ==
  ASSUME NEW L, NEW Held, NEW S, NEW T, PassInv(L, Held, S, T), Common(L, Held),
         Crash
  PROVE  PassInv(L, Held, S, T)'
<1>1. spent' \in Counts
  BY SpendType DEF Crash, PassInv
<1>2. \A c : SoundPass(IdlePass, c, L, Held, S, T)
  BY IdleIsSound DEF Common
<1>3. QED
  BY <1>1, <1>2 DEF Crash, PassInv

(* What users do to a CR.                                                  *)
LEMMA StepOfUser ==
  ASSUME NEW L, NEW Held, NEW S, NEW T, PassInv(L, Held, S, T),
         NEW k \in Key, NEW c, SoundCR(c, S, T),
         cr[k].finalizer => c.finalizer, cr[k].deleting => c.deleting,
         cr' = [cr EXCEPT ![k] = c], pass' = pass, queued' \subseteq Key,
         spent' \in Counts
  PROVE  PassInv(L, Held, S, T)'
<1>1. SoundPass(pass[k], c, L, Held, S, T)
  BY KeptIsSound DEF PassInv
<1>2. pass' = [pass EXCEPT ![k] = pass[k]]
  BY DEF PassInv
<1>3. QED
  BY <1>1, <1>2, StepOfOne

LEMMA UserApplyStep ==
  ASSUME NEW L, NEW Held, NEW S, NEW T, PassInv(L, Held, S, T),
         NEW k \in Key, NEW s \in S, NEW t \in T, UserApply(k, s, t)
  PROVE  PassInv(L, Held, S, T)'
<1>1. SoundCR(FreshCR(s, t), S, T) /\ ~cr[k].finalizer /\ ~cr[k].deleting
  BY FreshIsSound DEF UserApply, PassInv, SoundCR
<1>2. spent' \in Counts /\ queued' \subseteq Key
  BY SpendType DEF UserApply, PassInv
<1>3. QED
  BY <1>1, <1>2, StepOfUser DEF UserApply

LEMMA UserEditStep ==
  ASSUME NEW L, NEW Held, NEW S, NEW T, PassInv(L, Held, S, T),
         NEW k \in Key, NEW s \in S, UserEdit(k, s)
  PROVE  PassInv(L, Held, S, T)'
<1> DEFINE c == [cr[k] EXCEPT !.spec = s]
<1>1. spent' \in Counts /\ queued' \subseteq Key
  BY SpendType DEF UserEdit, PassInv
<1>2. cr' = [cr EXCEPT ![k] = c] /\ pass' = pass
  BY DEF UserEdit, PassInv
<1>3. SoundCR(c, S, T) /\ c.finalizer = cr[k].finalizer /\ c.deleting = cr[k].deleting
  BY EditedIsSound DEF UserEdit, PassInv
<1> HIDE DEF c
<1>4. QED
  BY <1>1, <1>2, <1>3, StepOfUser

LEMMA UserDeleteStep ==
  ASSUME NEW L, NEW Held, NEW S, NEW T, PassInv(L, Held, S, T),
         NEW k \in Key, UserDelete(k)
  PROVE  PassInv(L, Held, S, T)'
<1>1. /\ spent' \in Counts /\ queued' \subseteq Key /\ pass' = pass
      /\ SoundCR(cr[k], S, T) /\ cr[k].exists
  BY SpendType DEF UserDelete, PassInv
<1>2. CASE cr[k].finalizer
  <2> DEFINE c == [cr[k] EXCEPT !.deleting = TRUE]
  <2>1. cr' = [cr EXCEPT ![k] = c]
    BY <1>2 DEF UserDelete, PassInv
  <2>2. SoundCR(c, S, T) /\ c.finalizer /\ c.deleting
    BY <1>1, <1>2, ExistingCR DEF SoundCR, CRs
  <2> HIDE DEF c
  <2>3. QED
    BY <1>1, <2>1, <2>2, StepOfUser
<1>3. CASE ~cr[k].finalizer
  <2>1. cr' = [cr EXCEPT ![k] = NoCR]
    BY <1>3 DEF UserDelete, PassInv
  <2>2. QED
    BY <1>1, <1>3, <2>1, NoCRIsSound, StepOfUser DEF SoundCR
<1>4. QED
  BY <1>2, <1>3

LEMMA NotFoundStep ==
  ASSUME NEW L, NEW Held, NEW S, NEW T, PassInv(L, Held, S, T), Common(L, Held),
         NEW k \in Key, ~Idle(k), NotFound(k), UNCHANGED <<cr, queued>>,
         spent' \in Counts
  PROVE  PassInv(L, Held, S, T)'
<1>1. CASE pass[k].why = "sync"
  <2>1. Goto(k, IF IsManaged(k) THEN "create" ELSE "manage")
    BY <1>1 DEF NotFound
  <2>2. IsManaged(k) => cr[k].finalizer
    BY DEF PassInv, SoundPass, IsManaged, Idle, At
  <2>3. QED
    BY <2>1, <2>2, GotoStep DEF Common
<1>2. CASE pass[k].why = "delete"
  <2>1. Goto(k, "unmanage")
    BY <1>2 DEF NotFound
  <2>2. QED
    BY <1>2, <2>1, GotoStep DEF Common
<1>3. CASE pass[k].why \notin {"sync", "delete"}
  <2>1. EndPass(k, "Recoverable")
    BY <1>3 DEF NotFound
  <2>2. QED
    BY <2>1, EndPassStep DEF Conditions
<1>4. QED
  BY <1>1, <1>2, <1>3

(* The patch of the spec, with the pass moving on.                         *)
LEMMA StoreSpecStep ==
  ASSUME NEW L, NEW Held, NEW S, NEW T, PassInv(L, Held, S, T),
         NEW k \in Key, cr[k].exists, NEW s \in S, StoreSpec(k, s),
         NEW p, SoundPass(p, cr[k], L, Held, S, T),
         pass' = [pass EXCEPT ![k] = p]
  PROVE  PassInv(L, Held, S, T)'
<1> DEFINE c == [cr[k] EXCEPT !.spec = s]
<1>1. cr' = [cr EXCEPT ![k] = c] /\ queued' \subseteq Key /\ spent' \in Counts
  BY DEF StoreSpec, PassInv
<1>2. SoundCR(c, S, T) /\ c.finalizer = cr[k].finalizer /\ c.deleting = cr[k].deleting
  BY EditedIsSound DEF PassInv
<1> HIDE DEF c
<1>3. SoundPass(p, c, L, Held, S, T)
  BY <1>2, KeptIsSound
<1>4. QED
  BY <1>1, <1>2, <1>3, StepOfOne

-----------------------------------------------------------------------------
(* Counting what is lost.                                                  *)

LEMMA Sums ==
  ASSUME NEW f \in Nat, NEW c \in Nat, NEW a \in Nat, NEW b \in Nat,
         a =< f * c, b =< c
  PROVE  a + b =< (f + 1) * c
<1>1. (f + 1) * c = f * c + c
  OBVIOUS
<1>2. f * c \in Nat
  OBVIOUS
<1> DEFINE m == f * c
<1>3. (f + 1) * c = m + c /\ a =< m /\ m \in Nat
  BY <1>1, <1>2
<1> HIDE DEF m
<1>4. QED
  BY <1>3

(* A bounded set that loses elements, or gets a few more.                  *)
LEMMA MoreAreBounded ==
  ASSUME NEW A, IsFiniteSet(A), NEW X, IsFiniteSet(X), NEW B, B \subseteq A \cup X,
         NEW f \in Nat, NEW c \in Nat, Cardinality(A) =< f * c, Cardinality(X) =< c
  PROVE  IsFiniteSet(B) /\ Cardinality(B) =< (f + 1) * c
<1> DEFINE a == Cardinality(A)
           x == Cardinality(X)
           both == Cardinality(A \cap X)
           b == Cardinality(B)
<1>1. a \in Nat /\ x \in Nat
  BY FS_CardinalityType
<1>2. IsFiniteSet(A \cap X)
  BY FS_Subset
<1>3. both \in Nat
  BY <1>2, FS_CardinalityType
<1>4. IsFiniteSet(A \cup X) /\ Cardinality(A \cup X) = a + x - both
  BY FS_Union
<1>5. IsFiniteSet(B) /\ b =< Cardinality(A \cup X)
  BY <1>4, FS_Subset
<1>6. b \in Nat
  BY <1>5, FS_CardinalityType
<1>7. a =< f * c /\ x =< c
  OBVIOUS
<1> HIDE DEF a, x, both, b
<1>8. a + x =< (f + 1) * c
  BY <1>1, <1>7, Sums
<1>9. b =< a + x
  BY <1>1, <1>3, <1>4, <1>5, <1>6
<1> DEFINE m == (f + 1) * c
<1>10. m \in Nat /\ a + x =< m
  BY <1>8
<1> HIDE DEF m
<1>11. b =< m
  BY <1>1, <1>6, <1>9, <1>10
<1>12. QED
  BY <1>5, <1>11 DEF b, m

-----------------------------------------------------------------------------
(* Nothing is forgotten, whatever the kind.                                *)

(* What that takes of the types.                                           *)
Shaped(S, T) ==
  /\ DOMAIN cr = Key /\ DOMAIN pass = Key
  /\ \A k \in Key : /\ cr[k] \in CRs(S, T)
                    /\ cr[k].finalizer => cr[k].exists
                    /\ DOMAIN pass[k] = DOMAIN IdlePass

(* How a pass may end that does not come back.                             *)
Ended(p, c) ==
  p.outcome # "Recoverable" =>
    /\ p.why # "delete"
    /\ p.outcome = "Terminal" \/ (p.outcome = "Synced" /\ c.finalizer)

(* What the pass p of k, over the CR c, has to do when the queue Q does not*)
(* have k. No deletion comes to the locations in W.                        *)
Mindful(k, p, c, Q, W) ==
  /\ p.pc = "idle" /\ k \notin Q /\ c.exists =>
       /\ ~c.deleting
       /\ c.cond = "Terminal" \/ (c.cond = "Synced" /\ c.finalizer)
  /\ p.pc # "idle" /\ k \notin Q /\ c.deleting => p.why = "delete"
  /\ p.pc \in W => p.why # "delete"
  /\ p.pc = "finish" => Ended(p, c)

AllMindful(W) == \A k \in Key : Mindful(k, pass[k], cr[k], queued, W)

(* W has the locations of a creation, and none that all passes come to.    *)
SetApart(W) ==
  /\ W \cap {"idle", "read", "unmanage", "finish"} = {}
  /\ {"manage", "create"} \subseteq W

(* The pass of k goes on, or ends.                                         *)
Works(k, W) ==
  /\ UNCHANGED <<cr, queued>>
  /\ pass[k].pc # "idle" /\ pass'[k].pc # "idle"
  /\ \A j \in Key \ {k} : pass'[j] = pass[j]
  /\ pass[k].why = "delete" => pass'[k].why = "delete" /\ pass'[k].pc \notin W
  /\ pass[k].why # "delete" => pass'[k].why # "delete"
  /\ pass'[k].pc = "finish" => Ended(pass'[k], cr[k])

LEMMA MindfulSuffices ==
  ASSUME NEW W, AllMindful(W) PROVE NeverForgotten
BY DEF AllMindful, Mindful, NeverForgotten, Rests, Idle, At

LEMMA InvGivesShape ==
  ASSUME NEW L, NEW Held, NEW S, NEW T, PassInv(L, Held, S, T)
  PROVE  Shaped(S, T)
BY DEF PassInv, SoundCR, SoundPass, Shaped

LEMMA PassFields ==
  ASSUME NEW S, NEW T, Shaped(S, T), NEW k \in Key
  PROVE  /\ k \in DOMAIN pass /\ k \in DOMAIN cr
         /\ DOMAIN pass[k] =
              {"pc", "why", "desired", "latest", "found", "todo", "outcome"}
BY DEF Shaped, IdlePass

LEMMA MindStep ==
  ASSUME NEW W, AllMindful(W), NEW k \in Key,
         \A j \in Key \ {k} : /\ pass'[j] = pass[j] /\ cr'[j] = cr[j]
                              /\ j \notin queued' => j \notin queued,
         Mindful(k, pass'[k], cr'[k], queued', W)
  PROVE  AllMindful(W)'
<1> SUFFICES ASSUME NEW j \in Key, j # k
             PROVE  Mindful(j, pass'[j], cr'[j], queued', W)
  BY DEF AllMindful
<1>1. Mindful(j, pass[j], cr[j], queued, W)
  BY DEF AllMindful
<1>2. QED
  BY <1>1 DEF Mindful

LEMMA WorkMinds ==
  ASSUME NEW W, AllMindful(W), NEW k \in Key, Works(k, W)
  PROVE  AllMindful(W)'
<1>1. Mindful(k, pass[k], cr[k], queued, W)
  BY DEF AllMindful
<1>2. Mindful(k, pass'[k], cr'[k], queued', W)
  BY <1>1 DEF Mindful, Works
<1>3. QED
  BY <1>2, MindStep DEF Works

(* A step that changes the pass of k only.                                 *)
LEMMA MoveWorks ==
  ASSUME NEW S, NEW T, Shaped(S, T), NEW W, NEW k \in Key, NEW q,
         pass' = [pass EXCEPT ![k] = q], UNCHANGED <<cr, queued>>,
         pass[k].pc # "idle", q.pc # "idle",
         pass[k].why = "delete" => q.why = "delete" /\ q.pc \notin W,
         pass[k].why # "delete" => q.why # "delete",
         q.pc = "finish" => Ended(q, cr[k])
  PROVE  Works(k, W)
<1>1. pass'[k] = q /\ \A j \in Key \ {k} : pass'[j] = pass[j]
  BY PassFields DEF Shaped
<1>2. QED
  BY <1>1 DEF Works

LEMMA EndWorks ==
  ASSUME NEW S, NEW T, Shaped(S, T), NEW W, SetApart(W), NEW k \in Key, ~Idle(k),
         NEW o \in {"Recoverable", "Terminal", "Synced"}, EndPass(k, o),
         UNCHANGED <<cr, queued>>,
         o # "Recoverable" => pass[k].why # "delete",
         o = "Synced" => cr[k].finalizer
  PROVE  Works(k, W)
<1> DEFINE q == [pass[k] EXCEPT !.pc = "finish", !.outcome = o]
<1>1. pass' = [pass EXCEPT ![k] = q]
  BY PassFields DEF EndPass
<1>2. q.pc = "finish" /\ q.outcome = o /\ q.why = pass[k].why
  BY PassFields
<1> HIDE DEF q
<1>3. QED
  BY <1>1, <1>2, MoveWorks DEF Ended, SetApart, Idle, At

LEMMA GotoWorks ==
  ASSUME NEW S, NEW T, Shaped(S, T), NEW W, NEW k \in Key, ~Idle(k),
         NEW l, Goto(k, l), l # "idle", l # "finish", UNCHANGED <<cr, queued>>,
         pass[k].why = "delete" => l \notin W
  PROVE  Works(k, W)
<1> DEFINE q == [pass[k] EXCEPT !.pc = l]
<1>1. pass' = [pass EXCEPT ![k] = q]
  BY PassFields DEF Goto
<1>2. q.pc = l /\ q.why = pass[k].why
  BY PassFields
<1> HIDE DEF q
<1>3. QED
  BY <1>1, <1>2, MoveWorks DEF Idle, At

LEMMA NotFoundWorks ==
  ASSUME NEW S, NEW T, Shaped(S, T), NEW W, SetApart(W), NEW k \in Key, ~Idle(k),
         NotFound(k), UNCHANGED <<cr, queued>>
  PROVE  Works(k, W)
<1>1. CASE pass[k].why = "sync"
  <2>1. Goto(k, "create") \/ Goto(k, "manage")
    BY <1>1 DEF NotFound
  <2>2. CASE Goto(k, "create")
    BY <1>1, <2>2, GotoWorks
  <2>3. CASE Goto(k, "manage")
    BY <1>1, <2>3, GotoWorks
  <2>4. QED
    BY <2>1, <2>2, <2>3
<1>2. CASE pass[k].why = "delete"
  <2>1. Goto(k, "unmanage")
    BY <1>2 DEF NotFound
  <2>2. QED
    BY <2>1, GotoWorks DEF SetApart
<1>3. CASE pass[k].why \notin {"sync", "delete"}
  <2>1. EndPass(k, "Recoverable")
    BY <1>3 DEF NotFound
  <2>2. QED
    BY <2>1, EndWorks
<1>4. QED
  BY <1>1, <1>2, <1>3

LEMMA FailMinds ==
  ASSUME NEW S, NEW T, Shaped(S, T), NEW W, SetApart(W), AllMindful(W),
         NEW k \in Key, CallFails(k)
  PROVE  AllMindful(W)'
<1>1. Works(k, W)
  BY EndWorks DEF CallFails, Idle, At
<1>2. QED
  BY <1>1, WorkMinds

LEMMA StartMinds ==
  ASSUME NEW S, NEW T, Shaped(S, T), NEW W, SetApart(W), AllMindful(W),
         NEW k \in Key, Start(k)
  PROVE  AllMindful(W)'
<1>1. /\ cr' = cr /\ queued' = queued \ {k} /\ pass[k].pc = "idle"
      /\ \A j \in Key \ {k} : pass'[j] = pass[j]
  BY PassFields DEF Start, Idle, At, Shaped
<1>2. Mindful(k, pass'[k], cr'[k], queued', W)
  <2>1. CASE ~cr[k].exists
    BY <1>1, <2>1 DEF Start, Mindful, SetApart
  <2>2. CASE cr[k].exists
    <3>1. /\ pass'[k].pc = "read"
          /\ pass'[k].why = IF cr[k].deleting THEN "delete" ELSE "sync"
      BY <2>2, PassFields DEF Start, IdlePass
    <3>2. QED
      BY <1>1, <3>1 DEF Mindful, SetApart
  <2>3. QED
    BY <2>1, <2>2
<1>3. QED
  BY <1>1, <1>2, MindStep

LEMMA ManageMinds ==
  ASSUME NEW S, NEW T, Shaped(S, T), NEW W, SetApart(W), AllMindful(W),
         NEW k \in Key, Manage(k)
  PROVE  AllMindful(W)'
<1>1. pass[k].why # "delete" /\ pass[k].pc = "manage"
  BY DEF AllMindful, Mindful, Manage, At, SetApart
<1>2. CASE cr[k].exists
  <2>1. /\ pass'[k].pc = "create" /\ pass'[k].why = pass[k].why
        /\ \A j \in Key \ {k} : pass'[j] = pass[j] /\ cr'[j] = cr[j]
    BY <1>2, PassFields DEF Manage, Goto, Shaped
  <2>2. queued' = queued /\ cr'[k].deleting = cr[k].deleting
    <3>1. cr'[k] = [cr[k] EXCEPT !.finalizer = TRUE]
      BY <1>2, PassFields DEF Manage
    <3>2. QED
      BY <3>1 DEF Manage
  <2>3. Mindful(k, pass'[k], cr'[k], queued', W)
    BY <1>1, <2>1, <2>2 DEF AllMindful, Mindful
  <2>4. QED
    BY <2>1, <2>2, <2>3, MindStep
<1>3. CASE ~cr[k].exists
  <2>1. Works(k, W)
    BY <1>1, <1>3, EndWorks DEF Manage, Idle, At
  <2>2. QED
    BY <2>1, WorkMinds
<1>4. QED
  BY <1>2, <1>3

LEMMA UnmanageMinds ==
  ASSUME NEW S, NEW T, Shaped(S, T), NEW W, SetApart(W), AllMindful(W),
         NEW k \in Key, Unmanage(k)
  PROVE  AllMindful(W)'
<1>1. /\ cr'[k] = NoCR /\ pass'[k] = IdlePass /\ queued' = queued
      /\ \A j \in Key \ {k} : pass'[j] = pass[j] /\ cr'[j] = cr[j]
  BY PassFields DEF Unmanage, Shaped
<1>2. IdlePass.pc = "idle" /\ ~NoCR.exists
  BY DEF IdlePass, NoCR
<1>3. Mindful(k, pass'[k], cr'[k], queued', W)
  BY <1>1, <1>2 DEF Mindful, SetApart
<1>4. QED
  BY <1>1, <1>3, MindStep

LEMMA FinishMinds ==
  ASSUME NEW S, NEW T, Shaped(S, T), NEW W, SetApart(W), AllMindful(W),
         NEW k \in Key, Finish(k)
  PROVE  AllMindful(W)'
<1>1. /\ pass'[k].pc = "idle" /\ pass[k].pc = "finish"
      /\ \A j \in Key \ {k} : pass'[j] = pass[j] /\ cr'[j] = cr[j]
                              /\ (j \notin queued' => j \notin queued)
  <2>1. pass' = [pass EXCEPT ![k] = IdlePass] /\ IdlePass.pc = "idle"
    BY DEF Finish, IdlePass
  <2>2. pass'[k].pc = "idle" /\ \A j \in Key \ {k} : pass'[j] = pass[j]
    BY <2>1, PassFields DEF Shaped
  <2>3. QED
    BY <2>2, PassFields DEF Finish, At, Shaped
<1>2. Mindful(k, pass[k], cr[k], queued, W)
  BY DEF AllMindful
<1>3. CASE ~cr[k].exists
  <2>1. cr'[k] = cr[k]
    BY <1>3 DEF Finish
  <2>2. Mindful(k, pass'[k], cr'[k], queued', W)
    BY <1>1, <1>3, <2>1 DEF Mindful, SetApart
  <2>3. QED
    BY <1>1, <2>2, MindStep
<1>4. CASE cr[k].exists
  <2>1. /\ cr'[k].cond = pass[k].outcome /\ cr'[k].deleting = cr[k].deleting
        /\ cr'[k].finalizer = cr[k].finalizer
    <3>1. cr'[k] = [cr[k] EXCEPT !.cond = pass[k].outcome,
                                 !.status = pass[k].latest.status]
      BY <1>4, PassFields DEF Finish
    <3>2. cr[k] \in [exists : {TRUE}, spec : S, status : T, deleting : BOOLEAN,
                     finalizer : BOOLEAN, cond : Conditions]
      BY <1>4, ExistingCR DEF Shaped
    <3>3. QED
      BY <3>1, <3>2
  <2>2. CASE k \in queued'
    BY <1>1, <2>2, MindStep DEF Mindful, SetApart
  <2>3. CASE k \notin queued'
    <3>1. k \notin queued /\ pass[k].outcome # "Recoverable"
      BY <1>4, <2>3 DEF Finish, Requeued
    <3>2. ~cr[k].deleting
      BY <1>1, <1>2, <3>1 DEF Mindful, Ended
    <3>3. Mindful(k, pass'[k], cr'[k], queued', W)
      BY <1>1, <1>2, <2>1, <3>1, <3>2 DEF Mindful, Ended, SetApart
    <3>4. QED
      BY <1>1, <3>3, MindStep
  <2>4. QED
    BY <2>2, <2>3
<1>5. QED
  BY <1>3, <1>4

LEMMA ResyncMinds ==
  ASSUME NEW W, AllMindful(W), NEW k \in Key, Resync(k) PROVE AllMindful(W)'
<1>1. Mindful(k, pass'[k], cr'[k], queued', W)
  BY DEF AllMindful, Mindful, Resync
<1>2. QED
  BY <1>1, MindStep DEF Resync

LEMMA CrashMinds ==
  ASSUME NEW W, SetApart(W), Crash PROVE AllMindful(W)'
<1>1. IdlePass.pc = "idle"
  BY DEF IdlePass
<1>2. \A k \in Key : pass'[k].pc = "idle" /\ (cr'[k].exists => k \in queued')
  BY <1>1 DEF Crash
<1>3. QED
  BY <1>2 DEF AllMindful, Mindful, SetApart

LEMMA InitMinds ==
  ASSUME NEW S, NEW t, PassInit(S, t), NEW W, SetApart(W) PROVE AllMindful(W)
<1>1. IdlePass.pc = "idle"
  BY DEF IdlePass
<1>2. \A k \in Key : pass[k].pc = "idle" /\ k \in queued
  BY <1>1 DEF PassInit
<1>3. QED
  BY <1>2 DEF AllMindful, Mindful, SetApart

(* What users do queues the key, and a pass that is at its end need not be *)
(* a pass over the CR that they leave.                                     *)
LEMMA UserMinds ==
  ASSUME NEW W, AllMindful(W), NEW k \in Key, k \in queued',
         queued \subseteq queued',
         pass' = pass, \A j \in Key \ {k} : cr'[j] = cr[j],
         cr[k].finalizer => cr'[k].finalizer
  PROVE  AllMindful(W)'
<1>1. Mindful(k, pass[k], cr[k], queued, W)
  BY DEF AllMindful
<1>2. Mindful(k, pass'[k], cr'[k], queued', W)
  BY <1>1 DEF Mindful, Ended
<1>3. QED
  BY <1>2, MindStep

LEMMA UserApplyMinds ==
  ASSUME NEW S, NEW T, Shaped(S, T), NEW W, AllMindful(W), NEW k \in Key,
         NEW s, NEW t, UserApply(k, s, t)
  PROVE  AllMindful(W)'
<1>1. ~cr[k].finalizer /\ \A j \in Key \ {k} : cr'[j] = cr[j]
  BY PassFields DEF UserApply, Shaped
<1>2. QED
  BY <1>1, UserMinds DEF UserApply

LEMMA RespecKeeps ==
  ASSUME NEW S, NEW T, Shaped(S, T), NEW k \in Key, cr[k].exists, NEW s,
         cr' = [cr EXCEPT ![k].spec = s]
  PROVE  /\ cr'[k].finalizer = cr[k].finalizer /\ cr'[k].deleting = cr[k].deleting
         /\ cr'[k].cond = cr[k].cond
         /\ \A j \in Key \ {k} : cr'[j] = cr[j]
<1>1. cr[k] \in [exists : {TRUE}, spec : S, status : T, deleting : BOOLEAN,
                 finalizer : BOOLEAN, cond : Conditions]
  BY ExistingCR DEF Shaped
<1>2. cr'[k] = [cr[k] EXCEPT !.spec = s] /\ \A j \in Key \ {k} : cr'[j] = cr[j]
  BY PassFields DEF Shaped
<1>3. QED
  BY <1>1, <1>2

LEMMA UserEditMinds ==
  ASSUME NEW S, NEW T, Shaped(S, T), NEW W, AllMindful(W), NEW k \in Key,
         NEW s, UserEdit(k, s)
  PROVE  AllMindful(W)'
BY RespecKeeps, UserMinds DEF UserEdit

LEMMA UserDeleteMinds ==
  ASSUME NEW S, NEW T, Shaped(S, T), NEW W, AllMindful(W), NEW k \in Key,
         UserDelete(k)
  PROVE  AllMindful(W)'
<1>1. cr[k].finalizer => cr'[k].finalizer
  <2> SUFFICES ASSUME cr[k].finalizer PROVE cr'[k].finalizer
    OBVIOUS
  <2>1. cr'[k] = [cr[k] EXCEPT !.deleting = TRUE]
    BY PassFields DEF UserDelete
  <2>2. cr[k] \in [exists : {TRUE}, spec : S, status : T, deleting : BOOLEAN,
                   finalizer : BOOLEAN, cond : Conditions]
    BY ExistingCR DEF Shaped, UserDelete
  <2>3. QED
    BY <2>1, <2>2
<1>2. \A j \in Key \ {k} : cr'[j] = cr[j]
  BY PassFields DEF UserDelete, Shaped
<1>3. QED
  BY <1>1, <1>2, UserMinds DEF UserDelete

(* The patch of the spec. A pass that creates goes on to read, and one that*)
(* updates is at its end.                                                  *)
LEMMA StoreMinds ==
  ASSUME NEW S, NEW T, Shaped(S, T), NEW W, SetApart(W), AllMindful(W),
         NEW k \in Key, NEW s, StoreSpec(k, s), cr[k].exists, cr[k].finalizer,
         pass[k].pc \in W, NEW l \in {"read", "find"}, l \notin W,
         Goto(k, l) \/ EndPass(k, "Synced")
  PROVE  AllMindful(W)'
<1>1. /\ cr'[k].finalizer /\ cr'[k].deleting = cr[k].deleting
      /\ \A j \in Key \ {k} : cr'[j] = cr[j]
  BY RespecKeeps DEF StoreSpec
<1>2. queued \subseteq queued' /\ queued' \subseteq queued \cup {k}
  BY DEF StoreSpec
<1>3. /\ pass'[k].why = pass[k].why
      /\ \/ pass'[k].pc = l
         \/ pass'[k].pc = "finish" /\ pass'[k].outcome = "Synced"
      /\ \A j \in Key \ {k} : pass'[j] = pass[j]
  <2>1. CASE Goto(k, l)
    BY <2>1, PassFields DEF Goto, Shaped
  <2>2. CASE EndPass(k, "Synced")
    BY <2>2, PassFields DEF EndPass, Shaped
  <2>3. QED
    BY <2>1, <2>2
<1>4. Mindful(k, pass[k], cr[k], queued, W)
  BY DEF AllMindful
<1>5. Mindful(k, pass'[k], cr'[k], queued', W)
  BY <1>1, <1>2, <1>3, <1>4 DEF Mindful, Ended, SetApart
<1>6. QED
  BY <1>1, <1>2, <1>3, <1>5, MindStep
=============================================================================
