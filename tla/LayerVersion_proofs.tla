------------------------- MODULE LayerVersion_proofs -------------------------
(***************************************************************************)
(* Proofs about LayerVersion, for any number of CRs, whose passes may      *)
(* overlap, of layers, specs and events: the type invariant, what is left  *)
(* of the published versions when the CRs are gone, and how many versions  *)
(* are published at most.                                                  *)
(***************************************************************************)
EXTENDS LayerVersion, AckPass_proofs

(* Where a pass has seen the finalizer of its CR, or has added it.         *)
Held == {"create", "update"}

NumbersIn(vs) == {n \in 1..Len(vs) : vs[n].exists}

(* The worker has a number that is not in its CR's status yet.             *)
Holds(p) == p.why \in {"created", "updated"}

(* What the pass p knows of the CR c: only a publication makes it hold     *)
(* another number than the status, and a CR has a finalizer from its first *)
(* publication on.                                                         *)
Knows(p, c) ==
  /\ c.exists /\ ~c.finalizer => c.status = NoStatus
  /\ p.pc # "idle" =>
       /\ p.latest.spec.layer = p.desired.spec.layer
       /\ ~p.desired.finalizer => p.desired.status = NoStatus
       /\ c.exists => c.status = p.desired.status
       /\ ~Holds(p) => p.latest.status = p.desired.status
  /\ Holds(p) => p.pc = "finish" \/ (p.pc = "read" /\ p.why = "created")
  /\ p.pc \in {"list", "deleteOld", "deleteOwn"} => p.why = "delete"

(* When nothing is to be left behind.                                      *)
Tidy == NoDriftYet /\ ~renamed /\ \A l \in Layer : Len(layers[l]) =< PageSize

(* A number that has been given out, if it is one.                         *)
Given(vs, n) == n # Nil => n \in 1..Len(vs)

(* A CR that is not renamed stays with its layer; the numbers that it and  *)
(* its pass have are of that layer, and the later one is the higher.       *)
Numbered(p, c, ls) ==
  /\ c.exists => Given(ls[c.spec.layer], c.status.versionNumber)
  /\ p.pc # "idle" =>
       /\ c.exists => c.spec.layer = p.desired.spec.layer
       /\ Given(ls[p.desired.spec.layer], p.desired.status.versionNumber)
       /\ Given(ls[p.desired.spec.layer], p.latest.status.versionNumber)
  /\ Holds(p) =>
       /\ p.latest.status.versionNumber # Nil
       /\ p.desired.status.versionNumber # Nil =>
            p.desired.status.versionNumber < p.latest.status.versionNumber

(* The versions of a layer are deleted from the lowest number up.          *)
UpClosed(vs) ==
  \A n \in NumbersIn(vs), m \in 1..Len(vs) : n =< m => m \in NumbersIn(vs)

(* What a deletion has still to do: nothing is there below what it has yet *)
(* to delete, and nothing that it is not going to delete is below its own. *)
DeletesIn(p, vs) ==
  LET own == p.latest.status.versionNumber
  IN  /\ p.pc \in {"deleteOld", "deleteOwn"} =>
           /\ p.todo \subseteq 1..Len(vs)
           /\ p.pc = "deleteOwn" => p.todo = {}
           /\ \A m \in NumbersIn(vs) : m \in p.todo \/ \A t \in p.todo : t < m
           /\ own \in NumbersIn(vs) =>
                \A m \in NumbersIn(vs) : m \in p.todo \/ own =< m
      /\ p.pc = "unmanage" /\ own # Nil => \A m \in NumbersIn(vs) : own < m

DeletesUp(p, ls) == DeletesIn(p, ls[p.latest.spec.layer])

(* The deletion of the CR c will take the version v along: the status has  *)
(* its number or a higher one of the layer.                                *)
Covers(c, v) ==
  /\ c.exists /\ c.spec.layer = v[1]
  /\ c.status.versionNumber # Nil /\ v[2] =< c.status.versionNumber

InHand(p, v) ==
  Holds(p) /\ v = <<p.latest.spec.layer, p.latest.status.versionNumber>>

(* The versions that will be left, since nobody knows of them.             *)
Lost == {v \in Ours : \A k \in Key : ~Covers(cr[k], v) /\ ~InHand(pass[k], v)}

FewAreLost ==
  IsFiniteSet(Lost) /\ Cardinality(Lost) =< spent.faults * Cardinality(Key)

TidyInv ==
  /\ \A k \in Key : Numbered(pass[k], cr[k], layers) /\ DeletesUp(pass[k], layers)
  /\ \A l \in Layer : UpClosed(layers[l])
  /\ FewAreLost

LayersOK == layers \in [Layer -> Seq(Published)] /\ renamed \in BOOLEAN

Base == PassInv(Locations, Held, LayerSpec, Statuses)

Inv ==
  /\ Base /\ LayersOK
  /\ \A k \in Key : Knows(pass[k], cr[k])
  /\ Tidy => TidyInv

-----------------------------------------------------------------------------
(* Types.                                                                  *)

LEMMA Commons == Common(Locations, Held)
BY DEF Common, Locations, Held

LEMMA SpecsAre == Specs \subseteq LayerSpec
BY LayerSpecs

LEMMA NoStatusIs == NoStatus \in Statuses
BY DEF NoStatus, Statuses

LEMMA NilIsNoNumber == Nil \notin Nat
BY LayerNil

LEMMA PassTypes ==
  ASSUME Base, NEW k \in Key, ~Idle(k)
  PROVE  /\ pass[k].desired.spec \in LayerSpec
         /\ pass[k].desired.status \in Statuses
         /\ pass[k].desired.finalizer \in BOOLEAN
         /\ pass[k].latest.spec \in LayerSpec /\ pass[k].latest.status \in Statuses
         /\ pass[k].latest.spec.layer \in Layer
         /\ pass[k].desired.spec.layer \in Layer
         /\ pass[k].latest.status.versionNumber \in Nat \cup {Nil}
         /\ pass[k].desired.status.versionNumber \in Nat \cup {Nil}
<1>1. SoundPass(pass[k], cr[k], Locations, Held, LayerSpec, Statuses)
  BY DEF Base, PassInv
<1>2. /\ pass[k].desired.spec \in LayerSpec
      /\ pass[k].desired.status \in Statuses
      /\ pass[k].desired.finalizer \in BOOLEAN
      /\ pass[k].latest.spec \in LayerSpec /\ pass[k].latest.status \in Statuses
  BY <1>1, ExistingCR DEF SoundPass, Idle, At
<1>3. QED
  BY <1>2 DEF LayerSpec, Statuses

LEMMA CRTypes ==
  ASSUME Base, NEW k \in Key, cr[k].exists
  PROVE  /\ cr[k].spec \in LayerSpec /\ cr[k].status \in Statuses
         /\ cr[k].spec.layer \in Layer
         /\ cr[k].status.versionNumber \in Nat \cup {Nil}
         /\ cr[k].finalizer \in BOOLEAN /\ cr[k].deleting \in BOOLEAN
<1>1. SoundCR(cr[k], LayerSpec, Statuses)
  BY DEF Base, PassInv
<1>2. /\ cr[k].spec \in LayerSpec /\ cr[k].status \in Statuses
      /\ cr[k].finalizer \in BOOLEAN /\ cr[k].deleting \in BOOLEAN
  BY <1>1, ExistingCR DEF SoundCR
<1>3. QED
  BY <1>2 DEF LayerSpec, Statuses

LEMMA KeyCount == Cardinality(Key) \in Nat
BY LayerKeys, FS_CardinalityType

LEMMA NumbersAre == \A l \in Layer : Numbers(l) = NumbersIn(layers[l])
BY DEF Numbers, NumbersIn

LEMMA VersionType ==
  ASSUME LayersOK, NEW l \in Layer, NEW n \in 1..Len(layers[l])
  PROVE  /\ layers[l][n] \in Published /\ layers[l][n].exists \in BOOLEAN
         /\ layers[l][n].description \in Value \cup {Nil}
<1>1. layers[l] \in Seq(Published)
  BY DEF LayersOK
<1>2. layers[l][n] \in Published
  BY <1>1
<1>3. QED
  BY <1>2 DEF Published

LEMMA OursAre ==
  ASSUME NEW v
  PROVE  v \in Ours <=>
           \E l \in Layer : \E n \in NumbersIn(layers[l]) :
             v = <<l, n>> /\ layers[l][n].by = "us"
BY DEF Ours, EverOurs, Numbers, NumbersIn

LEMMA OursNext ==
  ASSUME NEW v
  PROVE  v \in Ours' <=>
           \E l \in Layer : \E n \in NumbersIn(layers'[l]) :
             v = <<l, n>> /\ layers'[l][n].by = "us"
BY DEF Ours, EverOurs, Numbers, NumbersIn

-----------------------------------------------------------------------------
(* Counting what is lost.                                                  *)

LEMMA FewerAreLost ==
  ASSUME FewAreLost, spent.faults \in Nat, Lost' \subseteq Lost,
         spent'.faults \in {spent.faults, spent.faults + 1}
  PROVE  FewAreLost'
<1> DEFINE A == Lost
           B == Lost'
           f == spent.faults
           g == spent'.faults
           c == Cardinality(Key)
<1>1. IsFiniteSet(A) /\ Cardinality(A) =< f * c /\ B \subseteq A
  BY DEF FewAreLost
<1>2. f \in Nat /\ g \in {f, f + 1} /\ c \in Nat
  BY KeyCount
<1> HIDE DEF A, B, f, g, c
<1>3. IsFiniteSet(B) /\ Cardinality(B) =< Cardinality(A)
  BY <1>1, FS_Subset
<1>4. Cardinality(A) \in Nat /\ Cardinality(B) \in Nat
  BY <1>1, <1>3, FS_CardinalityType
<1>5. f * c =< g * c /\ f * c \in Nat /\ g * c \in Nat
  <2>1. (f + 1) * c = f * c + c
    BY <1>2
  <2>2. f * c \in Nat /\ (f + 1) * c \in Nat
    BY <1>2
  <2>3. CASE g = f
    BY <2>2, <2>3
  <2>4. CASE g = f + 1
    BY <1>2, <2>1, <2>2, <2>4
  <2>5. QED
    BY <1>2, <2>3, <2>4
<1> DEFINE m == f * c
           n == g * c
<1>6. m =< n /\ m \in Nat /\ n \in Nat /\ Cardinality(A) =< m
  BY <1>1, <1>5
<1> HIDE DEF m, n
<1>7. Cardinality(B) =< n
  BY <1>3, <1>4, <1>6
<1>8. QED
  BY <1>3, <1>7 DEF FewAreLost, B, g, c, n

LEMMA MoreAreLost ==
  ASSUME FewAreLost, spent.faults \in Nat, NEW X, IsFiniteSet(X),
         Cardinality(X) =< Cardinality(Key), Lost' \subseteq Lost \cup X,
         spent'.faults = spent.faults + 1
  PROVE  FewAreLost'
<1> DEFINE B == Lost'
           c == Cardinality(Key)
           f == spent.faults
<1>1. c \in Nat /\ f \in Nat /\ Cardinality(X) =< c
  BY KeyCount
<1>2. IsFiniteSet(Lost) /\ Cardinality(Lost) =< f * c /\ B \subseteq Lost \cup X
  BY DEF FewAreLost
<1> HIDE DEF B, c, f
<1>3. IsFiniteSet(B) /\ Cardinality(B) =< (f + 1) * c
  BY <1>1, <1>2, MoreAreBounded
<1>4. QED
  BY <1>3 DEF FewAreLost, B, c, f

(* How a step spends.                                                      *)
Grows ==
  /\ spent \in Counts /\ spent' \in Counts
  /\ spent'.faults \in {spent.faults, spent.faults + 1}
  /\ spent'.drifts = 0 => spent.drifts = 0

LEMMA SpendGrows ==
  ASSUME spent \in Counts,
         \/ UNCHANGED spent
         \/ \E b \in {"edits", "faults", "drifts", "overlaps"} : Spend(b)
  PROVE  Grows
<1>1. spent.faults \in Nat /\ spent.drifts \in Nat
  BY DEF Counts
<1>2. CASE UNCHANGED spent
  BY <1>1, <1>2 DEF Grows
<1>3. ASSUME NEW b \in {"edits", "faults", "drifts", "overlaps"}, Spend(b)
      PROVE  Grows
  BY <1>1, <1>3 DEF Grows, Spend, Counts
<1>4. QED
  BY <1>2, <1>3

-----------------------------------------------------------------------------
(* Steps that leave AWS alone.                                             *)

(* What the step of k from the pass p and the CR c to q and d has to keep. *)
KeepsTidy(p, c, q, d, ls) ==
  /\ Numbered(q, d, ls) /\ DeletesUp(q, ls)
  /\ \A l \in Layer : \A n \in NumbersIn(ls[l]) :
       LET v == <<l, n>> IN
       Covers(c, v) \/ InHand(p, v) => Covers(d, v) \/ InHand(q, v)

LEMMA QuietStep ==
  ASSUME Inv, NEW k \in Key, Base', LayersOK', Grows, UNCHANGED layers,
         renamed => renamed',
         \A j \in Key \ {k} : pass'[j] = pass[j] /\ cr'[j] = cr[j],
         Knows(pass'[k], cr'[k]),
         Tidy /\ ~renamed' => KeepsTidy(pass[k], cr[k], pass'[k], cr'[k], layers)
  PROVE  Inv'
<1>1. \A j \in Key : Knows(pass'[j], cr'[j])
  BY DEF Inv
<1>2. ASSUME Tidy' PROVE TidyInv'
  <2>1. Tidy /\ ~renamed'
    BY <1>2 DEF Tidy, NoDriftYet, Grows
  <2>2. TidyInv
    BY <2>1 DEF Inv
  <2>3. \A j \in Key : Numbered(pass'[j], cr'[j], layers')
                       /\ DeletesUp(pass'[j], layers')
    BY <2>1, <2>2 DEF TidyInv, KeepsTidy
  <2>4. \A l \in Layer : UpClosed(layers'[l])
    BY <2>2 DEF TidyInv
  <2>5. Lost' \subseteq Lost
    <3> SUFFICES ASSUME NEW v \in Lost' PROVE v \in Lost
      OBVIOUS
    <3>1. /\ v \in Ours'
          /\ \A j \in Key : ~Covers(cr'[j], v) /\ ~InHand(pass'[j], v)
      BY DEF Lost
    <3>2. v \in Ours
      BY <3>1 DEF Ours, EverOurs, Numbers
    <3>3. PICK l \in Layer : \E n \in NumbersIn(layers[l]) : v = <<l, n>>
      BY <3>2, OursAre
    <3>4. ~Covers(cr[k], v) /\ ~InHand(pass[k], v)
      BY <2>1, <3>1, <3>3 DEF KeepsTidy
    <3>5. QED
      BY <3>1, <3>2, <3>4 DEF Lost
  <2>6. spent.faults \in Nat
    BY DEF Grows, Counts
  <2>7. FewAreLost'
    BY <2>2, <2>5, <2>6, FewerAreLost DEF Grows, TidyInv
  <2>8. QED
    BY <2>3, <2>4, <2>7 DEF TidyInv
<1>3. QED
  BY <1>1, <1>2 DEF Inv

-----------------------------------------------------------------------------
(* Where a pass goes without having learned anything.                      *)

LEMMA MovedKnows ==
  ASSUME NEW p, NEW c, NEW q, Knows(p, c), p.pc # "idle",
         q.why = p.why, q.desired = p.desired, q.latest = p.latest,
         Holds(p) => q.pc = "finish",
         q.pc \in {"list", "deleteOld", "deleteOwn"} => q.why = "delete"
  PROVE  Knows(q, c)
BY DEF Knows, Holds

LEMMA MovedKeeps ==
  ASSUME NEW p, NEW c, NEW q, NEW ls, Numbered(p, c, ls), p.pc # "idle",
         q.why = p.why, q.desired = p.desired, q.latest = p.latest,
         q.pc \notin {"deleteOld", "deleteOwn", "unmanage"}
  PROVE  KeepsTidy(p, c, q, c, ls)
BY DEF KeepsTidy, Numbered, DeletesUp, DeletesIn, Covers, InHand, Holds

LEMMA EndStep ==
  ASSUME Inv, NEW k \in Key, ~Idle(k), NEW o \in Conditions, EndPass(k, o),
         UNCHANGED <<cr, queued, layers, renamed>>, Grows
  PROVE  Inv'
<1> DEFINE p == pass[k]
           q == [p EXCEPT !.pc = "finish", !.outcome = o]
<1>1. PassInv(Locations, Held, LayerSpec, Statuses)
  BY DEF Inv, Base
<1>2. Base'
  BY <1>1, Commons, EndPassStep DEF Base, Grows
<1>3. DOMAIN pass = Key /\ DOMAIN p = DOMAIN IdlePass
  BY <1>1 DEF PassInv, SoundPass
<1>4. pass' = [pass EXCEPT ![k] = q]
  BY <1>3 DEF EndPass
<1>5. /\ pass'[k] = q /\ q.pc = "finish" /\ q.why = p.why
      /\ q.desired = p.desired /\ q.latest = p.latest
  BY <1>3, <1>4 DEF IdlePass
<1>6. p.pc # "idle" /\ Knows(p, cr[k])
  BY DEF Inv, Idle, At
<1> HIDE DEF q
<1>7. Knows(q, cr[k])
  BY <1>5, <1>6, MovedKnows
<1>8. Tidy => KeepsTidy(p, cr[k], q, cr[k], layers)
  <2> SUFFICES ASSUME Tidy PROVE KeepsTidy(p, cr[k], q, cr[k], layers)
    OBVIOUS
  <2>1. Numbered(p, cr[k], layers)
    BY DEF Inv, TidyInv
  <2> HIDE DEF p
  <2>2. QED
    BY <1>5, <1>6, <2>1, MovedKeeps
<1>9. QED
  BY <1>2, <1>3, <1>4, <1>5, <1>7, <1>8, QuietStep DEF Inv, LayersOK

LEMMA GoStep ==
  ASSUME Inv, NEW k \in Key, ~Idle(k), NEW l \in Locations, Goto(k, l),
         UNCHANGED <<cr, queued, layers, renamed>>, Grows, Base',
         l \in {"manage", "create"}, pass[k].why = "sync"
  PROVE  Inv'
<1> DEFINE p == pass[k]
           q == [p EXCEPT !.pc = l]
<1>1. PassInv(Locations, Held, LayerSpec, Statuses)
  BY DEF Inv, Base
<1>3. DOMAIN pass = Key /\ DOMAIN p = DOMAIN IdlePass
  BY <1>1 DEF PassInv, SoundPass
<1>4. pass' = [pass EXCEPT ![k] = q]
  BY <1>3 DEF Goto
<1>5. /\ pass'[k] = q /\ q.pc = l /\ q.why = p.why
      /\ q.desired = p.desired /\ q.latest = p.latest
  BY <1>3, <1>4 DEF IdlePass
<1>6. p.pc # "idle" /\ Knows(p, cr[k]) /\ ~Holds(p)
  BY DEF Inv, Idle, At, Holds
<1> HIDE DEF q
<1>7. Knows(q, cr[k])
  BY <1>5, <1>6, MovedKnows
<1>8. Tidy => KeepsTidy(p, cr[k], q, cr[k], layers)
  <2> SUFFICES ASSUME Tidy PROVE KeepsTidy(p, cr[k], q, cr[k], layers)
    OBVIOUS
  <2>1. Numbered(p, cr[k], layers)
    BY DEF Inv, TidyInv
  <2> HIDE DEF p
  <2>2. QED
    BY <1>5, <1>6, <2>1, MovedKeeps
<1>9. QED
  BY <1>3, <1>4, <1>5, <1>7, <1>8, QuietStep DEF Inv, LayersOK

-----------------------------------------------------------------------------
(* The steps that all kinds share.                                         *)

LEMMA BeginStep ==
  ASSUME Inv, NEW k \in Key, Start(k), UNCHANGED <<layers, renamed>>
  PROVE  Inv'
<1>1. PassInv(Locations, Held, LayerSpec, Statuses)
  BY DEF Inv, Base
<1>2. Base'
  BY <1>1, Commons, StartStep DEF Base
<1>3. Grows
  BY <1>1, SpendGrows DEF Start, PassInv
<1>4. /\ DOMAIN pass = Key /\ UNCHANGED cr /\ pass[k].pc = "idle"
      /\ Knows(pass[k], cr[k])
  BY <1>1 DEF PassInv, Start, Inv, Idle, At
<1>5. CASE ~cr[k].exists
  <2>1. UNCHANGED <<pass, cr>>
    BY <1>5 DEF Start
  <2>2. Tidy => KeepsTidy(pass[k], cr[k], pass[k], cr[k], layers)
    BY DEF Inv, TidyInv, KeepsTidy
  <2>3. QED
    BY <1>2, <1>3, <1>4, <2>1, <2>2, QuietStep DEF Inv, LayersOK
<1>6. CASE cr[k].exists
  <2> DEFINE c == cr[k]
             q == [IdlePass EXCEPT !.pc = "read",
                     !.why = IF cr[k].deleting THEN "delete" ELSE "sync",
                     !.desired = cr[k],
                     !.latest = [spec |-> cr[k].spec, status |-> cr[k].status]]
  <2>1. pass' = [pass EXCEPT ![k] = q]
    BY <1>6 DEF Start
  <2>2. /\ q.pc = "read" /\ q.why \in {"sync", "delete"} /\ q.desired = c
        /\ q.latest = [spec |-> c.spec, status |-> c.status]
    BY DEF IdlePass
  <2> HIDE DEF q
  <2>3. Knows(q, c)
    BY <1>4, <1>6, <2>2 DEF Knows, Holds
  <2>4. ~Holds(pass[k])
    BY <1>4 DEF Knows
  <2>5. Tidy => KeepsTidy(pass[k], c, q, c, layers)
    <3> SUFFICES ASSUME Tidy PROVE KeepsTidy(pass[k], c, q, c, layers)
      OBVIOUS
    <3>1. Numbered(pass[k], c, layers)
      BY DEF Inv, TidyInv
    <3> HIDE DEF c
    <3>2. Numbered(q, c, layers)
      BY <1>6, <2>2, <3>1 DEF Numbered, Holds, c
    <3>3. DeletesUp(q, layers)
      BY <2>2 DEF DeletesUp, DeletesIn
    <3>4. QED
      BY <2>4, <3>2, <3>3 DEF KeepsTidy, InHand
  <2>6. QED
    BY <1>2, <1>3, <1>4, <2>1, <2>3, <2>5, QuietStep DEF Inv, LayersOK
<1>7. QED
  BY <1>5, <1>6

LEMMA MarkStep ==
  ASSUME Inv, NEW k \in Key, Manage(k), UNCHANGED <<layers, renamed>>
  PROVE  Inv'
<1>1. PassInv(Locations, Held, LayerSpec, Statuses)
  BY DEF Inv, Base
<1>2. Base'
  BY <1>1, Commons, ManageStep DEF Base
<1>3. Grows
  BY <1>1, SpendGrows DEF Manage, PassInv
<1>4. CASE ~cr[k].exists
  BY <1>3, <1>4, EndStep DEF Manage, Idle, At, Conditions
<1>5. CASE cr[k].exists
  <2> DEFINE c == cr[k]
             p == pass[k]
             d == [c EXCEPT !.finalizer = TRUE]
             q == [p EXCEPT !.pc = "create"]
  <2>1. DOMAIN pass = Key /\ DOMAIN cr = Key /\ DOMAIN p = DOMAIN IdlePass
    BY <1>1 DEF PassInv, SoundPass
  <2>2. pass' = [pass EXCEPT ![k] = q] /\ cr' = [cr EXCEPT ![k] = d]
    BY <1>5, <2>1 DEF Manage, Goto
  <2>3. SoundCR(c, LayerSpec, Statuses)
    BY <1>1 DEF PassInv
  <2>4. c \in [exists : {TRUE}, spec : LayerSpec, status : Statuses,
               deleting : BOOLEAN, finalizer : BOOLEAN, cond : Conditions]
    BY <1>5, <2>3, ExistingCR DEF SoundCR
  <2>5. d.exists /\ d.spec = c.spec /\ d.status = c.status /\ d.finalizer
    BY <1>5, <2>4
  <2>6. /\ q.pc = "create" /\ q.why = p.why
        /\ q.desired = p.desired /\ q.latest = p.latest
    BY <2>1 DEF IdlePass
  <2>7. Knows(p, c) /\ p.pc = "manage" /\ ~Holds(p)
    BY DEF Inv, Manage, At, Knows
  <2> HIDE DEF q, d
  <2>8. Knows(q, d)
    BY <1>5, <2>5, <2>6, <2>7 DEF Knows, Holds
  <2>9. Tidy => KeepsTidy(p, c, q, d, layers)
    <3> SUFFICES ASSUME Tidy PROVE KeepsTidy(p, c, q, d, layers)
      OBVIOUS
    <3>1. Numbered(p, c, layers)
      BY DEF Inv, TidyInv
    <3> HIDE DEF c, p
    <3>2. QED
      BY <1>5, <2>5, <2>6, <2>7, <3>1
         DEF KeepsTidy, Numbered, DeletesUp, DeletesIn, Covers, InHand, Holds, c
  <2>10. QED
    BY <1>2, <1>3, <2>1, <2>2, <2>8, <2>9, QuietStep DEF Inv, LayersOK
<1>6. QED
  BY <1>4, <1>5

LEMMA IdleKnows ==
  ASSUME NEW c, c.exists /\ ~c.finalizer => c.status = NoStatus
  PROVE  Knows(IdlePass, c)
BY DEF Knows, IdlePass, Holds

LEMMA IdleNumbered ==
  ASSUME NEW c, NEW ls,
         c.exists => Given(ls[c.spec.layer], c.status.versionNumber)
  PROVE  Numbered(IdlePass, c, ls) /\ DeletesUp(IdlePass, ls)
BY DEF Numbered, DeletesUp, DeletesIn, IdlePass, Holds

LEMMA UnmarkStep ==
  ASSUME Inv, NEW k \in Key, Unmanage(k), UNCHANGED <<layers, renamed>>
  PROVE  Inv'
<1>1. PassInv(Locations, Held, LayerSpec, Statuses)
  BY DEF Inv, Base
<1>2. Base'
  BY <1>1, Commons, UnmanageStep DEF Base
<1>3. Grows
  BY <1>1, SpendGrows DEF Unmanage, PassInv
<1>4. /\ DOMAIN pass = Key /\ DOMAIN cr = Key /\ pass[k].pc = "unmanage"
      /\ pass' = [pass EXCEPT ![k] = IdlePass] /\ cr' = [cr EXCEPT ![k] = NoCR]
  BY <1>1 DEF PassInv, Unmanage, At
<1>5. ~NoCR.exists
  BY DEF NoCR
<1>6. Knows(IdlePass, NoCR)
  BY <1>5, IdleKnows
<1>7. Tidy => KeepsTidy(pass[k], cr[k], IdlePass, NoCR, layers)
  <2> DEFINE p == pass[k]
             c == cr[k]
  <2> SUFFICES ASSUME Tidy PROVE KeepsTidy(p, c, IdlePass, NoCR, layers)
    OBVIOUS
  <2>1. Numbered(IdlePass, NoCR, layers) /\ DeletesUp(IdlePass, layers)
    BY <1>5, IdleNumbered
  <2>2. Numbered(p, c, layers) /\ DeletesUp(p, layers) /\ Knows(p, c)
    BY DEF Inv, TidyInv
  <2>3. ~Holds(p)
    BY <1>4, <2>2 DEF Knows
  <2>4. ASSUME NEW l \in Layer, NEW n \in NumbersIn(layers[l])
        PROVE  ~Covers(c, <<l, n>>)
    <3> SUFFICES ASSUME Covers(c, <<l, n>>) PROVE FALSE
      OBVIOUS
    <3>1. c.exists /\ c.spec.layer = l /\ c.status.versionNumber # Nil
          /\ n =< c.status.versionNumber
      BY DEF Covers
    <3>2. /\ p.latest.spec.layer = l /\ c.status = p.latest.status
      BY <1>4, <2>2, <2>3, <3>1 DEF Knows, Numbered
    <3>3. c.status.versionNumber < n
      BY <1>4, <2>2, <3>1, <3>2 DEF DeletesUp, DeletesIn
    <3>4. c.status.versionNumber \in Nat /\ n \in Nat
      BY <1>1, <3>1, CRTypes DEF Base, NumbersIn
    <3>5. QED
      BY <3>1, <3>3, <3>4
  <2>5. QED
    BY <2>1, <2>3, <2>4 DEF KeepsTidy, InHand
<1>8. QED
  BY <1>2, <1>3, <1>4, <1>6, <1>7, QuietStep DEF Inv, LayersOK

LEMMA StoreStep ==
  ASSUME Inv, NEW k \in Key, Finish(k), UNCHANGED <<layers, renamed>>
  PROVE  Inv'
<1> DEFINE p == pass[k]
           c == cr[k]
<1>1. PassInv(Locations, Held, LayerSpec, Statuses)
  BY DEF Inv, Base
<1>2. Base'
  BY <1>1, Commons, FinishStep DEF Base
<1>3. Grows
  BY <1>1, SpendGrows DEF Finish, PassInv
<1>4. /\ DOMAIN pass = Key /\ DOMAIN cr = Key /\ p.pc = "finish" /\ ~Idle(k)
      /\ pass' = [pass EXCEPT ![k] = IdlePass] /\ Knows(p, c)
  BY <1>1 DEF PassInv, Finish, At, Inv, Idle
<1>5. /\ SoundPass(p, c, Locations, Held, LayerSpec, Statuses)
      /\ SoundCR(c, LayerSpec, Statuses)
  BY <1>1 DEF PassInv
<1>6. Holds(p) => c.finalizer /\ c.exists
  BY <1>4, <1>5 DEF SoundPass, SoundCR, Holds
<1>7. CASE ~c.exists
  <2>1. UNCHANGED cr
    BY <1>7 DEF Finish
  <2>2. Knows(IdlePass, c)
    BY <1>7, IdleKnows
  <2>3. KeepsTidy(p, c, IdlePass, c, layers)
    BY <1>6, <1>7, IdleNumbered DEF KeepsTidy, InHand
  <2>4. QED
    BY <1>2, <1>3, <1>4, <2>1, <2>2, <2>3, QuietStep DEF Inv, LayersOK
<1>8. CASE c.exists
  <2> DEFINE d == [c EXCEPT !.cond = p.outcome, !.status = p.latest.status]
  <2>1. cr' = [cr EXCEPT ![k] = d]
    BY <1>4, <1>8 DEF Finish
  <2>2. c \in [exists : {TRUE}, spec : LayerSpec, status : Statuses,
               deleting : BOOLEAN, finalizer : BOOLEAN, cond : Conditions]
    BY <1>5, <1>8, ExistingCR DEF SoundCR
  <2>3. /\ d.exists /\ d.spec = c.spec /\ d.status = p.latest.status
        /\ d.finalizer = c.finalizer
    BY <2>2
  <2> HIDE DEF d
  <2>4. d.exists /\ ~d.finalizer => d.status = NoStatus
    BY <1>4, <1>6, <1>8, <2>3 DEF Knows
  <2>5. Knows(IdlePass, d)
    BY <2>4, IdleKnows
  <2>6. Tidy => KeepsTidy(p, c, IdlePass, d, layers)
    <3> SUFFICES ASSUME Tidy PROVE KeepsTidy(p, c, IdlePass, d, layers)
      OBVIOUS
    <3>1. Numbered(p, c, layers)
      BY DEF Inv, TidyInv
    <3>2. p.latest.spec.layer = c.spec.layer /\ c.status = p.desired.status
          /\ c.spec.layer = p.desired.spec.layer
      BY <1>4, <1>8, <3>1 DEF Knows, Numbered
    <3>3. Given(layers[d.spec.layer], d.status.versionNumber)
      BY <1>4, <2>3, <3>1, <3>2 DEF Numbered
    <3>4. Numbered(IdlePass, d, layers) /\ DeletesUp(IdlePass, layers)
      BY <3>3, IdleNumbered
    <3>5. ASSUME NEW l \in Layer, NEW n \in NumbersIn(layers[l]),
                 Covers(c, <<l, n>>) \/ InHand(p, <<l, n>>)
          PROVE  Covers(d, <<l, n>>)
      <4>0. /\ n \in Nat /\ p.latest.status.versionNumber \in Nat \cup {Nil}
            /\ c.status.versionNumber \in Nat \cup {Nil}
        BY <1>1, <1>4, <1>8, PassTypes, CRTypes DEF Base, NumbersIn
      <4>1. CASE InHand(p, <<l, n>>)
        BY <2>3, <3>1, <3>2, <4>0, <4>1 DEF InHand, Covers, Numbered
      <4>2. CASE Covers(c, <<l, n>>) /\ Holds(p)
        <5>1. /\ c.status.versionNumber \in Nat /\ n =< c.status.versionNumber
              /\ c.spec.layer = l
          BY <4>0, <4>2 DEF Covers
        <5>2. /\ p.latest.status.versionNumber \in Nat
              /\ p.latest.status.versionNumber # Nil
              /\ c.status.versionNumber < p.latest.status.versionNumber
          BY <3>1, <3>2, <4>0, <4>2, <5>1, NilIsNoNumber DEF Numbered
        <5>3. n =< p.latest.status.versionNumber
          BY <4>0, <5>1, <5>2
        <5>4. QED
          BY <2>3, <5>1, <5>2, <5>3 DEF Covers
      <4>3. CASE Covers(c, <<l, n>>) /\ ~Holds(p)
        BY <1>4, <2>3, <3>2, <4>3 DEF Covers, Knows
      <4>4. QED
        BY <3>5, <4>1, <4>2, <4>3
    <3>6. QED
      BY <3>4, <3>5 DEF KeepsTidy
  <2>7. QED
    BY <1>2, <1>3, <1>4, <2>1, <2>5, <2>6, QuietStep DEF Inv, LayersOK
<1>9. QED
  BY <1>7, <1>8

LEMMA FailStep ==
  ASSUME Inv, NEW k \in Key, Fail(k) PROVE Inv'
<1>1. Base
  BY DEF Inv
<1>2. Grows
  BY <1>1, SpendGrows DEF Fail, CallFails, Base, PassInv
<1>3. QED
  BY <1>2, EndStep DEF Fail, CallFails, Idle, At, Conditions

LEMMA TimerStep ==
  ASSUME Inv, NEW k \in Key, Timer(k) PROVE Inv'
<1>1. PassInv(Locations, Held, LayerSpec, Statuses)
  BY DEF Inv, Base
<1>2. Base'
  BY <1>1, ResyncStep DEF Base, Timer
<1>3. Grows
  BY <1>1, SpendGrows DEF Timer, Resync, PassInv
<1>4. Tidy => KeepsTidy(pass[k], cr[k], pass[k], cr[k], layers)
  BY DEF Inv, TidyInv, KeepsTidy
<1>5. QED
  BY <1>2, <1>3, <1>4, QuietStep DEF Inv, LayersOK, Timer, Resync

-----------------------------------------------------------------------------
(* Users and restarts.                                                     *)

(* A change of a CR by a user.                                             *)
LEMMA EditStep ==
  ASSUME Inv, NEW k \in Key, NEW d, Base', Grows, UNCHANGED <<pass, layers>>,
         cr' = [cr EXCEPT ![k] = d], renamed' \in BOOLEAN, renamed => renamed',
         Knows(pass[k], d),
         Tidy /\ ~renamed' =>
           /\ Numbered(pass[k], d, layers)
           /\ \A l \in Layer : \A n \in NumbersIn(layers[l]) :
                Covers(cr[k], <<l, n>>) => Covers(d, <<l, n>>)
  PROVE  Inv'
<1>1. DOMAIN cr = Key
  BY DEF Inv, Base, PassInv
<1>2. Tidy /\ ~renamed' => KeepsTidy(pass[k], cr[k], pass[k], d, layers)
  BY DEF Inv, TidyInv, KeepsTidy
<1>3. QED
  BY <1>1, <1>2, QuietStep DEF Inv, LayersOK

LEMMA UsersStep ==
  ASSUME Inv, NEW k \in Key, Users(k) PROVE Inv'
<1> DEFINE p == pass[k]
           c == cr[k]
<1>1. PassInv(Locations, Held, LayerSpec, Statuses)
  BY DEF Inv, Base
<1>2. /\ SoundPass(p, c, Locations, Held, LayerSpec, Statuses)
      /\ SoundCR(c, LayerSpec, Statuses) /\ Knows(p, c) /\ DOMAIN cr = Key
  BY <1>1 DEF PassInv, Inv
<1>3. Grows
  BY <1>1, SpendGrows DEF Users, UserApply, UserEdit, UserDelete, PassInv
<1>4. ASSUME NEW s \in Specs, UserApply(k, s, NoStatus), UNCHANGED layers,
             renamed' = (renamed \/ (~Idle(k) /\ s.layer # p.desired.spec.layer))
      PROVE  Inv'
  <2> DEFINE d == FreshCR(s, NoStatus)
  <2>1. s \in LayerSpec
    BY SpecsAre
  <2>2. Base'
    BY <1>1, <1>4, <2>1, NoStatusIs, UserApplyStep DEF Base
  <2>3. /\ cr' = [cr EXCEPT ![k] = d] /\ UNCHANGED pass /\ ~c.exists
        /\ d.exists /\ d.spec = s /\ d.status = NoStatus
    BY <1>4 DEF UserApply, FreshCR
  <2>4. ~c.finalizer /\ ~Holds(p)
    BY <1>2, <2>3 DEF SoundCR, SoundPass, Knows, Holds
  <2>5. p.pc # "idle" => p.desired.status = NoStatus
    BY <1>2, <2>4 DEF SoundPass, Knows
  <2> HIDE DEF d
  <2>6. Knows(p, d)
    BY <1>2, <2>3, <2>5 DEF Knows
  <2>7. Tidy /\ ~renamed' => Numbered(p, d, layers)
    <3> SUFFICES ASSUME Tidy, ~renamed' PROVE Numbered(p, d, layers)
      OBVIOUS
    <3>1. Numbered(p, c, layers)
      BY DEF Inv, TidyInv
    <3>2. p.pc # "idle" => s.layer = p.desired.spec.layer
      BY <1>4 DEF Idle, At
    <3> HIDE DEF p
    <3>3. QED
      BY <2>3, <3>1, <3>2 DEF Numbered, NoStatus, Given
  <2>8. \A v : ~Covers(c, v)
    BY <2>3 DEF Covers
  <2>9. renamed' \in BOOLEAN /\ (renamed => renamed')
    BY <1>4 DEF Inv, LayersOK
  <2>10. QED
    BY <1>3, <1>4, <2>2, <2>3, <2>6, <2>7, <2>8, <2>9, EditStep
<1>5. ASSUME NEW s \in Specs, UserEdit(k, s), UNCHANGED layers,
             renamed' = (renamed \/ s.layer # c.spec.layer)
      PROVE  Inv'
  <2> DEFINE d == [c EXCEPT !.spec = s]
  <2>1. s \in LayerSpec
    BY SpecsAre
  <2>2. Base'
    BY <1>1, <1>5, <2>1, UserEditStep DEF Base
  <2>3. /\ cr' = [cr EXCEPT ![k] = d] /\ UNCHANGED pass /\ c.exists
        /\ d.exists /\ d.spec = s /\ d.status = c.status
        /\ d.finalizer = c.finalizer
    BY <1>2, <1>5, <2>1, EditedIsSound DEF UserEdit
  <2> HIDE DEF d
  <2>4. Knows(p, d)
    BY <1>2, <2>3 DEF Knows
  <2>5. Tidy /\ ~renamed' => Numbered(p, d, layers)
    <3> SUFFICES ASSUME Tidy, ~renamed' PROVE Numbered(p, d, layers)
      OBVIOUS
    <3>1. Numbered(p, c, layers) /\ s.layer = c.spec.layer
      BY <1>5 DEF Inv, TidyInv
    <3> HIDE DEF p, c
    <3>2. QED
      BY <2>3, <3>1 DEF Numbered
  <2>6. \A v : ~renamed' /\ Covers(c, v) => Covers(d, v)
    BY <1>5, <2>3 DEF Covers
  <2>7. renamed' \in BOOLEAN /\ (renamed => renamed')
    BY <1>5 DEF Inv, LayersOK
  <2>8. QED
    BY <1>3, <1>5, <2>2, <2>3, <2>4, <2>5, <2>6, <2>7, EditStep
<1>6. ASSUME UserDelete(k), UNCHANGED <<layers, renamed>>
      PROVE  Inv'
  <2>1. Base'
    BY <1>1, <1>6, UserDeleteStep DEF Base
  <2>2. renamed' \in BOOLEAN /\ (renamed => renamed')
    BY <1>6 DEF Inv, LayersOK
  <2>3. CASE c.finalizer
    <3> DEFINE d == [c EXCEPT !.deleting = TRUE]
    <3>1. c \in [exists : {TRUE}, spec : LayerSpec, status : Statuses,
                 deleting : BOOLEAN, finalizer : BOOLEAN, cond : Conditions]
      BY <1>2, <1>6, ExistingCR DEF SoundCR, UserDelete
    <3>2. /\ cr' = [cr EXCEPT ![k] = d] /\ UNCHANGED pass
          /\ d.exists = c.exists /\ d.spec = c.spec /\ d.status = c.status
          /\ d.finalizer = c.finalizer
      BY <1>2, <1>6, <2>3, <3>1 DEF UserDelete
    <3> HIDE DEF d
    <3>3. Knows(p, d)
      BY <1>2, <3>2 DEF Knows
    <3>4. Tidy => Numbered(p, d, layers)
      <4> SUFFICES ASSUME Tidy PROVE Numbered(p, d, layers)
        OBVIOUS
      <4>1. Numbered(p, c, layers)
        BY DEF Inv, TidyInv
      <4> HIDE DEF p, c
      <4>2. QED
        BY <3>2, <4>1 DEF Numbered
    <3>5. \A v : Covers(c, v) => Covers(d, v)
      BY <3>2 DEF Covers
    <3>6. QED
      BY <1>3, <1>6, <2>1, <2>2, <3>2, <3>3, <3>4, <3>5, EditStep
  <2>4. CASE ~c.finalizer
    <3>1. /\ cr' = [cr EXCEPT ![k] = NoCR] /\ UNCHANGED pass /\ ~NoCR.exists
          /\ c.status = NoStatus
      BY <1>2, <1>6, <2>4 DEF UserDelete, NoCR, Knows
    <3>2. Knows(p, NoCR)
      BY <1>2, <3>1 DEF Knows
    <3>3. Tidy => Numbered(p, NoCR, layers)
      <4> SUFFICES ASSUME Tidy PROVE Numbered(p, NoCR, layers)
        OBVIOUS
      <4>1. Numbered(p, c, layers)
        BY DEF Inv, TidyInv
      <4> HIDE DEF p
      <4>2. QED
        BY <3>1, <4>1 DEF Numbered
    <3>4. \A v : ~Covers(c, v)
      BY <3>1 DEF Covers, NoStatus
    <3>5. QED
      BY <1>3, <1>6, <2>1, <2>2, <3>1, <3>2, <3>3, <3>4, EditStep
  <2>5. QED
    BY <2>3, <2>4
<1>7. QED
  BY <1>4, <1>5, <1>6 DEF Users

(* A restart loses what the passes were working on.                        *)
LEMMA RestartStep ==
  ASSUME Inv, Crash, UNCHANGED <<layers, renamed>> PROVE Inv'
<1>1. PassInv(Locations, Held, LayerSpec, Statuses)
  BY DEF Inv, Base
<1>2. Base'
  BY <1>1, Commons, CrashStep DEF Base
<1>3. /\ spent.faults \in Nat /\ spent'.faults = spent.faults + 1
      /\ spent'.drifts = spent.drifts /\ UNCHANGED cr
      /\ \A k \in Key : pass'[k] = IdlePass
  BY <1>1 DEF PassInv, Crash, Spend, Counts
<1>4. \A k \in Key : Knows(pass[k], cr[k])
  BY DEF Inv
<1>5. \A k \in Key : Knows(pass'[k], cr'[k])
  BY <1>3, <1>4, IdleKnows DEF Knows
<1>6. ASSUME Tidy' PROVE TidyInv'
  <2>1. Tidy
    BY <1>3, <1>6 DEF Tidy, NoDriftYet
  <2>2. TidyInv
    BY <2>1 DEF Inv
  <2>3. \A k \in Key : Numbered(pass'[k], cr'[k], layers')
                       /\ DeletesUp(pass'[k], layers')
    BY <1>3, <2>2, IdleNumbered DEF TidyInv, Numbered
  <2> DEFINE Hand(k) == <<pass[k].latest.spec.layer,
                          pass[k].latest.status.versionNumber>>
             X == {Hand(k) : k \in Key}
             f == [k \in Key |-> Hand(k)]
  <2>4. f \in Surjection(Key, X)
    BY DEF Surjection
  <2>5. IsFiniteSet(X) /\ Cardinality(X) =< Cardinality(Key)
    <3> HIDE DEF f, X
    <3> QED
      BY <2>4, LayerKeys, FS_Surjection
  <2>6. Lost' \subseteq Lost \cup X
    <3> SUFFICES ASSUME NEW v \in Lost', v \notin X PROVE v \in Lost
      OBVIOUS
    <3>1. v \in Ours /\ \A j \in Key : ~Covers(cr[j], v)
      BY <1>3 DEF Lost, Ours, EverOurs, Numbers
    <3>2. \A j \in Key : ~InHand(pass[j], v)
      BY DEF InHand
    <3>3. QED
      BY <3>1, <3>2 DEF Lost
  <2> HIDE DEF X
  <2>7. FewAreLost'
    BY <1>3, <2>2, <2>5, <2>6, MoreAreLost DEF TidyInv
  <2>8. QED
    BY <2>2, <2>3, <2>7 DEF TidyInv
<1>7. QED
  BY <1>2, <1>5, <1>6 DEF Inv, LayersOK

LEMMA DriftStep ==
  ASSUME Inv, NEW l \in Layer, Drift(l) PROVE Inv'
<1>1. PassInv(Locations, Held, LayerSpec, Statuses)
  BY DEF Inv, Base
<1>2. spent' \in Counts /\ spent'.drifts # 0
  BY <1>1 DEF PassInv, Drift, Spend, Counts
<1>3. Base'
  BY <1>1, <1>2, NoStep DEF Base, Drift, PassInv
<1>4. ~Tidy'
  BY <1>2 DEF Tidy, NoDriftYet
<1>5. layers[l] \in Seq(Published)
  BY DEF Inv, LayersOK
<1>6. layers' \in [Layer -> Seq(Published)]
  <2>1. ASSUME NEW v \in Value,
               layers' = [layers EXCEPT ![l] = Append(@,
                 [exists |-> TRUE, by |-> "other", description |-> Nil,
                  content |-> v])]
        PROVE  layers' \in [Layer -> Seq(Published)]
    <3>1. [exists |-> TRUE, by |-> "other", description |-> Nil,
           content |-> v] \in Published
      BY DEF Published
    <3>2. QED
      BY <1>5, <2>1, <3>1 DEF Inv, LayersOK
  <2>2. ASSUME NEW n \in Numbers(l),
               layers' = [layers EXCEPT ![l][n].exists = FALSE]
        PROVE  layers' \in [Layer -> Seq(Published)]
    <3>1. n \in 1..Len(layers[l]) /\ layers[l][n] \in Published
      BY <1>5 DEF Numbers
    <3>2. [layers[l][n] EXCEPT !.exists = FALSE] \in Published
      BY <3>1 DEF Published
    <3>3. [layers[l] EXCEPT ![n] = [layers[l][n] EXCEPT !.exists = FALSE]]
            \in Seq(Published)
      BY <1>5, <3>1, <3>2
    <3>4. QED
      BY <2>2, <3>3 DEF Inv, LayersOK
  <2>3. QED
    BY <2>1, <2>2 DEF Drift
<1>7. QED
  BY <1>3, <1>4, <1>6 DEF Inv, LayersOK, Drift

-----------------------------------------------------------------------------
(* ReadOne.                                                                *)

LEMMA SubjectIs ==
  ASSUME Inv, NEW k \in Key, At(k, "read")
  PROVE  /\ Subject(k) \in [spec : LayerSpec, status : Statuses]
         /\ Subject(k).spec.layer = pass[k].latest.spec.layer
         /\ Subject(k).status = pass[k].latest.status
<1>1. Base /\ Knows(pass[k], cr[k]) /\ ~Idle(k) /\ pass[k].pc # "idle"
      /\ SoundPass(pass[k], cr[k], Locations, Held, LayerSpec, Statuses)
  BY DEF Inv, Idle, At, Base, PassInv
<1>2. /\ pass[k].latest.spec \in LayerSpec /\ pass[k].desired.spec \in LayerSpec
      /\ pass[k].latest.spec.layer = pass[k].desired.spec.layer
      /\ pass[k].latest \in [spec : LayerSpec, status : Statuses]
      /\ pass[k].desired.status \in Statuses
  BY <1>1, PassTypes DEF SoundPass, Knows
<1>3. pass[k].why # "created" => pass[k].latest.status = pass[k].desired.status
  BY <1>1 DEF Knows, Holds, At
<1>4. CASE pass[k].why = "created"
  BY <1>2, <1>4 DEF Subject
<1>5. CASE pass[k].why # "created"
  BY <1>2, <1>3, <1>5 DEF Subject
<1>6. QED
  BY <1>4, <1>5

LEMMA ObservedIs ==
  ASSUME LayersOK, NEW r \in [spec : LayerSpec, status : Statuses], Found(r)
  PROVE  /\ Observed(r) \in [spec : LayerSpec, status : Statuses]
         /\ Observed(r).spec.layer = r.spec.layer
         /\ Observed(r).status = r.status
<1> DEFINE d == layers[r.spec.layer][r.status.versionNumber].description
<1>1. /\ r.spec.layer \in Layer
      /\ r.status.versionNumber \in 1..Len(layers[r.spec.layer])
  BY DEF Found, Numbers, LayerSpec
<1>2. d \in Value \cup {Nil}
  BY <1>1, VersionType
<1> HIDE DEF d
<1> DEFINE t == [r.spec EXCEPT !.description = d]
<1>3. r.spec \in LayerSpec /\ r.status \in Statuses
  OBVIOUS
<1>4. t \in LayerSpec /\ t.layer = r.spec.layer
  BY <1>2, <1>3 DEF LayerSpec
<1>5. Observed(r) = [r EXCEPT !.spec = t]
  BY DEF Observed, d
<1> HIDE DEF t
<1>6. Observed(r) = [spec |-> t, status |-> r.status]
  BY <1>5
<1>7. QED
  BY <1>3, <1>4, <1>6

LEMMA WithStep ==
  ASSUME Inv, NEW k \in Key, ~Idle(k), NEW l \in {"finish", "list", "update"},
         NEW o \in Conditions, NEW r \in [spec : LayerSpec, status : Statuses],
         With(k, l, o, r), UNCHANGED <<cr, queued, spent, layers, renamed>>,
         r.spec.layer = pass[k].latest.spec.layer,
         r.status = pass[k].latest.status,
         Holds(pass[k]) => l = "finish",
         l = "list" => pass[k].why = "delete",
         l = "update" => cr[k].finalizer
  PROVE  Inv'
<1> DEFINE p == pass[k]
           q == [p EXCEPT !.pc = l, !.outcome = o, !.latest = r]
<1>1. PassInv(Locations, Held, LayerSpec, Statuses)
  BY DEF Inv, Base
<1>2. /\ SoundPass(p, cr[k], Locations, Held, LayerSpec, Statuses)
      /\ DOMAIN pass = Key /\ DOMAIN p = DOMAIN IdlePass
      /\ Knows(p, cr[k]) /\ p.pc # "idle"
  BY <1>1 DEF PassInv, SoundPass, Inv, Idle, At
<1>3. pass' = [pass EXCEPT ![k] = q]
  BY <1>2 DEF With
<1>4. /\ q.pc = l /\ q.outcome = o /\ q.latest = r /\ q.why = p.why
      /\ q.desired = p.desired /\ DOMAIN q = DOMAIN p
  BY <1>2 DEF IdlePass
<1> HIDE DEF q
<1>5. SoundPass(q, cr[k], Locations, Held, LayerSpec, Statuses)
  BY <1>2, <1>4 DEF SoundPass, Locations, Held
<1>6. Grows
  BY <1>1, SpendGrows DEF PassInv
<1>7. Base'
  BY <1>1, <1>3, <1>5, <1>6, StepOfPass DEF Base, Grows
<1>8. Knows(q, cr[k])
  BY <1>2, <1>4 DEF Knows, Holds
<1>9. Tidy => KeepsTidy(p, cr[k], q, cr[k], layers)
  <2> SUFFICES ASSUME Tidy PROVE KeepsTidy(p, cr[k], q, cr[k], layers)
    OBVIOUS
  <2>1. Numbered(p, cr[k], layers)
    BY DEF Inv, TidyInv
  <2> HIDE DEF p
  <2>2. Numbered(q, cr[k], layers)
    BY <1>2, <1>4, <2>1 DEF Numbered, Holds, p
  <2>3. DeletesUp(q, layers)
    BY <1>4 DEF DeletesUp, DeletesIn
  <2>4. \A v : InHand(p, v) => InHand(q, v)
    BY <1>4 DEF InHand, Holds, p
  <2>5. QED
    BY <2>2, <2>3, <2>4 DEF KeepsTidy
<1>10. QED
  BY <1>2, <1>3, <1>6, <1>7, <1>8, <1>9, QuietStep DEF Inv, LayersOK

(* A deletion that finds nothing: below its number, nothing is left.       *)
LEMMA AbsentStep ==
  ASSUME Inv, NEW k \in Key, At(k, "read"), ~Found(Subject(k)), NotFound(k),
         UNCHANGED <<cr, queued, spent, layers, renamed>>
  PROVE  Inv'
<1> DEFINE p == pass[k]
<1>1. PassInv(Locations, Held, LayerSpec, Statuses)
  BY DEF Inv, Base
<1>2. /\ ~Idle(k) /\ p.pc = "read" /\ Knows(p, cr[k])
      /\ DOMAIN pass = Key /\ DOMAIN p = DOMAIN IdlePass
  BY <1>1 DEF Inv, Idle, At, PassInv, SoundPass
<1>3. Grows /\ spent' \in Counts
  BY <1>1, SpendGrows DEF PassInv
<1>4. Base'
  BY <1>1, <1>2, <1>3, Commons, NotFoundStep DEF Base
<1>5. CASE p.why = "sync"
  <2>1. PICK l \in {"manage", "create"} : Goto(k, l)
    BY <1>5 DEF NotFound
  <2>2. QED
    BY <1>2, <1>3, <1>4, <1>5, <2>1, GoStep DEF Locations
<1>6. CASE p.why \notin {"sync", "delete"}
  BY <1>2, <1>3, <1>6, EndStep DEF NotFound, Conditions
<1>7. CASE p.why = "delete"
  <2> DEFINE q == [p EXCEPT !.pc = "unmanage"]
  <2>1. pass' = [pass EXCEPT ![k] = q]
    BY <1>2, <1>7 DEF NotFound, Goto
  <2>2. /\ q.pc = "unmanage" /\ q.why = p.why /\ q.desired = p.desired
        /\ q.latest = p.latest
    BY <1>2 DEF IdlePass
  <2> HIDE DEF q
  <2>3. Knows(q, cr[k])
    BY <1>2, <1>7, <2>2 DEF Knows, Holds
  <2>4. Tidy => KeepsTidy(p, cr[k], q, cr[k], layers)
    <3> SUFFICES ASSUME Tidy PROVE KeepsTidy(p, cr[k], q, cr[k], layers)
      OBVIOUS
    <3> DEFINE l == p.latest.spec.layer
               own == p.latest.status.versionNumber
    <3>1. Numbered(p, cr[k], layers) /\ UpClosed(layers[l]) /\ l \in Layer
      BY <1>1, <1>2, PassTypes DEF Inv, TidyInv, Base
    <3>2. ASSUME own # Nil, NEW m \in NumbersIn(layers[l])
          PROVE  own < m
      <4>1. own \in 1..Len(layers[l])
        BY <1>2, <3>1, <3>2 DEF Knows, Numbered, Given
      <4>2. own \notin NumbersIn(layers[l])
        BY <3>1, <3>2, SubjectIs, NumbersAre
           DEF Found, requiredFieldsMissing
      <4>3. ~(m =< own)
        BY <3>1, <4>1, <4>2 DEF UpClosed
      <4>4. m \in Nat /\ own \in Nat
        BY <4>1 DEF NumbersIn
      <4> HIDE DEF own
      <4>5. QED
        BY <4>3, <4>4
    <3>3. DeletesUp(q, layers)
      BY <2>2, <3>2 DEF DeletesUp, DeletesIn
    <3> HIDE DEF p
    <3>4. Numbered(q, cr[k], layers)
      BY <1>7, <2>2, <3>1, <1>2 DEF Numbered, Holds
    <3>5. ~Holds(p)
      BY <1>7 DEF Holds
    <3>6. QED
      BY <3>3, <3>4, <3>5 DEF KeepsTidy, InHand
  <2>5. QED
    BY <1>2, <1>3, <1>4, <2>1, <2>3, <2>4, QuietStep DEF Inv, LayersOK
<1>8. QED
  BY <1>5, <1>6, <1>7

LEMMA ReadStep ==
  ASSUME Inv, NEW k \in Key, ReadOne(k) PROVE Inv'
<1>1. /\ At(k, "read") /\ ~Idle(k) /\ Base /\ LayersOK
      /\ Knows(pass[k], cr[k]) /\ pass[k].pc = "read"
      /\ UNCHANGED <<cr, queued, spent, layers, renamed>>
  BY DEF ReadOne, Idle, At, Inv
<1>2. CASE ~Found(Subject(k)) /\ NotFound(k)
  BY <1>1, <1>2, AbsentStep
<1>3. CASE Found(Subject(k)) /\ Compare(k)
  <2> DEFINE o == Observed(Subject(k))
  <2>1. /\ o \in [spec : LayerSpec, status : Statuses]
        /\ o.spec.layer = pass[k].latest.spec.layer
        /\ o.status = pass[k].latest.status
    BY <1>1, <1>3, SubjectIs, ObservedIs
  <2> HIDE DEF o
  <2>2. CASE pass[k].why = "created" /\ With(k, "finish", "Synced", o)
    BY <1>1, <2>1, <2>2, WithStep DEF Conditions
  <2>3. CASE pass[k].why = "delete" /\ With(k, "list", "Unknown", o)
    BY <1>1, <2>1, <2>3, WithStep DEF Conditions, Holds
  <2>4. CASE EndPass(k, "Terminal")
    <3>1. Grows
      BY <1>1, SpendGrows DEF Base, PassInv
    <3>2. QED
      BY <1>1, <2>4, <3>1, EndStep DEF Conditions
  <2>5. CASE pass[k].why = "sync" /\ With(k, "finish", "Synced", o)
    BY <1>1, <2>1, <2>5, WithStep DEF Conditions
  <2>6. CASE pass[k].why = "sync" /\ IsManaged(k) /\ With(k, "update", "Unknown", o)
    <3>1. cr[k].finalizer
      BY <1>1, <2>6 DEF Base, PassInv, SoundPass, IsManaged
    <3>2. QED
      BY <1>1, <2>1, <2>6, <3>1, WithStep DEF Conditions, Holds
  <2>7. QED
    BY <1>3, <2>2, <2>3, <2>4, <2>5, <2>6 DEF Compare, o
<1>4. QED
  BY <1>2, <1>3 DEF ReadOne

-----------------------------------------------------------------------------
(* Steps that publish or delete.                                           *)

LEMMA LongerIsNumbered ==
  ASSUME Base, NEW k \in Key, NEW ls, NEW ms, Numbered(pass[k], cr[k], ls),
         \A l \in Layer : /\ Len(ls[l]) \in Nat /\ Len(ms[l]) \in Nat
                          /\ Len(ls[l]) =< Len(ms[l])
  PROVE  Numbered(pass[k], cr[k], ms)
<1> DEFINE p == pass[k]
           c == cr[k]
<1>1. ASSUME NEW l \in Layer, NEW n, Given(ls[l], n) PROVE Given(ms[l], n)
  BY <1>1 DEF Given
<1>2. c.exists => Given(ms[c.spec.layer], c.status.versionNumber)
  BY <1>1, CRTypes DEF Numbered
<1>3. ASSUME p.pc # "idle"
      PROVE  /\ Given(ms[p.desired.spec.layer], p.desired.status.versionNumber)
             /\ Given(ms[p.desired.spec.layer], p.latest.status.versionNumber)
  BY <1>1, <1>3, PassTypes DEF Numbered, Idle, At
<1> HIDE DEF p, c
<1>4. QED
  BY <1>2, <1>3 DEF Numbered, p, c

LEMMA ShrunkDeletes ==
  ASSUME NEW p, NEW vs, NEW ws, DeletesIn(p, vs), Len(ws) = Len(vs),
         NumbersIn(ws) \subseteq NumbersIn(vs)
  PROVE  DeletesIn(p, ws)
<1>1. CASE p.pc \in {"deleteOld", "deleteOwn"}
  BY <1>1 DEF DeletesIn
<1>2. CASE p.pc = "unmanage"
  BY <1>2 DEF DeletesIn
<1>3. QED
  BY <1>1, <1>2 DEF DeletesIn

(* What is left of a layer after the deletion of a version.                *)
LEMMA ShrunkLayer ==
  ASSUME Base, LayersOK, NEW k, Doomed(k) \in Layer, NEW n,
         DeleteLayerVersion(k, n)
  PROVE  LET l == Doomed(k)
             vs == layers[l]
             ws == layers'[l]
         IN  /\ layers' \in [Layer -> Seq(Published)]
             /\ layers' = [layers EXCEPT ![l] = ws]
             /\ Len(vs) \in Nat /\ Len(ws) = Len(vs)
             /\ NumbersIn(ws) = NumbersIn(vs) \ {n}
             /\ \A i \in 1..Len(vs) : ws[i].by = vs[i].by
<1> DEFINE l == Doomed(k)
           vs == layers[l]
           ws == [i \in DOMAIN vs |-> IF i = n THEN [vs[i] EXCEPT !.exists = FALSE]
                                      ELSE vs[i]]
<1>2. l \in Layer
  OBVIOUS
<1>3. vs \in Seq(Published) /\ layers \in [Layer -> Seq(Published)]
  BY <1>2 DEF LayersOK
<1>4. layers' = [layers EXCEPT ![l] = ws]
  BY <1>2, <1>3 DEF DeleteLayerVersion
<1>5. Len(vs) \in Nat /\ DOMAIN vs = 1..Len(vs)
  BY <1>3
<1>6. \A i \in 1..Len(vs) : ws[i] \in Published
  <2>1. \A i \in 1..Len(vs) : vs[i] \in Published
    BY <1>3
  <2>2. \A x \in Published : [x EXCEPT !.exists = FALSE] \in Published
    BY DEF Published
  <2>3. QED
    BY <1>5, <2>1, <2>2
<1>7. ws \in Seq(Published) /\ Len(ws) = Len(vs)
  <2>1. ws \in [1..Len(vs) -> Published]
    BY <1>5, <1>6
  <2> HIDE DEF ws
  <2>2. QED
    BY <1>5, <2>1
<1>8. NumbersIn(ws) = NumbersIn(vs) \ {n}
  <2>1. \A i \in 1..Len(vs) : vs[i] \in Published
    BY <1>3
  <2>2. \A i \in 1..Len(vs) : ws[i].exists <=> vs[i].exists /\ i # n
    BY <1>5, <2>1 DEF Published
  <2> HIDE DEF ws
  <2>3. QED
    BY <1>7, <2>2 DEF NumbersIn
<1>9. \A i \in 1..Len(vs) : ws[i].by = vs[i].by
  BY <1>3, <1>5 DEF Published
<1>10. layers'[l] = ws
  BY <1>2, <1>3, <1>4
<1> HIDE DEF ws
<1>11. layers' \in [Layer -> Seq(Published)] /\ layers' = [layers EXCEPT ![l] = ws]
  BY <1>2, <1>3, <1>4, <1>7
<1>12. QED
  BY <1>5, <1>7, <1>8, <1>9, <1>10, <1>11

(* Of the numbers ns, n is the lowest, if it is one of them.               *)
IsLowest(n, ns) == n \in ns => \A m \in ns : n =< m

(* The deletion of a version, with what the pass of k then is.             *)
LEMMA ShrinkStep ==
  ASSUME Inv, NEW k \in Key, ~Idle(k), NEW n, DeleteLayerVersion(k, n),
         UNCHANGED <<cr, renamed>>, Base', Grows,
         \A j \in Key \ {k} : pass'[j] = pass[j], NEW q, pass'[k] = q,
         q.why = pass[k].why, q.desired = pass[k].desired,
         q.latest = pass[k].latest, q.pc # "idle", ~Holds(pass[k]),
         Knows(q, cr[k]),
         Tidy => /\ IsLowest(n, NumbersIn(layers[Doomed(k)]))
                 /\ DeletesUp(q, layers')
  PROVE  Inv'
<1> DEFINE l == Doomed(k)
           vs == layers[l]
           ws == layers'[l]
<1>1. Base /\ LayersOK
  BY DEF Inv
<1>2. l \in Layer
  BY <1>1, PassTypes DEF Doomed
<1>3. vs \in Seq(Published) /\ layers \in [Layer -> Seq(Published)]
  BY <1>1, <1>2 DEF LayersOK
<1>4. /\ layers' \in [Layer -> Seq(Published)]
      /\ layers' = [layers EXCEPT ![l] = ws]
      /\ Len(vs) \in Nat /\ Len(ws) = Len(vs)
      /\ NumbersIn(ws) = NumbersIn(vs) \ {n}
      /\ \A i \in 1..Len(vs) : ws[i].by = vs[i].by
  BY <1>1, <1>2, ShrunkLayer
<1>7. ws \in Seq(Published) /\ Len(ws) = Len(vs)
  BY <1>2, <1>4
<1>8. NumbersIn(ws) = NumbersIn(vs) \ {n}
  BY <1>4
<1>9. \A i \in 1..Len(vs) : ws[i].by = vs[i].by
  BY <1>4
<1> HIDE DEF ws
<1>10. LayersOK'
  BY <1>1, <1>2, <1>3, <1>4, <1>7 DEF LayersOK
<1>11. \A j \in Key : Knows(pass'[j], cr'[j])
  BY DEF Inv
<1>12. \A i \in Layer : /\ Len(layers'[i]) = Len(layers[i])
                        /\ NumbersIn(layers'[i]) \subseteq NumbersIn(layers[i])
                        /\ Len(layers[i]) \in Nat
  BY <1>2, <1>3, <1>4, <1>7, <1>8
<1>13. ASSUME Tidy' PROVE TidyInv'
  <2>1. Tidy
    BY <1>12, <1>13 DEF Tidy, NoDriftYet, Grows
  <2>2. TidyInv
    BY <2>1 DEF Inv
  <2>3. \A j \in Key : Numbered(pass[j], cr[j], layers')
    <3>1. \A i \in Layer : /\ Len(layers[i]) \in Nat /\ Len(layers'[i]) \in Nat
                           /\ Len(layers[i]) =< Len(layers'[i])
      BY <1>12
    <3>2. QED
      BY <1>1, <2>2, <3>1, LongerIsNumbered DEF TidyInv
  <2>4. Numbered(q, cr[k], layers')
    <3>1. Numbered(pass[k], cr[k], layers') /\ pass[k].pc # "idle"
      BY <2>3 DEF Idle, At
    <3>2. QED
      BY <3>1 DEF Numbered, Holds
  <2>5. ASSUME NEW j \in Key \ {k} PROVE DeletesUp(pass[j], layers')
    <3> DEFINE p == pass[j]
               i == p.latest.spec.layer
    <3>1. DeletesUp(p, layers)
      BY <2>2 DEF TidyInv
    <3>2. CASE p.pc \in {"deleteOld", "deleteOwn", "unmanage"}
      <4>1. i \in Layer
        BY <1>1, <3>2, PassTypes DEF Idle, At
      <4>2. /\ Len(layers'[i]) = Len(layers[i])
            /\ NumbersIn(layers'[i]) \subseteq NumbersIn(layers[i])
        BY <1>12, <4>1
      <4>3. DeletesIn(p, layers[i])
        BY <3>1 DEF DeletesUp
      <4> HIDE DEF p
      <4>4. DeletesIn(p, layers'[i])
        BY <4>2, <4>3, ShrunkDeletes
      <4>5. QED
        BY <4>4 DEF DeletesUp, p
    <3>3. CASE p.pc \notin {"deleteOld", "deleteOwn", "unmanage"}
      BY <3>3 DEF DeletesUp, DeletesIn
    <3>4. QED
      BY <3>2, <3>3
  <2>6. \A j \in Key : Numbered(pass'[j], cr'[j], layers')
                       /\ DeletesUp(pass'[j], layers')
    BY <2>1, <2>3, <2>4, <2>5
  <2>7. UpClosed(ws)
    <3>1. UpClosed(vs)
      BY <1>2, <2>2 DEF TidyInv
    <3>2. n \in NumbersIn(vs) => \A m \in NumbersIn(vs) : n =< m
      BY <2>1 DEF IsLowest
    <3> SUFFICES ASSUME NEW a \in NumbersIn(ws), NEW b \in 1..Len(ws), a =< b
                 PROVE  b \in NumbersIn(ws)
      BY DEF UpClosed
    <3>3. a \in NumbersIn(vs) /\ a # n /\ b \in NumbersIn(vs)
      BY <1>7, <1>8, <3>1 DEF UpClosed
    <3>4. ASSUME b = n PROVE FALSE
      <4>1. n =< a /\ n \in Nat /\ a \in Nat
        BY <3>2, <3>3, <3>4 DEF NumbersIn
      <4>2. QED
        BY <3>3, <3>4, <4>1
    <3>5. QED
      BY <1>8, <3>3, <3>4
  <2>8. \A i \in Layer : UpClosed(layers'[i])
    BY <1>2, <1>3, <1>4, <2>2, <2>7 DEF TidyInv
  <2>9. Lost' \subseteq Lost
    <3> SUFFICES ASSUME NEW v \in Lost' PROVE v \in Lost
      OBVIOUS
    <3>1. /\ v \in Ours'
          /\ \A j \in Key : ~Covers(cr[j], v) /\ ~InHand(pass'[j], v)
      BY DEF Lost
    <3>2. PICK i \in Layer : \E m \in NumbersIn(layers'[i]) :
                               v = <<i, m>> /\ layers'[i][m].by = "us"
      BY <3>1, OursNext
    <3>3. PICK m \in NumbersIn(layers'[i]) : v = <<i, m>> /\ layers'[i][m].by = "us"
      BY <3>2
    <3>4. m \in NumbersIn(layers[i])
      BY <1>12
    <3>5. layers[i][m].by = "us"
      <4>1. CASE i # l
        BY <1>4, <1>3, <3>3, <4>1
      <4>2. CASE i = l
        BY <1>2, <1>3, <1>4, <1>9, <3>3, <3>4, <4>2 DEF NumbersIn
      <4>3. QED
        BY <4>1, <4>2
    <3>6. v \in Ours
      BY <3>3, <3>4, <3>5, OursAre
    <3>7. \A j \in Key : ~InHand(pass[j], v)
      BY <3>1 DEF InHand
    <3>8. QED
      BY <3>1, <3>6, <3>7 DEF Lost
  <2>10. spent.faults \in Nat
    BY DEF Grows, Counts
  <2>11. FewAreLost'
    BY <2>2, <2>9, <2>10, FewerAreLost DEF Grows, TidyInv
  <2>12. QED
    BY <2>6, <2>8, <2>11 DEF TidyInv
<1>14. QED
  BY <1>10, <1>11, <1>13 DEF Inv

LEMMA Appended ==
  ASSUME NEW T, NEW vs \in Seq(T), NEW r \in T, r.exists
  PROVE  LET ws == Append(vs, r) IN
         /\ Len(vs) \in Nat /\ Len(ws) = Len(vs) + 1
         /\ \A i \in 1..Len(vs) : ws[i] = vs[i]
         /\ NumbersIn(ws) = NumbersIn(vs) \cup {Len(vs) + 1}
<1> DEFINE ws == Append(vs, r)
           n == Len(vs)
<1>1. n \in Nat /\ Len(ws) = n + 1 /\ \A i \in 1..n : ws[i] = vs[i]
  OBVIOUS
<1>2. ws[n + 1] = r
  OBVIOUS
<1> HIDE DEF ws, n
<1>3. \A i \in 1..(n + 1) : i \in 1..n \/ i = n + 1
  BY <1>1
<1>4. \A i \in 1..n : i \in 1..(n + 1)
  BY <1>1
<1>5. NumbersIn(ws) = NumbersIn(vs) \cup {n + 1}
  BY <1>1, <1>2, <1>3, <1>4 DEF NumbersIn, n
<1>6. QED
  BY <1>1, <1>5 DEF ws, n

LEMMA ExtendedDeletes ==
  ASSUME NEW p, NEW vs, NEW ws, DeletesIn(p, vs), Len(vs) \in Nat,
         Given(vs, p.latest.status.versionNumber),
         Len(ws) = Len(vs) + 1, NumbersIn(ws) = NumbersIn(vs) \cup {Len(vs) + 1}
  PROVE  DeletesIn(p, ws)
<1> DEFINE own == p.latest.status.versionNumber
           top == Len(vs) + 1
<1>1. NumbersIn(vs) \subseteq 1..Len(vs) /\ Nil \notin Nat
  BY NilIsNoNumber DEF NumbersIn
<1>2. CASE p.pc \in {"deleteOld", "deleteOwn"}
  <2>1. /\ p.todo \subseteq 1..Len(vs)
        /\ p.pc = "deleteOwn" => p.todo = {}
        /\ \A m \in NumbersIn(vs) : m \in p.todo \/ \A t \in p.todo : t < m
        /\ own \in NumbersIn(vs) =>
             \A m \in NumbersIn(vs) : m \in p.todo \/ own =< m
    BY <1>2 DEF DeletesIn
  <2>2. p.todo \subseteq 1..Len(ws)
    BY <2>1
  <2>3. ASSUME NEW m \in NumbersIn(ws)
        PROVE  m \in p.todo \/ \A t \in p.todo : t < m
    BY <2>1
  <2>4. ASSUME own \in NumbersIn(ws), NEW m \in NumbersIn(ws)
        PROVE  m \in p.todo \/ own =< m
    <3>1. own \in 1..Len(vs)
      BY <1>1, <2>4 DEF Given
    <3>2. own \in NumbersIn(vs)
      BY <2>4, <3>1
    <3> HIDE DEF own
    <3>3. CASE m = top
      BY <3>1, <3>3
    <3>4. CASE m \in NumbersIn(vs)
      BY <2>1, <3>2, <3>4
    <3>5. QED
      BY <3>3, <3>4
  <2>5. QED
    BY <1>2, <2>1, <2>2, <2>3, <2>4 DEF DeletesIn
<1>3. CASE p.pc = "unmanage"
  <2>1. ASSUME own # Nil, NEW m \in NumbersIn(ws) PROVE own < m
    <3>1. own \in 1..Len(vs)
      BY <2>1 DEF Given
    <3>2. m \in NumbersIn(vs) => own < m
      BY <1>3, <2>1 DEF DeletesIn
    <3> HIDE DEF own
    <3>3. QED
      BY <3>1, <3>2
  <2>2. QED
    BY <1>3, <2>1 DEF DeletesIn
<1>4. QED
  BY <1>2, <1>3 DEF DeletesIn

(* One of several sequences grows.                                         *)
LEMMA OneGrows ==
  ASSUME NEW D, NEW S, NEW f \in [D -> Seq(S)], NEW l \in D, NEW ws \in Seq(S),
         Len(ws) = Len(f[l]) + 1, NEW g, g = [f EXCEPT ![l] = ws]
  PROVE  \A i \in D : /\ Len(f[i]) \in Nat /\ Len(g[i]) \in Nat
                      /\ Len(f[i]) =< Len(g[i])
                      /\ i # l => g[i] = f[i]
                      /\ i = l => g[i] = ws
OBVIOUS

(* A publication: its number is in the hands of the worker, or the answer  *)
(* is lost.                                                                *)
LEMMA GrowStep ==
  ASSUME Inv, NEW k \in Key, ~Idle(k), ~Holds(pass[k]),
         NEW l \in Layer, l = pass[k].desired.spec.layer,
         NEW r \in Published, r.exists,
         layers' = [layers EXCEPT ![l] = Append(@, r)],
         UNCHANGED <<cr, renamed>>, Base', Grows,
         \A j \in Key \ {k} : pass'[j] = pass[j], NEW q, pass'[k] = q,
         q.desired = pass[k].desired, q.pc \in {"read", "finish"}, Knows(q, cr[k]),
         \/ /\ Holds(q) /\ q.latest.spec.layer = l
            /\ q.latest.status.versionNumber = Len(layers[l]) + 1
         \/ /\ ~Holds(q) /\ q.latest = pass[k].latest
            /\ spent'.faults = spent.faults + 1
  PROVE  Inv'
<1> DEFINE vs == layers[l]
           ws == Append(vs, r)
           top == Len(vs) + 1
           c == cr[k]
           p == pass[k]
<1>1. Base /\ LayersOK
  BY DEF Inv
<1>2. vs \in Seq(Published) /\ layers \in [Layer -> Seq(Published)]
  BY <1>1 DEF LayersOK
<1>3. layers' = [layers EXCEPT ![l] = ws] /\ ws \in Seq(Published)
  BY <1>2
<1>4. /\ Len(vs) \in Nat /\ Len(ws) = top
      /\ \A i \in 1..Len(vs) : ws[i] = vs[i]
  BY <1>2, Appended
<1>5. NumbersIn(ws) = NumbersIn(vs) \cup {top}
  BY <1>2, Appended
<1> HIDE DEF ws
<1>6. LayersOK'
  BY <1>1, <1>2, <1>3 DEF LayersOK
<1>7. \A j \in Key : Knows(pass'[j], cr'[j])
  BY DEF Inv
<1>8. \A i \in Layer : /\ Len(layers[i]) \in Nat /\ Len(layers'[i]) \in Nat
                       /\ Len(layers[i]) =< Len(layers'[i])
                       /\ i # l => layers'[i] = layers[i]
                       /\ i = l => layers'[i] = ws
  <2>1. Len(ws) = Len(layers[l]) + 1
    BY <1>4
  <2>2. layers \in [Layer -> Seq(Published)] /\ ws \in Seq(Published)
    BY <1>2, <1>3
  <2> DEFINE Grown(g) == \A i \in Layer :
                           /\ Len(layers[i]) \in Nat /\ Len(g[i]) \in Nat
                           /\ Len(layers[i]) =< Len(g[i])
                           /\ i # l => g[i] = layers[i]
                           /\ i = l => g[i] = ws
  <2>3. Grown([layers EXCEPT ![l] = ws])
    BY <2>1, <2>2, OneGrows
  <2> HIDE DEF Grown
  <2>4. Grown(layers')
    BY <1>3, <2>3
  <2>5. QED
    BY <2>4 DEF Grown
<1>9. ASSUME Tidy' PROVE TidyInv'
  <2>1. Tidy
    <3>1. ASSUME NEW i \in Layer PROVE Len(layers[i]) =< PageSize
      <4> DEFINE a == Len(layers[i])
                 b == Len(layers'[i])
      <4>1. b =< PageSize
        BY <1>9, Zenon DEF Tidy
      <4>2. a \in Nat /\ b \in Nat /\ a =< b
        BY <1>8, Zenon
      <4> HIDE DEF a, b
      <4>3. a =< PageSize
        BY <4>1, <4>2, LayerPage
      <4>4. QED
        BY <4>3 DEF a
    <3>2. QED
      BY <1>9, <3>1 DEF Tidy, NoDriftYet, Grows
  <2>2. TidyInv
    BY <2>1 DEF Inv
  <2>3. \A j \in Key : Numbered(pass[j], cr[j], layers')
    BY <1>1, <1>8, <2>2, LongerIsNumbered DEF TidyInv
  <2>4. Numbered(q, c, layers')
    <3>1. Numbered(p, c, layers') /\ p.pc # "idle"
      BY <2>3 DEF Idle, At
    <3>2. CASE ~Holds(q)
      BY <3>1, <3>2 DEF Numbered
    <3>3. CASE Holds(q)
      <4>2. q.latest.status.versionNumber = top /\ top # Nil
        BY <1>4, <3>3, NilIsNoNumber
      <4>1. Given(layers'[l], q.latest.status.versionNumber)
        <5>1. layers'[l] = ws
          BY <1>8, Zenon
        <5>2. top \in 1..Len(ws)
          BY <1>4
        <5>3. QED
          BY <4>2, <5>1, <5>2, Zenon DEF Given
      <4>3. Given(layers[l], p.desired.status.versionNumber)
        BY <2>2, <3>1 DEF TidyInv, Numbered
      <4>4. p.desired.status.versionNumber # Nil =>
              p.desired.status.versionNumber < top
        <5> DEFINE n == p.desired.status.versionNumber
        <5>1. n # Nil => n \in 1..Len(vs)
          BY <4>3 DEF Given
        <5> HIDE DEF n
        <5>2. n # Nil => n < top
          BY <1>4, <5>1
        <5>3. QED
          BY <5>2 DEF n
      <4> HIDE DEF p, c, top
      <4>5. QED
        BY <3>1, <3>3, <4>1, <4>2, <4>4 DEF Numbered, p
    <3>4. QED
      BY <3>2, <3>3
  <2>5. DeletesUp(q, layers')
    BY DEF DeletesUp, DeletesIn
  <2>6. ASSUME NEW j \in Key \ {k} PROVE DeletesUp(pass[j], layers')
    <3> DEFINE s == pass[j]
               i == s.latest.spec.layer
    <3>1. DeletesUp(s, layers) /\ Numbered(s, cr[j], layers) /\ Knows(s, cr[j])
      BY <2>2 DEF TidyInv, Inv
    <3>2. CASE s.pc \in {"deleteOld", "deleteOwn", "unmanage"} /\ i = l
      <4>1. DeletesIn(s, vs) /\ Given(vs, s.latest.status.versionNumber)
        BY <3>1, <3>2 DEF DeletesUp, Numbered, Knows
      <4> HIDE DEF s
      <4>2. DeletesIn(s, ws)
        BY <1>4, <1>5, <4>1, ExtendedDeletes
      <4>3. QED
        BY <1>8, <3>2, <4>2 DEF DeletesUp, s
    <3>3. CASE s.pc \in {"deleteOld", "deleteOwn", "unmanage"} /\ i # l
      <4>1. i \in Layer
        BY <1>1, <3>3, PassTypes DEF Idle, At
      <4>2. QED
        BY <1>8, <3>1, <3>3, <4>1 DEF DeletesUp
    <3>4. CASE s.pc \notin {"deleteOld", "deleteOwn", "unmanage"}
      BY <3>4 DEF DeletesUp, DeletesIn
    <3>5. QED
      BY <3>2, <3>3, <3>4
  <2>7. \A j \in Key : Numbered(pass'[j], cr'[j], layers')
                       /\ DeletesUp(pass'[j], layers')
    BY <2>3, <2>4, <2>5, <2>6
  <2>8. UpClosed(ws)
    <3>1. UpClosed(vs)
      BY <2>2 DEF TidyInv
    <3> SUFFICES ASSUME NEW a \in NumbersIn(ws), NEW b \in 1..Len(ws), a =< b
                 PROVE  b \in NumbersIn(ws)
      BY DEF UpClosed
    <3>2. CASE b = top
      BY <1>5, <3>2
    <3>3. CASE b \in 1..Len(vs)
      <4>1. a \in NumbersIn(vs)
        BY <1>4, <1>5, <3>3
      <4>2. QED
        BY <1>5, <3>1, <3>3, <4>1 DEF UpClosed
    <3>4. QED
      <4> DEFINE n == Len(vs)
      <4>1. n \in Nat /\ b \in 1..(n + 1)
        BY <1>4
      <4> HIDE DEF n
      <4>2. b \in 1..n \/ b = n + 1
        BY <4>1
      <4>3. QED
        BY <3>2, <3>3, <4>2 DEF n
  <2>9. \A i \in Layer : UpClosed(layers'[i])
    BY <1>8, <2>2, <2>8 DEF TidyInv
  <2>10. ASSUME NEW v \in Lost', v # <<l, top>> PROVE v \in Lost
    <3>1. /\ v \in Ours'
          /\ \A j \in Key : ~Covers(cr[j], v) /\ ~InHand(pass'[j], v)
      BY DEF Lost
    <3>3. PICK i \in Layer : \E m \in NumbersIn(layers'[i]) :
                               v = <<i, m>> /\ layers'[i][m].by = "us"
      BY <3>1, OursNext
    <3>4. PICK m \in NumbersIn(layers'[i]) : v = <<i, m>> /\ layers'[i][m].by = "us"
      BY <3>3
    <3>5. m \in NumbersIn(layers[i]) /\ layers[i][m].by = "us"
      <4>1. CASE i # l
        BY <1>8, <3>4, <4>1
      <4>2. CASE i = l
        <5>1. m \in NumbersIn(vs)
          BY <1>5, <1>8, <2>10, <3>4, <4>2
        <5>2. ws[m] = vs[m]
          BY <1>4, <5>1 DEF NumbersIn
        <5>3. QED
          BY <1>8, <3>4, <4>2, <5>1, <5>2
      <4>3. QED
        BY <4>1, <4>2
    <3>6. v \in Ours
      BY <3>4, <3>5, OursAre
    <3>7. \A j \in Key : ~InHand(pass[j], v)
      BY <3>1 DEF InHand
    <3>8. QED
      BY <3>1, <3>6, <3>7 DEF Lost
  <2>11. spent.faults \in Nat
    BY DEF Grows, Counts
  <2>12. FewAreLost'
    <3>1. CASE Holds(q)
      <4>1. InHand(q, <<l, top>>)
        BY <3>1 DEF InHand, Holds
      <4>2. <<l, top>> \notin Lost'
        BY <4>1 DEF Lost
      <4>3. Lost' \subseteq Lost
        BY <2>10, <4>2
      <4>4. QED
        BY <2>2, <2>11, <4>3, FewerAreLost DEF Grows, TidyInv
    <3>2. CASE ~Holds(q)
      <4> DEFINE X == {<<l, top>>}
      <4>1. IsFiniteSet(X) /\ Cardinality(X) = 1
        BY FS_Singleton
      <4>2. Cardinality(Key) # 0
        BY LayerKeys, FS_EmptySet
      <4>3. Cardinality(X) =< Cardinality(Key)
        BY <4>1, <4>2, KeyCount
      <4>4. Lost' \subseteq Lost \cup X
        BY <2>10
      <4> HIDE DEF X
      <4>5. QED
        BY <2>2, <2>11, <3>2, <4>1, <4>3, <4>4, MoreAreLost DEF TidyInv
    <3>3. QED
      BY <3>1, <3>2
  <2>13. QED
    BY <2>7, <2>9, <2>12 DEF TidyInv
<1>10. QED
  BY <1>6, <1>7, <1>9 DEF Inv

LEMMA PublishStep ==
  ASSUME Inv, NEW k \in Key, pass[k].pc \in {"create", "update"},
         NEW l \in {"read", "finish"}, NEW o \in Conditions,
         NEW w \in {"created", "updated"}, w = "created" \/ l = "finish",
         PublishLayerVersion(k, l, o, w), UNCHANGED <<cr, queued, renamed>>
  PROVE  Inv'
<1> DEFINE p == pass[k]
           c == cr[k]
           name == p.desired.spec.layer
           r == Request(p.desired.spec)
<1>1. PassInv(Locations, Held, LayerSpec, Statuses)
  BY DEF Inv, Base
<1>2. /\ ~Idle(k) /\ DOMAIN pass = Key /\ DOMAIN p = DOMAIN IdlePass
      /\ SoundPass(p, c, Locations, Held, LayerSpec, Statuses)
      /\ Knows(p, c) /\ ~Holds(p) /\ p.pc # "idle"
  BY <1>1 DEF PassInv, SoundPass, Idle, At, Inv, Knows
<1>3. c.finalizer
  BY <1>2 DEF SoundPass, Held
<1>4. /\ name \in Layer /\ p.desired.spec \in LayerSpec
      /\ r \in Published /\ r.exists
  BY <1>1, <1>2, PassTypes DEF Base, Request, Published, LayerSpec
<1>5. layers' = [layers EXCEPT ![name] = Append(@, r)]
  BY DEF PublishLayerVersion
<1>6. /\ layers[name] \in Seq(Published)
      /\ Len(layers'[name]) = Len(layers[name]) + 1 /\ Len(layers[name]) \in Nat
  BY <1>4, <1>5, Appended DEF Inv, LayersOK
<1>7. CASE /\ pass' = [pass EXCEPT
                ![k].pc = l, ![k].outcome = o, ![k].why = w,
                ![k].latest = Answer(k, Len(layers'[name]))]
           /\ UNCHANGED spent
  <2> DEFINE n == Len(layers[name]) + 1
             e == [p.desired.spec EXCEPT !.content = Nil]
             a == [spec |-> e, status |-> [versionNumber |-> n]]
             q == [p EXCEPT !.pc = l, !.outcome = o, !.why = w, !.latest = a]
  <2>1. pass' = [pass EXCEPT ![k] = q]
    BY <1>2, <1>6, <1>7 DEF Answer
  <2>2. /\ a \in [spec : LayerSpec, status : Statuses]
        /\ a.spec.layer = p.desired.spec.layer /\ a.status.versionNumber = n
    <3>1. n \in Nat
      <4> HIDE DEF name
      <4>1. QED
        BY <1>6
    <3> HIDE DEF n
    <3>2. [versionNumber |-> n] \in Statuses
      BY <3>1 DEF Statuses
    <3>3. e \in LayerSpec /\ e.layer = p.desired.spec.layer
      BY <1>4 DEF LayerSpec
    <3> HIDE DEF e
    <3>4. QED
      BY <3>2, <3>3
  <2> HIDE DEF a, n
  <2>3. /\ q.pc = l /\ q.outcome = o /\ q.why = w /\ q.latest = a
        /\ q.desired = p.desired /\ DOMAIN q = DOMAIN p
    BY <1>2 DEF IdlePass
  <2> HIDE DEF q
  <2>4. Holds(q)
    BY <2>3 DEF Holds
  <2>5. SoundPass(q, c, Locations, Held, LayerSpec, Statuses)
    BY <1>2, <1>3, <2>2, <2>3 DEF SoundPass, Locations, Held, Purposes
  <2>6. Grows
    BY <1>1, <1>7, SpendGrows DEF PassInv
  <2>7. Base'
    BY <1>1, <2>1, <2>5, <2>6, StepOfPass DEF Base, Grows
  <2>8. Knows(q, c)
    BY <1>2, <2>2, <2>3, <2>4 DEF Knows
  <2>9. /\ q.latest.spec.layer = name
        /\ q.latest.status.versionNumber = Len(layers[name]) + 1
    BY <2>2, <2>3 DEF n
  <2>10. pass'[k] = q /\ \A j \in Key \ {k} : pass'[j] = pass[j]
    BY <1>2, <2>1
  <2> HIDE DEF r, name
  <2>11. QED
    BY <1>2, <1>4, <1>5, <2>3, <2>4, <2>6, <2>7, <2>8, <2>9, <2>10, GrowStep
       DEF name
<1>8. CASE Spend("faults") /\ EndPass(k, "Recoverable")
  <2> DEFINE q == [p EXCEPT !.pc = "finish", !.outcome = "Recoverable"]
  <2>1. pass' = [pass EXCEPT ![k] = q]
    BY <1>2, <1>8 DEF EndPass
  <2>2. /\ q.pc = "finish" /\ q.why = p.why /\ q.latest = p.latest
        /\ q.desired = p.desired
    BY <1>2 DEF IdlePass
  <2> HIDE DEF q
  <2>3. Grows /\ spent'.faults = spent.faults + 1
    BY <1>1, <1>8, SpendGrows DEF PassInv, Spend, Counts
  <2>4. Base'
    BY <1>1, <1>2, <1>8, <2>3, Commons, EndPassStep DEF Base, Conditions, Grows
  <2>5. Knows(q, c)
    BY <1>2, <2>2, MovedKnows
  <2>6. ~Holds(q)
    BY <1>2, <2>2 DEF Holds
  <2>7. pass'[k] = q /\ \A j \in Key \ {k} : pass'[j] = pass[j]
    BY <1>2, <2>1
  <2> HIDE DEF r, name
  <2>8. QED
    BY <1>2, <1>4, <1>5, <2>2, <2>3, <2>4, <2>5, <2>6, <2>7, GrowStep
       DEF name
<1>9. QED
  BY <1>7, <1>8 DEF PublishLayerVersion

-----------------------------------------------------------------------------
(* A deletion.                                                             *)

LEMMA PageIsWhole ==
  ASSUME Inv, Tidy, NEW l \in Layer
  PROVE  Pages(Numbers(l)) = {Numbers(l)}
<1> DEFINE vs == layers[l]
           N == Numbers(l)
<1>1. Len(vs) \in Nat /\ Len(vs) =< PageSize /\ PageSize \in Nat
  BY LayerPage DEF Inv, LayersOK, Tidy
<1>2. IsFiniteSet(1..Len(vs)) /\ Cardinality(1..Len(vs)) = Len(vs)
  <2> DEFINE n == Len(vs)
  <2> HIDE DEF n
  <2>1. n \in Nat
    BY <1>1 DEF n
  <2>2. IsFiniteSet(1..n) /\ Cardinality(1..n) = IF 1 > n THEN 0 ELSE n - 1 + 1
    BY <2>1, FS_Interval
  <2>3. QED
    BY <2>1, <2>2 DEF n
<1>3. N \subseteq 1..Len(vs)
  BY DEF Numbers
<1>4. IsFiniteSet(N) /\ Cardinality(N) =< Len(vs)
  BY <1>2, <1>3, FS_Subset
<1>5. Cardinality(N) \in Nat
  BY <1>4, FS_CardinalityType
<1> HIDE DEF N, vs
<1>6. Cardinality(N) =< PageSize
  BY <1>1, <1>4, <1>5
<1>7. QED
  BY <1>6 DEF Pages, N

LEMMA PreviousIsBelow ==
  ASSUME NEW N, N \subseteq Nat
  PROVE  /\ Previous(N) \subseteq N
         /\ \A m \in N : m \in Previous(N) \/ \A t \in N : t =< m
BY DEF Previous

LEMMA ListStep ==
  ASSUME Inv, NEW k \in Key, ListLayerVersions(k) PROVE Inv'
<1> DEFINE p == pass[k]
           c == cr[k]
           l == p.latest.spec.layer
           vs == layers[l]
<1>1. PassInv(Locations, Held, LayerSpec, Statuses)
  BY DEF Inv, Base
<1>2. /\ ~Idle(k) /\ DOMAIN pass = Key /\ DOMAIN p = DOMAIN IdlePass
      /\ SoundPass(p, c, Locations, Held, LayerSpec, Statuses)
      /\ Knows(p, c) /\ ~Holds(p) /\ p.pc = "list" /\ p.why = "delete"
  BY <1>1 DEF PassInv, SoundPass, Idle, At, Inv, Knows, ListLayerVersions
<1>3. l \in Layer
  BY <1>1, <1>2, PassTypes DEF Base
<1>4. PICK N \in Pages(Numbers(l)) :
        pass' = [pass EXCEPT
          ![k].pc = IF Previous(N) # {} THEN "deleteOld" ELSE "deleteOwn",
          ![k].todo = Previous(N)]
  BY DEF ListLayerVersions, Doomed
<1> DEFINE loc == IF Previous(N) # {} THEN "deleteOld" ELSE "deleteOwn"
           q == [p EXCEPT !.pc = loc, !.todo = Previous(N)]
<1>5. pass' = [pass EXCEPT ![k] = q]
  BY <1>2, <1>4
<1>6. /\ loc \in {"deleteOld", "deleteOwn"}
      /\ loc = "deleteOwn" => Previous(N) = {}
  OBVIOUS
<1> HIDE DEF loc
<1>7. /\ q.pc = loc /\ q.why = p.why /\ q.latest = p.latest
      /\ q.desired = p.desired /\ q.outcome = p.outcome
      /\ q.todo = Previous(N) /\ DOMAIN q = DOMAIN p
  BY <1>2 DEF IdlePass
<1> HIDE DEF q
<1>8. SoundPass(q, c, Locations, Held, LayerSpec, Statuses)
  BY <1>2, <1>6, <1>7 DEF SoundPass, Locations, Held
<1>9. Grows
  BY <1>1, SpendGrows DEF PassInv, ListLayerVersions
<1>10. Base'
  BY <1>1, <1>5, <1>8, <1>9, StepOfPass DEF Base, Grows, ListLayerVersions
<1>11. Knows(q, c)
  BY <1>2, <1>6, <1>7 DEF Knows, Holds
<1>12. Tidy => KeepsTidy(p, c, q, c, layers)
  <2> SUFFICES ASSUME Tidy PROVE KeepsTidy(p, c, q, c, layers)
    OBVIOUS
  <2>1. Numbered(p, c, layers)
    BY DEF Inv, TidyInv
  <2>2. N = NumbersIn(vs) /\ N \subseteq 1..Len(vs)
    BY <1>3, <1>4, PageIsWhole, NumbersAre DEF NumbersIn
  <2>3. /\ Previous(N) \subseteq N
        /\ \A m \in N : m \in Previous(N) \/ \A t \in N : t =< m
    BY <2>2, PreviousIsBelow
  <2>4. ASSUME NEW m \in N
        PROVE  m \in Previous(N) \/ \A t \in Previous(N) : t < m
    BY <2>2, <2>3
  <2>5. DeletesIn(q, vs)
    <3> HIDE DEF vs, p
    <3> QED
      BY <1>6, <1>7, <2>2, <2>3, <2>4 DEF DeletesIn
  <2>6. DeletesUp(q, layers)
    BY <1>7, <2>5 DEF DeletesUp
  <2> HIDE DEF p
  <2>7. Numbered(q, c, layers)
    BY <1>2, <1>6, <1>7, <2>1 DEF Numbered, Holds
  <2>8. QED
    BY <1>2, <2>6, <2>7 DEF KeepsTidy, InHand
<1>13. QED
  BY <1>2, <1>5, <1>9, <1>10, <1>11, <1>12, QuietStep
     DEF Inv, LayersOK, ListLayerVersions

(* The pass q still deletes upwards once n is gone from the versions vs.   *)
DeletesOn(q, n, vs) ==
  \A ws : /\ NumbersIn(ws) = NumbersIn(vs) \ {n} /\ Len(ws) = Len(vs)
         => DeletesIn(q, ws)

(* What a pass is like with another location and another set to work on.   *)
Moved(p, l, t) == [p EXCEPT !.pc = l, !.todo = t]

(* A call that deletes version n has its answer, or not.                   *)
LEMMA DeletedStep ==
  ASSUME Inv, NEW k \in Key, pass[k].pc \in {"deleteOld", "deleteOwn"}, NEW n,
         DeleteLayerVersion(k, n), UNCHANGED <<cr, queued, renamed>>,
         Tidy => IsLowest(n, NumbersIn(layers[Doomed(k)])),
         NEW l \in Locations, l \in {pass[k].pc, "unmanage"}, NEW t,
         \/ pass' = [pass EXCEPT ![k] = Moved(pass[k], l, t)] /\ UNCHANGED spent
         \/ Spend("faults") /\ EndPass(k, "Recoverable"),
         Tidy => DeletesOn(Moved(pass[k], l, t), n, layers[Doomed(k)])
  PROVE  Inv'
<1> DEFINE p == pass[k]
           c == cr[k]
<1>1. PassInv(Locations, Held, LayerSpec, Statuses)
  BY DEF Inv, Base
<1>2. /\ ~Idle(k) /\ DOMAIN pass = Key /\ DOMAIN p = DOMAIN IdlePass
      /\ SoundPass(p, c, Locations, Held, LayerSpec, Statuses)
      /\ Knows(p, c) /\ ~Holds(p) /\ p.pc # "idle" /\ p.why = "delete"
  BY <1>1 DEF PassInv, SoundPass, Idle, At, Inv, Knows, Holds
<1>3. Doomed(k) \in Layer /\ Doomed(k) = p.latest.spec.layer
  BY <1>1, <1>2, PassTypes DEF Base, Doomed
<1>4. CASE pass' = [pass EXCEPT ![k] = Moved(p, l, t)] /\ UNCHANGED spent
  <2> DEFINE q == Moved(p, l, t)
  <2>1. /\ q.pc = l /\ q.why = p.why /\ q.latest = p.latest
        /\ q.desired = p.desired /\ q.outcome = p.outcome
        /\ q.todo = t /\ DOMAIN q = DOMAIN p
    BY <1>2 DEF IdlePass, Moved
  <2>2. pass' = [pass EXCEPT ![k] = q]
    BY <1>4
  <2>3. Tidy => DeletesUp(q, layers')
    <3> SUFFICES ASSUME Tidy PROVE DeletesUp(q, layers')
      OBVIOUS
    <3>1. /\ NumbersIn(layers'[Doomed(k)]) = NumbersIn(layers[Doomed(k)]) \ {n}
          /\ Len(layers'[Doomed(k)]) = Len(layers[Doomed(k)])
      BY <1>3, ShrunkLayer DEF Inv
    <3>2. DeletesIn(q, layers'[Doomed(k)])
      BY <3>1 DEF DeletesOn
    <3> HIDE DEF q
    <3>3. QED
      BY <1>3, <2>1, <3>2 DEF DeletesUp
  <2> HIDE DEF q
  <2>4. SoundPass(q, c, Locations, Held, LayerSpec, Statuses)
    BY <1>2, <2>1 DEF SoundPass, Locations, Held
  <2>5. Grows
    BY <1>1, <1>4, SpendGrows DEF PassInv
  <2>6. Base'
    BY <1>1, <2>2, <2>4, <2>5, StepOfPass DEF Base, Grows
  <2>7. Knows(q, c) /\ q.pc # "idle"
    BY <1>2, <2>1 DEF Knows, Holds
  <2>8. pass'[k] = q /\ \A j \in Key \ {k} : pass'[j] = pass[j]
    BY <1>2, <2>2
  <2>9. QED
    BY <1>2, <2>1, <2>3, <2>5, <2>6, <2>7, <2>8, ShrinkStep
<1>5. CASE Spend("faults") /\ EndPass(k, "Recoverable")
  <2> DEFINE q == [p EXCEPT !.pc = "finish", !.outcome = "Recoverable"]
  <2>1. pass' = [pass EXCEPT ![k] = q]
    BY <1>2, <1>5 DEF EndPass
  <2>2. /\ q.pc = "finish" /\ q.why = p.why /\ q.latest = p.latest
        /\ q.desired = p.desired
    BY <1>2 DEF IdlePass
  <2> HIDE DEF q
  <2>3. Grows
    BY <1>1, <1>5, SpendGrows DEF PassInv
  <2>4. Base'
    BY <1>1, <1>2, <1>5, <2>3, Commons, EndPassStep DEF Base, Conditions, Grows
  <2>5. Knows(q, c)
    BY <1>2, <2>2, MovedKnows
  <2>6. DeletesUp(q, layers')
    BY <2>2 DEF DeletesUp, DeletesIn
  <2>7. pass'[k] = q /\ \A j \in Key \ {k} : pass'[j] = pass[j]
    BY <1>2, <2>1
  <2>8. QED
    BY <1>2, <2>2, <2>3, <2>4, <2>5, <2>6, <2>7, ShrinkStep
<1>6. QED
  BY <1>4, <1>5

(* A field set to what it is.                                              *)
LEMMA SameLocation ==
  ASSUME NEW f, NEW k \in DOMAIN f, NEW t
  PROVE  [f EXCEPT ![k].todo = t]
         = [f EXCEPT ![k] = Moved(f[k], f[k].pc, t)]
BY DEF Moved

LEMMA SameTodo ==
  ASSUME NEW f, NEW k \in DOMAIN f, NEW l
  PROVE  [f EXCEPT ![k].pc = l]
         = [f EXCEPT ![k] = Moved(f[k], l, f[k].todo)]
BY DEF Moved

LEMMA PreDeleteStep ==
  ASSUME Inv, NEW k \in Key, customPreDelete(k) PROVE Inv'
<1> DEFINE p == pass[k]
           c == cr[k]
           l == p.latest.spec.layer
           own == p.latest.status.versionNumber
           N == NumbersIn(layers[l])
<1>1. PassInv(Locations, Held, LayerSpec, Statuses)
  BY DEF Inv, Base
<1>2. /\ ~Idle(k) /\ DOMAIN pass = Key /\ DOMAIN p = DOMAIN IdlePass
      /\ SoundPass(p, c, Locations, Held, LayerSpec, Statuses)
      /\ Knows(p, c) /\ ~Holds(p) /\ p.pc = "deleteOld" /\ p.why = "delete"
      /\ UNCHANGED <<cr, queued, renamed>> /\ Doomed(k) = l
  BY <1>1
     DEF PassInv, SoundPass, Idle, At, Inv, Knows, customPreDelete, Doomed
<1>3. Tidy => DeletesIn(p, layers[l])
  BY DEF Inv, TidyInv, DeletesUp
<1>4. N \subseteq 1..Len(layers[l])
  BY DEF NumbersIn
<1>5. CASE p.todo = {} /\ Goto(k, "deleteOwn") /\ UNCHANGED <<layers, spent>>
  <2> DEFINE q == [p EXCEPT !.pc = "deleteOwn"]
  <2>1. pass' = [pass EXCEPT ![k] = q]
    BY <1>2, <1>5 DEF Goto
  <2>2. /\ q.pc = "deleteOwn" /\ q.why = p.why /\ q.latest = p.latest
        /\ q.desired = p.desired /\ q.todo = p.todo
    BY <1>2 DEF IdlePass
  <2> HIDE DEF q
  <2>3. Grows
    BY <1>1, <1>5, SpendGrows DEF PassInv
  <2>4. Base'
    BY <1>1, <1>2, <1>5, <2>3, GotoStep DEF Base, Grows, Locations, Held
  <2>5. Knows(q, c)
    BY <1>2, <2>2 DEF Knows, Holds
  <2>6. Tidy => KeepsTidy(p, c, q, c, layers)
    <3> SUFFICES ASSUME Tidy PROVE KeepsTidy(p, c, q, c, layers)
      OBVIOUS
    <3>1. Numbered(p, c, layers)
      BY DEF Inv, TidyInv
    <3>2. DeletesUp(q, layers)
      BY <1>2, <1>3, <1>5, <2>2 DEF DeletesUp, DeletesIn
    <3> HIDE DEF p
    <3>3. Numbered(q, c, layers)
      BY <1>2, <2>2, <3>1 DEF Numbered, Holds
    <3>4. QED
      BY <1>2, <3>2, <3>3 DEF KeepsTidy, InHand
  <2>7. QED
    BY <1>2, <1>5, <2>1, <2>3, <2>4, <2>5, <2>6, QuietStep DEF Inv, LayersOK
<1>6. ASSUME NEW n \in p.todo, \A m \in p.todo : n =< m, DeleteLayerVersion(k, n),
             \/ pass' = [pass EXCEPT ![k].todo = @ \ {n}] /\ UNCHANGED spent
             \/ Spend("faults") /\ EndPass(k, "Recoverable")
      PROVE  Inv'
  <2> DEFINE t == p.todo \ {n}
             q == Moved(p, p.pc, t)
  <2>1. q.pc = "deleteOld" /\ q.todo = t /\ q.latest = p.latest
    BY <1>2 DEF IdlePass, Moved
  <2>2. /\ p.pc \in Locations /\ p.pc \in {"deleteOld", "deleteOwn"}
        /\ p.pc \in {p.pc, "unmanage"}
    BY <1>2 DEF Locations
  <2>3. \/ pass' = [pass EXCEPT ![k] = q] /\ UNCHANGED spent
        \/ Spend("faults") /\ EndPass(k, "Recoverable")
    BY <1>2, <1>6, SameLocation DEF Moved
  <2>4. ASSUME Tidy, n \in N, NEW m \in N PROVE n =< m
    <3>1. /\ p.todo \subseteq 1..Len(layers[l])
          /\ m \in p.todo \/ \A s \in p.todo : s < m
      BY <1>2, <1>3, <2>4 DEF DeletesIn
    <3>2. n \in Nat /\ m \in Nat
      BY <1>4, <2>4
    <3>3. CASE m \in p.todo
      BY <1>6, <3>3
    <3>4. CASE \A s \in p.todo : s < m
      <4>1. n < m
        BY <3>4
      <4>2. QED
        BY <3>2, <4>1
    <3>5. QED
      BY <3>1, <3>3, <3>4
  <2>5. ASSUME Tidy, NEW vs, NumbersIn(vs) = N \ {n}, Len(vs) = Len(layers[l])
        PROVE  DeletesIn(q, vs)
    <3>1. /\ p.todo \subseteq 1..Len(layers[l])
          /\ \A m \in N : m \in p.todo \/ \A s \in p.todo : s < m
          /\ own \in N => \A m \in N : m \in p.todo \/ own =< m
      BY <1>2, <1>3, <2>5 DEF DeletesIn
    <3> DEFINE ms == NumbersIn(vs)
    <3>2. /\ t \subseteq 1..Len(vs)
          /\ \A m \in ms : m \in t \/ \A s \in t : s < m
          /\ own \in ms => \A m \in ms : m \in t \/ own =< m
      BY <2>5, <3>1
    <3> HIDE DEF t, q, p, N
    <3>3. QED
      BY <2>1, <3>2 DEF DeletesIn
  <2>6. Tidy => IsLowest(n, N)
    BY <2>4 DEF IsLowest
  <2>7. Tidy => DeletesOn(q, n, layers[l])
    <3> HIDE DEF q
    <3>1. QED
      BY <2>5 DEF DeletesOn
  <2>8. UNCHANGED <<cr, queued, renamed>> /\ DeleteLayerVersion(k, n)
    BY <1>2, <1>6
  <2>9. /\ Tidy => IsLowest(n, NumbersIn(layers[Doomed(k)]))
        /\ Tidy => DeletesOn(Moved(pass[k], p.pc, t), n, layers[Doomed(k)])
    BY <1>2, <2>6, <2>7
  <2>10. \/ pass' = [pass EXCEPT ![k] = Moved(pass[k], p.pc, t)] /\ UNCHANGED spent
         \/ Spend("faults") /\ EndPass(k, "Recoverable")
    BY <2>3
  <2> HIDE DEF t
  <2>11. QED
    BY <2>2, <2>8, <2>9, <2>10, DeletedStep
<1>7. QED
  BY <1>5, <1>6 DEF customPreDelete

LEMMA OwnDeleteStep ==
  ASSUME Inv, NEW k \in Key, sdkDelete(k) PROVE Inv'
<1> DEFINE p == pass[k]
           c == cr[k]
           l == p.latest.spec.layer
           own == p.latest.status.versionNumber
           N == NumbersIn(layers[l])
           q == Moved(p, "unmanage", p.todo)
<1>1. PassInv(Locations, Held, LayerSpec, Statuses)
  BY DEF Inv, Base
<1>2. /\ ~Idle(k) /\ DOMAIN pass = Key /\ DOMAIN p = DOMAIN IdlePass
      /\ Knows(p, c) /\ p.pc = "deleteOwn" /\ p.pc # "idle"
      /\ UNCHANGED <<cr, queued, renamed>> /\ Doomed(k) = l
      /\ DeleteLayerVersion(k, own)
  BY <1>1 DEF PassInv, SoundPass, Idle, At, Inv, sdkDelete, Doomed
<1>3. l \in Layer /\ Base
  BY <1>1, <1>2, PassTypes DEF Base
<1>4. \/ pass' = [pass EXCEPT ![k] = q] /\ UNCHANGED spent
      \/ Spend("faults") /\ EndPass(k, "Recoverable")
  BY <1>2, SameTodo DEF sdkDelete, Goto, Moved
<1>5. q.pc = "unmanage" /\ q.latest = p.latest
  BY <1>2 DEF IdlePass, Moved
<1>6. ASSUME Tidy, own \in N, NEW m \in N PROVE own =< m
  <2>1. DeletesIn(p, layers[l])
    BY <1>6 DEF Inv, TidyInv, DeletesUp
  <2>2. QED
    BY <1>2, <1>6, <2>1 DEF DeletesIn
<1>7. ASSUME Tidy, own # Nil, NEW m \in N, m # own PROVE own < m
  <2>1. Numbered(p, c, layers) /\ UpClosed(layers[l])
    BY <1>3, <1>7 DEF Inv, TidyInv
  <2>2. own \in 1..Len(layers[l]) /\ m \in 1..Len(layers[l])
    BY <1>2, <1>7, <2>1 DEF Numbered, Knows, Given, NumbersIn
  <2>3. own \in N => own =< m
    BY <1>6, <1>7
  <2>4. m =< own => own \in N
    BY <1>7, <2>1, <2>2 DEF UpClosed
  <2>5. own \in Nat /\ m \in Nat
    BY <2>2
  <2> HIDE DEF own, N
  <2>6. QED
    BY <1>7, <2>3, <2>4, <2>5
<1>8. ASSUME Tidy, NEW vs, NumbersIn(vs) = N \ {own}
      PROVE  DeletesIn(q, vs)
  <2>1. own # Nil => \A m \in NumbersIn(vs) : own < m
    BY <1>7, <1>8
  <2>2. q.latest.status.versionNumber = own
    BY <1>5
  <2> HIDE DEF q, own
  <2>3. QED
    BY <1>5, <2>1, <2>2 DEF DeletesIn
<1>9. p.pc \in {"deleteOld", "deleteOwn"} /\ "unmanage" \in Locations
  BY <1>2 DEF Locations
<1>10. Tidy => IsLowest(own, NumbersIn(layers[Doomed(k)]))
  BY <1>2, <1>6 DEF IsLowest
<1>11. Tidy => DeletesOn(q, own, layers[Doomed(k)])
  <2> HIDE DEF q, own
  <2>1. QED
    BY <1>2, <1>8 DEF DeletesOn
<1>12. \/ pass' = [pass EXCEPT ![k] = Moved(pass[k], "unmanage", pass[k].todo)]
          /\ UNCHANGED spent
       \/ Spend("faults") /\ EndPass(k, "Recoverable")
  BY <1>4
<1>13. Tidy => DeletesOn(Moved(pass[k], "unmanage", pass[k].todo), own,
                         layers[Doomed(k)])
  BY <1>11
<1> HIDE DEF own
<1>14. QED
  BY <1>2, <1>9, <1>10, <1>12, <1>13, DeletedStep

-----------------------------------------------------------------------------
(* All steps.                                                              *)

LEMMA HandlersStep ==
  ASSUME Inv, NEW k \in Key, Handlers(k) PROVE Inv'
<1>1. CASE Other(k)
  BY <1>1, BeginStep, MarkStep, UnmarkStep, StoreStep DEF Other
<1>2. CASE ReadOne(k)
  BY <1>2, ReadStep
<1>3. CASE Create(k)
  BY <1>3, PublishStep DEF Create, sdkCreate, At, Conditions
<1>4. CASE Update(k)
  BY <1>4, PublishStep DEF Update, sdkUpdate, At, Conditions
<1>5. CASE Delete(k)
  BY <1>5, ListStep, PreDeleteStep, OwnDeleteStep DEF Delete
<1>6. QED
  BY <1>1, <1>2, <1>3, <1>4, <1>5 DEF Handlers

LEMMA StutterStep == ASSUME Inv, UNCHANGED vars PROVE Inv'
<1>1. UNCHANGED <<cr, queued, pass, spent, layers, renamed>>
  BY DEF vars, passVars
<1>2. Base'
  BY <1>1 DEF Inv, Base, PassInv
<1>3. Tidy' => TidyInv'
  <2>1. Tidy' => Tidy
    BY <1>1 DEF Tidy, NoDriftYet
  <2>2. TidyInv => TidyInv'
    BY <1>1 DEF TidyInv, FewAreLost, Lost, Ours, EverOurs, Numbers
  <2>3. QED
    BY <2>1, <2>2 DEF Inv
<1>4. QED
  BY <1>1, <1>2, <1>3 DEF Inv, LayersOK

LEMMA NextKeepsInv == Inv /\ [Next]_vars => Inv'
<1> SUFFICES ASSUME Inv, [Next]_vars PROVE Inv'
  OBVIOUS
<1>1. ASSUME NEW k \in Key, Handlers(k) \/ Timer(k) \/ Fail(k) \/ Users(k)
      PROVE  Inv'
  BY <1>1, HandlersStep, TimerStep, FailStep, UsersStep
<1>2. CASE Crash /\ UNCHANGED <<layers, renamed>>
  BY <1>2, RestartStep
<1>3. ASSUME NEW l \in Layer, Drift(l) PROVE Inv'
  BY <1>3, DriftStep
<1>4. CASE UNCHANGED vars
  BY <1>4, StutterStep
<1>5. QED
  BY <1>1, <1>2, <1>3, <1>4 DEF Next

LEMMA InitImpliesInv == Init => Inv
<1> SUFFICES ASSUME Init PROVE Inv
  OBVIOUS
<1>1. Base
  BY SpecsAre, NoStatusIs, Commons, InitInv DEF Init, Base, Common
<1>2. \A k \in Key :
        /\ pass[k] = IdlePass /\ cr[k].status = NoStatus
  <2> SUFFICES ASSUME NEW k \in Key
               PROVE  pass[k] = IdlePass /\ cr[k].status = NoStatus
    OBVIOUS
  <2>1. cr[k] \in {FreshCR(s, NoStatus) : s \in Specs}
    BY DEF Init, PassInit
  <2>2. cr[k].status = NoStatus
    BY <2>1 DEF FreshCR
  <2>3. pass[k] = IdlePass
    BY DEF Init, PassInit
  <2>4. QED
    BY <2>2, <2>3
<1>3. \A k \in Key : Knows(pass[k], cr[k])
  BY <1>2, IdleKnows
<1>4. ASSUME NEW l \in Layer
      PROVE  /\ layers[l] \in Seq(Published)
             /\ layers[l] = <<>> \/ \E r : /\ layers[l] = <<r>> /\ r.exists
                                           /\ r.by = "other"
  <2>1. layers[l] = <<>> \/ \E v \in Value :
          layers[l] = <<[exists |-> TRUE, by |-> "other", description |-> Nil,
                         content |-> v]>>
    BY DEF Init
  <2>2. CASE layers[l] = <<>>
    BY <2>2
  <2>3. ASSUME NEW v \in Value,
               layers[l] = <<[exists |-> TRUE, by |-> "other",
                              description |-> Nil, content |-> v]>>
        PROVE  /\ layers[l] \in Seq(Published)
               /\ \E r : layers[l] = <<r>> /\ r.exists /\ r.by = "other"
    <3> DEFINE r == [exists |-> TRUE, by |-> "other", description |-> Nil,
                     content |-> v]
    <3>1. r \in Published /\ r.exists /\ r.by = "other"
      BY DEF Published
    <3> HIDE DEF r
    <3>2. layers[l] = <<r>>
      BY <2>3 DEF r
    <3>3. <<r>> \in Seq(Published)
      BY <3>1
    <3>4. QED
      BY <3>1, <3>2, <3>3
  <2>4. QED
    BY <2>1, <2>2, <2>3
<1>5. LayersOK
  BY <1>4 DEF LayersOK, Init
<1>6. TidyInv
  <2>1. \A k \in Key : Numbered(pass[k], cr[k], layers) /\ DeletesUp(pass[k], layers)
    <3> SUFFICES ASSUME NEW k \in Key
                 PROVE  Numbered(pass[k], cr[k], layers) /\ DeletesUp(pass[k], layers)
      OBVIOUS
    <3>1. pass[k] = IdlePass /\ cr[k].status.versionNumber = Nil
      BY <1>2 DEF NoStatus
    <3>2. Given(layers[cr[k].spec.layer], cr[k].status.versionNumber)
      BY <3>1 DEF Given
    <3>3. QED
      BY <3>1, <3>2, IdleNumbered
  <2>2. \A l \in Layer : UpClosed(layers[l])
    <3> SUFFICES ASSUME NEW l \in Layer PROVE UpClosed(layers[l])
      OBVIOUS
    <3>1. CASE layers[l] = <<>>
      BY <3>1 DEF UpClosed, NumbersIn
    <3>2. ASSUME NEW r, layers[l] = <<r>>, r.exists PROVE UpClosed(layers[l])
      BY <3>2 DEF UpClosed, NumbersIn
    <3>3. QED
      BY <1>4, <3>1, <3>2
  <2>3. Lost = {}
    <3>1. \A l \in Layer : \A n \in NumbersIn(layers[l]) : layers[l][n].by # "us"
      <4> SUFFICES ASSUME NEW l \in Layer, NEW n \in NumbersIn(layers[l])
                   PROVE  layers[l][n].by # "us"
        OBVIOUS
      <4>1. CASE layers[l] = <<>>
        BY <4>1 DEF NumbersIn
      <4>2. ASSUME NEW r, layers[l] = <<r>>, r.by = "other"
            PROVE  layers[l][n].by # "us"
        BY <4>2 DEF NumbersIn
      <4>3. QED
        BY <1>4, <4>1, <4>2
    <3>2. QED
      BY <3>1, OursAre DEF Lost
  <2>4. FewAreLost
    <3> DEFINE c == Cardinality(Key)
    <3>1. c \in Nat /\ spent.faults = 0
      BY KeyCount DEF Init, PassInit
    <3>2. IsFiniteSet({}) /\ Cardinality({}) = 0
      BY FS_EmptySet
    <3> HIDE DEF c
    <3>3. 0 =< spent.faults * c
      BY <3>1
    <3>4. QED
      BY <2>3, <3>2, <3>3 DEF FewAreLost, c
  <2>5. QED
    BY <2>1, <2>2, <2>4 DEF TidyInv
<1>7. QED
  BY <1>1, <1>3, <1>5, <1>6 DEF Inv

LEMMA InvHolds == Spec => []Inv
<1>1. QED
  BY InitImpliesInv, NextKeepsInv, PTL DEF Spec

(* The CRs, the passes and the layers always have the values that the      *)
(* model gives them.                                                       *)
THEOREM TypeCorrect == Spec => []TypeOK
<1>1. Inv => TypeOK
  BY InvGivesType DEF Inv, Base, LayersOK, TypeOK
<1>2. QED
  BY <1>1, InvHolds, PTL

(* When the CRs are gone, so are the versions that were published for them,*)
(* whatever the interleaving of passes, publications and deletions, except *)
(* one per failure, or per CR for a restart.                               *)
THEOREM LittleIsLeftBehind == Spec => []NothingLeftBehind
<1>1. Inv => NothingLeftBehind
  <2> SUFFICES ASSUME Inv, NoDriftYet, ~renamed, \A k \in Key : ~cr[k].exists,
                      \A l \in Layer : Len(layers[l]) =< PageSize
               PROVE  Cardinality(Ours) =< spent.faults * Cardinality(Key)
    BY DEF NothingLeftBehind
  <2>1. FewAreLost
    BY DEF Inv, Tidy, TidyInv
  <2>2. ASSUME NEW k \in Key PROVE ~Holds(pass[k])
    <3>1. /\ SoundPass(pass[k], cr[k], Locations, Held, LayerSpec, Statuses)
          /\ SoundCR(cr[k], LayerSpec, Statuses) /\ Knows(pass[k], cr[k])
      BY DEF Inv, Base, PassInv
    <3>2. QED
      BY <3>1 DEF SoundPass, SoundCR, Holds, Knows
  <2>3. Lost = Ours
    BY <2>2 DEF Lost, Covers, InHand
  <2>4. QED
    BY <2>1, <2>3 DEF FewAreLost
<1>2. QED
  BY <1>1, InvHolds, PTL

-----------------------------------------------------------------------------
(* How often versions are published.  A CR owes a publication while a pass *)
(* over it is going to publish, and another one when that will not do; a   *)
(* deletion that has not listed the layer's versions yet may make all CRs  *)
(* owe one.  What has been published and what is owed stays within bounds. *)

(* The versions that the pass p is going to delete.                        *)
Deletes(p) == p.pc \in {"deleteOld", "deleteOwn"}

DoomedBy(p, l, n) ==
  /\ Deletes(p) /\ l = p.latest.spec.layer
  /\ n \in p.todo \cup {p.latest.status.versionNumber}

Condemned(ps, l, n) == \E k \in Key : DoomedBy(ps[k], l, n)

(* A read of a CR with this spec and status finds its version as it is to  *)
(* be, unless something happens that is counted.                           *)
Stands(ls, ps, s, t) ==
  LET n == t.versionNumber
  IN  /\ s.layer \in Layer /\ n \in NumbersIn(ls[s.layer])
      /\ ls[s.layer][n].description = s.description
      /\ ~Condemned(ps, s.layer, n)

(* The pass may yet publish what its copy of the CR asks for.              *)
Begun(p) ==
  p.pc \in {"manage", "create", "update"} \/ (p.pc = "read" /\ p.why = "sync")

Publishes(ls, ps, p) ==
  Begun(p) /\ (p.pc = "read" => ~Stands(ls, ps, p.desired.spec, p.desired.status))

(* What the CR's status will be when the pass is over.                     *)
Learned(p, c) == IF p.pc = "idle" THEN c.status ELSE p.latest.status

Alike(s, t) == s.layer = t.layer /\ s.description = t.description

PublishesAgain(ls, ps, p, c) ==
  /\ c.exists /\ ~c.deleting
  /\ IF Begun(p) THEN ~Alike(c.spec, p.desired.spec)
     ELSE ~Stands(ls, ps, c.spec, Learned(p, c))

(* The deletion has yet to list what it goes through.                      *)
Threatens(p, c) == c.deleting /\ p.pc \notin {"deleteOld", "deleteOwn", "unmanage"}

First == {k \in Key : Publishes(layers, pass, pass[k])}
Second == {k \in Key : PublishesAgain(layers, pass, pass[k], cr[k])}
Threats == {k \in Key : Threatens(pass[k], cr[k])}
Running == {k \in Key : ~Idle(k)}

Allowed ==
  Cardinality(Key) * (1 + spent.edits + spent.drifts
                        + (1 + spent.overlaps) * spent.faults)

Accounted ==
  /\ IsFiniteSet(EverOurs)
  /\ Cardinality(EverOurs) + Cardinality(First) + Cardinality(Second)
       + Cardinality(Key) * Cardinality(Threats) =< Allowed

FewRun == Cardinality(Running) =< 1 + spent.overlaps

(* A deletion goes through numbers that have been given out.               *)
Within(p, ls) ==
  LET top == Len(ls[p.latest.spec.layer])
  IN  /\ p.pc \in {"list", "deleteOld", "deleteOwn"} =>
           p.latest.status.versionNumber \in 1..top
      /\ Deletes(p) => p.todo \subseteq 1..top

AllWithin == \A k \in Key : Within(pass[k], layers)

CountInv == Inv /\ FewRun /\ AllWithin /\ Accounted

-----------------------------------------------------------------------------
(* Arithmetic.                                                             *)

LEMMA KeySets ==
  ASSUME NEW S, S \subseteq Key
  PROVE  /\ IsFiniteSet(S) /\ Cardinality(S) \in Nat
         /\ Cardinality(S) =< Cardinality(Key)
BY LayerKeys, FS_Subset, FS_CardinalityType

LEMMA SomeKey == ASSUME NEW k \in Key PROVE Cardinality(Key) >= 1
<1>1. Cardinality(Key) # 0
  BY LayerKeys, FS_EmptySet
<1>2. QED
  BY <1>1, KeyCount

(* Members that are counted one by one.                                    *)
One(b) == IF b THEN 1 ELSE 0

LEMMA WithoutOne ==
  ASSUME NEW S, S \subseteq Key, NEW k
  PROVE  Cardinality(S) = Cardinality(S \ {k}) + One(k \in S)
<1> DEFINE b == k \in S
<1>1. IsFiniteSet(S) /\ Cardinality(S) \in Nat
  BY KeySets
<1>2. /\ IsFiniteSet(S \ {k})
      /\ Cardinality(S \ {k}) = IF k \in S THEN Cardinality(S) - 1 ELSE Cardinality(S)
  BY <1>1, FS_RemoveElement
<1>3. QED
  BY <1>1, <1>2 DEF One

(* Only k may be a new member.                                             *)
LEMMA OneMoves ==
  ASSUME NEW S, S \subseteq Key, NEW T, T \subseteq Key, NEW k, T \ {k} \subseteq S
  PROVE  Cardinality(T) - One(k \in T) =< Cardinality(S) - One(k \in S)
<1>1. T \ {k} \subseteq S \ {k} /\ IsFiniteSet(S \ {k}) /\ T \ {k} \subseteq Key
  BY KeySets
<1>2. Cardinality(T \ {k}) =< Cardinality(S \ {k})
  BY <1>1, FS_Subset
<1>3. /\ Cardinality(S) = Cardinality(S \ {k}) + One(k \in S)
      /\ Cardinality(T) = Cardinality(T \ {k}) + One(k \in T)
  BY WithoutOne
<1>4. /\ Cardinality(S) \in Nat /\ Cardinality(T) \in Nat
      /\ Cardinality(S \ {k}) \in Nat /\ Cardinality(T \ {k}) \in Nat
  BY <1>1, KeySets
<1>5. One(k \in S) \in Nat /\ One(k \in T) \in Nat
  BY DEF One
<1> DEFINE a == Cardinality(S)
           b == Cardinality(T)
           c == Cardinality(S \ {k})
           d == Cardinality(T \ {k})
           e == One(k \in S)
           f == One(k \in T)
<1> HIDE DEF a, b, c, d, e, f
<1>6. a = c + e /\ b = d + f /\ d =< c
  BY <1>2, <1>3 DEF a, b, c, d, e, f
<1>7. /\ a \in Nat /\ b \in Nat /\ c \in Nat /\ d \in Nat
      /\ e \in Nat /\ f \in Nat
  BY <1>4, <1>5 DEF a, b, c, d, e, f
<1>8. b - f =< a - e
  BY <1>6, <1>7
<1>9. QED
  BY <1>8 DEF a, b, e, f

LEMMA SomeMove ==
  ASSUME NEW S, S \subseteq Key, NEW T, T \subseteq Key, NEW X, X \subseteq Key,
         T \subseteq S \cup X
  PROVE  Cardinality(T) =< Cardinality(S) + Cardinality(X)
<1>1. /\ IsFiniteSet(S) /\ IsFiniteSet(X) /\ Cardinality(S) \in Nat
      /\ Cardinality(X) \in Nat /\ Cardinality(T) \in Nat
  BY KeySets
<1>2. S \cap X \subseteq Key
  OBVIOUS
<1>3. Cardinality(S \cap X) \in Nat
  BY <1>2, KeySets
<1>4. /\ IsFiniteSet(S \cup X)
      /\ Cardinality(S \cup X) = Cardinality(S) + Cardinality(X) - Cardinality(S \cap X)
  BY <1>1, FS_Union
<1>5. Cardinality(T) =< Cardinality(S \cup X)
  BY <1>4, FS_Subset
<1>6. QED
  BY <1>1, <1>3, <1>4, <1>5

LEMMA Apart ==
  ASSUME NEW X, X \subseteq Key, NEW Y, Y \subseteq Key, NEW Z, Z \subseteq Key,
         X \cup Y \subseteq Z, X \cap Y = {}
  PROVE  Cardinality(X) + Cardinality(Y) =< Cardinality(Z)
<1>1. /\ IsFiniteSet(X) /\ IsFiniteSet(Y) /\ IsFiniteSet(Z)
      /\ Cardinality(X) \in Nat /\ Cardinality(Y) \in Nat /\ Cardinality(Z) \in Nat
  BY KeySets
<1>2. Cardinality(X \cap Y) = 0
  BY FS_EmptySet
<1>3. /\ Cardinality(X \cup Y) = Cardinality(X) + Cardinality(Y) - Cardinality(X \cap Y)
      /\ Cardinality(X \cup Y) =< Cardinality(Z)
  BY <1>1, FS_Union, FS_Subset
<1>4. QED
  BY <1>1, <1>2, <1>3

LEMMA Product ==
  ASSUME NEW a \in Nat, NEW b \in Nat, NEW c \in Nat, b =< c
  PROVE  a * b \in Nat /\ a * c \in Nat /\ a * b =< a * c
<1>1. a * c = a * b + a * (c - b) /\ c - b \in Nat
  OBVIOUS
<1> DEFINE d == c - b
<1> HIDE DEF d
<1>2. a * d \in Nat /\ a * b \in Nat /\ a * c \in Nat
  BY <1>1 DEF d
<1>3. a * c = a * b + a * d
  BY <1>1 DEF d
<1> DEFINE x == a * b
           y == a * c
           z == a * d
<1> HIDE DEF x, y, z
<1>4. x \in Nat /\ y \in Nat /\ z \in Nat /\ y = x + z
  BY <1>2, <1>3 DEF x, y, z
<1>5. x =< y
  BY <1>4
<1>6. QED
  BY <1>4, <1>5 DEF x, y

Bound(c, e, d, o, f) == c * (1 + e + d + (1 + o) * f)

LEMMA BoundGrows ==
  ASSUME NEW c \in Nat, NEW e \in Nat, NEW d \in Nat, NEW o \in Nat, NEW f \in Nat
  PROVE  /\ Bound(c, e, d, o, f) \in Nat
         /\ Bound(c, e + 1, d, o, f) = Bound(c, e, d, o, f) + c
         /\ Bound(c, e, d + 1, o, f) = Bound(c, e, d, o, f) + c
         /\ Bound(c, e, d, o, f + 1) = Bound(c, e, d, o, f) + c * (1 + o)
         /\ Bound(c, e, d, o + 1, f) >= Bound(c, e, d, o, f)
<1> DEFINE m == (1 + o) * f
           n == 1 + e + d + m
<1>1. m \in Nat /\ (1 + o) * (f + 1) = m + (1 + o)
  OBVIOUS
<1>2. (1 + (o + 1)) * f = m + f
  OBVIOUS
<1> HIDE DEF m
<1>3. n \in Nat
  BY <1>1
<1>4. /\ 1 + (e + 1) + d + m = n + 1 /\ 1 + e + (d + 1) + m = n + 1
      /\ 1 + e + d + (m + (1 + o)) = n + (1 + o)
      /\ 1 + e + d + (m + f) = n + f
  BY <1>1
<1> HIDE DEF n
<1>5. /\ c * (n + 1) = c * n + c /\ c * (n + (1 + o)) = c * n + c * (1 + o)
      /\ c * n \in Nat
  BY <1>3
<1>6. c * (n + f) >= c * n
  <2>1. n + f \in Nat /\ n =< n + f
    BY <1>3
  <2>2. QED
    BY <1>3, <2>1, Product
<1>7. Bound(c, e, d, o, f) = c * n
  BY DEF Bound, m, n
<1>8. /\ Bound(c, e + 1, d, o, f) = c * (n + 1)
      /\ Bound(c, e, d + 1, o, f) = c * (n + 1)
  BY <1>4 DEF Bound, m
<1>9. Bound(c, e, d, o, f + 1) = c * (n + (1 + o))
  BY <1>1, <1>4 DEF Bound
<1>10. Bound(c, e, d, o + 1, f) = c * (n + f)
  BY <1>2, <1>4 DEF Bound
<1>11. QED
  BY <1>5, <1>6, <1>7, <1>8, <1>9, <1>10

Events == {"edits", "drifts", "faults"}

(* What each event that is counted allows.                                 *)
LEMMA AllowedGrows ==
  ASSUME spent \in Counts
  PROVE  /\ Allowed \in Nat
         /\ UNCHANGED spent => Allowed' = Allowed
         /\ Spend("overlaps") => Allowed' \in Nat /\ Allowed' >= Allowed
         /\ \A b \in Events :
              Spend(b) => Allowed' \in Nat /\ Allowed' >= Allowed + Cardinality(Key)
         /\ Spend("faults") =>
              Allowed' = Allowed + Cardinality(Key) * (1 + spent.overlaps)
<1> DEFINE c == Cardinality(Key)
           e == spent.edits
           d == spent.drifts
           o == spent.overlaps
           f == spent.faults
<1>1. /\ c \in Nat /\ e \in Nat /\ d \in Nat /\ o \in Nat /\ f \in Nat
      /\ DOMAIN spent = {"edits", "faults", "drifts", "overlaps"}
  BY KeyCount DEF Counts
<1>2. /\ Allowed = Bound(c, e, d, o, f)
      /\ Allowed' = Bound(c, spent'.edits, spent'.drifts, spent'.overlaps, spent'.faults)
  BY DEF Allowed, Bound
<1>3. ASSUME UNCHANGED spent PROVE Allowed' = Allowed
  BY <1>3 DEF Allowed
<1>4. ASSUME NEW b \in {"edits", "faults", "drifts", "overlaps"}, Spend(b)
      PROVE  /\ spent'.edits = IF b = "edits" THEN e + 1 ELSE e
             /\ spent'.drifts = IF b = "drifts" THEN d + 1 ELSE d
             /\ spent'.overlaps = IF b = "overlaps" THEN o + 1 ELSE o
             /\ spent'.faults = IF b = "faults" THEN f + 1 ELSE f
  BY <1>1, <1>4 DEF Spend
<1> HIDE DEF c, e, d, o, f
<1>5. /\ Bound(c, e, d, o, f) \in Nat
      /\ Bound(c, e + 1, d, o, f) = Bound(c, e, d, o, f) + c
      /\ Bound(c, e, d + 1, o, f) = Bound(c, e, d, o, f) + c
      /\ Bound(c, e, d, o, f + 1) = Bound(c, e, d, o, f) + c * (1 + o)
      /\ Bound(c, e, d, o + 1, f) >= Bound(c, e, d, o, f)
      /\ Bound(c, e, d, o + 1, f) \in Nat
  <2>1. o + 1 \in Nat
    BY <1>1
  <2>2. Bound(c, e, d, o + 1, f) \in Nat
    BY <1>1, <2>1, BoundGrows
  <2>3. /\ Bound(c, e, d, o, f) \in Nat
        /\ Bound(c, e + 1, d, o, f) = Bound(c, e, d, o, f) + c
        /\ Bound(c, e, d + 1, o, f) = Bound(c, e, d, o, f) + c
        /\ Bound(c, e, d, o, f + 1) = Bound(c, e, d, o, f) + c * (1 + o)
        /\ Bound(c, e, d, o + 1, f) >= Bound(c, e, d, o, f)
    BY <1>1, BoundGrows, Zenon
  <2>4. QED
    BY <2>2, <2>3
<1>6. ASSUME Spend("overlaps") PROVE Allowed' \in Nat /\ Allowed' >= Allowed
  BY <1>2, <1>4, <1>5, <1>6
<1>7. ASSUME NEW b \in {"edits", "drifts"}, Spend(b) PROVE Allowed' = Allowed + c
  <2>1. CASE b = "edits"
    BY <1>2, <1>4, <1>5, <1>7, <2>1
  <2>2. CASE b = "drifts"
    BY <1>2, <1>4, <1>5, <1>7, <2>2
  <2>3. QED
    BY <1>7, <2>1, <2>2
<1>8. ASSUME Spend("faults") PROVE Allowed' = Allowed + c * (1 + o)
  BY <1>2, <1>4, <1>5, <1>8
<1>9. c * (1 + o) \in Nat /\ c * (1 + o) >= c
  <2>1. 1 + o \in Nat /\ 1 =< 1 + o /\ c * 1 = c
    BY <1>1
  <2>2. QED
    BY <1>1, <2>1, Product
<1> DEFINE a == Allowed
           z == Allowed'
           x == c * (1 + o)
<1>10. a \in Nat
  BY <1>2, <1>5
<1>11. /\ \A b \in {"edits", "drifts"} : Spend(b) => z = a + c
       /\ Spend("faults") => z = a + x
       /\ x \in Nat /\ x >= c
  BY <1>7, <1>8, <1>9
<1> HIDE DEF a, z, x
<1>12. \A b \in Events : Spend(b) => z \in Nat /\ z >= a + c
  BY <1>1, <1>10, <1>11 DEF Events
<1>13. QED
  BY <1>3, <1>6, <1>10, <1>11, <1>12 DEF a, z, x, c, o

-----------------------------------------------------------------------------
(* What the steps owe.                                                     *)

KeepStanding == \A s, t : Stands(layers, pass, s, t) => Stands(layers', pass', s, t)

Alone(k) == \A j \in Key \ {k} : pass'[j] = pass[j] /\ cr'[j] = cr[j]

LEMMA OthersOwe ==
  ASSUME KeepStanding, NEW k \in Key, Alone(k)
  PROVE  /\ First' \ {k} \subseteq First /\ Second' \ {k} \subseteq Second
         /\ Threats' \ {k} \subseteq Threats
<1> SUFFICES ASSUME NEW j \in Key \ {k}
             PROVE  /\ j \in First' => j \in First
                    /\ j \in Second' => j \in Second
                    /\ j \in Threats' => j \in Threats
  BY DEF First, Second, Threats
<1>1. pass'[j] = pass[j] /\ cr'[j] = cr[j]
  BY DEF Alone
<1>2. Publishes(layers', pass', pass[j]) => Publishes(layers, pass, pass[j])
  BY DEF KeepStanding, Publishes
<1>3. PublishesAgain(layers', pass', pass[j], cr[j])
        => PublishesAgain(layers, pass, pass[j], cr[j])
  BY DEF KeepStanding, PublishesAgain
<1>4. QED
  BY <1>1, <1>2, <1>3 DEF First, Second, Threats

LEMMA Sum ==
  ASSUME NEW c \in Nat, NEW a \in Nat, NEW f \in Nat, NEW s \in Nat, NEW t \in Nat,
         NEW b \in Nat, NEW g \in Nat, NEW u \in Nat, NEW v \in Nat,
         NEW i \in 0..1, NEW j \in 0..1, NEW x, NEW y, NEW new \in Nat, NEW r \in Nat,
         b =< a + new, g + u - x =< f + s - y, v - j =< t - i,
         x \in Int, y \in Int, new + x + c * j =< y + c * i + r
  PROVE  b + g + u + c * v =< a + f + s + c * t + r
<1>1. c * v =< c * t - c * i + c * j
  <2>1. v + i =< t + j /\ v + i \in Nat /\ t + j \in Nat
    OBVIOUS
  <2>2. c * (v + i) =< c * (t + j)
    BY <2>1, Product
  <2>3. c * (v + i) = c * v + c * i /\ c * (t + j) = c * t + c * j
    OBVIOUS
  <2>4. c * v \in Nat /\ c * i \in Nat /\ c * t \in Nat /\ c * j \in Nat
    OBVIOUS
  <2>5. QED
    BY <2>2, <2>3, <2>4
<1> DEFINE cv == c * v
           ct == c * t
           ci == c * i
           cj == c * j
<1>2. cv \in Nat /\ ct \in Nat /\ ci \in Nat /\ cj \in Nat
  OBVIOUS
<1>3. cv =< ct - ci + cj /\ new + x + cj =< y + ci + r
  BY <1>1
<1> HIDE DEF cv, ct, ci, cj
<1>4. b + g + u + cv =< a + f + s + ct + r
  BY <1>2, <1>3
<1>5. QED
  BY <1>4 DEF cv, ct

Owed(k) == One(k \in First) + One(k \in Second)
Threat(k) == One(k \in Threats)

(* A step of k alone, which publishes new versions and is allowed r more.  *)
LEMMA OneAccounts ==
  ASSUME Accounted, NEW k \in Key, Alone(k), KeepStanding,
         NEW X, IsFiniteSet(X), EverOurs' \subseteq EverOurs \cup X,
         NEW r \in Nat, Allowed \in Nat, Allowed' \in Nat, Allowed' >= Allowed + r,
         Cardinality(X) + Owed(k)' + Cardinality(Key) * Threat(k)'
           =< Owed(k) + Cardinality(Key) * Threat(k) + r
  PROVE  Accounted'
<1>1. /\ First' \ {k} \subseteq First /\ Second' \ {k} \subseteq Second
      /\ Threats' \ {k} \subseteq Threats
  BY OthersOwe
<1>2. /\ First \subseteq Key /\ Second \subseteq Key /\ Threats \subseteq Key
      /\ First' \subseteq Key /\ Second' \subseteq Key /\ Threats' \subseteq Key
  BY DEF First, Second, Threats
<1> DEFINE c == Cardinality(Key)
           a == Cardinality(EverOurs)
           b == Cardinality(EverOurs')
           f == Cardinality(First)
           g == Cardinality(First')
           s == Cardinality(Second)
           u == Cardinality(Second')
           t == Cardinality(Threats)
           v == Cardinality(Threats')
           new == Cardinality(X)
           i == One(k \in Threats)
           j == One(k \in Threats')
           y == One(k \in First) + One(k \in Second)
           x == One(k \in First') + One(k \in Second')
<1>3. IsFiniteSet(EverOurs') /\ b =< a + new /\ a \in Nat /\ b \in Nat /\ new \in Nat
  <2>1. IsFiniteSet(EverOurs)
    BY DEF Accounted
  <2>2. IsFiniteSet(EverOurs \cap X)
    BY <2>1, FS_Subset
  <2>3. a \in Nat /\ new \in Nat /\ Cardinality(EverOurs \cap X) \in Nat
    BY <2>1, <2>2, FS_CardinalityType
  <2>4. /\ IsFiniteSet(EverOurs \cup X)
        /\ Cardinality(EverOurs \cup X) = a + new - Cardinality(EverOurs \cap X)
    BY <2>1, FS_Union
  <2>5. IsFiniteSet(EverOurs') /\ b =< Cardinality(EverOurs \cup X)
    BY <2>4, FS_Subset
  <2>6. b \in Nat
    BY <2>5, FS_CardinalityType
  <2>7. QED
    BY <2>3, <2>4, <2>5, <2>6
<1>4. /\ c \in Nat /\ f \in Nat /\ g \in Nat /\ s \in Nat /\ u \in Nat
      /\ t \in Nat /\ v \in Nat
  BY <1>2, KeyCount, KeySets
<1>5. /\ g - One(k \in First') =< f - One(k \in First)
      /\ u - One(k \in Second') =< s - One(k \in Second)
      /\ v - j =< t - i
  BY <1>1, <1>2, OneMoves
<1>6. /\ i \in 0..1 /\ j \in 0..1 /\ x \in Nat /\ y \in Nat
      /\ One(k \in First) \in Nat /\ One(k \in Second) \in Nat
      /\ One(k \in First') \in Nat /\ One(k \in Second') \in Nat
  BY DEF One
<1>7. g + u - x =< f + s - y
  BY <1>4, <1>5, <1>6
<1>8. new + x + c * j =< y + c * i + r
  BY DEF Owed, Threat
<1>9. a + f + s + c * t =< Allowed /\ IsFiniteSet(EverOurs)
  BY DEF Accounted
<1> HIDE DEF c, a, b, f, g, s, u, t, v, new, i, j, x, y
<1>10. b + g + u + c * v =< a + f + s + c * t + r
  BY <1>3, <1>4, <1>5, <1>6, <1>7, <1>8, Sum
<1> DEFINE ct == c * t
           cv == c * v
<1>11. ct \in Nat /\ cv \in Nat /\ b + g + u + cv =< a + f + s + ct + r
       /\ a + f + s + ct =< Allowed
  BY <1>4, <1>9, <1>10
<1> HIDE DEF ct, cv
<1>12. b + g + u + cv =< Allowed'
  BY <1>3, <1>4, <1>11
<1>13. QED
  BY <1>3, <1>12 DEF Accounted, b, c, g, u, v, cv

(* A pass may condemn less, and only what is condemned may be deleted.     *)
LEMMA StandingKept ==
  ASSUME NEW k \in Key, Alone(k),
         \A l, n : DoomedBy(pass'[k], l, n) => DoomedBy(pass[k], l, n),
         \A l \in Layer : \A n \in NumbersIn(layers[l]) :
           ~DoomedBy(pass[k], l, n) =>
             /\ n \in NumbersIn(layers'[l])
             /\ layers'[l][n].description = layers[l][n].description
  PROVE  KeepStanding
<1> SUFFICES ASSUME NEW s, NEW t, Stands(layers, pass, s, t)
             PROVE  Stands(layers', pass', s, t)
  BY DEF KeepStanding
<1> DEFINE l == s.layer
           n == t.versionNumber
<1>1. /\ l \in Layer /\ n \in NumbersIn(layers[l])
      /\ layers[l][n].description = s.description
      /\ ~Condemned(pass, l, n)
  BY DEF Stands
<1>2. ~DoomedBy(pass[k], l, n)
  BY <1>1 DEF Condemned
<1>3. /\ n \in NumbersIn(layers'[l])
      /\ layers'[l][n].description = s.description
  BY <1>1, <1>2
<1>4. \A j \in Key : DoomedBy(pass'[j], l, n) => DoomedBy(pass[j], l, n)
  BY DEF Alone
<1>5. ~Condemned(pass', l, n)
  BY <1>1, <1>4 DEF Condemned
<1>6. QED
  BY <1>1, <1>3, <1>5 DEF Stands

LEMMA StandingStays ==
  ASSUME NEW k \in Key, Alone(k), UNCHANGED layers,
         \A l, n : DoomedBy(pass'[k], l, n) => DoomedBy(pass[k], l, n)
  PROVE  KeepStanding
BY StandingKept

LEMMA CountTypes ==
  ASSUME CountInv
  PROVE  /\ Inv /\ Base /\ LayersOK /\ AllWithin /\ Accounted /\ FewRun
         /\ spent \in Counts /\ Allowed \in Nat /\ Cardinality(Key) \in Nat
<1>1. spent \in Counts
  BY DEF CountInv, Inv, Base, PassInv
<1>2. QED
  BY <1>1, AllowedGrows, KeyCount DEF CountInv, Inv

LEMMA OwedIs ==
  ASSUME NEW k
  PROVE  /\ Owed(k) \in 0..2 /\ Owed(k)' \in 0..2
         /\ Threat(k) \in 0..1 /\ Threat(k)' \in 0..1
BY DEF Owed, Threat, One

(* A step that no event allows anything.                                   *)
LEMMA QuietAccounts ==
  ASSUME CountInv, NEW k \in Key, Alone(k), KeepStanding, EverOurs' \subseteq EverOurs,
         k \in Threats' => k \in Threats, Owed(k)' =< Owed(k),
         UNCHANGED spent \/ Spend("overlaps")
  PROVE  Accounted'
<1> DEFINE c == Cardinality(Key)
           i == Threat(k)
           j == Threat(k)'
           x == Owed(k)
           y == Owed(k)'
           n == Cardinality({})
<1>1. /\ Accounted /\ Allowed \in Nat /\ Allowed' \in Nat /\ Allowed' >= Allowed + 0
      /\ c \in Nat
  BY CountTypes, AllowedGrows
<1>2. IsFiniteSet({}) /\ n = 0
  BY FS_EmptySet
<1>3. /\ x \in 0..2 /\ y \in 0..2 /\ i \in 0..1 /\ j \in 0..1
  BY OwedIs
<1>4. j =< i
  BY DEF Threat, One
<1>5. y =< x /\ EverOurs' \subseteq EverOurs \cup {}
  OBVIOUS
<1> HIDE DEF c, i, j, x, y, n
<1>6. c * j =< c * i /\ c * i \in Nat /\ c * j \in Nat
  BY <1>1, <1>3, <1>4, Product
<1>7. n + y + c * j =< x + c * i + 0
  BY <1>2, <1>3, <1>5, <1>6
<1>8. QED
  BY <1>1, <1>2, <1>5, <1>7, OneAccounts DEF c, i, j, x, y, n

(* A step that is an event.                                                *)
LEMMA EventAccounts ==
  ASSUME CountInv, NEW k \in Key, Alone(k), KeepStanding, EverOurs' \subseteq EverOurs,
         \/ (k \in Threats' => k \in Threats) /\ Owed(k)' =< Owed(k) + 1
         \/ Owed(k)' =< Owed(k),
         NEW b \in Events, Spend(b)
  PROVE  Accounted'
<1> DEFINE c == Cardinality(Key)
           i == Threat(k)
           j == Threat(k)'
           x == Owed(k)
           y == Owed(k)'
           n == Cardinality({})
<1>1. /\ Accounted /\ Allowed \in Nat /\ Allowed' \in Nat /\ Allowed' >= Allowed + c
      /\ c \in Nat
  BY CountTypes, AllowedGrows
<1>2. IsFiniteSet({}) /\ n = 0
  BY FS_EmptySet
<1>3. /\ x \in 0..2 /\ y \in 0..2 /\ i \in 0..1 /\ j \in 0..1 /\ c >= 1
  BY OwedIs, SomeKey
<1>4. (j =< i /\ y =< x + 1) \/ y =< x
  BY DEF Threat, One
<1>5. EverOurs' \subseteq EverOurs \cup {}
  OBVIOUS
<1> HIDE DEF c, i, j, x, y, n
<1>6. /\ c * i \in Nat /\ c * j \in Nat /\ c * j =< c
  <2>1. c * j =< c * 1 /\ c * 1 = c
    BY <1>1, <1>3, Product
  <2>2. QED
    BY <1>1, <1>3, <2>1, Product
<1>7. CASE j =< i /\ y =< x + 1
  <2>1. c * j =< c * i
    BY <1>1, <1>3, <1>7, Product
  <2>2. n + y + c * j =< x + c * i + c
    BY <1>1, <1>2, <1>3, <1>6, <1>7, <2>1
  <2>3. QED
    BY <1>1, <1>2, <1>5, <2>2, OneAccounts DEF c, i, j, x, y, n
<1>8. CASE y =< x
  <2>1. n + y + c * j =< x + c * i + c
    BY <1>1, <1>2, <1>3, <1>6, <1>8
  <2>2. QED
    BY <1>1, <1>2, <1>5, <2>1, OneAccounts DEF c, i, j, x, y, n
<1>9. QED
  BY <1>4, <1>7, <1>8

(* A publication, whose answer may be lost.                                *)
LEMMA PublishAccounts ==
  ASSUME CountInv, NEW k \in Key, Alone(k), KeepStanding, NEW v,
         EverOurs' \subseteq EverOurs \cup {v}, k \in Threats' => k \in Threats,
         k \in First, k \notin First',
         \/ UNCHANGED spent /\ (k \in Second' => k \in Second)
         \/ Spend("faults")
  PROVE  Accounted'
<1> DEFINE c == Cardinality(Key)
           i == Threat(k)
           j == Threat(k)'
           x == Owed(k)
           y == Owed(k)'
           n == Cardinality({v})
           r == IF UNCHANGED spent /\ (k \in Second' => k \in Second) THEN 0 ELSE 1
<1>1. /\ Accounted /\ Allowed \in Nat /\ Allowed' \in Nat /\ Allowed' >= Allowed + r
      /\ c \in Nat /\ r \in 0..1
  <2>1. /\ Allowed \in Nat /\ Accounted /\ c \in Nat /\ spent \in Counts /\ c >= 1
    BY CountTypes, SomeKey
  <2>2. CASE UNCHANGED spent /\ (k \in Second' => k \in Second)
    BY <2>1, <2>2, AllowedGrows
  <2>3. CASE ~(UNCHANGED spent /\ (k \in Second' => k \in Second))
    <3>1. Allowed' \in Nat /\ Allowed' >= Allowed + c /\ r = 1
      BY <2>1, <2>3, AllowedGrows DEF Events
    <3>2. QED
      BY <2>1, <3>1
  <2>4. QED
    BY <2>2, <2>3
<1>2. IsFiniteSet({v}) /\ n = 1
  BY FS_Singleton
<1>3. /\ x \in 0..2 /\ y \in 0..2 /\ i \in 0..1 /\ j \in 0..1
  BY OwedIs
<1>4. j =< i /\ 1 + y =< x + r
  BY DEF Threat, One, Owed
<1>5. EverOurs' \subseteq EverOurs \cup {v}
  OBVIOUS
<1> HIDE DEF c, i, j, x, y, n, r
<1>6. c * j =< c * i /\ c * i \in Nat /\ c * j \in Nat
  BY <1>1, <1>3, <1>4, Product
<1>7. n + y + c * j =< x + c * i + r
  BY <1>1, <1>2, <1>3, <1>4, <1>6
<1>8. r \in Nat
  BY <1>1
<1>9. QED
  BY <1>1, <1>2, <1>5, <1>7, <1>8, OneAccounts DEF c, i, j, x, y, n

(* The pass and the CR of k become q and d, and do not owe more than p and *)
(* c did.                                                                  *)
OwesNoMore(ls, ps, p, c, q, d) ==
  /\ Publishes(ls, ps, q) \/ PublishesAgain(ls, ps, q, d)
       => Publishes(ls, ps, p) \/ PublishesAgain(ls, ps, p, c)
  /\ Publishes(ls, ps, q) /\ PublishesAgain(ls, ps, q, d)
       => Publishes(ls, ps, p) /\ PublishesAgain(ls, ps, p, c)

LEMMA OwnOwes ==
  ASSUME KeepStanding, NEW k \in Key
  PROVE  /\ k \in First' => Publishes(layers, pass, pass'[k])
         /\ k \in Second' => PublishesAgain(layers, pass, pass'[k], cr'[k])
         /\ k \in Threats' <=> Threatens(pass'[k], cr'[k])
         /\ k \in First <=> Publishes(layers, pass, pass[k])
         /\ k \in Second <=> PublishesAgain(layers, pass, pass[k], cr[k])
         /\ k \in Threats <=> Threatens(pass[k], cr[k])
<1>1. Publishes(layers', pass', pass'[k]) => Publishes(layers, pass, pass'[k])
  BY DEF KeepStanding, Publishes
<1>2. PublishesAgain(layers', pass', pass'[k], cr'[k])
        => PublishesAgain(layers, pass, pass'[k], cr'[k])
  BY DEF KeepStanding, PublishesAgain
<1>3. QED
  BY <1>1, <1>2 DEF First, Second, Threats

LEMMA SameOurs ==
  ASSUME UNCHANGED layers PROVE EverOurs' = EverOurs
BY DEF EverOurs

LEMMA NoneDoomed ==
  ASSUME NEW p, ~Deletes(p), NEW l, NEW n PROVE ~DoomedBy(p, l, n)
BY DEF DoomedBy

(* Others stay within layers that do not get shorter.                      *)
LEMMA OthersWithin ==
  ASSUME CountInv, NEW k \in Key, Alone(k), Within(pass'[k], layers'),
         \A l \in Layer : /\ Len(layers[l]) \in Nat /\ Len(layers'[l]) \in Nat
                          /\ Len(layers'[l]) >= Len(layers[l])
  PROVE  AllWithin'
<1> SUFFICES ASSUME NEW j \in Key \ {k} PROVE Within(pass[j], layers')
  BY DEF AllWithin, Alone
<1> DEFINE p == pass[j]
           l == p.latest.spec.layer
<1>1. Within(p, layers) /\ Base
  BY CountTypes DEF AllWithin
<1>2. CASE p.pc \in {"list", "deleteOld", "deleteOwn"}
  <2>1. l \in Layer
    BY <1>1, <1>2, PassTypes DEF Idle, At
  <2>2. 1..Len(layers[l]) \subseteq 1..Len(layers'[l])
    <3> DEFINE a == Len(layers[l])
               b == Len(layers'[l])
    <3>1. a \in Nat /\ b \in Nat /\ b >= a
      BY <2>1
    <3> HIDE DEF a, b
    <3>2. 1..a \subseteq 1..b
      BY <3>1
    <3>3. QED
      BY <3>2 DEF a, b
  <2>3. QED
    BY <1>1, <2>2 DEF Within
<1>3. CASE p.pc \notin {"list", "deleteOld", "deleteOwn"}
  BY <1>3 DEF Within, Deletes
<1>4. QED
  BY <1>2, <1>3

LEMMA SameLength ==
  ASSUME LayersOK, UNCHANGED layers
  PROVE  \A l \in Layer : /\ Len(layers[l]) \in Nat /\ Len(layers'[l]) \in Nat
                          /\ Len(layers'[l]) >= Len(layers[l])
BY DEF LayersOK

LEMMA LocalStep ==
  ASSUME CountInv, NEW k \in Key, Alone(k), UNCHANGED layers,
         NEW q, pass'[k] = q, NEW d, cr'[k] = d, ~Deletes(q), Within(q, layers),
         OwesNoMore(layers, pass, pass[k], cr[k], q, d),
         Threatens(q, d) => Threatens(pass[k], cr[k]),
         UNCHANGED spent \/ Spend("overlaps")
  PROVE  Accounted' /\ AllWithin'
<1>1. KeepStanding
  BY NoneDoomed, StandingStays
<1>2. Owed(k)' =< Owed(k)
  BY <1>1, OwnOwes DEF Owed, One, OwesNoMore
<1>3. k \in Threats' => k \in Threats
  BY <1>1, OwnOwes
<1>4. Accounted'
  BY <1>1, <1>2, <1>3, SameOurs, QuietAccounts
<1>5. AllWithin'
  BY CountTypes, SameLength, OthersWithin
<1>6. QED
  BY <1>4, <1>5

LEMMA EventStep ==
  ASSUME CountInv, NEW k \in Key, Alone(k), UNCHANGED layers,
         NEW q, pass'[k] = q, NEW d, cr'[k] = d, Within(q, layers),
         q = pass[k] \/ ~Deletes(q), NEW b \in Events, Spend(b),
         Publishes(layers, pass, q) => Publishes(layers, pass, pass[k]),
         \/ Threatens(q, d) => Threatens(pass[k], cr[k])
         \/ PublishesAgain(layers, pass, q, d)
              => PublishesAgain(layers, pass, pass[k], cr[k])
  PROVE  Accounted' /\ AllWithin'
<1>1. KeepStanding
  BY NoneDoomed, StandingStays
<1>2. \/ (k \in Threats' => k \in Threats) /\ Owed(k)' =< Owed(k) + 1
      \/ Owed(k)' =< Owed(k)
  BY <1>1, OwnOwes DEF Owed, One
<1>3. Accounted'
  BY <1>1, <1>2, SameOurs, EventAccounts
<1>4. AllWithin'
  BY CountTypes, SameLength, OthersWithin
<1>5. QED
  BY <1>3, <1>4

-----------------------------------------------------------------------------
(* The steps that all kinds share.                                         *)

LEMMA BeginCounts ==
  ASSUME CountInv, NEW k \in Key, Start(k), UNCHANGED <<layers, renamed>>
  PROVE  Accounted' /\ AllWithin'
<1>1. PassInv(Locations, Held, LayerSpec, Statuses) /\ AllWithin
  BY CountTypes DEF Base
<1>2. /\ DOMAIN pass = Key /\ UNCHANGED <<cr, layers>> /\ pass[k].pc = "idle"
      /\ UNCHANGED spent \/ Spend("overlaps")
  BY <1>1 DEF PassInv, Start, Idle, At
<1>3. CASE ~cr[k].exists
  <2>1. UNCHANGED <<pass, cr>>
    BY <1>3 DEF Start
  <2>2. ~Deletes(pass[k]) /\ Within(pass[k], layers)
    BY <1>1, <1>2 DEF Deletes, AllWithin
  <2>3. OwesNoMore(layers, pass, pass[k], cr[k], pass[k], cr[k]) /\ Alone(k)
    BY <2>1 DEF OwesNoMore, Alone
  <2>4. QED
    BY <1>2, <2>1, <2>2, <2>3, LocalStep
<1>4. CASE cr[k].exists
  <2> DEFINE c == cr[k]
             p == pass[k]
             q == [IdlePass EXCEPT !.pc = "read",
                     !.why = IF cr[k].deleting THEN "delete" ELSE "sync",
                     !.desired = cr[k],
                     !.latest = [spec |-> cr[k].spec, status |-> cr[k].status]]
  <2>1. pass' = [pass EXCEPT ![k] = q]
    BY <1>4 DEF Start
  <2>2. /\ q.pc = "read" /\ q.why = (IF c.deleting THEN "delete" ELSE "sync")
        /\ q.desired = c
    BY DEF IdlePass
  <2> HIDE DEF q
  <2>3. ~Deletes(q) /\ Within(q, layers)
    BY <2>2 DEF Deletes, Within
  <2>4. Threatens(q, c) => Threatens(p, c)
    BY <1>2 DEF Threatens
  <2>5. OwesNoMore(layers, pass, p, c, q, c)
    <3>1. Publishes(layers, pass, q) => ~c.deleting
                                        /\ ~Stands(layers, pass, c.spec, c.status)
      BY <2>2 DEF Publishes, Begun
    <3>2. ~PublishesAgain(layers, pass, q, c)
      BY <2>2 DEF PublishesAgain, Begun, Alike
    <3>3. ~c.deleting /\ ~Stands(layers, pass, c.spec, c.status)
            => PublishesAgain(layers, pass, p, c)
      BY <1>2, <1>4 DEF PublishesAgain, Begun, Learned
    <3>4. QED
      BY <3>1, <3>2, <3>3 DEF OwesNoMore
  <2>6. pass'[k] = q /\ cr'[k] = c /\ Alone(k)
    BY <1>2, <2>1 DEF Alone
  <2> HIDE DEF p, c
  <2>7. QED
    BY <1>2, <2>3, <2>4, <2>5, <2>6, LocalStep DEF p, c
<1>5. QED
  BY <1>3, <1>4

(* A pass that goes on or ends without having learned anything.            *)
LEMMA GoneOn ==
  ASSUME NEW ls, NEW ps, NEW p, NEW c, NEW q, NEW d, p.pc # "idle", q.pc # "idle",
         Begun(q) => p.pc \in {"manage", "create"} \/ (p.pc = "read" /\ p.why = "sync"
                        /\ ~Stands(ls, ps, p.desired.spec, p.desired.status)),
         Begun(q) => q.pc # "read", q.desired = p.desired,
         p.latest.status = q.latest.status,
         Begun(p) /\ ~Begun(q) => p.latest.status = p.desired.status,
         Begun(p) /\ ~Begun(q) /\ d.exists /\ ~d.deleting =>
           p.pc = "read" \/ ~Alike(d.spec, p.desired.spec),
         d.exists = c.exists, d.deleting = c.deleting, d.spec = c.spec
  PROVE  OwesNoMore(ls, ps, p, c, q, d)
<1>1. CASE Begun(q)
  <2>1. Publishes(ls, ps, p) /\ Begun(p)
    BY <1>1 DEF Publishes, Begun
  <2>2. PublishesAgain(ls, ps, q, d) => PublishesAgain(ls, ps, p, c)
    BY <1>1, <2>1 DEF PublishesAgain
  <2>3. QED
    BY <2>1, <2>2 DEF OwesNoMore
<1>2. CASE ~Begun(q)
  <2>1. ~Publishes(ls, ps, q)
    BY <1>2 DEF Publishes
  <2>2. CASE ~Begun(p)
    <3>1. PublishesAgain(ls, ps, q, d) => PublishesAgain(ls, ps, p, c)
      BY <1>2, <2>2 DEF PublishesAgain, Learned
    <3>2. QED
      BY <2>1, <3>1 DEF OwesNoMore
  <2>3. ASSUME Begun(p), PublishesAgain(ls, ps, q, d), Alike(c.spec, p.desired.spec)
        PROVE  Publishes(ls, ps, p)
    <3>1. p.pc = "read" /\ ~Stands(ls, ps, c.spec, p.desired.status)
      BY <1>2, <2>3 DEF PublishesAgain, Learned
    <3>2. c.spec.layer = p.desired.spec.layer
          /\ c.spec.description = p.desired.spec.description
      BY <2>3 DEF Alike
    <3>3. ~Stands(ls, ps, p.desired.spec, p.desired.status)
      BY <3>1, <3>2 DEF Stands
    <3>4. QED
      BY <2>3, <3>3 DEF Publishes
  <2>4. ASSUME Begun(p), PublishesAgain(ls, ps, q, d), ~Alike(c.spec, p.desired.spec)
        PROVE  PublishesAgain(ls, ps, p, c)
    BY <2>4 DEF PublishesAgain
  <2>5. QED
    BY <2>1, <2>2, <2>3, <2>4 DEF OwesNoMore
<1>3. QED
  BY <1>1, <1>2

LEMMA MarkCounts ==
  ASSUME CountInv, NEW k \in Key, Manage(k), UNCHANGED <<layers, renamed>>
  PROVE  Accounted' /\ AllWithin'
<1> DEFINE c == cr[k]
           p == pass[k]
<1>1. PassInv(Locations, Held, LayerSpec, Statuses) /\ Inv
  BY CountTypes DEF Base
<1>2. /\ DOMAIN pass = Key /\ DOMAIN cr = Key /\ DOMAIN p = DOMAIN IdlePass
      /\ p.pc = "manage" /\ UNCHANGED <<layers, spent>>
      /\ SoundPass(p, c, Locations, Held, LayerSpec, Statuses)
      /\ SoundCR(c, LayerSpec, Statuses)
  BY <1>1 DEF PassInv, SoundPass, Manage, At
<1>3. p.latest.status = p.desired.status
  BY <1>1, <1>2 DEF Inv, Knows, Holds
<1>4. CASE ~c.exists
  <2> DEFINE q == [p EXCEPT !.pc = "finish", !.outcome = "Recoverable"]
  <2>1. pass' = [pass EXCEPT ![k] = q] /\ cr' = cr
    BY <1>2, <1>4 DEF Manage, EndPass
  <2>2. q.pc = "finish" /\ q.desired = p.desired /\ q.latest = p.latest
    BY <1>2 DEF IdlePass
  <2>3. pass'[k] = q /\ cr'[k] = c /\ Alone(k)
    BY <1>2, <2>1 DEF Alone
  <2> HIDE DEF p, c, q
  <2>4. ~Deletes(q) /\ Within(q, layers)
    BY <2>2 DEF Deletes, Within
  <2>5. Threatens(q, c) => Threatens(p, c)
    BY <1>2 DEF Threatens
  <2>6. OwesNoMore(layers, pass, p, c, q, c)
    <3>1. ~Begun(q) /\ p.pc # "idle" /\ q.pc # "idle"
      BY <1>2, <2>2 DEF Begun
    <3>2. QED
      BY <1>3, <1>4, <2>2, <3>1, GoneOn
  <2>7. QED
    BY <1>2, <2>3, <2>4, <2>5, <2>6, LocalStep DEF p, c
<1>5. CASE c.exists
  <2> DEFINE d == [c EXCEPT !.finalizer = TRUE]
             q == [p EXCEPT !.pc = "create"]
  <2>1. pass' = [pass EXCEPT ![k] = q] /\ cr' = [cr EXCEPT ![k] = d]
    BY <1>2, <1>5 DEF Manage, Goto
  <2>2. c \in [exists : {TRUE}, spec : LayerSpec, status : Statuses,
               deleting : BOOLEAN, finalizer : BOOLEAN, cond : Conditions]
    BY <1>2, <1>5, ExistingCR DEF SoundCR
  <2>3. d.exists = c.exists /\ d.spec = c.spec /\ d.deleting = c.deleting
    BY <2>2
  <2>4. q.pc = "create" /\ q.desired = p.desired /\ q.latest = p.latest
    BY <1>2 DEF IdlePass
  <2>5. pass'[k] = q /\ cr'[k] = d /\ Alone(k)
    BY <1>2, <2>1 DEF Alone
  <2> HIDE DEF p, c, q, d
  <2>6. ~Deletes(q) /\ Within(q, layers)
    BY <2>4 DEF Deletes, Within
  <2>7. Threatens(q, d) => Threatens(p, c)
    BY <1>2, <2>3 DEF Threatens
  <2>8. OwesNoMore(layers, pass, p, c, q, d)
    <3>1. Begun(q) /\ p.pc # "idle" /\ q.pc # "idle" /\ q.pc # "read"
          /\ p.pc \in {"manage", "create"}
      BY <1>2, <2>4 DEF Begun
    <3>2. QED
      BY <2>3, <2>4, <3>1, GoneOn
  <2>9. QED
    BY <1>2, <2>5, <2>6, <2>7, <2>8, LocalStep DEF p, c
<1>6. QED
  BY <1>4, <1>5

LEMMA UnmarkCounts ==
  ASSUME CountInv, NEW k \in Key, Unmanage(k), UNCHANGED <<layers, renamed>>
  PROVE  Accounted' /\ AllWithin'
<1>1. PassInv(Locations, Held, LayerSpec, Statuses)
  BY CountTypes DEF Base
<1>2. pass'[k] = IdlePass /\ cr'[k] = NoCR /\ Alone(k) /\ UNCHANGED <<layers, spent>>
  BY <1>1 DEF PassInv, Unmanage, Alone
<1>3. IdlePass.pc = "idle" /\ ~NoCR.exists /\ ~NoCR.deleting
  BY DEF IdlePass, NoCR
<1>4. ~Deletes(IdlePass) /\ Within(IdlePass, layers) /\ ~Threatens(IdlePass, NoCR)
  BY <1>3 DEF Deletes, Within, Threatens
<1>5. OwesNoMore(layers, pass, pass[k], cr[k], IdlePass, NoCR)
  BY <1>3 DEF OwesNoMore, Publishes, PublishesAgain, Begun
<1>6. QED
  BY <1>2, <1>4, <1>5, LocalStep

LEMMA StoreCounts ==
  ASSUME CountInv, NEW k \in Key, Finish(k), UNCHANGED <<layers, renamed>>
  PROVE  Accounted' /\ AllWithin'
<1> DEFINE p == pass[k]
           c == cr[k]
           d == cr'[k]
<1>1. PassInv(Locations, Held, LayerSpec, Statuses)
  BY CountTypes DEF Base
<1>2. /\ pass'[k] = IdlePass /\ Alone(k) /\ UNCHANGED <<layers, spent>>
      /\ p.pc = "finish"
  BY <1>1 DEF PassInv, Finish, Alone, At
<1>3. /\ d.exists = c.exists /\ d.deleting = c.deleting
      /\ c.exists => d.spec = c.spec /\ d.status = p.latest.status
  <2>1. CASE ~c.exists
    BY <2>1 DEF Finish
  <2>2. CASE c.exists
    <3>1. c \in [exists : {TRUE}, spec : LayerSpec, status : Statuses,
                 deleting : BOOLEAN, finalizer : BOOLEAN, cond : Conditions]
      BY <1>1, <2>2, ExistingCR DEF PassInv, SoundCR
    <3>2. d = [c EXCEPT !.cond = p.outcome, !.status = p.latest.status]
      BY <1>1, <2>2 DEF Finish, PassInv
    <3>3. QED
      BY <3>1, <3>2
  <2>3. QED
    BY <2>1, <2>2
<1>4. IdlePass.pc = "idle"
  BY DEF IdlePass
<1> HIDE DEF p, c, d
<1>5. ~Deletes(IdlePass) /\ Within(IdlePass, layers)
  BY <1>4 DEF Deletes, Within
<1>6. Threatens(IdlePass, d) => Threatens(p, c)
  BY <1>2, <1>3 DEF Threatens
<1>7. OwesNoMore(layers, pass, p, c, IdlePass, d)
  <2>1. ~Begun(p) /\ ~Begun(IdlePass)
    BY <1>2, <1>4 DEF Begun
  <2>2. PublishesAgain(layers, pass, IdlePass, d) => PublishesAgain(layers, pass, p, c)
    BY <1>2, <1>3, <1>4, <2>1 DEF PublishesAgain, Learned
  <2>3. QED
    BY <2>1, <2>2 DEF OwesNoMore, Publishes
<1>8. QED
  BY <1>2, <1>5, <1>6, <1>7, LocalStep DEF p, c, d

LEMMA TimerCounts ==
  ASSUME CountInv, NEW k \in Key, Timer(k) PROVE Accounted' /\ AllWithin'
<1>1. pass'[k] = pass[k] /\ cr'[k] = cr[k] /\ Alone(k) /\ UNCHANGED <<layers, spent>>
      /\ pass[k].pc = "idle"
  BY DEF Timer, Resync, Alone, Idle, At
<1>2. ~Deletes(pass[k]) /\ Within(pass[k], layers)
  BY <1>1 DEF Deletes, Within
<1>3. OwesNoMore(layers, pass, pass[k], cr[k], pass[k], cr[k])
  BY DEF OwesNoMore
<1>4. QED
  BY <1>1, <1>2, <1>3, LocalStep

LEMMA FailCounts ==
  ASSUME CountInv, NEW k \in Key, Fail(k) PROVE Accounted' /\ AllWithin'
<1> DEFINE c == cr[k]
           p == pass[k]
           q == [p EXCEPT !.pc = "finish", !.outcome = "Recoverable"]
<1>1. PassInv(Locations, Held, LayerSpec, Statuses) /\ Knows(p, c)
  BY CountTypes DEF Base, Inv
<1>2. /\ DOMAIN pass = Key /\ DOMAIN p = DOMAIN IdlePass /\ p.pc # "idle"
      /\ Spend("faults") /\ UNCHANGED <<cr, layers>>
      /\ SoundPass(p, c, Locations, Held, LayerSpec, Statuses)
  BY <1>1 DEF PassInv, SoundPass, Fail, CallFails
<1>3. pass' = [pass EXCEPT ![k] = q]
  BY <1>2 DEF Fail, CallFails, EndPass
<1>4. q.pc = "finish"
  BY <1>2 DEF IdlePass
<1>5. pass'[k] = q /\ cr'[k] = c /\ Alone(k)
  BY <1>2, <1>3 DEF Alone
<1> HIDE DEF p, c, q
<1>6. ~Deletes(q) /\ Within(q, layers) /\ ~Publishes(layers, pass, q)
  BY <1>4 DEF Deletes, Within, Publishes, Begun
<1>7. (Threatens(q, c) => Threatens(p, c)) \/ ~PublishesAgain(layers, pass, q, c)
  BY DEF Threatens, PublishesAgain
<1>8. "faults" \in Events
  BY DEF Events
<1>9. QED
  BY <1>2, <1>5, <1>6, <1>7, <1>8, EventStep DEF p, c

LEMMA UsersCount ==
  ASSUME CountInv, NEW k \in Key, Users(k) PROVE Accounted' /\ AllWithin'
<1> DEFINE c == cr[k]
           p == pass[k]
           d == cr'[k]
<1>1. PassInv(Locations, Held, LayerSpec, Statuses) /\ Within(p, layers)
  BY CountTypes DEF Base, AllWithin
<1>2. Spend("edits") /\ UNCHANGED <<pass, layers>> /\ Alone(k)
  BY <1>1 DEF Users, UserApply, UserEdit, UserDelete, Alone, PassInv
<1>3. "edits" \in Events /\ cr'[k] = d /\ pass'[k] = p
  BY <1>2 DEF Events
<1> HIDE DEF c, d, p
<1>4. \/ Threatens(p, d) => Threatens(p, c)
      \/ ~PublishesAgain(layers, pass, p, d)
  BY DEF PublishesAgain, Threatens
<1>5. QED
  BY <1>1, <1>2, <1>3, <1>4, EventStep DEF p, c

-----------------------------------------------------------------------------
(* A read.                                                                 *)

(* A step of a pass alone, which does not condemn anything.                *)
LEMMA PassCounts ==
  ASSUME CountInv, NEW k \in Key, pass[k].pc = "read", NEW q,
         pass' = [pass EXCEPT ![k] = q], UNCHANGED <<cr, layers, spent>>,
         ~Deletes(q), Within(q, layers),
         OwesNoMore(layers, pass, pass[k], cr[k], q, cr[k])
  PROVE  Accounted' /\ AllWithin'
<1>1. DOMAIN pass = Key
  BY CountTypes DEF Base, PassInv
<1>2. pass'[k] = q /\ Alone(k)
  BY <1>1 DEF Alone
<1>3. Threatens(q, cr[k]) => Threatens(pass[k], cr[k])
  BY DEF Threatens
<1>4. QED
  BY <1>2, <1>3, LocalStep

LEMMA ReadTypes ==
  ASSUME CountInv, NEW k \in Key, At(k, "read")
  PROVE  LET p == pass[k]
         IN  /\ Base /\ LayersOK /\ Inv /\ ~Idle(k) /\ p.pc = "read"
             /\ DOMAIN p = DOMAIN IdlePass /\ Knows(p, cr[k])
             /\ p.desired.spec.layer \in Layer
             /\ p.latest.spec.layer = p.desired.spec.layer
             /\ p.why # "created" => p.latest.status = p.desired.status
             /\ p.desired.status.versionNumber \in Nat \cup {Nil}
             /\ p.latest.status.versionNumber \in Nat \cup {Nil}
<1>1. Base /\ LayersOK /\ Inv /\ ~Idle(k) /\ pass[k].pc = "read"
      /\ DOMAIN pass[k] = DOMAIN IdlePass /\ Knows(pass[k], cr[k])
  BY CountTypes DEF At, Idle, Base, PassInv, SoundPass, Inv
<1>2. /\ pass[k].latest.spec.layer = pass[k].desired.spec.layer
      /\ pass[k].why # "created" => pass[k].latest.status = pass[k].desired.status
  BY <1>1 DEF Knows, Holds
<1>3. QED
  BY <1>1, <1>2, PassTypes

LEMMA AbsentCounts ==
  ASSUME CountInv, NEW k \in Key, At(k, "read"), ~Found(Subject(k)), NotFound(k),
         UNCHANGED <<cr, queued, spent, layers, renamed>>
  PROVE  Accounted' /\ AllWithin'
<1> DEFINE p == pass[k]
           c == cr[k]
<1>1. /\ ~Idle(k) /\ p.pc = "read" /\ DOMAIN p = DOMAIN IdlePass /\ Knows(p, c)
      /\ p.desired.spec.layer \in Layer /\ p.pc # "idle"
      /\ p.why # "created" => p.latest.status = p.desired.status
      /\ p.desired.status.versionNumber \in Nat \cup {Nil}
  BY ReadTypes
<1>2. ASSUME NEW l \in {"manage", "create", "unmanage", "finish"},
             NEW q, q.pc = l, q.desired = p.desired, q.latest = p.latest,
             pass' = [pass EXCEPT ![k] = q], q.why = p.why,
             l \in {"manage", "create"} => p.why = "sync",
             l \in {"finish", "unmanage"} => p.why # "sync"
      PROVE  Accounted' /\ AllWithin'
  <2>1. ~Deletes(q) /\ Within(q, layers)
    BY <1>2 DEF Deletes, Within
  <2>2. p.why = "sync" => ~Stands(layers, pass, p.desired.spec, p.desired.status)
    <3> SUFFICES ASSUME p.why = "sync",
                        Stands(layers, pass, p.desired.spec, p.desired.status)
                 PROVE  FALSE
      OBVIOUS
    <3>1. p.desired.status.versionNumber \in Numbers(p.desired.spec.layer)
      BY <1>1, NumbersAre DEF Stands
    <3>2. p.desired.status.versionNumber # Nil
      BY <3>1, NilIsNoNumber DEF Numbers
    <3>3. QED
      BY <3>1, <3>2 DEF Found, Subject, requiredFieldsMissing
  <2>3. /\ Begun(q) => q.pc # "read" /\ p.why = "sync"
        /\ Begun(p) /\ ~Begun(q) => FALSE
    BY <1>1, <1>2 DEF Begun
  <2> HIDE DEF p, c
  <2>4. OwesNoMore(layers, pass, p, c, q, c)
    BY <1>1, <1>2, <2>2, <2>3, GoneOn
  <2>5. QED
    BY <1>1, <1>2, <2>1, <2>4, PassCounts DEF p, c
<1>3. CASE p.why = "sync"
  <2>1. PICK l \in {"manage", "create"} : pass' = [pass EXCEPT ![k].pc = l]
    BY <1>3 DEF NotFound, Goto
  <2> DEFINE q == [p EXCEPT !.pc = l]
  <2>2. q.pc = l /\ q.desired = p.desired /\ q.latest = p.latest /\ q.why = p.why
    BY <1>1 DEF IdlePass
  <2>3. pass' = [pass EXCEPT ![k] = q]
    BY <2>1
  <2> HIDE DEF q
  <2>4. QED
    BY <1>2, <1>3, <2>2, <2>3
<1>4. CASE p.why = "delete"
  <2> DEFINE q == [p EXCEPT !.pc = "unmanage"]
  <2>1. pass' = [pass EXCEPT ![k] = q]
    BY <1>4 DEF NotFound, Goto
  <2>2. /\ q.pc = "unmanage" /\ q.desired = p.desired /\ q.latest = p.latest
        /\ q.why = p.why
    BY <1>1 DEF IdlePass
  <2> HIDE DEF q
  <2>3. QED
    BY <1>2, <1>4, <2>1, <2>2
<1>5. CASE p.why \notin {"sync", "delete"}
  <2> DEFINE q == [p EXCEPT !.pc = "finish", !.outcome = "Recoverable"]
  <2>1. pass' = [pass EXCEPT ![k] = q]
    BY <1>5 DEF NotFound, EndPass
  <2>2. /\ q.pc = "finish" /\ q.desired = p.desired /\ q.latest = p.latest
        /\ q.why = p.why
    BY <1>1 DEF IdlePass
  <2> HIDE DEF q
  <2>3. QED
    BY <1>2, <1>5, <2>1, <2>2
<1>6. QED
  BY <1>3, <1>4, <1>5

(* The pass goes on with the answer.                                       *)
LEMMA WithCounts ==
  ASSUME CountInv, NEW k \in Key, At(k, "read"),
         NEW l \in {"finish", "list", "update"}, NEW o, NEW r,
         With(k, l, o, r), UNCHANGED <<cr, layers, spent>>,
         r.status = pass[k].latest.status,
         l = "list" => r.status.versionNumber \in 1..Len(layers[r.spec.layer]),
         l = "update" => /\ pass[k].why = "sync"
                         /\ ~Stands(layers, pass, pass[k].desired.spec,
                                    pass[k].desired.status)
  PROVE  Accounted' /\ AllWithin'
<1> DEFINE p == pass[k]
           c == cr[k]
           q == [p EXCEPT !.pc = l, !.outcome = o, !.latest = r]
<1>1. /\ p.pc = "read" /\ DOMAIN p = DOMAIN IdlePass /\ p.pc # "idle"
      /\ p.why # "created" => p.latest.status = p.desired.status
  BY ReadTypes
<1>2. /\ q.pc = l /\ q.desired = p.desired /\ q.latest = r
  BY <1>1 DEF IdlePass
<1>3. pass' = [pass EXCEPT ![k] = q] /\ r.status = p.latest.status
  BY DEF With
<1>4. l = "update" => /\ p.why = "sync"
                      /\ ~Stands(layers, pass, p.desired.spec, p.desired.status)
  OBVIOUS
<1> HIDE DEF p, c, q
<1>5. ~Deletes(q) /\ Within(q, layers)
  BY <1>2 DEF Deletes, Within
<1>6. /\ Begun(q) => l = "update"
      /\ Begun(p) => p.why = "sync"
      /\ q.pc # "read" /\ q.pc # "idle"
  BY <1>1, <1>2 DEF Begun
<1>7. OwesNoMore(layers, pass, p, c, q, c)
  BY <1>1, <1>2, <1>3, <1>4, <1>6, GoneOn
<1>8. QED
  BY <1>1, <1>3, <1>5, <1>7, PassCounts DEF p, c

LEMMA ReadCounts ==
  ASSUME CountInv, NEW k \in Key, ReadOne(k) PROVE Accounted' /\ AllWithin'
<1> DEFINE p == pass[k]
           o == Observed(Subject(k))
<1>1. At(k, "read") /\ UNCHANGED <<cr, queued, spent, layers, renamed>>
  BY DEF ReadOne
<1>2. /\ Base /\ LayersOK /\ Inv /\ p.pc = "read" /\ DOMAIN p = DOMAIN IdlePass
      /\ p.desired.spec.layer \in Layer /\ p.pc # "idle"
      /\ p.why # "created" => p.latest.status = p.desired.status
  BY <1>1, ReadTypes
<1>3. CASE ~Found(Subject(k)) /\ NotFound(k)
  BY <1>1, <1>3, AbsentCounts
<1>4. CASE Found(Subject(k)) /\ Compare(k)
  <2>1. /\ o.status = p.latest.status
        /\ o.spec.layer = Subject(k).spec.layer /\ o.status = Subject(k).status
        /\ Subject(k) \in [spec : LayerSpec, status : Statuses]
    BY <1>1, <1>2, <1>4, SubjectIs, ObservedIs
  <2>2. o.status.versionNumber \in 1..Len(layers[o.spec.layer])
    BY <1>4, <2>1 DEF Found, Numbers
  <2>3. p.why = "sync" /\ newResourceDelta(p.desired.spec, o.spec) # {}
          => ~Stands(layers, pass, p.desired.spec, p.desired.status)
    <3> SUFFICES ASSUME p.why = "sync",
                        p.desired.spec.layer # o.spec.layer
                          \/ p.desired.spec.description # o.spec.description
                 PROVE  ~Stands(layers, pass, p.desired.spec, p.desired.status)
      BY DEF newResourceDelta
    <3> DEFINE S == Subject(k)
               v == layers[p.desired.spec.layer][p.desired.status.versionNumber]
    <3>1. S = [spec |-> p.desired.spec, status |-> p.desired.status]
      BY DEF Subject
    <3>2. S.spec \in LayerSpec
      BY <2>1
    <3>3. o.spec.description = v.description
      BY <3>1, <3>2 DEF Observed, LayerSpec
    <3>4. o.spec.layer = p.desired.spec.layer
      BY <2>1, <3>1
    <3>5. QED
      BY <3>3, <3>4 DEF Stands
  <2>4. ASSUME EndPass(k, "Terminal")
        PROVE  With(k, "finish", "Terminal", p.latest)
    <3> DEFINE q == [p EXCEPT !.pc = "finish", !.outcome = "Terminal"]
    <3>1. q = [p EXCEPT !.pc = "finish", !.outcome = "Terminal", !.latest = p.latest]
      BY <1>2 DEF IdlePass
    <3>2. pass' = [pass EXCEPT ![k] = q]
      BY <2>4 DEF EndPass
    <3>3. QED
      BY <3>1, <3>2 DEF With
  <2> HIDE DEF o
  <2>5. CASE pass[k].why = "created" /\ With(k, "finish", "Synced", o)
    BY <1>1, <2>1, <2>5, WithCounts
  <2>6. CASE pass[k].why = "delete" /\ With(k, "list", "Unknown", o)
    BY <1>1, <2>1, <2>2, <2>6, WithCounts
  <2>7. CASE EndPass(k, "Terminal")
    BY <1>1, <2>4, <2>7, WithCounts
  <2>8. CASE pass[k].why = "sync" /\ With(k, "finish", "Synced", o)
    BY <1>1, <2>1, <2>8, WithCounts
  <2>9. CASE /\ pass[k].why = "sync" /\ With(k, "update", "Unknown", o)
             /\ newResourceDelta(p.desired.spec, o.spec) # {}
    BY <1>1, <2>1, <2>3, <2>9, WithCounts
  <2>10. QED
    BY <1>4, <2>5, <2>6, <2>7, <2>8, <2>9 DEF Compare, o
<1>5. QED
  BY <1>3, <1>4 DEF ReadOne

-----------------------------------------------------------------------------
(* Publications.                                                           *)

LEMMA GrownOurs ==
  ASSUME LayersOK, NEW l \in Layer, NEW r \in Published,
         layers' = [layers EXCEPT ![l] = Append(@, r)]
  PROVE  /\ EverOurs' \subseteq EverOurs \cup {<<l, Len(layers[l]) + 1>>}
         /\ r.by # "us" => EverOurs' \subseteq EverOurs
         /\ \A i \in Layer : /\ Len(layers[i]) \in Nat /\ Len(layers'[i]) \in Nat
                             /\ Len(layers'[i]) >= Len(layers[i])
         /\ \A i \in Layer : \A n \in NumbersIn(layers[i]) :
              n \in NumbersIn(layers'[i]) /\ layers'[i][n] = layers[i][n]
         /\ Len(layers'[l]) = Len(layers[l]) + 1
         /\ layers'[l][Len(layers[l]) + 1] = r
<1> DEFINE vs == layers[l]
           top == Len(vs) + 1
<1>1. vs \in Seq(Published) /\ layers \in [Layer -> Seq(Published)]
  BY DEF LayersOK
<1>2. /\ layers'[l] = Append(vs, r) /\ \A i \in Layer \ {l} : layers'[i] = layers[i]
      /\ \A i \in Layer : Len(layers[i]) \in Nat
  BY <1>1
<1>3. /\ Len(vs) \in Nat /\ Len(layers'[l]) = top /\ layers'[l][top] = r
      /\ \A i \in 1..Len(vs) : layers'[l][i] = vs[i]
  BY <1>1, <1>2
<1>4. \A i \in Layer : /\ Len(layers[i]) \in Nat /\ Len(layers'[i]) \in Nat
                       /\ Len(layers'[i]) >= Len(layers[i])
  BY <1>2, <1>3
<1>5. ASSUME NEW i \in Layer, NEW n \in NumbersIn(layers[i])
      PROVE  n \in NumbersIn(layers'[i]) /\ layers'[i][n] = layers[i][n]
  <2>1. CASE i # l
    BY <1>2, <1>5, <2>1
  <2>2. CASE i = l
    <3>1. n \in 1..Len(vs) /\ vs[n].exists
      BY <1>5, <2>2 DEF NumbersIn
    <3>2. n \in 1..top
      BY <1>3, <3>1
    <3>3. QED
      BY <1>3, <2>2, <3>1, <3>2 DEF NumbersIn
  <2>3. QED
    BY <2>1, <2>2
<1>6. ASSUME NEW v \in EverOurs'
      PROVE  v \in EverOurs \/ (v = <<l, top>> /\ r.by = "us")
  <2>1. PICK i \in Layer : \E n \in 1..Len(layers'[i]) :
          v = <<i, n>> /\ layers'[i][n].by = "us"
    BY <1>6 DEF EverOurs
  <2>2. PICK n \in 1..Len(layers'[i]) : v = <<i, n>> /\ layers'[i][n].by = "us"
    BY <2>1
  <2>3. CASE i # l
    BY <1>2, <2>2, <2>3 DEF EverOurs
  <2>4. CASE i = l /\ n \in 1..Len(vs)
    BY <1>3, <2>2, <2>4 DEF EverOurs
  <2>5. CASE i = l /\ n = top
    BY <1>3, <2>2, <2>5
  <2>6. i = l => n \in 1..Len(vs) \/ n = top
    BY <1>3, <2>2
  <2>7. QED
    BY <2>3, <2>4, <2>5, <2>6
<1>7. QED
  BY <1>3, <1>4, <1>5, <1>6

LEMMA PublishCounts ==
  ASSUME CountInv, NEW k \in Key, pass[k].pc \in {"create", "update"},
         NEW l \in {"read", "finish"}, NEW o \in Conditions,
         NEW w \in {"created", "updated"},
         PublishLayerVersion(k, l, o, w), UNCHANGED <<cr, queued, renamed>>
  PROVE  Accounted' /\ AllWithin'
<1> DEFINE p == pass[k]
           c == cr[k]
           name == p.desired.spec.layer
           r == Request(p.desired.spec)
           top == Len(layers[name]) + 1
           q == pass'[k]
<1>1. Base /\ LayersOK /\ PassInv(Locations, Held, LayerSpec, Statuses) /\ AllWithin
  BY CountTypes DEF Base
<1>2. /\ DOMAIN pass = Key /\ DOMAIN p = DOMAIN IdlePass /\ ~Idle(k)
  BY <1>1 DEF PassInv, SoundPass, Idle, At
<1>3. name \in Layer /\ p.desired.spec \in LayerSpec /\ r \in Published
      /\ r.exists /\ r.description = p.desired.spec.description
  BY <1>1, <1>2, PassTypes DEF Request, Published, LayerSpec
<1>4. layers' = [layers EXCEPT ![name] = Append(@, r)]
  BY DEF PublishLayerVersion
<1>5. /\ EverOurs' \subseteq EverOurs \cup {<<name, top>>}
      /\ \A i \in Layer : /\ Len(layers[i]) \in Nat /\ Len(layers'[i]) \in Nat
                          /\ Len(layers'[i]) >= Len(layers[i])
      /\ \A i \in Layer : \A n \in NumbersIn(layers[i]) :
           n \in NumbersIn(layers'[i]) /\ layers'[i][n] = layers[i][n]
      /\ Len(layers'[name]) = top /\ layers'[name][top] = r
  <2> HIDE DEF name, r
  <2>1. QED
    BY <1>1, <1>3, <1>4, GrownOurs
<1> HIDE DEF r, name
<1>6. /\ Alone(k) /\ q.pc \in {"read", "finish"}
      /\ q.pc = "read" => q.why # "sync"
      /\ \/ UNCHANGED spent /\ q.latest.status.versionNumber = top
         \/ Spend("faults")
  <2>1. CASE /\ pass' = [pass EXCEPT
                  ![k].pc = l, ![k].outcome = o, ![k].why = w,
                  ![k].latest = Answer(k, Len(layers'[name]))]
             /\ UNCHANGED spent
    <3> DEFINE a == Answer(k, Len(layers'[name]))
    <3>1. a.status.versionNumber = top
      BY <1>5 DEF Answer
    <3> HIDE DEF a
    <3> DEFINE s == [p EXCEPT !.pc = l, !.outcome = o, !.why = w, !.latest = a]
    <3>2. pass' = [pass EXCEPT ![k] = s]
      BY <2>1 DEF a
    <3> HIDE DEF s
    <3>3. Alone(k) /\ q = s
      BY <1>2, <3>2 DEF Alone
    <3> HIDE DEF q, p
    <3> USE DEF s
    <3>4. q.pc = l /\ q.why = w /\ q.latest = a
      BY <1>2, <3>3 DEF IdlePass
    <3>5. QED
      BY <2>1, <3>1, <3>3, <3>4
  <2>2. CASE Spend("faults") /\ EndPass(k, "Recoverable")
    <3> DEFINE s == [p EXCEPT !.pc = "finish", !.outcome = "Recoverable"]
    <3>1. pass' = [pass EXCEPT ![k] = s]
      BY <2>2 DEF EndPass
    <3> HIDE DEF s
    <3>2. Alone(k) /\ q = s
      BY <1>2, <3>1 DEF Alone
    <3> HIDE DEF q, p
    <3> USE DEF s
    <3>3. q.pc = "finish"
      BY <1>2, <3>2 DEF IdlePass
    <3>4. QED
      BY <2>2, <3>2, <3>3
  <2>3. QED
    BY <2>1, <2>2 DEF PublishLayerVersion, name
<1>7. ~Deletes(q) /\ Within(q, layers') /\ ~Begun(q)
  BY <1>6 DEF Deletes, Within, Begun
<1>8. KeepStanding
  BY <1>5, <1>6, <1>7, NoneDoomed, StandingKept
<1>9. k \in First /\ k \notin First'
  BY <1>7 DEF First, Publishes, Begun
<1>10. k \in Threats' => k \in Threats
  BY DEF Threats, Threatens
<1>11. ASSUME q.latest.status.versionNumber = top, k \in Second' PROVE k \in Second
  <2>1. /\ c.exists /\ ~c.deleting
        /\ ~Stands(layers', pass', c.spec, q.latest.status)
    BY <1>6, <1>7, <1>11 DEF Second, PublishesAgain, Learned
  <2>2. ASSUME Alike(c.spec, p.desired.spec)
        PROVE  Stands(layers', pass', c.spec, q.latest.status)
    <3>1. c.spec.layer = name /\ c.spec.description = r.description
      BY <1>3, <2>2 DEF Alike, name
    <3>2. top \in NumbersIn(layers'[name])
      BY <1>3, <1>5 DEF NumbersIn
    <3>3. ASSUME NEW j \in Key PROVE ~DoomedBy(pass'[j], name, top)
      <4>1. CASE j = k
        BY <1>7, <4>1, NoneDoomed
      <4>2. CASE j # k
        <5>1. pass'[j] = pass[j] /\ Within(pass[j], layers)
          BY <1>1, <1>6, <4>2 DEF Alone, AllWithin
        <5>2. top \notin 1..Len(layers[name])
          BY <1>3, <1>5
        <5> HIDE DEF top
        <5>3. QED
          BY <5>1, <5>2 DEF Within, DoomedBy, Deletes
      <4>3. QED
        BY <4>1, <4>2
    <3>4. ~Condemned(pass', name, top)
      BY <3>3 DEF Condemned
    <3>5. QED
      BY <1>3, <1>5, <1>11, <3>1, <3>2, <3>4 DEF Stands
  <2>3. ~Alike(c.spec, p.desired.spec)
    BY <2>1, <2>2
  <2>4. QED
    BY <2>1, <2>3 DEF Second, PublishesAgain, Begun
<1>12. Accounted'
  <2>1. \/ UNCHANGED spent /\ (k \in Second' => k \in Second)
        \/ Spend("faults")
    BY <1>6, <1>11
  <2> HIDE DEF top
  <2>2. QED
    BY <1>5, <1>6, <1>8, <1>9, <1>10, <2>1, PublishAccounts
<1>13. AllWithin'
  BY <1>5, <1>6, <1>7, OthersWithin
<1>14. QED
  BY <1>12, <1>13

-----------------------------------------------------------------------------
(* Deletions.                                                              *)

(* A pass that has listed what it deletes owes nothing itself.             *)
LEMMA DeletingAccounts ==
  ASSUME CountInv, NEW k \in Key, Alone(k), KeepStanding, EverOurs' \subseteq EverOurs,
         cr'[k].deleting, ~Begun(pass'[k]),
         \/ UNCHANGED spent /\ pass'[k].pc \in {"deleteOld", "deleteOwn", "unmanage"}
         \/ Spend("faults")
  PROVE  Accounted'
<1>1. k \notin First' /\ k \notin Second'
  BY DEF First, Second, Publishes, PublishesAgain
<1>2. Owed(k)' = 0 /\ Owed(k)' =< Owed(k)
  BY <1>1, OwedIs DEF Owed, One
<1>3. CASE UNCHANGED spent /\ pass'[k].pc \in {"deleteOld", "deleteOwn", "unmanage"}
  <2>1. k \notin Threats'
    BY <1>3 DEF Threats, Threatens
  <2>2. QED
    BY <1>2, <1>3, <2>1, QuietAccounts
<1>4. CASE Spend("faults")
  BY <1>2, <1>4, EventAccounts DEF Events
<1>5. QED
  BY <1>3, <1>4

LEMMA ShrunkOurs ==
  ASSUME Base, LayersOK, NEW k, Doomed(k) \in Layer, NEW n, DeleteLayerVersion(k, n)
  PROVE  /\ EverOurs' \subseteq EverOurs
         /\ \A i \in Layer : /\ Len(layers[i]) \in Nat /\ Len(layers'[i]) \in Nat
                             /\ Len(layers'[i]) >= Len(layers[i])
         /\ \A i \in Layer : \A m \in NumbersIn(layers[i]) :
              ~(i = Doomed(k) /\ m = n) =>
                m \in NumbersIn(layers'[i]) /\ layers'[i][m] = layers[i][m]
<1> DEFINE l == Doomed(k)
           vs == layers[l]
           ws == [i \in DOMAIN vs |-> IF i = n THEN [vs[i] EXCEPT !.exists = FALSE]
                                      ELSE vs[i]]
<1>1. layers \in [Layer -> Seq(Published)] /\ vs \in Seq(Published)
  BY DEF LayersOK
<1>2. layers'[l] = ws /\ \A i \in Layer \ {l} : layers'[i] = layers[i]
  BY <1>1 DEF DeleteLayerVersion
<1>3. /\ Len(vs) \in Nat /\ Len(layers'[l]) = Len(vs)
      /\ NumbersIn(layers'[l]) = NumbersIn(vs) \ {n}
      /\ \A i \in 1..Len(vs) : layers'[l][i].by = vs[i].by
  BY ShrunkLayer
<1>4. \A i \in 1..Len(vs) : i # n => layers'[l][i] = vs[i]
  <2>1. DOMAIN vs = 1..Len(vs)
    BY <1>1
  <2>2. \A i \in 1..Len(vs) : i # n => ws[i] = vs[i]
    BY <2>1
  <2>3. QED
    BY <1>2, <2>2
<1> HIDE DEF ws
<1>5. \A i \in Layer : Len(layers[i]) \in Nat
  BY <1>1
<1>6. \A i \in Layer : /\ Len(layers[i]) \in Nat /\ Len(layers'[i]) \in Nat
                       /\ Len(layers'[i]) >= Len(layers[i])
  BY <1>2, <1>3, <1>5
<1>7. ASSUME NEW i \in Layer, NEW m \in NumbersIn(layers[i]), ~(i = l /\ m = n)
      PROVE  m \in NumbersIn(layers'[i]) /\ layers'[i][m] = layers[i][m]
  <2>1. CASE i # l
    BY <1>2, <1>7, <2>1
  <2>2. CASE i = l
    BY <1>3, <1>4, <1>7, <2>2 DEF NumbersIn
  <2>3. QED
    BY <2>1, <2>2
<1>8. ASSUME NEW v \in EverOurs' PROVE v \in EverOurs
  <2>1. PICK i \in Layer : \E m \in 1..Len(layers'[i]) :
          v = <<i, m>> /\ layers'[i][m].by = "us"
    BY <1>8 DEF EverOurs
  <2>2. CASE i # l
    BY <1>2, <2>1, <2>2 DEF EverOurs
  <2>3. CASE i = l
    BY <1>3, <2>1, <2>3 DEF EverOurs
  <2>4. QED
    BY <2>2, <2>3
<1>9. QED
  BY <1>6, <1>7, <1>8

(* What is known of a pass that deletes.                                   *)
LEMMA DeletingIs ==
  ASSUME CountInv, NEW k \in Key, pass[k].pc \in {"list", "deleteOld", "deleteOwn"}
  PROVE  /\ Base /\ LayersOK /\ DOMAIN pass = Key /\ DOMAIN pass[k] = DOMAIN IdlePass
         /\ ~Idle(k) /\ cr[k].deleting /\ Within(pass[k], layers)
         /\ Doomed(k) \in Layer /\ Doomed(k) = pass[k].latest.spec.layer
         /\ ~Begun(pass[k])
<1>1. /\ Base /\ LayersOK /\ Knows(pass[k], cr[k]) /\ Within(pass[k], layers)
      /\ SoundPass(pass[k], cr[k], Locations, Held, LayerSpec, Statuses)
      /\ DOMAIN pass = Key
  BY CountTypes DEF Base, PassInv, Inv, AllWithin
<1>2. ~Idle(k) /\ cr[k].deleting /\ DOMAIN pass[k] = DOMAIN IdlePass
  BY <1>1 DEF Idle, At, Knows, SoundPass
<1>3. QED
  BY <1>1, <1>2, PassTypes DEF Doomed, Begun

(* A call that deletes a version that the pass has condemned.              *)
LEMMA DeletedCounts ==
  ASSUME CountInv, NEW k \in Key, pass[k].pc \in {"deleteOld", "deleteOwn"}, NEW n,
         DoomedBy(pass[k], Doomed(k), n),
         DeleteLayerVersion(k, n), UNCHANGED <<cr, queued, renamed>>,
         NEW l, l \in {pass[k].pc, "unmanage"}, NEW t, t \subseteq pass[k].todo,
         \/ pass' = [pass EXCEPT ![k] = Moved(pass[k], l, t)] /\ UNCHANGED spent
         \/ Spend("faults") /\ EndPass(k, "Recoverable")
  PROVE  Accounted' /\ AllWithin'
<1> DEFINE p == pass[k]
           q == pass'[k]
<1>1. /\ Base /\ LayersOK /\ DOMAIN pass = Key /\ DOMAIN p = DOMAIN IdlePass
      /\ cr[k].deleting /\ Within(p, layers) /\ Doomed(k) \in Layer
      /\ Doomed(k) = p.latest.spec.layer
  BY DeletingIs
<1>2. /\ EverOurs' \subseteq EverOurs
      /\ \A i \in Layer : /\ Len(layers[i]) \in Nat /\ Len(layers'[i]) \in Nat
                          /\ Len(layers'[i]) >= Len(layers[i])
      /\ \A i \in Layer : \A m \in NumbersIn(layers[i]) :
           ~(i = Doomed(k) /\ m = n) =>
             m \in NumbersIn(layers'[i]) /\ layers'[i][m] = layers[i][m]
  BY <1>1, ShrunkOurs
<1>3. /\ Alone(k) /\ q.latest = p.latest
      /\ \/ UNCHANGED spent /\ q.pc \in {p.pc, "unmanage"} /\ q.todo = t
         \/ Spend("faults") /\ q.pc = "finish"
  <2>1. CASE pass' = [pass EXCEPT ![k] = Moved(p, l, t)] /\ UNCHANGED spent
    <3> DEFINE s == Moved(p, l, t)
    <3>1. s.pc = l /\ s.todo = t /\ s.latest = p.latest
      BY <1>1 DEF Moved, IdlePass
    <3> HIDE DEF s
    <3>2. Alone(k) /\ q = s
      BY <1>1, <2>1 DEF Alone, s
    <3> HIDE DEF q
    <3>3. QED
      BY <2>1, <3>1, <3>2
  <2>2. CASE Spend("faults") /\ EndPass(k, "Recoverable")
    <3> DEFINE s == [p EXCEPT !.pc = "finish", !.outcome = "Recoverable"]
    <3>1. s.pc = "finish" /\ s.latest = p.latest
      BY <1>1 DEF IdlePass
    <3>2. pass' = [pass EXCEPT ![k] = s]
      BY <2>2 DEF EndPass
    <3> HIDE DEF s
    <3>3. Alone(k) /\ q = s
      BY <1>1, <3>2 DEF Alone
    <3> HIDE DEF q
    <3>4. QED
      BY <2>2, <3>1, <3>3
  <2>3. QED
    BY <2>1, <2>2
<1> HIDE DEF q
<1>4. \A i, m : DoomedBy(q, i, m) => DoomedBy(p, i, m)
  BY <1>3 DEF DoomedBy, Deletes
<1>5. KeepStanding
  <2>1. ASSUME NEW i \in Layer, NEW m \in NumbersIn(layers[i]), ~DoomedBy(p, i, m)
        PROVE  m \in NumbersIn(layers'[i]) /\ layers'[i][m] = layers[i][m]
    BY <1>2, <2>1
  <2>2. \A i, m : DoomedBy(pass'[k], i, m) => DoomedBy(pass[k], i, m)
    BY <1>4 DEF q
  <2> HIDE DEF p
  <2>3. \A i \in Layer : \A m \in NumbersIn(layers[i]) :
          ~DoomedBy(pass[k], i, m) =>
             /\ m \in NumbersIn(layers'[i])
             /\ layers'[i][m].description = layers[i][m].description
    BY <2>1 DEF p
  <2>4. QED
    BY <1>3, <2>2, <2>3, StandingKept
<1>6. ~Begun(q) /\ cr'[k].deleting
  BY <1>1, <1>3 DEF Begun
<1>7. Accounted'
  BY <1>2, <1>3, <1>5, <1>6, DeletingAccounts DEF q
<1>8. Within(q, layers')
  <2> DEFINE i == p.latest.spec.layer
  <2>1. 1..Len(layers[i]) \subseteq 1..Len(layers'[i])
    <3> DEFINE a == Len(layers[i])
               b == Len(layers'[i])
    <3>1. a \in Nat /\ b \in Nat /\ b >= a
      BY <1>1, <1>2
    <3> HIDE DEF a, b
    <3>2. 1..a \subseteq 1..b
      BY <3>1
    <3>3. QED
      BY <3>2 DEF a, b
  <2> HIDE DEF p
  <2>2. QED
    BY <1>1, <1>3, <2>1 DEF Within, Deletes, p
<1>9. AllWithin'
  BY <1>2, <1>3, <1>8, OthersWithin DEF q
<1>10. QED
  BY <1>7, <1>9

LEMMA PreDeleteCounts ==
  ASSUME CountInv, NEW k \in Key, customPreDelete(k) PROVE Accounted' /\ AllWithin'
<1> DEFINE p == pass[k]
<1>1. p.pc = "deleteOld" /\ UNCHANGED <<cr, queued, renamed>>
  BY DEF customPreDelete, At
<1>2. /\ DOMAIN pass = Key /\ DOMAIN p = DOMAIN IdlePass /\ LayersOK
      /\ cr[k].deleting /\ Within(p, layers) /\ Doomed(k) = p.latest.spec.layer
  BY <1>1, DeletingIs
<1>3. CASE p.todo = {} /\ Goto(k, "deleteOwn") /\ UNCHANGED <<layers, spent>>
  <2> DEFINE q == [p EXCEPT !.pc = "deleteOwn"]
  <2>1. pass' = [pass EXCEPT ![k] = q]
    BY <1>3 DEF Goto
  <2>2. q.pc = "deleteOwn" /\ q.latest = p.latest /\ q.todo = p.todo
    BY <1>2 DEF IdlePass
  <2> HIDE DEF q
  <2>3. Alone(k) /\ pass'[k] = q
    BY <1>1, <1>2, <2>1 DEF Alone
  <2> HIDE DEF p
  <2>4. \A i, m : DoomedBy(q, i, m) => DoomedBy(p, i, m)
    BY <1>1, <2>2 DEF DoomedBy, Deletes
  <2>5. KeepStanding
    BY <1>3, <2>3, <2>4, StandingStays DEF p
  <2>6. ~Begun(q)
    BY <2>2 DEF Begun
  <2>7. Accounted'
    BY <1>1, <1>2, <1>3, <2>2, <2>3, <2>5, <2>6, SameOurs, DeletingAccounts
  <2>8. Within(q, layers')
    BY <1>1, <1>2, <1>3, <2>2 DEF Within, Deletes
  <2>9. AllWithin'
    BY <1>2, <1>3, <2>3, <2>8, SameLength, OthersWithin
  <2>10. QED
    BY <2>7, <2>9
<1>4. ASSUME NEW n \in p.todo, DeleteLayerVersion(k, n),
             \/ pass' = [pass EXCEPT ![k].todo = @ \ {n}] /\ UNCHANGED spent
             \/ Spend("faults") /\ EndPass(k, "Recoverable")
      PROVE  Accounted' /\ AllWithin'
  <2> DEFINE t == p.todo \ {n}
  <2>1. \/ pass' = [pass EXCEPT ![k] = Moved(pass[k], p.pc, t)] /\ UNCHANGED spent
        \/ Spend("faults") /\ EndPass(k, "Recoverable")
    BY <1>2, <1>4, SameLocation DEF Moved
  <2>2. DoomedBy(pass[k], Doomed(k), n)
    BY <1>1, <1>2, <1>4 DEF DoomedBy, Deletes
  <2>3. t \subseteq pass[k].todo /\ p.pc \in {pass[k].pc, "unmanage"}
        /\ pass[k].pc \in {"deleteOld", "deleteOwn"}
    BY <1>1
  <2> HIDE DEF t, p
  <2>4. QED
    BY <1>1, <1>4, <2>1, <2>2, <2>3, DeletedCounts
<1>5. QED
  BY <1>3, <1>4 DEF customPreDelete

LEMMA OwnDeleteCounts ==
  ASSUME CountInv, NEW k \in Key, sdkDelete(k) PROVE Accounted' /\ AllWithin'
<1> DEFINE p == pass[k]
           own == p.latest.status.versionNumber
           t == p.todo
<1>1. /\ p.pc = "deleteOwn" /\ UNCHANGED <<cr, queued, renamed>>
      /\ DeleteLayerVersion(k, own)
  BY DEF sdkDelete, At
<1>2. DOMAIN pass = Key /\ Doomed(k) = p.latest.spec.layer
  BY <1>1, DeletingIs
<1>3. \/ pass' = [pass EXCEPT ![k] = Moved(pass[k], "unmanage", t)] /\ UNCHANGED spent
      \/ Spend("faults") /\ EndPass(k, "Recoverable")
  BY <1>2, SameTodo DEF sdkDelete, Goto, Moved
<1>4. DoomedBy(pass[k], Doomed(k), own)
  BY <1>1, <1>2 DEF DoomedBy, Deletes
<1>5. t \subseteq pass[k].todo /\ pass[k].pc \in {"deleteOld", "deleteOwn"}
  BY <1>1
<1> HIDE DEF own, t, p
<1>6. QED
  BY <1>1, <1>3, <1>4, <1>5, DeletedCounts

-----------------------------------------------------------------------------
(* Steps of which several CRs come to owe a publication.                   *)

LEMMA Subsets ==
  /\ First \subseteq Key /\ Second \subseteq Key /\ Threats \subseteq Key
  /\ First' \subseteq Key /\ Second' \subseteq Key /\ Threats' \subseteq Key
  /\ Running \subseteq Key /\ Running' \subseteq Key
BY DEF First, Second, Threats, Running

(* Whatever happens to the versions, a CR owes at most one more.           *)
LEMMA ManyOwe ==
  ASSUME \A j \in Key : /\ j \in First' => j \in First \/ Begun(pass[j])
                        /\ j \in Second' => j \in Second \/ ~Begun(pass[j])
  PROVE  Cardinality(First') + Cardinality(Second')
           =< Cardinality(First) + Cardinality(Second) + Cardinality(Key)
<1> DEFINE X == First' \ First
           Y == Second' \ Second
<1>1. X \subseteq Key /\ Y \subseteq Key /\ X \cap Y = {} /\ X \cup Y \subseteq Key
      /\ First' \subseteq First \cup X /\ Second' \subseteq Second \cup Y
  BY Subsets
<1> HIDE DEF X, Y
<1>2. /\ Cardinality(First') =< Cardinality(First) + Cardinality(X)
      /\ Cardinality(Second') =< Cardinality(Second) + Cardinality(Y)
  BY <1>1, Subsets, SomeMove
<1>3. Cardinality(X) + Cardinality(Y) =< Cardinality(Key)
  BY <1>1, Apart
<1>4. /\ Cardinality(First') \in Nat /\ Cardinality(First) \in Nat
      /\ Cardinality(Second') \in Nat /\ Cardinality(Second) \in Nat
      /\ Cardinality(X) \in Nat /\ Cardinality(Y) \in Nat /\ Cardinality(Key) \in Nat
  BY <1>1, Subsets, KeySets, KeyCount
<1>5. QED
  BY <1>2, <1>3, <1>4

(* A CR of which neither the pass nor the copy changes.                    *)
LEMMA SameOwes ==
  ASSUME NEW j \in Key, pass'[j] = pass[j], cr'[j] = cr[j]
  PROVE  /\ j \in First' => j \in First \/ Begun(pass[j])
         /\ j \in Second' => j \in Second \/ ~Begun(pass[j])
         /\ j \in Threats' <=> j \in Threats
BY DEF First, Second, Threats, Publishes, PublishesAgain

(* The sums of such a step.                                                *)
LEMMA ManyAccount ==
  ASSUME CountInv, EverOurs' \subseteq EverOurs, NEW r \in Int,
         Cardinality(First') + Cardinality(Second')
           + Cardinality(Key) * Cardinality(Threats')
           =< Cardinality(First) + Cardinality(Second)
                + Cardinality(Key) * Cardinality(Threats) + r,
         Allowed' \in Nat, Allowed' >= Allowed + r
  PROVE  Accounted'
<1> DEFINE a == Cardinality(EverOurs)
           b == Cardinality(EverOurs')
           f == Cardinality(First)
           g == Cardinality(First')
           s == Cardinality(Second)
           u == Cardinality(Second')
           x == Cardinality(Key) * Cardinality(Threats)
           y == Cardinality(Key) * Cardinality(Threats')
           m == Allowed
           n == Allowed'
<1>1. IsFiniteSet(EverOurs) /\ a + f + s + x =< m /\ m \in Nat
  BY CountTypes DEF Accounted
<1>2. IsFiniteSet(EverOurs') /\ b =< a /\ a \in Nat /\ b \in Nat
  BY <1>1, FS_Subset, FS_CardinalityType
<1>3. /\ f \in Nat /\ g \in Nat /\ s \in Nat /\ u \in Nat
      /\ Cardinality(Threats) \in Nat /\ Cardinality(Threats') \in Nat
      /\ Cardinality(Key) \in Nat
  BY Subsets, KeySets, KeyCount
<1>4. x \in Nat /\ y \in Nat
  BY <1>3
<1>5. g + u + y =< f + s + x + r /\ n \in Nat /\ n >= m + r
  OBVIOUS
<1> HIDE DEF a, b, f, g, s, u, x, y, m, n
<1>6. b + g + u + y =< n
  BY <1>1, <1>2, <1>3, <1>4, <1>5
<1>7. QED
  BY <1>2, <1>6 DEF Accounted, b, g, u, y, n

LEMMA ListCounts ==
  ASSUME CountInv, NEW k \in Key, ListLayerVersions(k)
  PROVE  Accounted' /\ AllWithin'
<1> DEFINE p == pass[k]
           l == p.latest.spec.layer
           q == pass'[k]
           c == Cardinality(Key)
           t == Cardinality(Threats)
           u == Cardinality(Threats')
<1>1. p.pc = "list" /\ UNCHANGED <<cr, queued, spent, layers, renamed>>
  BY DEF ListLayerVersions, At
<1>2. /\ DOMAIN pass = Key /\ DOMAIN p = DOMAIN IdlePass /\ LayersOK /\ Base
      /\ cr[k].deleting /\ Within(p, layers) /\ Doomed(k) = l /\ l \in Layer
  BY <1>1, DeletingIs
<1>3. PICK N \in Pages(Numbers(l)) :
        pass' = [pass EXCEPT
          ![k].pc = IF Previous(N) # {} THEN "deleteOld" ELSE "deleteOwn",
          ![k].todo = Previous(N)]
  BY <1>2 DEF ListLayerVersions
<1> DEFINE loc == IF Previous(N) # {} THEN "deleteOld" ELSE "deleteOwn"
           s == [p EXCEPT !.pc = loc, !.todo = Previous(N)]
<1>4. pass' = [pass EXCEPT ![k] = s] /\ loc \in {"deleteOld", "deleteOwn"}
  BY <1>2, <1>3
<1> HIDE DEF loc
<1>5. s.pc = loc /\ s.todo = Previous(N) /\ s.latest = p.latest
  BY <1>2 DEF IdlePass
<1> HIDE DEF s
<1>6. Alone(k) /\ q = s
  BY <1>1, <1>2, <1>4 DEF Alone
<1>7. N \subseteq Numbers(l)
  BY <1>3 DEF Pages, kSubset
<1>8. Previous(N) \subseteq 1..Len(layers[l])
  BY <1>7 DEF Previous, Numbers
<1>9. Within(q, layers')
  BY <1>1, <1>2, <1>5, <1>6, <1>8 DEF Within
<1>10. ~Begun(q) /\ q.pc \in {"deleteOld", "deleteOwn"}
  BY <1>4, <1>5, <1>6 DEF Begun
<1> HIDE DEF q
<1>11. k \notin First' /\ k \notin Second' /\ k \notin Threats' /\ k \in Threats
  BY <1>1, <1>2, <1>10
     DEF First, Second, Threats, Publishes, PublishesAgain, Threatens, q
<1>12. \A j \in Key : /\ j \in First' => j \in First \/ Begun(pass[j])
                      /\ j \in Second' => j \in Second \/ ~Begun(pass[j])
                      /\ j \in Threats' => j \in Threats
  BY <1>6, <1>11, SameOwes DEF Alone
<1>13. Cardinality(First') + Cardinality(Second')
         =< Cardinality(First) + Cardinality(Second) + c
  BY <1>12, ManyOwe
<1>14. u =< t - 1
  <2>1. Threats' \subseteq Key /\ Threats \subseteq Key /\ Threats' \ {k} \subseteq Threats
    BY <1>12, Subsets
  <2>2. Cardinality(Threats') - One(k \in Threats')
          =< Cardinality(Threats) - One(k \in Threats)
    BY <2>1, OneMoves
  <2>3. Cardinality(Threats') \in Nat /\ Cardinality(Threats) \in Nat
    BY <2>1, KeySets
  <2>4. QED
    BY <1>11, <2>2, <2>3 DEF One
<1>15. /\ c \in Nat /\ t \in Nat /\ u \in Nat
       /\ Cardinality(First) \in Nat /\ Cardinality(Second) \in Nat
       /\ Cardinality(First') \in Nat /\ Cardinality(Second') \in Nat
  BY Subsets, KeySets, KeyCount
<1>16. c * u + c =< c * t /\ c * u \in Nat /\ c * t \in Nat
  <2> HIDE DEF c, t, u
  <2>1. c * (u + 1) =< c * t /\ c * (u + 1) = c * u + c
    BY <1>14, <1>15, Product
  <2>2. QED
    BY <1>15, <2>1
<1>17. Cardinality(First') + Cardinality(Second') + c * u
         =< Cardinality(First) + Cardinality(Second) + c * t + 0
  <2> DEFINE cu == c * u
             ct == c * t
  <2>1. cu + c =< ct /\ cu \in Nat /\ ct \in Nat
    BY <1>16
  <2> HIDE DEF cu, ct, c
  <2>2. Cardinality(First') + Cardinality(Second') + cu
          =< Cardinality(First) + Cardinality(Second) + ct + 0
    BY <1>13, <1>15, <2>1
  <2>3. QED
    BY <2>2 DEF cu, ct
<1>18. EverOurs' \subseteq EverOurs /\ Allowed' \in Nat /\ Allowed' >= Allowed + 0
  BY <1>1, SameOurs, CountTypes, AllowedGrows
<1>19. Accounted'
  BY <1>17, <1>18, ManyAccount
<1>20. AllWithin'
  BY <1>1, <1>2, <1>6, <1>9, SameLength, OthersWithin DEF q
<1>21. QED
  BY <1>19, <1>20

-----------------------------------------------------------------------------
(* Events that concern every CR.                                           *)

LEMMA DriftedOurs ==
  ASSUME LayersOK, NEW l \in Layer, NEW n \in Numbers(l),
         layers' = [layers EXCEPT ![l][n].exists = FALSE]
  PROVE  /\ EverOurs' \subseteq EverOurs
         /\ \A i \in Layer : /\ Len(layers[i]) \in Nat /\ Len(layers'[i]) \in Nat
                             /\ Len(layers'[i]) >= Len(layers[i])
<1> DEFINE vs == layers[l]
           r == [vs[n] EXCEPT !.exists = FALSE]
           ws == [vs EXCEPT ![n] = r]
<1>1. layers \in [Layer -> Seq(Published)] /\ vs \in Seq(Published)
  BY DEF LayersOK
<1>2. n \in 1..Len(vs) /\ Len(vs) \in Nat /\ DOMAIN vs = 1..Len(vs)
  BY <1>1 DEF Numbers
<1>3. vs[n] \in Published
  BY <1>1, <1>2
<1>4. r \in Published /\ r.by = vs[n].by
  BY <1>3 DEF Published
<1>5. layers' = [layers EXCEPT ![l] = ws]
  OBVIOUS
<1> HIDE DEF r
<1>6. /\ ws \in Seq(Published) /\ Len(ws) = Len(vs)
      /\ \A i \in 1..Len(vs) : ws[i] = IF i = n THEN r ELSE vs[i]
  BY <1>1, <1>2, <1>4
<1> HIDE DEF ws
<1>7. layers'[l] = ws /\ \A i \in Layer \ {l} : layers'[i] = layers[i]
  BY <1>1, <1>5
<1>8. \A i \in Layer : /\ Len(layers[i]) \in Nat /\ Len(layers'[i]) \in Nat
                       /\ Len(layers'[i]) >= Len(layers[i])
  BY <1>1, <1>2, <1>6, <1>7
<1>9. ASSUME NEW v \in EverOurs' PROVE v \in EverOurs
  <2>1. PICK i \in Layer : \E m \in 1..Len(layers'[i]) :
          v = <<i, m>> /\ layers'[i][m].by = "us"
    BY <1>9 DEF EverOurs
  <2>2. CASE i # l
    BY <1>7, <2>1, <2>2 DEF EverOurs
  <2>3. CASE i = l
    BY <1>4, <1>6, <1>7, <2>1, <2>3 DEF EverOurs
  <2>4. QED
    BY <2>2, <2>3
<1>10. QED
  BY <1>8, <1>9

LEMMA DriftCounts ==
  ASSUME CountInv, NEW l \in Layer, Drift(l) PROVE Accounted' /\ AllWithin'
<1> DEFINE c == Cardinality(Key)
           x == c * Cardinality(Threats)
<1>1. Base /\ LayersOK /\ AllWithin /\ UNCHANGED <<cr, pass>> /\ Spend("drifts")
  BY CountTypes DEF Drift
<1>2. /\ EverOurs' \subseteq EverOurs
      /\ \A i \in Layer : /\ Len(layers[i]) \in Nat /\ Len(layers'[i]) \in Nat
                          /\ Len(layers'[i]) >= Len(layers[i])
  <2>1. ASSUME NEW v \in Value,
               layers' = [layers EXCEPT ![l] =
                 Append(@, [exists |-> TRUE, by |-> "other", description |-> Nil,
                            content |-> v])]
        PROVE  /\ EverOurs' \subseteq EverOurs
               /\ \A i \in Layer : /\ Len(layers[i]) \in Nat /\ Len(layers'[i]) \in Nat
                                   /\ Len(layers'[i]) >= Len(layers[i])
    <3> DEFINE r == [exists |-> TRUE, by |-> "other", description |-> Nil,
                     content |-> v]
    <3>1. r \in Published /\ r.by # "us"
      BY DEF Published
    <3>2. layers' = [layers EXCEPT ![l] = Append(@, r)]
      BY <2>1
    <3> HIDE DEF r
    <3>3. QED
      BY <1>1, <3>1, <3>2, GrownOurs
  <2>2. ASSUME NEW n \in Numbers(l), layers' = [layers EXCEPT ![l][n].exists = FALSE]
        PROVE  /\ EverOurs' \subseteq EverOurs
               /\ \A i \in Layer : /\ Len(layers[i]) \in Nat /\ Len(layers'[i]) \in Nat
                                   /\ Len(layers'[i]) >= Len(layers[i])
    BY <1>1, <2>2, DriftedOurs
  <2>3. QED
    BY <2>1, <2>2 DEF Drift
<1>3. \A j \in Key : /\ j \in First' => j \in First \/ Begun(pass[j])
                     /\ j \in Second' => j \in Second \/ ~Begun(pass[j])
                     /\ j \in Threats' <=> j \in Threats
  <2>1. \A j \in Key : pass'[j] = pass[j] /\ cr'[j] = cr[j]
    BY <1>1
  <2>2. QED
    BY <2>1, SameOwes
<1>4. Threats' = Threats
  <2>1. Threats \subseteq Key /\ Threats' \subseteq Key
    BY Subsets
  <2>2. QED
    BY <1>3, <2>1
<1>5. Cardinality(First') + Cardinality(Second')
        =< Cardinality(First) + Cardinality(Second) + c
  BY <1>3, ManyOwe
<1>6. /\ c \in Nat /\ Cardinality(Threats) \in Nat
      /\ Cardinality(First) \in Nat /\ Cardinality(Second) \in Nat
      /\ Cardinality(First') \in Nat /\ Cardinality(Second') \in Nat
  BY Subsets, KeySets, KeyCount
<1>7. x \in Nat
  BY <1>6
<1>8. c * Cardinality(Threats') = x
  BY <1>4
<1>9. Allowed' \in Nat /\ Allowed' >= Allowed + c
  <2>1. spent \in Counts /\ "drifts" \in Events
    BY CountTypes DEF Events
  <2>2. QED
    BY <1>1, <2>1, AllowedGrows
<1>10. Cardinality(First') + Cardinality(Second') + c * Cardinality(Threats')
         =< Cardinality(First) + Cardinality(Second) + c * Cardinality(Threats) + c
  <2> HIDE DEF x
  <2>1. Cardinality(First') + Cardinality(Second') + x
          =< Cardinality(First) + Cardinality(Second) + x + c
    BY <1>5, <1>6, <1>7
  <2>2. QED
    BY <1>8, <2>1 DEF x
<1>11. c \in Int
  BY <1>6
<1>12. Accounted'
  <2> HIDE DEF x, c
  <2>1. QED
    BY <1>2, <1>9, <1>10, <1>11, ManyAccount DEF c
<1>13. AllWithin'
  <2>1. ASSUME NEW k \in Key PROVE AllWithin'
    <3>1. Alone(k)
      BY <1>1 DEF Alone
    <3> DEFINE p == pass[k]
               i == p.latest.spec.layer
    <3>2. Within(p, layers)
      BY <1>1 DEF AllWithin
    <3>3. CASE p.pc \in {"list", "deleteOld", "deleteOwn"}
      <4>1. i \in Layer
        BY <1>1, <3>3, PassTypes DEF Idle, At
      <4>2. 1..Len(layers[i]) \subseteq 1..Len(layers'[i])
        <5> DEFINE a == Len(layers[i])
                   b == Len(layers'[i])
        <5>1. a \in Nat /\ b \in Nat /\ b >= a
          BY <1>2, <4>1
        <5> HIDE DEF a, b
        <5>2. 1..a \subseteq 1..b
          BY <5>1
        <5>3. QED
          BY <5>2 DEF a, b
      <4>3. Within(p, layers')
        BY <3>2, <4>2 DEF Within
      <4>4. pass'[k] = p
        BY <1>1
      <4>5. QED
        BY <1>2, <3>1, <4>3, <4>4, OthersWithin
    <3>4. CASE p.pc \notin {"list", "deleteOld", "deleteOwn"}
      <4>1. Within(p, layers')
        BY <3>4 DEF Within, Deletes
      <4>2. pass'[k] = p
        BY <1>1
      <4>3. QED
        BY <1>2, <3>1, <4>1, <4>2, OthersWithin
    <3>5. QED
      BY <3>3, <3>4
  <2>2. CASE Key = {}
    BY <2>2 DEF AllWithin
  <2>3. QED
    BY <2>1, <2>2
<1>14. QED
  BY <1>12, <1>13

(* A restart interrupts all passes: each may owe one publication more, or  *)
(* be a deletion that has to list its layer again.                         *)
LEMMA RestartCounts ==
  ASSUME CountInv, Crash, UNCHANGED <<layers, renamed>>
  PROVE  Accounted' /\ AllWithin'
<1> DEFINE X == {k \in Running : ~cr[k].deleting}
           Y == {k \in Running : cr[k].deleting}
           c == Cardinality(Key)
           o == 1 + spent.overlaps
           f == Cardinality(First)
           s == Cardinality(Second)
           t == Cardinality(Threats)
           g == Cardinality(First')
           u == Cardinality(Second')
           v == Cardinality(Threats')
           x == Cardinality(X)
           y == Cardinality(Y)
<1>1. /\ Spend("faults") /\ UNCHANGED <<cr, layers>>
      /\ \A k \in Key : pass'[k] = IdlePass
  BY DEF Crash
<1>2. IdlePass.pc = "idle"
  BY DEF IdlePass
<1>3. ASSUME NEW a, NEW b, Stands(layers, pass, a, b)
      PROVE  Stands(layers', pass', a, b)
  <2>1. ~Condemned(pass', a.layer, b.versionNumber)
    BY <1>1, <1>2 DEF Condemned, DoomedBy, Deletes
  <2>2. QED
    BY <1>1, <1>3, <2>1 DEF Stands
<1>4. First' = {}
  BY <1>1, <1>2 DEF First, Publishes, Begun
<1>5. Second' \subseteq Second \cup X
  <2> SUFFICES ASSUME NEW k \in Key, PublishesAgain(layers', pass', IdlePass, cr[k]),
                      Idle(k)
               PROVE  PublishesAgain(layers, pass, pass[k], cr[k])
    BY <1>1 DEF Second, Running, PublishesAgain
  <2>1. pass[k].pc = "idle" /\ ~Begun(pass[k]) /\ ~Begun(IdlePass)
    BY <1>2 DEF Idle, At, Begun
  <2>2. ~Stands(layers', pass', cr[k].spec, cr[k].status)
    BY <1>2, <2>1 DEF PublishesAgain, Learned
  <2>3. ~Stands(layers, pass, cr[k].spec, cr[k].status)
    BY <1>3, <2>2
  <2>4. QED
    BY <2>1, <2>3 DEF PublishesAgain, Learned
<1>6. Threats' \subseteq Threats \cup Y
  BY <1>1, <1>2 DEF Threats, Threatens, Running, Idle, At
<1>7. X \subseteq Key /\ Y \subseteq Key /\ X \cup Y \subseteq Running /\ X \cap Y = {}
  BY Subsets
<1>8. /\ spent \in Counts /\ Allowed \in Nat /\ FewRun /\ "faults" \in Events
  BY CountTypes DEF Events
<1> HIDE DEF X, Y
<1>9. x + y =< o
  <2>1. x + y =< Cardinality(Running)
    BY <1>7, Subsets, Apart
  <2>2. Cardinality(Running) \in Nat /\ x \in Nat /\ y \in Nat /\ o \in Nat
    BY <1>7, <1>8, Subsets, KeySets DEF Counts
  <2>3. QED
    BY <1>8, <2>1, <2>2 DEF FewRun
<1>10. /\ u =< s + x /\ v =< t + y /\ g = 0
  BY <1>4, <1>5, <1>6, <1>7, Subsets, SomeMove, FS_EmptySet
<1>11. /\ c \in Nat /\ o \in Nat /\ f \in Nat /\ s \in Nat /\ t \in Nat /\ u \in Nat
       /\ v \in Nat /\ x \in Nat /\ y \in Nat /\ x =< c
  BY <1>7, <1>8, Subsets, KeySets, KeyCount DEF Counts
<1>12. EverOurs' \subseteq EverOurs
  BY <1>1, SameOurs
<1>13. Allowed' = Allowed + c * o
  BY <1>1, <1>8, AllowedGrows
<1> DEFINE m == Allowed
           n == Allowed'
<1>14. g + u + c * v =< f + s + c * t + c * o
  <2> HIDE DEF c, o, f, s, t, g, u, v, x, y
  <2>1. x =< c * x
    <3>1. CASE c = 0
      BY <1>11, <3>1
    <3>2. CASE c >= 1
      <4>1. x * 1 =< x * c /\ x * 1 = x /\ x * c = c * x
        BY <1>11, <3>2, Product
      <4>2. QED
        BY <4>1
    <3>3. QED
      BY <1>11, <3>1, <3>2
  <2>2. c * (x + y) =< c * o /\ c * (x + y) = c * x + c * y
    <3>1. x + y \in Nat
      BY <1>11
    <3>2. QED
      BY <1>9, <1>11, <3>1, Product
  <2>3. c * v =< c * (t + y) /\ c * (t + y) = c * t + c * y
    <3>1. t + y \in Nat
      BY <1>11
    <3>2. QED
      BY <1>10, <1>11, <3>1, Product
  <2>4. /\ c * x \in Nat /\ c * y \in Nat /\ c * v \in Nat /\ c * t \in Nat
        /\ c * o \in Nat
    BY <1>11
  <2> DEFINE cx == c * x
             cy == c * y
             cv == c * v
             ct == c * t
             co == c * o
  <2>5. /\ cx \in Nat /\ cy \in Nat /\ cv \in Nat /\ ct \in Nat /\ co \in Nat
        /\ x =< cx /\ cx + cy =< co /\ cv =< ct + cy
    BY <2>1, <2>2, <2>3, <2>4
  <2> HIDE DEF cx, cy, cv, ct, co
  <2>6. g + u + cv =< f + s + ct + co
    BY <1>10, <1>11, <2>5
  <2>7. QED
    BY <2>6 DEF cv, ct, co
<1>15. c * o \in Int /\ n \in Nat /\ n >= m + c * o
  <2>1. c * o \in Nat
    BY <1>11
  <2> DEFINE co == c * o
  <2>2. co \in Nat /\ m \in Nat /\ n = m + co
    BY <1>8, <1>13, <2>1
  <2> HIDE DEF co, m, n
  <2>3. n \in Nat /\ n >= m + co
    BY <2>2
  <2>4. QED
    BY <2>1, <2>3 DEF co
<1>16. Accounted'
  <2> DEFINE r == c * o
  <2>1. r \in Int /\ Allowed' \in Nat /\ Allowed' >= Allowed + r
    BY <1>15
  <2>2. Cardinality(First') + Cardinality(Second')
          + Cardinality(Key) * Cardinality(Threats')
          =< Cardinality(First) + Cardinality(Second)
               + Cardinality(Key) * Cardinality(Threats) + r
    BY <1>14
  <2> HIDE DEF r
  <2>3. QED
    BY <1>12, <2>1, <2>2, ManyAccount
<1>17. AllWithin'
  BY <1>1, <1>2 DEF AllWithin, Within, Deletes
<1>18. QED
  BY <1>16, <1>17

-----------------------------------------------------------------------------
(* Few passes run at a time.                                               *)

LEMMA SpentOverlaps ==
  ASSUME spent \in Counts
  PROVE  /\ spent.overlaps \in Nat
         /\ UNCHANGED spent => spent'.overlaps = spent.overlaps
         /\ \A b \in Events : Spend(b) => spent'.overlaps = spent.overlaps
         /\ Spend("overlaps") => spent'.overlaps = spent.overlaps + 1
<1>1. DOMAIN spent = {"edits", "faults", "drifts", "overlaps"} /\ spent.overlaps \in Nat
  BY DEF Counts
<1>2. QED
  BY <1>1 DEF Spend, Events

LEMMA NoMoreRun ==
  ASSUME FewRun, spent \in Counts, Running' \subseteq Running,
         \/ UNCHANGED spent
         \/ Spend("overlaps")
         \/ \E b \in Events : Spend(b)
  PROVE  FewRun'
<1> DEFINE a == Cardinality(Running)
           b == Cardinality(Running')
           o == spent.overlaps
           u == spent'.overlaps
<1>1. a \in Nat /\ b \in Nat /\ b =< a
  <2>1. Running \subseteq Key /\ Running' \subseteq Key
    BY Subsets
  <2>2. IsFiniteSet(Running)
    BY <2>1, KeySets
  <2>3. QED
    BY <2>1, <2>2, KeySets, FS_Subset
<1>2. o \in Nat /\ (u = o \/ u = o + 1)
  BY SpentOverlaps
<1>3. a =< 1 + o
  BY DEF FewRun
<1> HIDE DEF a, b, o, u
<1>4. b =< 1 + u
  BY <1>1, <1>2, <1>3
<1>5. QED
  BY <1>4 DEF FewRun, b, u

(* A pass of k that goes on, with others as they are.                      *)
LEMMA GoesOn ==
  ASSUME NEW k \in Key, ~Idle(k), \A j \in Key \ {k} : pass'[j] = pass[j]
  PROVE  Running' \subseteq Running
BY DEF Running, Idle, At

LEMMA StartRuns ==
  ASSUME CountInv, NEW k \in Key, Start(k) PROVE FewRun'
<1>1. /\ FewRun /\ spent \in Counts /\ Idle(k)
      /\ UNCHANGED spent \/ Spend("overlaps")
  BY CountTypes DEF Start
<1>2. DOMAIN pass = Key
  BY CountTypes DEF Base, PassInv
<1>3. \A j \in Key \ {k} : pass'[j] = pass[j]
  BY <1>2 DEF Start
<1>4. Running' \subseteq Running \cup {k}
  BY <1>3 DEF Running, Idle, At
<1>5. CASE \A j \in Key : Idle(j)
  <2>1. Running' \subseteq {k}
    BY <1>4, <1>5 DEF Running
  <2>2. IsFiniteSet({k}) /\ Cardinality({k}) = 1
    BY FS_Singleton
  <2>3. Cardinality(Running') =< 1
    BY <2>1, <2>2, FS_Subset
  <2>4. spent'.overlaps = spent.overlaps /\ spent.overlaps \in Nat
    BY <1>1, <1>5, SpentOverlaps DEF Start
  <2>5. Cardinality(Running') \in Nat
    BY Subsets, KeySets
  <2>6. QED
    BY <2>3, <2>4, <2>5 DEF FewRun
<1>6. CASE ~\A j \in Key : Idle(j)
  <2>1. Spend("overlaps")
    BY <1>6 DEF Start
  <2>2. Running' \subseteq Key /\ Running \subseteq Key /\ {k} \subseteq Key
    BY Subsets
  <2>3. /\ Cardinality(Running') =< Cardinality(Running) + Cardinality({k})
        /\ Cardinality({k}) = 1
    BY <1>4, <2>2, SomeMove, FS_Singleton
  <2>4. spent'.overlaps = spent.overlaps + 1 /\ spent.overlaps \in Nat
    BY <1>1, <2>1, SpentOverlaps
  <2>5. Cardinality(Running') \in Nat /\ Cardinality(Running) \in Nat
    BY <2>2, KeySets
  <2>6. QED
    BY <1>1, <2>3, <2>4, <2>5 DEF FewRun
<1>7. QED
  BY <1>5, <1>6

LEMMA OthersRun ==
  ASSUME CountInv, NEW k \in Key,
         Handlers(k) \/ Timer(k) \/ Fail(k) \/ Users(k)
  PROVE  FewRun'
<1>1. FewRun /\ spent \in Counts
  BY CountTypes
<1>2. DOMAIN pass = Key
  BY CountTypes DEF Base, PassInv
<1>3. CASE Other(k)
  <2>1. CASE Start(k)
    BY <2>1, StartRuns
  <2>2. CASE Manage(k)
    <3>1. ~Idle(k) /\ UNCHANGED spent /\ \A j \in Key \ {k} : pass'[j] = pass[j]
      BY <1>2, <2>2 DEF Manage, Goto, EndPass, Idle, At
    <3>2. QED
      BY <1>1, <3>1, GoesOn, NoMoreRun
  <2>3. CASE Unmanage(k) \/ Finish(k)
    <3>1. ~Idle(k) /\ UNCHANGED spent /\ \A j \in Key \ {k} : pass'[j] = pass[j]
      BY <1>2, <2>3 DEF Unmanage, Finish, Idle, At
    <3>2. QED
      BY <1>1, <3>1, GoesOn, NoMoreRun
  <2>4. QED
    BY <1>3, <2>1, <2>2, <2>3 DEF Other
<1>4. CASE ReadOne(k)
  <2>1. ~Idle(k) /\ UNCHANGED spent
    BY <1>4 DEF ReadOne, Idle, At
  <2>2. \A j \in Key \ {k} : pass'[j] = pass[j]
    <3>1. CASE NotFound(k)
      BY <1>2, <3>1 DEF NotFound, Goto, EndPass
    <3>2. CASE Compare(k)
      <4>1. \/ EndPass(k, "Terminal")
            \/ \E l, o, r : With(k, l, o, r)
        BY <3>2 DEF Compare
      <4>2. QED
        BY <1>2, <4>1 DEF EndPass, With
    <3>3. QED
      BY <1>4, <3>1, <3>2 DEF ReadOne
  <2>3. QED
    BY <1>1, <2>1, <2>2, GoesOn, NoMoreRun
<1>5. CASE Create(k) \/ Update(k)
  <2>1. ~Idle(k)
    BY <1>5 DEF Create, Update, sdkCreate, sdkUpdate, Idle, At
  <2>2. PICK l, o, w : PublishLayerVersion(k, l, o, w)
    BY <1>5 DEF Create, Update, sdkCreate, sdkUpdate
  <2>3. /\ \A j \in Key \ {k} : pass'[j] = pass[j]
        /\ UNCHANGED spent \/ Spend("faults")
    BY <1>2, <2>2 DEF PublishLayerVersion, EndPass
  <2>4. QED
    BY <1>1, <2>1, <2>3, GoesOn, NoMoreRun DEF Events
<1>6. CASE Delete(k)
  <2>1. ~Idle(k)
    BY <1>6 DEF Delete, ListLayerVersions, customPreDelete, sdkDelete, Idle, At
  <2>2. CASE ListLayerVersions(k)
    <3>1. UNCHANGED spent /\ \A j \in Key \ {k} : pass'[j] = pass[j]
      BY <1>2, <2>2 DEF ListLayerVersions
    <3>2. QED
      BY <1>1, <2>1, <3>1, GoesOn, NoMoreRun
  <2>3. CASE customPreDelete(k)
    <3>1. /\ \A j \in Key \ {k} : pass'[j] = pass[j]
          /\ UNCHANGED spent \/ Spend("faults")
      BY <1>2, <2>3 DEF customPreDelete, Goto, EndPass
    <3>2. QED
      BY <1>1, <2>1, <3>1, GoesOn, NoMoreRun DEF Events
  <2>4. CASE sdkDelete(k)
    <3>1. /\ \A j \in Key \ {k} : pass'[j] = pass[j]
          /\ UNCHANGED spent \/ Spend("faults")
      BY <1>2, <2>4 DEF sdkDelete, Goto, EndPass
    <3>2. QED
      BY <1>1, <2>1, <3>1, GoesOn, NoMoreRun DEF Events
  <2>5. QED
    BY <1>6, <2>2, <2>3, <2>4 DEF Delete
<1>7. CASE Timer(k)
  <2>1. UNCHANGED <<pass, spent>>
    BY <1>7 DEF Timer, Resync
  <2>2. Running' \subseteq Running
    BY <2>1 DEF Running, Idle, At
  <2>3. QED
    BY <1>1, <2>1, <2>2, NoMoreRun
<1>8. CASE Fail(k)
  <2>1. /\ ~Idle(k) /\ Spend("faults") /\ \A j \in Key \ {k} : pass'[j] = pass[j]
    BY <1>2, <1>8 DEF Fail, CallFails, EndPass, Idle, At
  <2>2. QED
    BY <1>1, <2>1, GoesOn, NoMoreRun DEF Events
<1>9. CASE Users(k)
  <2>1. UNCHANGED pass /\ Spend("edits")
    BY <1>9 DEF Users, UserApply, UserEdit, UserDelete
  <2>2. Running' \subseteq Running
    BY <2>1 DEF Running, Idle, At
  <2>3. QED
    BY <1>1, <2>1, <2>2, NoMoreRun DEF Events
<1>10. QED
  BY <1>3, <1>4, <1>5, <1>6, <1>7, <1>8, <1>9 DEF Handlers

-----------------------------------------------------------------------------
(* The bound.                                                              *)

LEMMA HandlersCount ==
  ASSUME CountInv, NEW k \in Key, Handlers(k) PROVE Accounted' /\ AllWithin'
<1>1. CASE Other(k)
  BY <1>1, BeginCounts, MarkCounts, UnmarkCounts, StoreCounts DEF Other
<1>2. CASE ReadOne(k)
  BY <1>2, ReadCounts
<1>3. CASE Create(k)
  <2>1. /\ pass[k].pc \in {"create", "update"} /\ UNCHANGED <<cr, queued, renamed>>
        /\ PublishLayerVersion(k, "read", "Unknown", "created")
    BY <1>3 DEF Create, sdkCreate, At
  <2>2. "Unknown" \in Conditions
    BY DEF Conditions
  <2>3. QED
    BY <2>1, <2>2, PublishCounts
<1>4. CASE Update(k)
  <2>1. /\ pass[k].pc \in {"create", "update"} /\ UNCHANGED <<cr, queued, renamed>>
        /\ PublishLayerVersion(k, "finish", "Synced", "updated")
    BY <1>4 DEF Update, sdkUpdate, At
  <2>2. "Synced" \in Conditions
    BY DEF Conditions
  <2>3. QED
    BY <2>1, <2>2, PublishCounts
<1>5. CASE Delete(k)
  BY <1>5, ListCounts, PreDeleteCounts, OwnDeleteCounts DEF Delete
<1>6. QED
  BY <1>1, <1>2, <1>3, <1>4, <1>5 DEF Handlers

LEMMA StutterCounts ==
  ASSUME CountInv, UNCHANGED vars PROVE FewRun' /\ Accounted' /\ AllWithin'
<1>1. UNCHANGED <<cr, pass, spent, layers>>
  BY DEF vars, passVars
<1>2. /\ First' = First /\ Second' = Second /\ Threats' = Threats
      /\ Running' = Running /\ EverOurs' = EverOurs /\ Allowed' = Allowed
  BY <1>1 DEF First, Second, Threats, Running, EverOurs, Allowed, Idle, At
<1>3. QED
  BY <1>1, <1>2 DEF CountInv, FewRun, Accounted, AllWithin

LEMMA NextCounts == CountInv /\ [Next]_vars => CountInv'
<1> SUFFICES ASSUME CountInv, [Next]_vars PROVE CountInv'
  OBVIOUS
<1>1. Inv'
  BY CountTypes, NextKeepsInv
<1>2. ASSUME NEW k \in Key, Handlers(k) \/ Timer(k) \/ Fail(k) \/ Users(k)
      PROVE  FewRun' /\ Accounted' /\ AllWithin'
  BY <1>2, OthersRun, HandlersCount, TimerCounts, FailCounts, UsersCount
<1>3. ASSUME Crash, UNCHANGED <<layers, renamed>>
      PROVE  FewRun' /\ Accounted' /\ AllWithin'
  <2>1. Running' \subseteq Running
    BY <1>3 DEF Crash, Running, Idle, At, IdlePass
  <2>2. Spend("faults") /\ FewRun /\ spent \in Counts
    BY <1>3, CountTypes DEF Crash
  <2>3. FewRun'
    BY <2>1, <2>2, NoMoreRun DEF Events
  <2>4. QED
    BY <1>3, <2>3, RestartCounts
<1>4. ASSUME NEW l \in Layer, Drift(l) PROVE FewRun' /\ Accounted' /\ AllWithin'
  <2>1. UNCHANGED pass /\ Spend("drifts") /\ FewRun /\ spent \in Counts
    BY <1>4, CountTypes DEF Drift
  <2>2. Running' \subseteq Running
    BY <2>1 DEF Running, Idle, At
  <2>3. FewRun'
    BY <2>1, <2>2, NoMoreRun DEF Events
  <2>4. QED
    BY <1>4, <2>3, DriftCounts
<1>5. FewRun' /\ Accounted' /\ AllWithin'
  BY <1>2, <1>3, <1>4, StutterCounts DEF Next
<1>6. QED
  BY <1>1, <1>5 DEF CountInv

LEMMA InitCounts == Init => CountInv
<1> SUFFICES ASSUME Init PROVE CountInv
  OBVIOUS
<1>1. Inv
  BY InitImpliesInv
<1>2. /\ pass = [k \in Key |-> IdlePass]
      /\ spent = [edits |-> 0, faults |-> 0, drifts |-> 0, overlaps |-> 0]
      /\ \A k \in Key : cr[k] \in {FreshCR(s, NoStatus) : s \in Specs}
  BY DEF Init, PassInit
<1>3. \A k \in Key : pass[k].pc = "idle"
  BY <1>2 DEF IdlePass
<1>4. ASSUME NEW k \in Key PROVE ~cr[k].deleting
  <2>1. PICK s \in Specs : cr[k] = FreshCR(s, NoStatus)
    BY <1>2
  <2>2. ~FreshCR(s, NoStatus).deleting
    BY DEF FreshCR
  <2>3. QED
    BY <2>1, <2>2
<1>5. EverOurs = {}
  <2>1. ASSUME NEW l \in Layer, NEW n \in 1..Len(layers[l])
        PROVE  layers[l][n].by # "us"
    <3>1. \/ layers[l] = <<>>
          \/ \E v \in Value :
               layers[l] = <<[exists |-> TRUE, by |-> "other", description |-> Nil,
                              content |-> v]>>
      BY DEF Init
    <3>2. CASE layers[l] = <<>>
      BY <2>1, <3>2
    <3>3. CASE \E v \in Value :
                 layers[l] = <<[exists |-> TRUE, by |-> "other", description |-> Nil,
                                content |-> v]>>
      <4>1. PICK v \in Value :
              layers[l] = <<[exists |-> TRUE, by |-> "other", description |-> Nil,
                             content |-> v]>>
        BY <3>3
      <4>2. n = 1
        BY <2>1, <4>1
      <4>3. QED
        BY <4>1, <4>2
    <3>4. QED
      BY <3>1, <3>2, <3>3
  <2>2. QED
    BY <2>1 DEF EverOurs
<1>6. First = {} /\ Threats = {} /\ Running = {}
  BY <1>3, <1>4 DEF First, Threats, Running, Publishes, Begun, Threatens, Idle, At
<1>7. IsFiniteSet({}) /\ Cardinality({}) = 0
  BY FS_EmptySet
<1>8. /\ Cardinality(Second) =< Cardinality(Key) /\ Cardinality(Second) \in Nat
      /\ Cardinality(Key) \in Nat
  BY Subsets, KeySets, KeyCount
<1>9. Allowed = Cardinality(Key)
  <2>1. Allowed = Cardinality(Key) * (1 + 0 + 0 + (1 + 0) * 0)
    BY <1>2 DEF Allowed
  <2>2. QED
    BY <1>8, <2>1
<1>10. Accounted
  <2>1. Cardinality(Key) * Cardinality(Threats) = 0
    BY <1>6, <1>7, <1>8
  <2>2. Cardinality(EverOurs) = 0 /\ Cardinality(First) = 0
    BY <1>5, <1>6, <1>7
  <2>3. QED
    BY <1>5, <1>7, <1>8, <1>9, <2>1, <2>2 DEF Accounted
<1>11. FewRun
  BY <1>2, <1>6, <1>7 DEF FewRun
<1>12. AllWithin
  BY <1>3 DEF AllWithin, Within, Deletes
<1>13. QED
  BY <1>1, <1>10, <1>11, <1>12 DEF CountInv

LEMMA CountInvHolds == Spec => []CountInv
<1>1. Init => CountInv
  BY InitCounts
<1>2. CountInv /\ [Next]_vars => CountInv'
  BY NextCounts
<1>3. QED
  BY <1>1, <1>2, PTL DEF Spec

(* However many CRs, layers and versions on a page there are, the          *)
(* controller publishes no more versions than what has happened accounts   *)
(* for: no pass over a CR that its version suits publishes another one.    *)
THEOREM PublicationsAreBounded == Spec => []PublishesAreBounded
<1>1. CountInv => PublishesAreBounded
  <2> SUFFICES ASSUME CountInv PROVE PublishesAreBounded
    OBVIOUS
  <2> DEFINE a == Cardinality(EverOurs)
             f == Cardinality(First)
             s == Cardinality(Second)
             t == Cardinality(Key) * Cardinality(Threats)
             m == Allowed
  <2>1. IsFiniteSet(EverOurs) /\ a + f + s + t =< m
    BY CountTypes DEF Accounted
  <2>2. Cardinality(Threats) \in Nat /\ Cardinality(Key) \in Nat
    BY Subsets, KeySets, KeyCount
  <2>3. a \in Nat /\ f \in Nat /\ s \in Nat /\ t \in Nat /\ m \in Nat
    BY <2>1, <2>2, Subsets, KeySets, CountTypes, FS_CardinalityType
  <2> HIDE DEF a, f, s, t, m
  <2>4. a =< m
    BY <2>1, <2>3
  <2>5. QED
    BY <2>4 DEF PublishesAreBounded, Allowed, a, m
<1>2. QED
  BY <1>1, CountInvHolds, PTL

-----------------------------------------------------------------------------
(* Nothing is forgotten.                                                   *)

Work == Held \cup {"manage"}

LEMMA WorkIsApart == SetApart(Work)
BY DEF SetApart, Work, Held

LEMMA ShapeIs == ASSUME Inv PROVE Shaped(LayerSpec, Statuses)
BY InvGivesShape DEF Inv, Base

LEMMA FieldsOfPass ==
  ASSUME Inv, NEW k \in Key
  PROVE  /\ k \in DOMAIN pass
         /\ DOMAIN pass[k] =
              {"pc", "why", "desired", "latest", "found", "todo", "outcome"}
BY ShapeIs, PassFields

LEMMA Finalized ==
  ASSUME Inv, NEW k \in Key, ~Idle(k)
  PROVE  /\ IsManaged(k) => cr[k].finalizer
         /\ pass[k].why = "created" => cr[k].finalizer
         /\ pass[k].pc \in Held => cr[k].finalizer
BY DEF Inv, Base, PassInv, SoundPass, SoundCR, IsManaged, Idle, At

LEMMA MovingWorks ==
  ASSUME Inv, NEW k \in Key, ~Idle(k), NEW p, pass' = [pass EXCEPT ![k] = p],
         UNCHANGED <<cr, queued>>, p.pc # "idle",
         pass[k].why = "delete" => p.why = "delete" /\ p.pc \notin Work,
         pass[k].why # "delete" => p.why # "delete",
         p.pc = "finish" => Ended(p, cr[k])
  PROVE  Works(k, Work)
BY ShapeIs, MoveWorks DEF Idle, At

LEMMA RefusedWorks ==
  ASSUME Inv, NEW k \in Key, ~Idle(k), EndPass(k, "Recoverable"),
         UNCHANGED <<cr, queued>>
  PROVE  Works(k, Work)
BY ShapeIs, WorkIsApart, EndWorks

LEMMA WithWorks ==
  ASSUME Inv, NEW k \in Key, ~Idle(k), NEW l, NEW o, NEW s, With(k, l, o, s),
         UNCHANGED <<cr, queued>>, l # "idle",
         pass[k].why = "delete" => l \notin Work \cup {"finish"},
         l = "finish" => o = "Synced" /\ cr[k].finalizer
  PROVE  Works(k, Work)
<1> DEFINE q == [pass[k] EXCEPT !.pc = l, !.outcome = o, !.latest = s]
<1>1. pass' = [pass EXCEPT ![k] = q]
  BY FieldsOfPass DEF With
<1>2. q.pc = l /\ q.outcome = o /\ q.why = pass[k].why
  BY FieldsOfPass
<1> HIDE DEF q
<1>3. QED
  BY <1>1, <1>2, MovingWorks DEF Ended

LEMMA ReadWorks ==
  ASSUME Inv, NEW k \in Key, ReadOne(k) PROVE Works(k, Work)
<1>1. ~Idle(k) /\ UNCHANGED <<cr, queued>>
  BY DEF ReadOne, Idle, At
<1>2. CASE NotFound(k)
  BY <1>1, <1>2, ShapeIs, WorkIsApart, NotFoundWorks
<1>3. CASE Compare(k)
  <2> DEFINE o == Observed(Subject(k))
  <2>1. \/ pass[k].why = "created" /\ With(k, "finish", "Synced", o)
        \/ pass[k].why = "delete" /\ With(k, "list", "Unknown", o)
        \/ pass[k].why = "sync" /\ EndPass(k, "Terminal")
        \/ pass[k].why = "sync" /\ IsManaged(k) /\ With(k, "finish", "Synced", o)
        \/ pass[k].why = "sync" /\ With(k, "update", "Unknown", o)
    BY <1>3 DEF Compare
  <2> HIDE DEF o
  <2>2. IsManaged(k) \/ pass[k].why = "created" => cr[k].finalizer
    BY <1>1, Finalized
  <2>3. CASE pass[k].why = "sync" /\ EndPass(k, "Terminal")
    BY <1>1, <2>3, ShapeIs, WorkIsApart, EndWorks
  <2>4. CASE pass[k].why = "delete" /\ With(k, "list", "Unknown", o)
    BY <1>1, <2>4, WithWorks DEF Work, Held
  <2>5. CASE pass[k].why = "sync" /\ With(k, "update", "Unknown", o)
    BY <1>1, <2>5, WithWorks
  <2>6. CASE /\ pass[k].why # "delete" /\ cr[k].finalizer
             /\ With(k, "finish", "Synced", o)
    BY <1>1, <2>6, WithWorks
  <2>7. QED
    BY <2>1, <2>2, <2>3, <2>4, <2>5, <2>6
<1>4. QED
  BY <1>2, <1>3 DEF ReadOne

LEMMA PublishWorks ==
  ASSUME Inv, AllMindful(Work), NEW k \in Key, sdkCreate(k) \/ sdkUpdate(k)
  PROVE  Works(k, Work)
<1>1. /\ ~Idle(k) /\ UNCHANGED <<cr, queued>> /\ pass[k].why # "delete"
      /\ cr[k].finalizer
  BY Finalized
     DEF sdkCreate, sdkUpdate, AllMindful, Mindful, Work, Held, Idle, At
<1> DEFINE q(l, o, w, s) == [pass[k] EXCEPT !.pc = l, !.outcome = o, !.why = w,
                                            !.latest = s]
<1>2. PICK l, o, w :
        /\ PublishLayerVersion(k, l, o, w) /\ w # "delete"
        /\ l = "read" \/ (l = "finish" /\ o = "Synced")
  <2>1. \/ PublishLayerVersion(k, "read", "Unknown", "created")
        \/ PublishLayerVersion(k, "finish", "Synced", "updated")
    BY DEF sdkCreate, sdkUpdate
  <2>2. QED
    BY <2>1
<1>3. PICK s : EndPass(k, "Recoverable") \/ pass' = [pass EXCEPT ![k] = q(l, o, w, s)]
  <2> DEFINE s == Answer(k, Len(layers'[pass[k].desired.spec.layer]))
  <2>1. EndPass(k, "Recoverable") \/ pass' = [pass EXCEPT ![k] = q(l, o, w, s)]
    BY <1>2, FieldsOfPass DEF PublishLayerVersion
  <2> HIDE DEF s
  <2>2. QED
    BY <2>1
<1> DEFINE r == q(l, o, w, s)
<1>4. r.pc = l /\ r.outcome = o /\ r.why = w
  BY FieldsOfPass
<1>5. EndPass(k, "Recoverable") \/ pass' = [pass EXCEPT ![k] = r]
  BY <1>3
<1> HIDE DEF r
<1>6. QED
  BY <1>1, <1>2, <1>4, <1>5, RefusedWorks, MovingWorks DEF Ended

LEMMA DeleteWorks ==
  ASSUME Inv, NEW k \in Key, Delete(k) PROVE Works(k, Work)
<1>1. ~Idle(k) /\ UNCHANGED <<cr, queued>>
  BY DEF Delete, ListLayerVersions, customPreDelete, sdkDelete, Idle, At
<1> DEFINE q(l, t) == [pass[k] EXCEPT !.pc = l, !.todo = t]
<1>2. CASE ListLayerVersions(k)
  <2>1. PICK l, t : /\ pass' = [pass EXCEPT ![k] = q(l, t)]
                    /\ l \in {"deleteOld", "deleteOwn"}
    <3>1. PICK t : pass' = [pass EXCEPT
                     ![k].pc = IF t # {} THEN "deleteOld" ELSE "deleteOwn",
                     ![k].todo = t]
      BY <1>2 DEF ListLayerVersions
    <3>2. pass' = [pass EXCEPT ![k] = q(IF t # {} THEN "deleteOld" ELSE "deleteOwn", t)]
      BY <3>1, FieldsOfPass
    <3> HIDE DEF q
    <3>3. QED
      BY <3>2
  <2> DEFINE r == q(l, t)
  <2>2. r.pc = l /\ r.why = pass[k].why /\ pass' = [pass EXCEPT ![k] = r]
    BY <2>1, FieldsOfPass
  <2> HIDE DEF r
  <2>3. QED
    BY <1>1, <2>1, <2>2, MovingWorks DEF Work, Held
<1>3. CASE customPreDelete(k)
  <2>1. CASE EndPass(k, "Recoverable") \/ Goto(k, "deleteOwn")
    BY <1>1, <2>1, ShapeIs, RefusedWorks, GotoWorks DEF Work, Held
  <2>2. CASE ~(EndPass(k, "Recoverable") \/ Goto(k, "deleteOwn"))
    <3>1. PICK n : pass' = [pass EXCEPT ![k].todo = @ \ {n}]
      BY <1>3, <2>2 DEF customPreDelete
    <3> DEFINE r == [pass[k] EXCEPT !.todo = @ \ {n}]
    <3>2. /\ r.pc = "deleteOld" /\ r.why = pass[k].why
          /\ pass' = [pass EXCEPT ![k] = r]
      BY <1>3, <3>1, FieldsOfPass DEF customPreDelete, At
    <3> HIDE DEF r
    <3>3. QED
      BY <1>1, <3>2, MovingWorks DEF Work, Held
  <2>3. QED
    BY <2>1, <2>2
<1>4. CASE sdkDelete(k)
  BY <1>1, <1>4, ShapeIs, RefusedWorks, GotoWorks DEF sdkDelete, Work, Held
<1>5. QED
  BY <1>2, <1>3, <1>4 DEF Delete

LEMMA NextMinds ==
  ASSUME Inv, AllMindful(Work), [Next]_vars PROVE AllMindful(Work)'
<1>1. Shaped(LayerSpec, Statuses) /\ SetApart(Work)
  BY ShapeIs, WorkIsApart
<1>2. ASSUME NEW k \in Key, Handlers(k) PROVE AllMindful(Work)'
  <2>1. CASE Other(k)
    BY <1>1, <2>1, StartMinds, ManageMinds, UnmanageMinds, FinishMinds DEF Other
  <2>2. QED
    BY <1>2, <2>1, ReadWorks, PublishWorks, DeleteWorks, WorkMinds
       DEF Handlers, Create, Update
<1>3. ASSUME NEW k \in Key, Timer(k) \/ Fail(k) \/ Users(k) PROVE AllMindful(Work)'
  BY <1>1, <1>3, FailMinds, ResyncMinds, UserApplyMinds, UserEditMinds,
     UserDeleteMinds DEF Timer, Fail, Users
<1>4. CASE UNCHANGED <<cr, pass, queued>>
  BY <1>4 DEF AllMindful
<1>5. QED
  BY <1>1, <1>2, <1>3, <1>4, CrashMinds DEF Next, Drift, vars, passVars

(* No LayerVersion CR is forgotten, for any number of CRs, edits and       *)
(* failures.                                                               *)
THEOREM NothingIsForgotten == Spec => []NeverForgotten
<1>1. Init => AllMindful(Work)
  BY WorkIsApart, InitMinds DEF Init
<1>2. Inv /\ AllMindful(Work) /\ [Next]_vars => AllMindful(Work)'
  BY NextMinds
<1>3. AllMindful(Work) => NeverForgotten
  BY MindfulSuffices
<1>4. QED
  BY <1>1, <1>2, <1>3, InvHolds, PTL DEF Spec
=============================================================================
