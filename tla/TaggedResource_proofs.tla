------------------------ MODULE TaggedResource_proofs ------------------------
(***************************************************************************)
(* Proofs about TaggedResource, for any number of CRs, whose passes may    *)
(* overlap, of tags and of events: the type invariant, that removed filters*)
(* stay removed, that what rests as Synced is applied, and how much failures*)
(* and restarts can lose.                                                  *)
(***************************************************************************)
EXTENDS TaggedResource, AckPass_proofs

(* Where a pass has seen the finalizer of its CR, or has added it.         *)
Held == {"create", "untag", "tag", "update", "writeback"}

Id(n) == [id |-> n]

(* What is compared after a read, but for the tags.                        *)
ReadFields(K) ==
  IF K = "EventSourceMapping" THEN {"source", "batch", "filters"}
  ELSE {"description", "publishers"}

(* The resources that the pass p over the CR c may act on.                 *)
Knows(p, c, n) ==
  \/ c.status = Id(n)
  \/ p.pc # "idle" /\ Id(n) \in {p.desired.status, p.latest.status}

(* The ones that are not lost.                                             *)
Keeps(p, c, n) == c.status = Id(n) \/ (p.pc # "idle" /\ p.latest.status = Id(n))

(* Two CRs never have the same id: it comes from the answer of Create.     *)
Own ==
  \A k \in Key, n \in Nat :
    Knows(pass[k], cr[k], n) =>
      /\ n \in DOMAIN resources
      /\ \A j \in Key : Knows(pass[j], cr[j], n) => j = k

(* What has that status is not there, in rs.                               *)
Gone(st, rs) == \A n \in DOMAIN rs : st = Id(n) => ~rs[n].exists
There(st, rs) == st.id \in DOMAIN rs /\ rs[st.id].exists
Has(p, rs) == rs[p.latest.status.id].has

Fresh(p) == p.why \in {"created", "updated"}

(* What a pass has an id for, and when there is nothing under that id.     *)
SteadyPass(p, c, rs) ==
  /\ ~Fresh(p) => p.latest.status = p.desired.status
  /\ p.pc = "writeback" => Fresh(p)
  /\ p.pc \in {"manage", "create", "untag", "tag", "update"} => p.why = "sync"
  /\ p.pc = "delete" => p.why = "delete"
  /\ p.pc \in {"read", "tags"} => p.why # "updated"
  /\ p.pc \in {"tags", "untag", "tag", "update", "delete"} \/ Fresh(p)
       => p.latest.status # NoStatus
  /\ p.pc \in {"manage", "create", "unmanage"} => Gone(p.latest.status, rs)
  /\ c.status # p.latest.status => Gone(c.status, rs)
  /\ p.latest.status # NoStatus => c.finalizer

Steady(p, c, rs) ==
  /\ c.exists /\ c.status # NoStatus => c.finalizer
  /\ p.pc # "idle" => SteadyPass(p, c, rs)

(* What a pass has read, and what it gives back of the filters.            *)
Seen(K, p, rs) ==
  /\ p.pc \in {"tags", "untag", "tag", "update"} =>
       \A f \in ReadFields(K) : p.latest.spec[f] = Has(p, rs)[f]
  /\ K = "EventSourceMapping" /\ p.pc = "writeback" =>
       p.latest.spec.filters \in {Nil, p.desired.spec.filters}

(* Without drift there are no system tags, and a resource has what the spec*)
(* says as far as the pass has come.                                       *)
Clean(s) == \A t \in SystemKey : s.tags[t] = Nil
SameTags(s, h) == \A t \in UserKey : h.tags[t] = s.tags[t]
Same(K, s, h) == (\A f \in ReadFields(K) : h[f] = s[f]) /\ SameTags(s, h)

RemovedBy(p) ==
  {t \in UserKey \cup SystemKey :
     p.latest.spec.tags[t] \notin {Nil, p.desired.spec.tags[t]}}

ExactPass(K, p, c, rs, q) ==
  /\ Clean(p.desired.spec) /\ Clean(p.latest.spec)
  /\ ~q => c.exists /\ c.spec = p.desired.spec
  /\ \/ p.pc \in {"untag", "tag", "update", "writeback"}
     \/ p.why = "created" /\ p.pc \in {"read", "tags"}
     => There(p.latest.status, rs)
  /\ p.pc = "untag" => Has(p, rs).tags = p.latest.spec.tags
  /\ p.pc = "tag" =>
       \A t \in UserKey :
         Has(p, rs).tags[t] = IF t \in RemovedBy(p) THEN Nil
                              ELSE p.latest.spec.tags[t]
  /\ p.pc = "update" => SameTags(p.desired.spec, Has(p, rs))
  /\ p.pc \in {"untag", "tag", "update"} =>
       \A f \in ReadFields(K) \ p.todo : p.desired.spec[f] = p.latest.spec[f]
  /\ p.pc = "writeback" => Same(K, p.latest.spec, Has(p, rs))
  /\ p.pc \in {"read", "tags"} /\ p.why = "created" /\ ~q =>
       Same(K, p.desired.spec, Has(p, rs))
  /\ p.pc = "finish" /\ p.outcome = "Synced" /\ ~q =>
       /\ There(p.latest.status, rs)
       /\ Same(K, p.desired.spec, Has(p, rs))

Exact(K, p, c, rs, q) ==
  /\ c.exists => Clean(c.spec)
  /\ p.pc # "idle" => ExactPass(K, p, c, rs, q)
  /\ p.pc = "idle" /\ ~q /\ c.exists /\ c.cond = "Synced" =>
       There(c.status, rs) /\ Same(K, c.spec, rs[c.status.id].has)

InvOf(K) ==
  /\ kind = K
  /\ PassInv(Locations, Held, SpecOf[K], Statuses)
  /\ resources \in Seq(Resource(K))
  /\ Own
  /\ \A k \in Key : /\ Steady(pass[k], cr[k], resources)
                    /\ Seen(K, pass[k], resources)
  /\ NoDriftYet =>
       /\ \A n \in DOMAIN resources : Clean(resources[n].has)
       /\ \A k \in Key : Exact(K, pass[k], cr[k], resources, k \in queued)

(* The kind never changes, so each behaviour keeps the invariant of one.   *)
Kinds == DOMAIN SpecOf
Inv == \E K \in Kinds : InvOf(K)

-----------------------------------------------------------------------------
(* Specs, statuses and resources.                                          *)

LEMMA TheKinds ==
  /\ Kinds = {"EventSourceMapping", "CodeSigningConfig"}
  /\ SpecOf["EventSourceMapping"] = EventSourceMappingSpec
  /\ SpecOf["CodeSigningConfig"] = CodeSigningConfigSpec
BY DEF Kinds, SpecOf

LEMMA IdsDiffer ==
  /\ \A n \in Nat : Id(n) # NoStatus /\ Id(n) # Nil /\ Id(n) \in Statuses
                    /\ Id(n) \in Statuses \ {NoStatus}
  /\ \A m, n \in Nat : Id(m) = Id(n) => m = n
  /\ \A st \in Statuses \ {NoStatus} : st.id \in Nat /\ st = Id(st.id)
  /\ NoStatus \in Statuses /\ Nil \notin Nat
<1>1. \A n \in Nat : Id(n) \in [id : Nat] /\ Id(n).id = n
  BY DEF Id
<1>2. NoStatus.id = Nil
  BY DEF NoStatus
<1>3. Nil \notin Nat /\ Nil \notin [id : Nat]
  BY TaggedNil
<1>4. \A st \in Statuses \ {NoStatus} : st.id \in Nat /\ st = Id(st.id)
  BY DEF Statuses, NoStatus, Id
<1>5. NoStatus \in Statuses /\ \A n \in Nat : Id(n) \in Statuses
  BY DEF Statuses, NoStatus, Id
<1>6. QED
  BY <1>1, <1>2, <1>3, <1>4, <1>5

LEMMA SpecFields ==
  ASSUME NEW K \in Kinds, NEW s \in SpecOf[K]
  PROVE  /\ s.tags \in Tags
         /\ K = "EventSourceMapping" =>
              /\ s = [source |-> s.source, batch |-> s.batch, filters |-> s.filters,
                      function |-> s.function, tags |-> s.tags]
              /\ s.source \in Value /\ s.batch \in Value \cup {Nil}
              /\ s.filters \in Value \cup {Nil} /\ s.function \in Value
         /\ K # "EventSourceMapping" =>
              /\ s = [description |-> s.description, publishers |-> s.publishers,
                      tags |-> s.tags]
              /\ s.description \in Value \cup {Nil} /\ s.publishers \in Value
<1>1. CASE K = "EventSourceMapping"
  BY <1>1, TheKinds DEF EventSourceMappingSpec
<1>2. CASE K = "CodeSigningConfig"
  BY <1>2, TheKinds DEF CodeSigningConfigSpec
<1>3. QED
  BY <1>1, <1>2, TheKinds

LEMMA IsMapping ==
  ASSUME NEW source \in Value, NEW batch \in Value \cup {Nil},
         NEW filters \in Value \cup {Nil}, NEW function \in Value, NEW tags \in Tags
  PROVE  [source |-> source, batch |-> batch, filters |-> filters,
          function |-> function, tags |-> tags] \in SpecOf["EventSourceMapping"]
BY TheKinds DEF EventSourceMappingSpec

LEMMA IsSigning ==
  ASSUME NEW description \in Value \cup {Nil}, NEW publishers \in Value,
         NEW tags \in Tags
  PROVE  [description |-> description, publishers |-> publishers,
          tags |-> tags] \in SpecOf["CodeSigningConfig"]
BY TheKinds DEF CodeSigningConfigSpec

(* The tags change, and nothing else does.                                 *)
LEMMA Retagged ==
  ASSUME NEW K \in Kinds, NEW s \in SpecOf[K], NEW tags \in Tags
  PROVE  LET d == [s EXCEPT !.tags = tags] IN
         /\ d \in SpecOf[K] /\ d.tags = tags /\ DOMAIN d = DOMAIN s
         /\ \A f \in DOMAIN s \ {"tags"} : d[f] = s[f]
         /\ \A f \in ReadFields(K) : d[f] = s[f]
         /\ K = "EventSourceMapping" => d.filters = s.filters
<1>1. CASE K = "EventSourceMapping"
  <2> DEFINE d == [s EXCEPT !.tags = tags]
  <2>1. d = [source |-> s.source, batch |-> s.batch, filters |-> s.filters,
             function |-> s.function, tags |-> tags]
    BY <1>1, SpecFields
  <2>2. d \in SpecOf[K]
    BY SMTT(30), <1>1, <2>1, SpecFields, IsMapping
  <2>3. QED
    BY <1>1, <2>1, <2>2, SpecFields DEF ReadFields
<1>2. CASE K = "CodeSigningConfig"
  <2> DEFINE d == [s EXCEPT !.tags = tags]
  <2>1. d = [description |-> s.description, publishers |-> s.publishers,
             tags |-> tags]
    BY <1>2, SpecFields
  <2>2. d \in SpecOf[K]
    BY <1>2, <2>1, SpecFields, IsSigning
  <2>3. QED
    BY <1>2, <2>1, <2>2, SpecFields DEF ReadFields
<1>3. QED
  BY <1>1, <1>2, TheKinds

LEMMA SpecDomain ==
  ASSUME NEW K \in Kinds, NEW s \in SpecOf[K]
  PROVE  /\ DOMAIN s = IF K = "EventSourceMapping"
                         THEN {"source", "batch", "filters", "function", "tags"}
                         ELSE {"description", "publishers", "tags"}
         /\ ReadFields(K) \subseteq DOMAIN s
         /\ \A d \in SpecOf[K] :
              DOMAIN d = DOMAIN s /\ ((\A f \in DOMAIN s : d[f] = s[f]) => d = s)
<1>1. CASE K = "EventSourceMapping"
  BY <1>1, SpecFields DEF ReadFields
<1>2. CASE K = "CodeSigningConfig"
  BY <1>2, SpecFields DEF ReadFields
<1>3. QED
  BY <1>1, <1>2, TheKinds

LEMMA Lens ==
  ASSUME NEW K, NEW rs \in Seq(Resource(K))
  PROVE  /\ Len(rs) \in Nat /\ DOMAIN rs = 1..Len(rs) /\ DOMAIN rs \subseteq Nat
         /\ \A n \in DOMAIN rs :
              /\ rs[n] \in Resource(K)
              /\ rs[n] = [exists |-> rs[n].exists, by |-> rs[n].by,
                          busy |-> rs[n].busy, has |-> rs[n].has]
              /\ rs[n].exists \in BOOLEAN /\ rs[n].busy \in BOOLEAN
              /\ rs[n].has \in SpecOf[K]
<1>1. \A r \in Resource(K) :
        /\ r = [exists |-> r.exists, by |-> r.by, busy |-> r.busy, has |-> r.has]
        /\ r.exists \in BOOLEAN /\ r.busy \in BOOLEAN /\ r.has \in SpecOf[K]
  BY DEF Resource
<1>2. /\ Len(rs) \in Nat /\ DOMAIN rs = 1..Len(rs)
      /\ \A n \in DOMAIN rs : rs[n] \in Resource(K)
  OBVIOUS
<1>3. QED
  BY <1>1, <1>2

LEMMA CommonLocations == Common(Locations, Held)
BY DEF Common, Locations, Held

-----------------------------------------------------------------------------
(* A step of the pass of k, or of its user, and the frame: what the other  *)
(* keys know about does not change.                                        *)

(* What happens in AWS: k changes what it knows, or one is created.        *)
ResourceStep(K, k) ==
  /\ resources' \in Seq(Resource(K))
  /\ DOMAIN resources \subseteq DOMAIN resources'
  /\ \A n \in DOMAIN resources :
       \/ resources'[n] = resources[n]
       \/ /\ Knows(pass[k], cr[k], n)
          /\ resources'[n].exists => resources[n].exists
          /\ resources'[n].by = resources[n].by
  /\ DOMAIN resources' \subseteq DOMAIN resources \cup {Len(resources) + 1}
  /\ NoDriftYet => \A n \in DOMAIN resources' : Clean(resources'[n].has)

(* The pass of k becomes p, and its CR c.                                  *)
KeyStep(K, k, p, c) ==
  /\ pass' = [pass EXCEPT ![k] = p] /\ cr' = [cr EXCEPT ![k] = c]
  /\ queued' \ {k} = queued \ {k} /\ kind' = kind
  /\ spent'.drifts = spent.drifts
  /\ Steady(p, c, resources') /\ Seen(K, p, resources')
  /\ NoDriftYet => Exact(K, p, c, resources', k \in queued')
  /\ \A n \in Nat : Knows(p, c, n) =>
       \/ Knows(pass[k], cr[k], n)
       \/ n \in DOMAIN resources' \ DOMAIN resources

(* What k does not lose sight of, but for a creation whose answer is lost. *)
NotLost(k, p, c) ==
  /\ \A n \in DOMAIN resources :
       Keeps(pass[k], cr[k], n) /\ resources'[n].exists => Keeps(p, c, n)
  /\ \/ spent'.faults = spent.faults
        /\ \A n \in DOMAIN resources' \ DOMAIN resources : Keeps(p, c, n)
     \/ spent'.faults = spent.faults + 1

(* Removed filters stay removed.                                           *)
FiltersKept(K, k, c) ==
  K = "EventSourceMapping" /\ cr[k].exists /\ c.exists
    /\ cr[k].spec.filters = Nil /\ spent'.edits = spent.edits
  => c.spec.filters = Nil

(* What another key knows of stays as it is, so that its row holds.        *)
LEMMA RowStays ==
  ASSUME NEW K \in Kinds, NEW p, NEW c, NEW rs, NEW rt, NEW q,
         SoundPass(p, c, Locations, Held, SpecOf[K], Statuses),
         SoundCR(c, SpecOf[K], Statuses),
         \A n \in Nat : Knows(p, c, n) => n \in DOMAIN rs /\ rt[n] = rs[n],
         DOMAIN rs \subseteq DOMAIN rt, DOMAIN rt \subseteq Nat,
         Steady(p, c, rs), Seen(K, p, rs)
  PROVE  /\ Steady(p, c, rt) /\ Seen(K, p, rt)
         /\ Exact(K, p, c, rs, q) => Exact(K, p, c, rt, q)
<1>1. \A st : (\A n \in Nat : st = Id(n) => Knows(p, c, n)) =>
        /\ Gone(st, rs) => Gone(st, rt)
        /\ There(st, rs) /\ st \in Statuses => There(st, rt)
        /\ st \in Statuses \ {NoStatus} => rt[st.id] = rs[st.id]
  <2> SUFFICES ASSUME NEW st, \A n \in Nat : st = Id(n) => Knows(p, c, n)
               PROVE  /\ Gone(st, rs) => Gone(st, rt)
                      /\ There(st, rs) /\ st \in Statuses => There(st, rt)
                      /\ st \in Statuses \ {NoStatus} => rt[st.id] = rs[st.id]
    OBVIOUS
  <2>1. Gone(st, rs) => Gone(st, rt)
    BY DEF Gone
  <2>2. st \in Statuses \ {NoStatus} => rt[st.id] = rs[st.id]
    BY IdsDiffer
  <2>3. There(st, rs) /\ st \in Statuses => st # NoStatus
    <3>1. NoStatus.id = Nil /\ Nil \notin DOMAIN rs
      BY IdsDiffer DEF NoStatus
    <3>2. QED
      BY <3>1 DEF There
  <2>4. QED
    BY <2>1, <2>2, <2>3 DEF There
<1>2. /\ \A n \in Nat : c.status = Id(n) => Knows(p, c, n)
      /\ p.pc # "idle" =>
           /\ \A n \in Nat : p.latest.status = Id(n) => Knows(p, c, n)
           /\ p.latest.status \in Statuses
  BY DEF Knows, SoundPass
<1>3. c.exists => c.status \in Statuses
  BY ExistingCR DEF SoundCR
<1>4. Steady(p, c, rt)
  BY <1>1, <1>2 DEF Steady, SteadyPass
<1>5. p.pc # "idle" /\ p.latest.status # NoStatus => Has(p, rt) = Has(p, rs)
  BY <1>1, <1>2 DEF Has
<1>6. p.pc # "idle" /\ There(p.latest.status, rs) =>
        There(p.latest.status, rt) /\ p.latest.status # NoStatus
  <2>1. NoStatus.id = Nil /\ Nil \notin DOMAIN rs
    BY IdsDiffer DEF NoStatus
  <2>2. QED
    BY <1>1, <1>2, <2>1 DEF There
<1>7. c.exists /\ There(c.status, rs) =>
        There(c.status, rt) /\ rt[c.status.id] = rs[c.status.id]
  <2>1. NoStatus.id = Nil /\ Nil \notin DOMAIN rs
    BY IdsDiffer DEF NoStatus
  <2>2. QED
    BY <1>1, <1>2, <1>3, <2>1 DEF There
<1>8. Seen(K, p, rt)
  BY <1>5 DEF Seen, Steady, SteadyPass
<1>9. p.pc # "idle" /\ ExactPass(K, p, c, rs, q) => ExactPass(K, p, c, rt, q)
  <2> SUFFICES ASSUME p.pc # "idle", ExactPass(K, p, c, rs, q)
               PROVE  ExactPass(K, p, c, rt, q)
    OBVIOUS
  <2>1. SteadyPass(p, c, rs)
    BY DEF Steady
  <2>2. p.pc \in {"untag", "tag", "update", "writeback"} \/ p.why = "created" =>
          Has(p, rt) = Has(p, rs)
    BY <1>5, <2>1 DEF SteadyPass, Fresh
  <2>3. p.pc = "finish" /\ p.outcome = "Synced" /\ ~q =>
          There(p.latest.status, rt) /\ Same(K, p.desired.spec, Has(p, rt))
    BY <1>5, <1>6 DEF ExactPass
  <2>4. QED
    BY <1>6, <2>2, <2>3 DEF ExactPass
<1>10. QED
  BY <1>4, <1>7, <1>8, <1>9 DEF Exact

LEMMA StepKeepsInv ==
  ASSUME NEW K \in Kinds, InvOf(K), NEW k \in Key, NEW p, NEW c,
         ResourceStep(K, k), KeyStep(K, k, p, c),
         PassInv(Locations, Held, SpecOf[K], Statuses)'
  PROVE  InvOf(K)'
<1>0. /\ kind' = K /\ resources' \in Seq(Resource(K))
      /\ DOMAIN pass = Key /\ DOMAIN cr = Key
      /\ resources \in Seq(Resource(K))
      /\ NoDriftYet' <=> NoDriftYet
  BY DEF InvOf, PassInv, ResourceStep, KeyStep, NoDriftYet
<1>1. /\ pass'[k] = p /\ cr'[k] = c
      /\ \A j \in Key \ {k} : pass'[j] = pass[j] /\ cr'[j] = cr[j]
      /\ \A j \in Key \ {k} : j \in queued' <=> j \in queued
  BY <1>0 DEF KeyStep
<1>2. /\ DOMAIN resources \subseteq Nat /\ DOMAIN resources' \subseteq Nat
      /\ DOMAIN resources \subseteq DOMAIN resources'
  BY <1>0, Lens DEF ResourceStep
<1>3. ASSUME NEW j \in Key, NEW n \in Nat, Knows(pass'[j], cr'[j], n)
      PROVE  /\ n \in DOMAIN resources'
             /\ (j = k /\ n \notin DOMAIN resources) \/ Knows(pass[j], cr[j], n)
  <2>1. CASE j = k
    BY <1>1, <1>2, <1>3, <2>1 DEF InvOf, Own, KeyStep
  <2>2. CASE j # k
    BY <1>1, <1>2, <1>3, <2>2 DEF InvOf, Own
  <2>3. QED
    BY <2>1, <2>2
<1>4. Own'
  <2> SUFFICES ASSUME NEW i \in Key, NEW n \in Nat, Knows(pass'[i], cr'[i], n)
               PROVE  /\ n \in DOMAIN resources'
                      /\ \A j \in Key : Knows(pass'[j], cr'[j], n) => j = i
    BY DEF Own, Knows, Id
  <2>1. QED
    BY <1>3 DEF InvOf, Own
<1>5. ASSUME NEW j \in Key \ {k}
      PROVE  /\ Steady(pass'[j], cr'[j], resources')
             /\ Seen(K, pass'[j], resources')
             /\ NoDriftYet =>
                  Exact(K, pass'[j], cr'[j], resources', j \in queued')
  <2>1. \A n \in Nat : Knows(pass[j], cr[j], n) =>
          n \in DOMAIN resources /\ resources'[n] = resources[n]
    BY DEF InvOf, Own, ResourceStep
  <2>2. /\ SoundPass(pass[j], cr[j], Locations, Held, SpecOf[K], Statuses)
        /\ SoundCR(cr[j], SpecOf[K], Statuses)
        /\ Steady(pass[j], cr[j], resources) /\ Seen(K, pass[j], resources)
        /\ NoDriftYet => Exact(K, pass[j], cr[j], resources, j \in queued)
    BY DEF InvOf, PassInv
  <2>3. QED
    <3> DEFINE q == j \in queued
    <3>1. NoDriftYet => Exact(K, pass[j], cr[j], resources, q)
      BY <2>2
    <3>2. (j \in queued') = q
      BY <1>1
    <3> HIDE DEF q
    <3>3. /\ Steady(pass[j], cr[j], resources') /\ Seen(K, pass[j], resources')
          /\ NoDriftYet => Exact(K, pass[j], cr[j], resources', q)
      BY <1>2, <2>1, <2>2, <3>1, RowStays
    <3>4. QED
      BY <1>1, <3>2, <3>3
<1>6. /\ Steady(pass'[k], cr'[k], resources') /\ Seen(K, pass'[k], resources')
      /\ NoDriftYet => Exact(K, pass'[k], cr'[k], resources', k \in queued')
  BY <1>1 DEF KeyStep
<1>7. \A j \in Key : /\ Steady(pass[j], cr[j], resources)'
                     /\ Seen(K, pass[j], resources)'
  BY <1>5, <1>6 DEF Steady, SteadyPass, Seen, Gone, Has, Fresh
<1>8. NoDriftYet' =>
        /\ \A n \in DOMAIN resources' : Clean(resources'[n].has)
        /\ \A j \in Key : Exact(K, pass'[j], cr'[j], resources', j \in queued')
  BY <1>0, <1>5, <1>6 DEF ResourceStep
<1>9. QED
  BY <1>0, <1>4, <1>5, <1>6, <1>8 DEF InvOf

-----------------------------------------------------------------------------
(* Steps of one key, as the proofs of the handlers show them.              *)

StepOf(K, k) ==
  /\ PassInv(Locations, Held, SpecOf[K], Statuses)'
  /\ ResourceStep(K, k)
  /\ \E p, c : KeyStep(K, k, p, c) /\ NotLost(k, p, c) /\ FiltersKept(K, k, c)

(* The pass of k may become p, while its CR stays as it is.                *)
RowStep(K, k, p) ==
  /\ SoundPass(p, cr[k], Locations, Held, SpecOf[K], Statuses)
  /\ Steady(p, cr[k], resources') /\ Seen(K, p, resources')
  /\ NoDriftYet => Exact(K, p, cr[k], resources', k \in queued)
  /\ \A n \in Nat : Knows(p, cr[k], n) =>
       \/ Knows(pass[k], cr[k], n)
       \/ n \in DOMAIN resources' \ DOMAIN resources
  /\ \A n \in DOMAIN resources :
       Keeps(pass[k], cr[k], n) /\ resources'[n].exists => Keeps(p, cr[k], n)
  /\ \A n \in DOMAIN resources' \ DOMAIN resources : Keeps(p, cr[k], n)

LEMMA Row ==
  ASSUME NEW K \in Kinds, InvOf(K), NEW k \in Key
  PROVE  /\ kind = K /\ resources \in Seq(Resource(K))
         /\ DOMAIN resources \subseteq Nat
         /\ SoundPass(pass[k], cr[k], Locations, Held, SpecOf[K], Statuses)
         /\ SoundCR(cr[k], SpecOf[K], Statuses)
         /\ Steady(pass[k], cr[k], resources) /\ Seen(K, pass[k], resources)
         /\ NoDriftYet => Exact(K, pass[k], cr[k], resources, k \in queued)
         /\ NoDriftYet => \A n \in DOMAIN resources : Clean(resources[n].has)
         /\ spent \in Counts /\ queued \subseteq Key
         /\ DOMAIN pass = Key /\ DOMAIN cr = Key
BY Lens DEF InvOf, PassInv

LEMMA ResourcesStay ==
  ASSUME NEW K \in Kinds, InvOf(K), NEW k \in Key, resources' = resources
  PROVE  ResourceStep(K, k)
BY DEF ResourceStep, InvOf

LEMMA PassOnly ==
  ASSUME NEW K \in Kinds, InvOf(K), NEW k \in Key, NEW p,
         ResourceStep(K, k), RowStep(K, k, p), pass' = [pass EXCEPT ![k] = p],
         UNCHANGED <<cr, queued, kind>>, spent' = spent
  PROVE  StepOf(K, k)
<1>1. PassInv(Locations, Held, SpecOf[K], Statuses)'
  BY StepOfPass DEF InvOf, RowStep, PassInv
<1>2. cr' = [cr EXCEPT ![k] = cr[k]]
  BY DEF InvOf, PassInv
<1>3. KeyStep(K, k, p, cr[k]) /\ NotLost(k, p, cr[k]) /\ FiltersKept(K, k, cr[k])
  BY <1>2 DEF KeyStep, NotLost, FiltersKept, RowStep
<1>4. QED
  BY <1>1, <1>3 DEF StepOf

LEMMA GoneStays ==
  ASSUME NEW K \in Kinds, InvOf(K), NEW k \in Key, ResourceStep(K, k), NEW st,
         \A n \in Nat : st = Id(n) => Knows(pass[k], cr[k], n),
         Gone(st, resources)
  PROVE  Gone(st, resources')
<1>1. DOMAIN resources' \subseteq Nat
  BY Lens DEF ResourceStep
<1> SUFFICES ASSUME NEW n \in DOMAIN resources', st = Id(n)
             PROVE  ~resources'[n].exists
  BY DEF Gone
<1>2. n \in DOMAIN resources /\ ~resources[n].exists
  BY <1>1 DEF InvOf, Own, Gone
<1>3. QED
  BY <1>2 DEF ResourceStep

(* What is behind the statuses that the pass and the CR of k have.         *)
LEMMA Known ==
  ASSUME NEW K \in Kinds, InvOf(K), NEW k \in Key
  PROVE  /\ \A n \in Nat : cr[k].status = Id(n) => Knows(pass[k], cr[k], n)
         /\ ~Idle(k) =>
              /\ \A n \in Nat : pass[k].latest.status = Id(n) =>
                   Knows(pass[k], cr[k], n)
              /\ \A n \in Nat : pass[k].desired.status = Id(n) =>
                   Knows(pass[k], cr[k], n)
              /\ pass[k].latest.status \in Statuses
              /\ pass[k].latest.spec \in SpecOf[K]
              /\ pass[k].desired.status \in Statuses
              /\ pass[k].desired.spec \in SpecOf[K]
              /\ pass[k].latest = [spec |-> pass[k].latest.spec,
                                   status |-> pass[k].latest.status]
<1>1. SoundPass(pass[k], cr[k], Locations, Held, SpecOf[K], Statuses)
  BY Row
<1>2. ~Idle(k) => /\ pass[k].desired \in CRs(SpecOf[K], Statuses)
                  /\ pass[k].desired.exists
                  /\ pass[k].latest \in [spec : SpecOf[K] \cup {Nil},
                                         status : Statuses \cup {Nil}]
                  /\ pass[k].latest.status \in Statuses
                  /\ pass[k].latest.spec \in SpecOf[K]
  BY <1>1 DEF SoundPass, Idle, At
<1>3. ~Idle(k) => pass[k].desired.status \in Statuses /\ pass[k].desired.spec \in SpecOf[K]
  BY <1>2, ExistingCR
<1>4. QED
  BY <1>2, <1>3 DEF Knows, Idle, At

(* A pass that gives up knows no less than before.                         *)
LEMMA EndStep ==
  ASSUME NEW K \in Kinds, InvOf(K), NEW k \in Key, ~Idle(k),
         NEW o \in Conditions \ {"Synced"}, EndPass(k, o), ResourceStep(K, k),
         UNCHANGED <<cr, queued, kind>>,
         \/ spent' = spent /\ resources' = resources
         \/ Spend("faults")
  PROVE  StepOf(K, k)
<1> DEFINE p == [pass[k] EXCEPT !.pc = "finish", !.outcome = o]
<1>0. /\ SoundPass(pass[k], cr[k], Locations, Held, SpecOf[K], Statuses)
      /\ spent \in Counts
  BY Row
<1>1. /\ pass' = [pass EXCEPT ![k] = p] /\ p.pc = "finish" /\ p.outcome = o
      /\ p.why = pass[k].why /\ p.desired = pass[k].desired
      /\ p.latest = pass[k].latest
  BY <1>0 DEF EndPass, InvOf, PassInv, SoundPass, IdlePass
<1>2. /\ spent' \in Counts /\ spent'.drifts = spent.drifts
      /\ \/ spent'.faults = spent.faults /\ resources' = resources
         \/ spent'.faults = spent.faults + 1
  BY <1>0, SpendType DEF Spend, Counts
<1>3. PassInv(Locations, Held, SpecOf[K], Statuses)'
  BY <1>2, EndPassStep, CommonLocations DEF InvOf
<1> HIDE DEF p
<1>4. Steady(p, cr[k], resources')
  <2>1. /\ SteadyPass(pass[k], cr[k], resources)
        /\ cr[k].exists /\ cr[k].status # NoStatus => cr[k].finalizer
    BY Row DEF Steady, Idle, At
  <2>2. cr[k].status # p.latest.status => Gone(cr[k].status, resources')
    BY <1>1, <2>1, Known, GoneStays DEF SteadyPass
  <2>3. QED
    BY <1>1, <2>1, <2>2 DEF Steady, SteadyPass, Fresh
<1>5. Seen(K, p, resources')
  BY <1>1 DEF Seen
<1>6. NoDriftYet => Exact(K, p, cr[k], resources', k \in queued')
  <2> SUFFICES ASSUME NoDriftYet PROVE Exact(K, p, cr[k], resources', k \in queued')
    OBVIOUS
  <2>1. /\ ExactPass(K, pass[k], cr[k], resources, k \in queued)
        /\ cr[k].exists => Clean(cr[k].spec)
    BY Row DEF Exact, Idle, At
  <2>2. QED
    BY <1>1, <2>1 DEF Exact, ExactPass
<1>7. /\ \A n \in Nat : Knows(p, cr[k], n) => Knows(pass[k], cr[k], n)
      /\ \A n : Keeps(pass[k], cr[k], n) => Keeps(p, cr[k], n)
  BY <1>1 DEF Knows, Keeps, Idle, At
<1>8. cr' = [cr EXCEPT ![k] = cr[k]]
  BY DEF InvOf, PassInv
<1>9. KeyStep(K, k, p, cr[k]) /\ NotLost(k, p, cr[k]) /\ FiltersKept(K, k, cr[k])
  BY <1>1, <1>2, <1>4, <1>5, <1>6, <1>7, <1>8 DEF KeyStep, NotLost, FiltersKept
<1>10. QED
  BY <1>3, <1>9 DEF StepOf

LEMMA AnsweredStep ==
  ASSUME NEW K \in Kinds, InvOf(K), NEW k \in Key, ~Idle(k), NEW p,
         ResourceStep(K, k), RowStep(K, k, p), Answered(p, k),
         UNCHANGED <<cr, queued, kind>>
  PROVE  StepOf(K, k)
<1>1. CASE pass' = [pass EXCEPT ![k] = p] /\ spent' = spent
  BY <1>1, PassOnly
<1>2. CASE Spend("faults") /\ EndPass(k, "Recoverable")
  BY <1>2, EndStep DEF Conditions
<1>3. QED
  BY <1>1, <1>2 DEF Answered

LEMMA RefusedStep ==
  ASSUME NEW K \in Kinds, InvOf(K), NEW k \in Key, ~Idle(k), Refused(k),
         UNCHANGED <<cr, queued, kind>>
  PROVE  StepOf(K, k)
<1>1. EndPass(k, "Recoverable") /\ spent' = spent /\ resources' = resources
  BY DEF Refused
<1>2. QED
  BY <1>1, ResourcesStay, EndStep DEF Conditions

(* A pass that only moves, with what it has.                               *)
LEMMA SameIds ==
  ASSUME NEW p, NEW q, NEW c, p.pc # "idle", q.pc # "idle",
         q.desired.status = p.desired.status, q.latest.status = p.latest.status
  PROVE  \A n : /\ Knows(q, c, n) <=> Knows(p, c, n)
                /\ Keeps(q, c, n) <=> Keeps(p, c, n)
BY DEF Knows, Keeps

-----------------------------------------------------------------------------
(* ReadOne.                                                                *)

LEMMA ObservedIs ==
  ASSUME NEW K \in Kinds, kind = K, resources \in Seq(Resource(K)),
         NEW s \in SpecOf[K], NEW n \in DOMAIN resources
  PROVE  LET o == Observed([spec |-> s, status |-> Id(n)]) IN
         /\ o = [spec |-> o.spec, status |-> Id(n)]
         /\ o.spec \in SpecOf[K] /\ o.spec.tags = s.tags
         /\ \A f \in ReadFields(K) : o.spec[f] = resources[n].has[f]
<1> DEFINE r == [spec |-> s, status |-> Id(n)]
           has == resources[n].has
<1>1. has \in SpecOf[K] /\ r.status.id = n /\ r.spec = s
  BY Lens DEF Id
<1>2. CASE K = "EventSourceMapping"
  <2> DEFINE u == [source |-> has.source, batch |-> has.batch,
                   filters |-> has.filters, function |-> s.function,
                   tags |-> s.tags]
  <2>1. [s EXCEPT !.source = has.source, !.batch = has.batch,
                  !.filters = has.filters] = u
    <3>1. s = [source |-> s.source, batch |-> s.batch, filters |-> s.filters,
               function |-> s.function, tags |-> s.tags]
      BY <1>2, SpecFields
    <3>2. ASSUME NEW a, NEW b, NEW c,
                 NEW o, o = [s EXCEPT !.source = a, !.batch = b, !.filters = c]
          PROVE  o = [source |-> a, batch |-> b, filters |-> c,
                      function |-> s.function, tags |-> s.tags]
      BY <3>1, <3>2
    <3>3. QED
      BY <3>2
  <2>2. Observed(r) = [r EXCEPT !.spec.source = has.source,
                                !.spec.batch = has.batch,
                                !.spec.filters = has.filters]
    BY <1>1, <1>2 DEF Observed, MappingObserved
  <2>3. Observed(r) = [spec |-> u, status |-> Id(n)]
    BY <2>1, <2>2
  <2>4. u \in SpecOf[K]
    BY <1>1, <1>2, SpecFields, IsMapping
  <2>5. u.tags = s.tags /\ \A f \in ReadFields(K) : u[f] = has[f]
    BY <1>2 DEF ReadFields
  <2> HIDE DEF u
  <2>6. QED
    BY <2>3, <2>4, <2>5
<1>3. CASE K # "EventSourceMapping"
  <2> DEFINE u == [description |-> has.description,
                   publishers |-> has.publishers, tags |-> s.tags]
  <2>0. K = "CodeSigningConfig"
    BY <1>3, TheKinds
  <2>1. [s EXCEPT !.description = has.description,
                  !.publishers = has.publishers] = u
    <3>1. s = [description |-> s.description, publishers |-> s.publishers,
               tags |-> s.tags]
      BY <1>3, SpecFields
    <3>2. ASSUME NEW a, NEW b,
                 NEW o, o = [s EXCEPT !.description = a, !.publishers = b]
          PROVE  o = [description |-> a, publishers |-> b, tags |-> s.tags]
      BY <3>1, <3>2
    <3>3. QED
      BY <3>2
  <2>2. Observed(r) = [r EXCEPT !.spec.description = has.description,
                                !.spec.publishers = has.publishers]
    BY <1>1, <1>3 DEF Observed, SigningObserved
  <2>3. Observed(r) = [spec |-> u, status |-> Id(n)]
    BY <2>1, <2>2
  <2>4. u \in SpecOf[K]
    BY <1>1, <2>0, SpecFields, IsSigning
  <2>5. u.tags = s.tags /\ \A f \in ReadFields(K) : u[f] = has[f]
    BY <1>3 DEF ReadFields
  <2> HIDE DEF u
  <2>6. QED
    BY <2>3, <2>4, <2>5
<1>4. QED
  BY <1>2, <1>3

LEMMA NotFoundRow ==
  ASSUME NEW K \in Kinds, InvOf(K), NEW k \in Key, pass[k].pc = "read",
         NotFound(k), Gone(pass[k].latest.status, resources),
         UNCHANGED <<cr, queued, spent, kind, resources>>
  PROVE  StepOf(K, k)
<1>0. ~Idle(k) /\ ResourceStep(K, k)
  BY ResourcesStay DEF Idle, At
<1>1. CASE pass[k].why \notin {"sync", "delete"}
  <2>1. EndPass(k, "Recoverable")
    BY <1>1 DEF NotFound
  <2>2. QED
    BY <1>0, <2>1, EndStep DEF Conditions
<1>2. CASE pass[k].why \in {"sync", "delete"}
  <2>1. PICK l : /\ l = IF pass[k].why = "delete" THEN "unmanage"
                        ELSE IF IsManaged(k) THEN "create" ELSE "manage"
                 /\ Goto(k, l)
    BY <1>2 DEF NotFound
  <2> DEFINE p == [pass[k] EXCEPT !.pc = l]
  <2>2. SoundPass(pass[k], cr[k], Locations, Held, SpecOf[K], Statuses)
    BY Row
  <2>3. /\ pass' = [pass EXCEPT ![k] = p] /\ p.pc = l
        /\ p.why = pass[k].why /\ p.desired = pass[k].desired
        /\ p.latest = pass[k].latest
    BY <2>1, <2>2 DEF Goto, InvOf, PassInv, SoundPass, IdlePass
  <2>4. SoundPass(p, cr[k], Locations, Held, SpecOf[K], Statuses)
    <3>1. l \in Locations /\ (l \in Held => cr[k].finalizer)
          /\ (l = "unmanage" => pass[k].why = "delete")
      BY <1>0, <2>1, <2>2 DEF SoundPass, IsManaged, Locations, Held, Idle, At
    <3>2. QED
      BY <1>0, <2>2, <3>1, MovedIsSound DEF Idle, At
  <2> HIDE DEF p
  <2>5. Steady(p, cr[k], resources')
    <3>1. Steady(pass[k], cr[k], resources)
      BY Row
    <3>2. QED
      BY <1>0, <1>2, <2>1, <2>3, <3>1 DEF Steady, SteadyPass, Fresh, Idle, At
  <2>6. Seen(K, p, resources')
    BY <2>1, <2>3 DEF Seen
  <2>7. NoDriftYet => Exact(K, p, cr[k], resources', k \in queued)
    <3> SUFFICES ASSUME NoDriftYet
                 PROVE  Exact(K, p, cr[k], resources', k \in queued)
      OBVIOUS
    <3>1. Exact(K, pass[k], cr[k], resources, k \in queued)
      BY Row
    <3>2. QED
      BY <1>0, <1>2, <2>1, <2>3, <3>1 DEF Exact, ExactPass, Idle, At
  <2>8. \A n : /\ Knows(p, cr[k], n) <=> Knows(pass[k], cr[k], n)
               /\ Keeps(p, cr[k], n) <=> Keeps(pass[k], cr[k], n)
    BY <1>0, <2>1, <2>3, SameIds DEF Idle, At
  <2>9. RowStep(K, k, p)
    BY <2>4, <2>5, <2>6, <2>7, <2>8 DEF RowStep
  <2>10. QED
    BY <1>0, <2>3, <2>9, PassOnly
<1>3. QED
  BY <1>1, <1>2

LEMMA sdkFindStep ==
  ASSUME NEW K \in Kinds, InvOf(K), NEW k \in Key, sdkFind(k)
  PROVE  StepOf(K, k)
<1> DEFINE s == Subject(k).spec
           st == pass[k].latest.status
<1>0. /\ pass[k].pc = "read" /\ ~Idle(k) /\ kind = K
      /\ UNCHANGED <<cr, queued, spent, kind, resources>>
      /\ ResourceStep(K, k)
  BY Row, ResourcesStay DEF sdkFind, At, Idle
<1>1. SoundPass(pass[k], cr[k], Locations, Held, SpecOf[K], Statuses)
  BY Row
<1>2. SteadyPass(pass[k], cr[k], resources)
  BY <1>0, Row DEF Steady
<1>3. /\ Subject(k) = [spec |-> s, status |-> st]
      /\ s \in SpecOf[K] /\ st \in Statuses
      /\ s = IF pass[k].why = "created" THEN pass[k].latest.spec
             ELSE pass[k].desired.spec
  BY <1>0, <1>2, Known DEF Subject, SteadyPass, Fresh
<1> HIDE DEF s, st
<1>4. CASE ~Found(Subject(k))
  <2>1. Gone(st, resources)
    <3> SUFFICES ASSUME NEW n \in DOMAIN resources, st = Id(n)
                 PROVE  ~resources[n].exists
      BY DEF Gone
    <3>1. st.id = n /\ n \in Nat
      BY Row DEF Id
    <3>2. QED
      BY <1>3, <1>4, <3>1, IdsDiffer DEF Found, requiredFieldsMissing, Exists
  <2>2. QED
    BY <1>0, <1>4, <2>1, NotFoundRow DEF sdkFind, st
<1>5. CASE Found(Subject(k))
  <2>1. PICK n \in DOMAIN resources : st = Id(n) /\ resources[n].exists
    <3>1. st.id # Nil /\ Exists(st.id)
      BY <1>3, <1>5 DEF Found, requiredFieldsMissing
    <3>2. st # NoStatus
      BY <3>1 DEF NoStatus
    <3>3. st = Id(st.id)
      BY <1>3, <3>2, IdsDiffer
    <3>4. QED
      BY <3>1, <3>3 DEF Exists
  <2> DEFINE w == Observed(Subject(k))
             p == [pass[k] EXCEPT !.pc = "tags", !.latest = w]
  <2>2. /\ w = [spec |-> w.spec, status |-> st]
        /\ w.spec \in SpecOf[K] /\ w.spec.tags = s.tags
        /\ \A f \in ReadFields(K) : w.spec[f] = resources[n].has[f]
    <3>1. Subject(k) = [spec |-> s, status |-> Id(n)]
      BY <1>3, <2>1
    <3> HIDE DEF w
    <3>2. w = Observed([spec |-> s, status |-> Id(n)])
      BY <3>1 DEF w
    <3>3. resources \in Seq(Resource(K))
      BY Row
    <3>4. QED
      BY <1>0, <1>3, <2>1, <3>2, <3>3, ObservedIs
  <2> HIDE DEF w
  <2>3. w.status = st
    BY <2>2
  <2>4. /\ pass' = [pass EXCEPT ![k] = p] /\ p.pc = "tags"
        /\ p.why = pass[k].why /\ p.desired = pass[k].desired
        /\ p.outcome = pass[k].outcome /\ p.latest = w
        /\ DOMAIN p = DOMAIN pass[k]
    BY <1>1, <1>5 DEF sdkFind, Continue, InvOf, PassInv, SoundPass, IdlePass, w
  <2>5. SoundPass(p, cr[k], Locations, Held, SpecOf[K], Statuses)
    <3>1. w \in [spec : SpecOf[K] \cup {Nil}, status : Statuses \cup {Nil}]
      BY <1>3, <2>2
    <3>2. "tags" \in Locations /\ "tags" \notin Held
      BY DEF Locations, Held
    <3> HIDE DEF p
    <3>3. QED
      BY <1>0, <1>1, <1>3, <2>2, <2>3, <2>4, <3>1, <3>2 DEF SoundPass
  <2> HIDE DEF p
  <2>6. Steady(p, cr[k], resources')
    <3>1. Steady(pass[k], cr[k], resources) /\ st # NoStatus
      BY <2>1, Row, IdsDiffer
    <3>2. QED
      BY <1>0, <1>2, <2>3, <2>4, <3>1 DEF Steady, SteadyPass, Fresh, st
  <2>7. Has(p, resources') = resources[n].has
    BY <1>0, <2>1, <2>3, <2>4 DEF Has, Id
  <2>8. Seen(K, p, resources')
    BY <2>2, <2>4, <2>7 DEF Seen
  <2>9. NoDriftYet => Exact(K, p, cr[k], resources', k \in queued)
    <3> SUFFICES ASSUME NoDriftYet
                 PROVE  Exact(K, p, cr[k], resources', k \in queued)
      OBVIOUS
    <3>1. /\ ExactPass(K, pass[k], cr[k], resources, k \in queued)
          /\ cr[k].exists => Clean(cr[k].spec)
      BY <1>0, Row DEF Exact
    <3>2. Clean(w.spec)
      BY <1>3, <2>2, <3>1 DEF Clean, ExactPass
    <3>3. There(p.latest.status, resources') /\ p.latest.status = st
      BY <1>0, <2>1, <2>3, <2>4 DEF There, Id
    <3>4. Has(p, resources') = Has(pass[k], resources)
      BY <1>0, <2>3, <2>4 DEF Has, st
    <3>5. ExactPass(K, p, cr[k], resources', k \in queued)
      BY <1>0, <2>4, <3>1, <3>2, <3>3, <3>4 DEF ExactPass
    <3>6. QED
      BY <2>4, <3>1, <3>5 DEF Exact
  <2>10. \A m : /\ Knows(p, cr[k], m) <=> Knows(pass[k], cr[k], m)
                /\ Keeps(p, cr[k], m) <=> Keeps(pass[k], cr[k], m)
    BY <1>0, <2>3, <2>4, SameIds DEF st
  <2>11. RowStep(K, k, p)
    BY <1>0, <2>5, <2>6, <2>8, <2>9, <2>10 DEF RowStep
  <2>12. QED
    BY <1>0, <2>4, <2>11, PassOnly
<1>6. QED
  BY <1>4, <1>5

LEMMA DeltaIs ==
  ASSUME NEW K \in Kinds, kind = K, NEW d, NEW s
  PROVE  \A f \in ReadFields(K) \cup {"tags"} :
           f \in newResourceDelta(d, s) <=> d[f] # s[f]
BY DEF newResourceDelta, MappingDelta, SigningDelta, customPreCompare, ReadFields

(* The system tags are taken over; without any, nothing changes.           *)
LEMMA SyncAWSTagsType ==
  ASSUME NEW a \in Tags, NEW b \in Tags
  PROVE  /\ syncAWSTags(a, b) \in Tags
         /\ (\A t \in SystemKey : b[t] = Nil) => syncAWSTags(a, b) = a
BY DEF syncAWSTags, Tags

(* The copies of the pass after getTags and mirrorAWSTags.                 *)
LatestAfter(p, h) == [p.latest EXCEPT !.spec.tags = h.tags]
DesiredAfter(p, h) == [p.desired EXCEPT !.spec.tags = syncAWSTags(@, h.tags)]

LEMMA CopiesAfterTags ==
  ASSUME NEW K \in Kinds, NEW p, NEW c, NEW h \in SpecOf[K],
         SoundPass(p, c, Locations, Held, SpecOf[K], Statuses), p.pc # "idle"
  PROVE  LET l == LatestAfter(p, h)
             d == DesiredAfter(p, h)
         IN
         /\ l \in [spec : SpecOf[K], status : Statuses]
         /\ l.status = p.latest.status /\ l.spec.tags = h.tags
         /\ \A f \in ReadFields(K) : l.spec[f] = p.latest.spec[f]
         /\ d \in CRs(SpecOf[K], Statuses) /\ d.exists /\ d.status = p.desired.status
         /\ d.finalizer = p.desired.finalizer
         /\ Clean(h) => d.spec = p.desired.spec
<1> DEFINE l == LatestAfter(p, h)
           d == DesiredAfter(p, h)
           s == p.latest.spec
           g == p.desired.spec
           ls == [s EXCEPT !.tags = h.tags]
           gt == syncAWSTags(g.tags, h.tags)
           gs == [g EXCEPT !.tags = gt]
<1>1. /\ p.latest \in [spec : SpecOf[K] \cup {Nil}, status : Statuses \cup {Nil}]
      /\ s \in SpecOf[K] /\ p.latest.status \in Statuses
      /\ p.desired \in CRs(SpecOf[K], Statuses) /\ p.desired.exists
  BY DEF SoundPass
<1>2. /\ p.desired \in [exists : {TRUE}, spec : SpecOf[K], status : Statuses,
           deleting : BOOLEAN, finalizer : BOOLEAN, cond : Conditions]
      /\ g \in SpecOf[K]
  BY <1>1, ExistingCR
<1>3. h.tags \in Tags /\ g.tags \in Tags
  BY <1>2, SpecFields
<1>4. gt \in Tags /\ (Clean(h) => gt = g.tags)
  BY <1>3, SyncAWSTagsType DEF Clean
<1>5. l = [p.latest EXCEPT !.spec = ls] /\ d = [p.desired EXCEPT !.spec = gs]
  BY <1>1, <1>2 DEF LatestAfter, DesiredAfter
<1> HIDE DEF gt, l, d
<1>6. /\ ls \in SpecOf[K] /\ ls.tags = h.tags
      /\ \A f \in ReadFields(K) : ls[f] = s[f]
  BY <1>1, <1>3, Retagged
<1>7. gs \in SpecOf[K] /\ (gt = g.tags => gs = g)
  <2>1. gs \in SpecOf[K] /\ gs.tags = gt /\ \A f \in DOMAIN g \ {"tags"} : gs[f] = g[f]
    BY <1>2, <1>4, Retagged
  <2> HIDE DEF gs
  <2>2. QED
    BY <1>2, <2>1, SpecDomain
<1> HIDE DEF ls, gs, s, g
<1>8. /\ l \in [spec : SpecOf[K], status : Statuses]
      /\ l.status = p.latest.status /\ l.spec = ls
  BY <1>1, <1>5, <1>6
<1>9. /\ d \in CRs(SpecOf[K], Statuses) /\ d.exists /\ d.status = p.desired.status
      /\ d.finalizer = p.desired.finalizer /\ d.spec = gs
  BY <1>2, <1>5, <1>7 DEF CRs
<1>10. QED
  BY <1>4, <1>6, <1>7, <1>8, <1>9 DEF l, d, s, g, gt

LEMMA ReadTagsStep ==
  ASSUME NEW K \in Kinds, InvOf(K), NEW k \in Key, ReadTags(k)
  PROVE  StepOf(K, k)
<1> DEFINE p == pass[k]
           n == p.latest.status.id
           h == resources[n].has
           l == LatestAfter(p, h)
           d == DesiredAfter(p, h)
           delta == newResourceDelta(d.spec, l.spec)
<1>0. /\ p.pc = "tags" /\ ~Idle(k) /\ kind = K
      /\ UNCHANGED <<cr, queued, spent, kind, resources>>
      /\ ResourceStep(K, k)
  BY Row, ResourcesStay DEF ReadTags, At, Idle
<1>1. SoundPass(p, cr[k], Locations, Held, SpecOf[K], Statuses)
  BY Row
<1>2. SteadyPass(p, cr[k], resources) /\ Seen(K, p, resources)
  BY <1>0, Row DEF Steady
<1>3. p.latest.status = Id(n) /\ n \in DOMAIN resources /\ n \in Nat /\ h \in SpecOf[K]
  <2>1. p.latest.status = Id(n) /\ n \in Nat
    BY <1>0, <1>2, Known, IdsDiffer DEF SteadyPass
  <2>2. Knows(p, cr[k], n)
    BY <1>0, <2>1 DEF Knows
  <2>3. n \in DOMAIN resources
    BY <2>1, <2>2 DEF InvOf, Own
  <2>4. QED
    BY <2>1, <2>3, Row, Lens
<1>4. CASE ~Exists(n)
  <2>1. EndPass(k, "Recoverable")
    BY <1>4 DEF ReadTags
  <2>2. QED
    BY <1>0, <2>1, EndStep DEF Conditions
<1>5. CASE Exists(n)
  <2>1. PICK loc, o :
          /\ pass' = [pass EXCEPT ![k].pc = loc, ![k].outcome = o,
                        ![k].todo = delta, ![k].desired = d, ![k].latest = l]
          /\ \/ p.why = "created" /\ loc = "finish" /\ o = "Synced"
             \/ p.why = "delete" /\ loc = "delete" /\ o = "Unknown"
             \/ p.why = "sync" /\ loc = "finish" /\ o = "Terminal"
             \/ p.why = "sync" /\ delta = {} /\ loc = "finish" /\ o = "Synced"
             \/ /\ p.why = "sync" /\ p.desired.finalizer /\ o = "Unknown"
                /\ loc = IF "tags" \in delta THEN "untag" ELSE "update"
    <3>1. delta = newResourceDelta(d.spec, l.spec)
      OBVIOUS
    <3> HIDE DEF delta
    <3>2. /\ l = [p.latest EXCEPT !.spec.tags = GetTags(n)]
          /\ d = [p.desired EXCEPT !.spec.tags = syncAWSTags(@, GetTags(n))]
      BY DEF GetTags, LatestAfter, DesiredAfter
    <3> HIDE DEF d, l
    <3>3. QED
      BY <1>5, <3>1, <3>2 DEF ReadTags, IsManaged
  <2> HIDE DEF n, h
  <2>2. /\ l \in [spec : SpecOf[K], status : Statuses]
        /\ l.status = p.latest.status /\ l.spec.tags = h.tags
        /\ \A f \in ReadFields(K) : l.spec[f] = p.latest.spec[f]
        /\ d \in CRs(SpecOf[K], Statuses) /\ d.exists /\ d.status = p.desired.status
        /\ d.finalizer = p.desired.finalizer
        /\ Clean(h) => d.spec = p.desired.spec
    <3> HIDE DEF p
    <3>1. p.pc # "idle"
      BY <1>0
    <3>2. QED
      BY <1>1, <1>3, <3>1, CopiesAfterTags
  <2>3. /\ \A f \in ReadFields(K) \cup {"tags"} : f \in delta <=> d.spec[f] # l.spec[f]
        /\ "tags" \in delta <=> d.spec.tags # l.spec.tags
    BY <1>0, DeltaIs
  <2> DEFINE q == [p EXCEPT !.pc = loc, !.outcome = o, !.todo = delta,
                            !.desired = d, !.latest = l]
  <2> HIDE DEF l, d, delta
  <2>4. /\ q.pc = loc /\ q.outcome = o /\ q.todo = delta /\ q.why = p.why
        /\ q.desired = d /\ q.latest = l /\ DOMAIN q = DOMAIN p
        /\ pass' = [pass EXCEPT ![k] = q]
    BY <1>1, <2>1 DEF SoundPass, IdlePass, InvOf, PassInv
  <2> HIDE DEF q
  <2>5. SoundPass(q, cr[k], Locations, Held, SpecOf[K], Statuses)
    <3>1. loc \notin {"idle", "unmanage"} /\ (loc \in Held => p.desired.finalizer)
      BY <2>1 DEF Held
    <3>2. loc \in Locations /\ o \in Conditions
      BY <2>1 DEF Locations, Conditions
    <3> HIDE DEF p
    <3>3. QED
      BY <1>0, <1>1, <2>2, <2>4, <3>1, <3>2 DEF SoundPass
  <2>6. Has(q, resources') = h /\ Has(p, resources) = h
        /\ There(q.latest.status, resources') /\ q.latest.status = p.latest.status
    BY <1>0, <1>3, <1>5, <2>2, <2>4 DEF Has, There, Exists, h, n
  <2>7. Steady(q, cr[k], resources')
    <3>1. Steady(p, cr[k], resources) /\ Id(n) # NoStatus
      BY <1>3, Row, IdsDiffer
    <3>2. loc \in {"finish", "delete", "untag", "update"}
      BY <2>1
    <3> HIDE DEF p
    <3>3. QED
      BY <1>0, <1>2, <1>3, <2>1, <2>2, <2>4, <3>1, <3>2 DEF Steady, SteadyPass, Fresh
  <2>8. Seen(K, q, resources')
    BY <1>0, <1>2, <2>1, <2>2, <2>4, <2>6 DEF Seen
  <2>9. NoDriftYet => Exact(K, q, cr[k], resources', k \in queued)
    <3> SUFFICES ASSUME NoDriftYet
                 PROVE  Exact(K, q, cr[k], resources', k \in queued)
      OBVIOUS
    <3>1. /\ ExactPass(K, p, cr[k], resources, k \in queued)
          /\ cr[k].exists => Clean(cr[k].spec)
          /\ Clean(h)
      BY <1>0, <1>3, Row DEF Exact, h
    <3>2. d.spec = p.desired.spec /\ Clean(q.desired.spec) /\ Clean(q.latest.spec)
      BY <2>2, <2>4, <3>1 DEF ExactPass, Clean
    <3>3. \A f \in ReadFields(K) : l.spec[f] = h[f]
      BY <1>0, <1>2, <2>2, <2>6 DEF Seen
    <3>4. delta = {} => Same(K, d.spec, h)
      BY <2>2, <2>3, <3>3 DEF Same, SameTags
    <3>5. p.why = "created" /\ k \notin queued => Same(K, d.spec, h)
      BY <1>0, <2>6, <3>1, <3>2 DEF ExactPass
    <3>6. loc = "update" => SameTags(d.spec, h)
      BY <2>1, <2>2, <2>3 DEF SameTags
    <3>7. loc # "idle" /\ loc # "tag" /\ loc # "writeback" /\ loc \notin {"read", "tags"}
      BY <2>1
    <3>8. loc = "finish" /\ o = "Synced" /\ k \notin queued => Same(K, d.spec, h)
      BY <2>1, <3>4, <3>5
    <3>9. \A f \in ReadFields(K) \ q.todo : q.desired.spec[f] = q.latest.spec[f]
      BY <2>3, <2>4
    <3>10. k \notin queued => cr[k].exists /\ cr[k].spec = q.desired.spec
      BY <2>4, <3>1, <3>2 DEF ExactPass
    <3>11. ExactPass(K, q, cr[k], resources', k \in queued)
      BY <2>2, <2>4, <2>6, <3>2, <3>6, <3>7, <3>8, <3>9, <3>10 DEF ExactPass
    <3>12. QED
      BY <2>4, <3>1, <3>7, <3>11 DEF Exact
  <2>10. \A m : /\ Knows(q, cr[k], m) <=> Knows(p, cr[k], m)
                /\ Keeps(q, cr[k], m) <=> Keeps(p, cr[k], m)
    <3>1. q.pc # "idle"
      BY <2>1, <2>4
    <3>2. QED
      BY <1>0, <2>2, <2>4, <3>1, SameIds
  <2>11. RowStep(K, k, q)
    BY <1>0, <2>5, <2>7, <2>8, <2>9, <2>10 DEF RowStep
  <2>12. QED
    BY <1>0, <2>4, <2>11, PassOnly
<1>6. QED
  BY <1>4, <1>5

-----------------------------------------------------------------------------
(* Create.                                                                 *)

LEMMA RequestIs ==
  ASSUME NEW K \in Kinds, kind = K, NEW s \in SpecOf[K]
  PROVE  /\ Request(s) \in SpecOf[K] /\ Request(s).tags = s.tags
         /\ K = "EventSourceMapping" => Request(s).filters = s.filters
<1>1. CASE K = "EventSourceMapping"
  <2> DEFINE b == IF s.batch = Nil THEN Default ELSE s.batch
             u == [source |-> s.source, batch |-> b, filters |-> s.filters,
                   function |-> s.function, tags |-> s.tags]
  <2>1. b \in Value \cup {Nil}
    BY <1>1, SpecFields, TaggedDefault
  <2>2. [s EXCEPT !.batch = b] = u
    BY <1>1, SpecFields
  <2>3. Request(s) = u
    BY <1>1, <2>2 DEF Request, MappingRequest
  <2> HIDE DEF b
  <2>4. u \in SpecOf[K]
    BY <1>1, <2>1, SpecFields, IsMapping
  <2>5. QED
    BY <2>3, <2>4
<1>2. CASE K # "EventSourceMapping"
  BY <1>2 DEF Request, SigningRequest
<1>3. QED
  BY <1>1, <1>2

LEMMA sdkCreateStep ==
  ASSUME NEW K \in Kinds, InvOf(K), NEW k \in Key, sdkCreate(k)
  PROVE  StepOf(K, k)
<1> DEFINE p == pass[k]
           s == p.desired.spec
           n == Len(resources) + 1
           u == Request(s)
           x == [exists |-> TRUE, by |-> "us",
                 busy |-> kind = "EventSourceMapping", has |-> u]
           q == [p EXCEPT !.pc = "writeback", !.why = "created",
                          !.latest = [spec |-> u, status |-> Id(n)]]
<1>0. /\ p.pc = "create" /\ ~Idle(k) /\ kind = K
      /\ UNCHANGED <<cr, queued, kind>>
      /\ resources \in Seq(Resource(K))
  BY Row DEF sdkCreate, At, Idle
<1>1. CASE Conflict(s)
  BY <1>0, <1>1, RefusedStep DEF sdkCreate
<1>2. CASE ~Conflict(s)
  <2>1. /\ resources' = Append(resources, x)
        /\ Answered(q, k)
    BY <1>2 DEF sdkCreate, Created, Id
  <2>2. SoundPass(p, cr[k], Locations, Held, SpecOf[K], Statuses)
    BY Row
  <2>3. SteadyPass(p, cr[k], resources) /\ Steady(p, cr[k], resources)
    BY <1>0, Row DEF Steady
  <2>4. /\ s \in SpecOf[K] /\ u \in SpecOf[K] /\ u.tags = s.tags
        /\ K = "EventSourceMapping" => u.filters = s.filters
    BY <1>0, Known, RequestIs
  <2>5. /\ n \in Nat /\ n \notin DOMAIN resources
        /\ Id(n) \in Statuses \ {NoStatus}
    BY <1>0, IdsDiffer
  <2> HIDE DEF u
  <2>6. x \in Resource(K)
    BY <2>4 DEF Resource
  <2>7. x.has = u /\ x.exists
    OBVIOUS
  <2> HIDE DEF x
  <2>8. /\ resources' \in Seq(Resource(K))
        /\ DOMAIN resources' = DOMAIN resources \cup {n}
        /\ resources'[n] = x
        /\ \A m \in DOMAIN resources : resources'[m] = resources[m]
    BY <1>0, <2>1, <2>6
  <2>9. /\ q.pc = "writeback" /\ q.why = "created" /\ q.desired = p.desired
        /\ q.latest.spec = u /\ q.latest.status = Id(n) /\ q.outcome = p.outcome
        /\ q.latest = [spec |-> u, status |-> Id(n)] /\ DOMAIN q = DOMAIN p
    BY <2>2 DEF SoundPass, IdlePass
  <2> HIDE DEF n, q, s
  <2>10. /\ NoDriftYet => Clean(u) /\ Clean(s)
         /\ NoDriftYet => ExactPass(K, p, cr[k], resources, k \in queued)
         /\ NoDriftYet /\ cr[k].exists => Clean(cr[k].spec)
    <3> SUFFICES ASSUME NoDriftYet
                 PROVE  /\ Clean(u) /\ Clean(s)
                        /\ ExactPass(K, p, cr[k], resources, k \in queued)
                        /\ cr[k].exists => Clean(cr[k].spec)
      OBVIOUS
    <3>1. /\ ExactPass(K, p, cr[k], resources, k \in queued)
          /\ cr[k].exists => Clean(cr[k].spec)
      BY <1>0, Row DEF Exact
    <3>2. QED
      BY <2>4, <3>1 DEF ExactPass, Clean, s
  <2>11. ResourceStep(K, k)
    BY <2>7, <2>8, <2>10, Row DEF ResourceStep, n
  <2>12. SoundPass(q, cr[k], Locations, Held, SpecOf[K], Statuses)
    <3>1. p.pc # "idle" /\ cr[k].finalizer
      BY <1>0, <2>2 DEF SoundPass, Held
    <3>2. /\ q.latest \in [spec : SpecOf[K], status : Statuses]
          /\ q.pc \in Locations /\ q.pc # "unmanage"
      BY <2>4, <2>5, <2>9 DEF Locations
    <3> HIDE DEF p
    <3>3. QED
      BY <2>2, <2>9, <3>1, <3>2, AnsweredIsSound
  <2>13. Gone(p.latest.status, resources) /\ Gone(cr[k].status, resources)
    BY <1>0, <2>3 DEF SteadyPass
  <2>14. Steady(q, cr[k], resources')
    <3>1. Gone(cr[k].status, resources')
      BY <2>11, <2>13, Known, GoneStays
    <3>2. cr[k].finalizer
      BY <1>0, <2>2 DEF SoundPass, Held
    <3>3. QED
      BY <2>3, <2>5, <2>9, <3>1, <3>2 DEF Steady, SteadyPass, Fresh
  <2>15. Seen(K, q, resources')
    BY <2>4, <2>9 DEF Seen, s
  <2>16. Has(q, resources') = u /\ There(q.latest.status, resources')
    BY <2>7, <2>8, <2>9 DEF Has, There, Id
  <2>17. NoDriftYet => Exact(K, q, cr[k], resources', k \in queued)
    BY <2>9, <2>10, <2>16 DEF Exact, ExactPass, Same, SameTags, s
  <2>18. /\ \A m \in Nat : Knows(q, cr[k], m) => Knows(p, cr[k], m) \/ m = n
         /\ Keeps(q, cr[k], n)
    BY <1>0, <2>5, <2>9, IdsDiffer DEF Knows, Keeps
  <2>19. \A m \in DOMAIN resources :
           Keeps(p, cr[k], m) => ~resources[m].exists
    BY <2>13 DEF Keeps, Gone
  <2>20. RowStep(K, k, q)
    BY <2>5, <2>8, <2>12, <2>14, <2>15, <2>17, <2>18, <2>19 DEF RowStep
  <2>21. QED
    BY <1>0, <2>1, <2>11, <2>20, AnsweredStep
<1>3. QED
  BY <1>1, <1>2

-----------------------------------------------------------------------------
(* Update.                                                                 *)

LEMMA Changed ==
  ASSUME NEW K \in Kinds, InvOf(K), NEW k \in Key, NEW n \in DOMAIN resources,
         Knows(pass[k], cr[k], n), NEW has \in SpecOf[K], NEW busy \in BOOLEAN,
         NoDriftYet => Clean(has), Becomes(n, has, busy)
  PROVE  /\ ResourceStep(K, k) /\ DOMAIN resources' = DOMAIN resources
         /\ resources'[n].has = has /\ resources'[n].busy = busy
         /\ resources'[n].exists = resources[n].exists
<1> DEFINE r == [exists |-> resources[n].exists, by |-> resources[n].by,
                 busy |-> busy, has |-> has]
<1>0. resources \in Seq(Resource(K))
  BY Row
<1>1. resources' = [resources EXCEPT ![n] = r]
  <2> DEFINE x == resources[n]
  <2>1. x = [exists |-> x.exists, by |-> x.by, busy |-> x.busy, has |-> x.has]
    BY <1>0, Lens
  <2> HIDE DEF x
  <2>2. ASSUME NEW y, y = [x EXCEPT !.has = has, !.busy = busy]
        PROVE  y = [exists |-> x.exists, by |-> x.by, busy |-> busy, has |-> has]
    BY <2>1, <2>2
  <2>3. QED
    BY <2>2 DEF Becomes, x
<1>2. r \in Resource(K)
  BY <1>0, Lens DEF Resource
<1>3. /\ r.has = has /\ r.busy = busy /\ r.exists = resources[n].exists
      /\ r.by = resources[n].by
  OBVIOUS
<1> HIDE DEF r
<1>4. /\ resources' \in Seq(Resource(K)) /\ DOMAIN resources' = DOMAIN resources
      /\ resources'[n] = r
      /\ \A m \in DOMAIN resources : m # n => resources'[m] = resources[m]
  BY <1>0, <1>1, <1>2
<1>5. QED
  BY <1>3, <1>4, Row DEF ResourceStep

LEMMA AtUpdate ==
  ASSUME NEW K \in Kinds, InvOf(K), NEW k \in Key,
         pass[k].pc \in {"untag", "tag", "update"}
  PROVE  LET n == Number(k) IN
         /\ n \in DOMAIN resources /\ Knows(pass[k], cr[k], n)
         /\ pass[k].latest.status = Id(n) /\ pass[k].desired.status = Id(n)
         /\ resources[n].has \in SpecOf[K] /\ resources[n].busy \in BOOLEAN
         /\ Has(pass[k], resources) = resources[n].has
         /\ ~Idle(k) /\ pass[k].why = "sync" /\ cr[k].finalizer
<1>0. ~Idle(k) /\ pass[k].pc # "idle"
  BY DEF Idle, At
<1>1. /\ SteadyPass(pass[k], cr[k], resources)
      /\ SoundPass(pass[k], cr[k], Locations, Held, SpecOf[K], Statuses)
  BY <1>0, Row DEF Steady
<1>2. /\ pass[k].why = "sync" /\ cr[k].finalizer
      /\ pass[k].latest.status = pass[k].desired.status
      /\ pass[k].latest.status # NoStatus
  BY <1>0, <1>1 DEF SteadyPass, Fresh, SoundPass, Held
<1> DEFINE n == pass[k].latest.status.id
<1>3. pass[k].latest.status = Id(n) /\ n \in Nat
  BY <1>0, <1>2, Known, IdsDiffer
<1>4. n = Number(k)
  BY <1>2 DEF Number
<1> HIDE DEF n
<1>5. n \in DOMAIN resources /\ Knows(pass[k], cr[k], n)
  BY <1>0, <1>3, Known DEF InvOf, Own
<1>6. Has(pass[k], resources) = resources[n].has
  BY <1>3 DEF Has, Id
<1>7. QED
  BY <1>0, <1>2, <1>3, <1>4, <1>5, <1>6, Row, Lens

(* What a row has to show after a change of what the pass works on.        *)
LEMMA UpdateRow ==
  ASSUME NEW K \in Kinds, InvOf(K), NEW k \in Key,
         pass[k].pc \in {"untag", "tag", "update"}, ResourceStep(K, k),
         DOMAIN resources' = DOMAIN resources, NEW q,
         DOMAIN q = DOMAIN pass[k], q.pc \in {"tag", "update", "finish", "writeback"},
         q.pc = "writeback" => q.why = "updated",
         q.pc # "writeback" => q.why = "sync",
         q.desired = pass[k].desired, q.outcome \in Conditions,
         q.latest \in [spec : SpecOf[K], status : Statuses],
         q.latest.status = pass[k].latest.status,
         Seen(K, q, resources'),
         NoDriftYet => ExactPass(K, q, cr[k], resources', k \in queued)
  PROVE  RowStep(K, k, q)
<1>0. /\ pass[k].pc # "idle" /\ q.pc # "idle" /\ cr[k].finalizer
      /\ SteadyPass(pass[k], cr[k], resources) /\ Steady(pass[k], cr[k], resources)
      /\ SoundPass(pass[k], cr[k], Locations, Held, SpecOf[K], Statuses)
      /\ pass[k].latest.status = pass[k].desired.status
      /\ pass[k].latest.status # NoStatus /\ pass[k].why = "sync"
  BY AtUpdate, Row, IdsDiffer DEF Steady
<1>1. SoundPass(q, cr[k], Locations, Held, SpecOf[K], Statuses)
  <2>1. q.pc \in Locations /\ q.pc # "unmanage"
    BY DEF Locations
  <2>2. q.why \in Purposes \ {"created", "delete"}
    BY DEF Purposes
  <2>3. QED
    BY <1>0, <2>1, <2>2 DEF SoundPass
<1>2. Steady(q, cr[k], resources')
  <2>1. cr[k].status # q.latest.status => Gone(cr[k].status, resources')
    BY <1>0, Known, GoneStays DEF SteadyPass
  <2>2. QED
    BY <1>0, <2>1 DEF Steady, SteadyPass, Fresh
<1>3. NoDriftYet => Exact(K, q, cr[k], resources', k \in queued)
  BY <1>0, Row DEF Exact
<1>4. \A n : /\ Knows(q, cr[k], n) <=> Knows(pass[k], cr[k], n)
             /\ Keeps(q, cr[k], n) <=> Keeps(pass[k], cr[k], n)
  BY <1>0, SameIds
<1>5. QED
  BY <1>1, <1>2, <1>3, <1>4 DEF RowStep

(* What is untagged, and what is tagged.                                   *)
LEMMA RemovedIs ==
  ASSUME NEW k PROVE Removed(k) = RemovedBy(pass[k])
BY DEF Removed, RemovedBy

Retag(s, T, v) ==
  [s EXCEPT !.tags = [t \in DOMAIN @ |-> IF t \in T THEN v[t] ELSE @[t]]]

LEMMA RetaggedClean ==
  ASSUME NEW K \in Kinds, NEW s \in SpecOf[K], NEW T, NEW v,
         \A t \in T : v[t] \in Value \cup {Nil}
  PROVE  LET d == Retag(s, T, v) IN
         /\ d \in SpecOf[K]
         /\ \A t \in UserKey \cup SystemKey :
              d.tags[t] = IF t \in T THEN v[t] ELSE s.tags[t]
         /\ \A f \in ReadFields(K) : d[f] = s[f]
         /\ Clean(s) /\ T \cap SystemKey = {} => Clean(d)
<1> DEFINE tags == [t \in DOMAIN s.tags |-> IF t \in T THEN v[t] ELSE s.tags[t]]
           d == [s EXCEPT !.tags = tags]
<1>1. s.tags \in Tags
  BY SpecFields
<1>2. /\ tags \in Tags
      /\ \A t \in UserKey \cup SystemKey :
           tags[t] = IF t \in T THEN v[t] ELSE s.tags[t]
  BY <1>1 DEF Tags
<1>3. Retag(s, T, v) = d
  BY DEF Retag
<1> HIDE DEF tags
<1>4. /\ d \in SpecOf[K] /\ d.tags = tags
      /\ \A f \in ReadFields(K) : d[f] = s[f]
  BY <1>2, Retagged
<1> HIDE DEF d
<1>5. Clean(s) /\ T \cap SystemKey = {} => Clean(d)
  BY <1>2, <1>4 DEF Clean
<1>6. QED
  BY <1>2, <1>3, <1>4, <1>5

LEMMA UntagResourceStep ==
  ASSUME NEW K \in Kinds, InvOf(K), NEW k \in Key, UntagResource(k)
  PROVE  StepOf(K, k)
<1> DEFINE p == pass[k]
           n == Number(k)
           h == resources[n].has
           v == [t \in Removed(k) |-> Nil]
           u == Retag(h, Removed(k), v)
           q == [p EXCEPT !.pc = "tag"]
<1>0. p.pc = "untag" /\ ~Idle(k) /\ UNCHANGED <<cr, queued, kind>>
  BY DEF UntagResource, At, Idle
<1>1. /\ n \in DOMAIN resources /\ Knows(p, cr[k], n) /\ Has(p, resources) = h
      /\ p.latest.status = Id(n) /\ p.why = "sync" /\ h \in SpecOf[K]
      /\ resources[n].busy \in BOOLEAN
  BY <1>0, AtUpdate
<1>2. SoundPass(p, cr[k], Locations, Held, SpecOf[K], Statuses)
  BY Row
<1>3. /\ q.pc = "tag" /\ q.why = p.why /\ q.desired = p.desired
      /\ q.latest = p.latest /\ q.outcome = p.outcome /\ q.todo = p.todo
      /\ DOMAIN q = DOMAIN p
  BY <1>2 DEF SoundPass, IdlePass
<1>4. /\ p.latest \in [spec : SpecOf[K], status : Statuses]
      /\ p.outcome \in Conditions
  BY <1>0, <1>2, Known DEF SoundPass
<1>5. Seen(K, p, resources)
  BY Row
<1>6. ASSUME ResourceStep(K, k), DOMAIN resources' = DOMAIN resources,
             \A f \in ReadFields(K) : resources'[n].has[f] = h[f],
             \A t \in UserKey :
               resources'[n].has.tags[t] = IF t \in Removed(k) THEN Nil ELSE h.tags[t],
             resources'[n].exists = resources[n].exists
      PROVE  RowStep(K, k, q)
  <2>1. Has(q, resources') = resources'[n].has
    BY <1>1, <1>3 DEF Has, Id
  <2> HIDE DEF q
  <2>2. Seen(K, q, resources')
    BY <1>0, <1>1, <1>3, <1>5, <1>6, <2>1 DEF Seen
  <2>3. NoDriftYet => ExactPass(K, q, cr[k], resources', k \in queued)
    <3> SUFFICES ASSUME NoDriftYet
                 PROVE  ExactPass(K, q, cr[k], resources', k \in queued)
      OBVIOUS
    <3>1. ExactPass(K, p, cr[k], resources, k \in queued)
      BY <1>0, Row DEF Exact
    <3>2. RemovedBy(q) = Removed(k)
      BY <1>3 DEF Removed, RemovedBy
    <3>3. \A t \in UserKey :
            Has(q, resources').tags[t] = IF t \in RemovedBy(q) THEN Nil
                                         ELSE q.latest.spec.tags[t]
      BY <1>0, <1>1, <1>3, <1>6, <2>1, <3>1, <3>2 DEF ExactPass
    <3>4. There(q.latest.status, resources')
      BY <1>0, <1>1, <1>3, <1>6, <3>1 DEF ExactPass, There, Id
    <3> HIDE DEF p
    <3>5. QED
      BY <1>0, <1>1, <1>3, <3>1, <3>3, <3>4 DEF ExactPass
  <2>4. QED
    BY <1>0, <1>1, <1>3, <1>4, <1>6, <2>2, <2>3, UpdateRow
<1>7. CASE Removed(k) = {}
  <2>1. pass' = [pass EXCEPT ![k] = q] /\ UNCHANGED <<spent, resources>>
    BY <1>7 DEF UntagResource
  <2>2. ResourceStep(K, k) /\ RowStep(K, k, q)
    BY <1>6, <1>7, <2>1, ResourcesStay
  <2>3. QED
    BY <1>0, <2>1, <2>2, PassOnly
<1>8. CASE Removed(k) # {} /\ (~Exists(n) \/ Forbidden(Removed(k)))
  BY <1>0, <1>8, RefusedStep DEF UntagResource
<1>9. CASE ~(Removed(k) = {} \/ ~Exists(n) \/ Forbidden(Removed(k)))
  <2>1. Becomes(n, u, resources[n].busy) /\ Answered(q, k)
    <3>1. u = [h EXCEPT !.tags = [t \in DOMAIN @ |-> IF t \in Removed(k) THEN Nil
                                                   ELSE @[t]]]
      BY DEF Retag
    <3> HIDE DEF u, q
    <3>2. QED
      BY <1>9, <3>1 DEF UntagResource, q
  <2>2. Removed(k) \cap SystemKey = {}
    BY <1>9 DEF Forbidden
  <2>3. \A t \in Removed(k) : v[t] \in Value \cup {Nil} /\ v[t] = Nil
    OBVIOUS
  <2> HIDE DEF v, h, n
  <2>5. /\ u \in SpecOf[K]
        /\ \A t \in UserKey \cup SystemKey :
             u.tags[t] = IF t \in Removed(k) THEN v[t] ELSE h.tags[t]
        /\ \A f \in ReadFields(K) : u[f] = h[f]
        /\ Clean(h) => Clean(u)
    BY <1>1, <2>2, <2>3, RetaggedClean
  <2> HIDE DEF u
  <2>6. NoDriftYet => Clean(u)
    BY <1>1, <2>5, Row DEF h
  <2>7. /\ ResourceStep(K, k) /\ DOMAIN resources' = DOMAIN resources
        /\ resources'[n].has = u
        /\ resources'[n].exists = resources[n].exists
    BY <1>1, <2>1, <2>5, <2>6, Changed
  <2>8. RowStep(K, k, q)
    BY <1>6, <2>3, <2>5, <2>7
  <2>9. QED
    BY <1>0, <2>1, <2>7, <2>8, AnsweredStep
<1>10. QED
  BY <1>7, <1>8, <1>9

LEMMA TagResourceStep ==
  ASSUME NEW K \in Kinds, InvOf(K), NEW k \in Key, TagResource(k)
  PROVE  StepOf(K, k)
<1> DEFINE p == pass[k]
           d == p.desired
           n == Number(k)
           h == resources[n].has
           v == d.spec.tags
           u == Retag(h, Added(k), v)
           l == IF AfterTags(p.todo) = "finish"
                  THEN [spec |-> d.spec, status |-> d.status] ELSE p.latest
           q == [p EXCEPT !.pc = AfterTags(p.todo), !.outcome = "Synced",
                          !.latest = l]
<1>0. p.pc = "tag" /\ ~Idle(k) /\ UNCHANGED <<cr, queued, kind>>
  BY DEF TagResource, At, Idle
<1>1. /\ n \in DOMAIN resources /\ Knows(p, cr[k], n) /\ Has(p, resources) = h
      /\ p.latest.status = Id(n) /\ d.status = Id(n) /\ p.why = "sync"
      /\ h \in SpecOf[K] /\ resources[n].busy \in BOOLEAN
  BY <1>0, AtUpdate
<1>2. SoundPass(p, cr[k], Locations, Held, SpecOf[K], Statuses)
  BY Row
<1>3. /\ q.pc = AfterTags(p.todo) /\ q.why = p.why /\ q.desired = d
      /\ q.latest = l /\ q.outcome = "Synced" /\ q.todo = p.todo
      /\ DOMAIN q = DOMAIN p
  BY <1>2 DEF SoundPass, IdlePass
<1>4. /\ p.latest \in [spec : SpecOf[K], status : Statuses]
      /\ d.spec \in SpecOf[K] /\ d.status \in Statuses
  <2>1. /\ p.latest.spec \in SpecOf[K] /\ p.latest.status \in Statuses
        /\ p.latest = [spec |-> p.latest.spec, status |-> p.latest.status]
        /\ d.spec \in SpecOf[K] /\ d.status \in Statuses
    BY <1>0, Known
  <2> HIDE DEF p, d
  <2>2. QED
    BY <2>1
<1>5. /\ l \in [spec : SpecOf[K], status : Statuses] /\ l.status = Id(n)
      /\ l.spec = IF AfterTags(p.todo) = "finish" THEN d.spec ELSE p.latest.spec
  BY <1>1, <1>4
<1>6. /\ AfterTags(p.todo) \in {"finish", "update"}
      /\ AfterTags(p.todo) = "finish" => p.todo \subseteq {"tags"}
  BY DEF AfterTags
<1>7. Seen(K, p, resources)
  BY Row
<1>8. \A f \in ReadFields(K) : f # "tags"
  BY DEF ReadFields
<1> HIDE DEF q, l
<1>9. ASSUME ResourceStep(K, k), DOMAIN resources' = DOMAIN resources,
             \A f \in ReadFields(K) : resources'[n].has[f] = h[f],
             \A t \in UserKey :
               resources'[n].has.tags[t] = IF t \in Added(k) THEN v[t] ELSE h.tags[t],
             resources'[n].exists = resources[n].exists
      PROVE  RowStep(K, k, q)
  <2>1. Has(q, resources') = resources'[n].has
    BY <1>3, <1>5 DEF Has, Id
  <2>2. Seen(K, q, resources')
    BY <1>0, <1>1, <1>3, <1>5, <1>6, <1>7, <1>9, <2>1 DEF Seen
  <2>3. NoDriftYet => ExactPass(K, q, cr[k], resources', k \in queued)
    <3> SUFFICES ASSUME NoDriftYet
                 PROVE  ExactPass(K, q, cr[k], resources', k \in queued)
      OBVIOUS
    <3>1. ExactPass(K, p, cr[k], resources, k \in queued)
      BY <1>0, Row DEF Exact
    <3>2. /\ Clean(d.spec) /\ Clean(p.latest.spec)
          /\ There(p.latest.status, resources)
          /\ \A f \in ReadFields(K) \ p.todo : d.spec[f] = p.latest.spec[f]
          /\ k \notin queued => cr[k].exists /\ cr[k].spec = d.spec
          /\ \A t \in UserKey :
               h.tags[t] = IF t \in RemovedBy(p) THEN Nil ELSE p.latest.spec.tags[t]
      BY <1>0, <1>1, <3>1 DEF ExactPass
    <3>3. Clean(q.desired.spec) /\ Clean(q.latest.spec)
      BY <1>3, <1>5, <3>2
    <3>4. SameTags(d.spec, Has(q, resources'))
      <4> SUFFICES ASSUME NEW t \in UserKey
                   PROVE  resources'[n].has.tags[t] = v[t]
        BY <2>1 DEF SameTags
      <4>1. CASE t \in Added(k)
        BY <1>9, <4>1
      <4>2. CASE t \notin Added(k)
        <5>1. v[t] \in {Nil, p.latest.spec.tags[t]}
          BY <4>2 DEF Added
        <5>2. t \in RemovedBy(p) <=> p.latest.spec.tags[t] \notin {Nil, v[t]}
          BY DEF RemovedBy
        <5>3. resources'[n].has.tags[t] = IF t \in RemovedBy(p) THEN Nil
                                         ELSE p.latest.spec.tags[t]
          BY <1>9, <3>2, <4>2
        <5>4. QED
          BY SMTT(30), <5>1, <5>2, <5>3
      <4>3. QED
        BY <4>1, <4>2
    <3>5. There(q.latest.status, resources')
      BY <1>1, <1>3, <1>5, <1>9, <3>2 DEF There, Id
    <3>6. AfterTags(p.todo) = "finish" => Same(K, d.spec, Has(q, resources'))
      <4>1. AfterTags(p.todo) = "finish" =>
              \A f \in ReadFields(K) : h[f] = d.spec[f]
        BY <1>0, <1>1, <1>6, <1>7, <1>8, <3>2 DEF Seen
      <4>2. QED
        BY <1>9, <2>1, <3>4, <4>1 DEF Same
    <3> HIDE DEF p, d
    <3>7. \A f \in ReadFields(K) \ q.todo :
            AfterTags(p.todo) # "finish" => q.desired.spec[f] = q.latest.spec[f]
      BY <1>3, <1>5, <3>2
    <3>8. QED
      BY <1>1, <1>3, <1>6, <3>2, <3>3, <3>4, <3>5, <3>6, <3>7 DEF ExactPass
  <2>4. "Synced" \in Conditions
    BY DEF Conditions
  <2>5. QED
    BY <1>0, <1>1, <1>3, <1>5, <1>6, <1>9, <2>2, <2>3, <2>4, UpdateRow
<1>10. CASE Added(k) = {}
  <2>1. pass' = [pass EXCEPT ![k] = q] /\ UNCHANGED <<spent, resources>>
    BY <1>10 DEF TagResource, q, l
  <2>2. ResourceStep(K, k) /\ RowStep(K, k, q)
    BY <1>9, <1>10, <2>1, ResourcesStay
  <2>3. QED
    BY <1>0, <2>1, <2>2, PassOnly
<1>11. CASE Added(k) # {} /\ (~Exists(n) \/ Forbidden(Added(k)))
  BY <1>0, <1>11, RefusedStep DEF TagResource
<1>12. CASE ~(Added(k) = {} \/ ~Exists(n) \/ Forbidden(Added(k)))
  <2>1. Becomes(n, u, resources[n].busy) /\ Answered(q, k)
    <3>1. u = [h EXCEPT !.tags = [t \in DOMAIN @ |-> IF t \in Added(k)
                                    THEN d.spec.tags[t] ELSE @[t]]]
      BY DEF Retag
    <3> HIDE DEF u
    <3>2. QED
      BY <1>12, <3>1 DEF TagResource, q, l
  <2>2. Added(k) \cap SystemKey = {}
    BY <1>12 DEF Forbidden
  <2>3. \A t \in Added(k) : v[t] \in Value \cup {Nil}
    <3>1. v \in Tags
      BY <1>4, SpecFields
    <3>2. QED
      BY <3>1 DEF Added, Tags
  <2> HIDE DEF v, h, n
  <2>5. /\ u \in SpecOf[K]
        /\ \A t \in UserKey \cup SystemKey :
             u.tags[t] = IF t \in Added(k) THEN v[t] ELSE h.tags[t]
        /\ \A f \in ReadFields(K) : u[f] = h[f]
        /\ Clean(h) => Clean(u)
    BY <1>1, <2>2, <2>3, RetaggedClean
  <2> HIDE DEF u
  <2>6. NoDriftYet => Clean(u)
    BY <1>1, <2>5, Row DEF h
  <2>7. /\ ResourceStep(K, k) /\ DOMAIN resources' = DOMAIN resources
        /\ resources'[n].has = u
        /\ resources'[n].exists = resources[n].exists
    BY <1>1, <2>1, <2>5, <2>6, Changed
  <2>8. RowStep(K, k, q)
    BY <1>9, <2>5, <2>7
  <2>9. QED
    BY <1>0, <2>1, <2>7, <2>8, AnsweredStep
<1>13. QED
  BY <1>10, <1>11, <1>12

(* An update of the fields, in AWS and in what is written back.            *)
UpdatedTo(K, h, s, o) ==
  IF K = "EventSourceMapping" THEN MappingUpdate(h, s, o) ELSE SigningUpdate(h, s)

LEMMA UpdatedIs ==
  ASSUME NEW K \in Kinds, NEW h \in SpecOf[K], NEW s \in SpecOf[K],
         NEW o \in SpecOf[K]
  PROVE  LET u == UpdatedTo(K, h, s, o) IN
         /\ u \in SpecOf[K] /\ u.tags = h.tags
         /\ K = "EventSourceMapping" /\ o.filters = h.filters =>
              u.filters \in {Nil, s.filters}
<1> DEFINE pick(f) == IF s[f] # Nil THEN s[f] ELSE h[f]
<1>1. CASE K = "EventSourceMapping"
  <2> DEFINE v == [source |-> h.source, batch |-> pick("batch"),
                   filters |-> pick("filters"), function |-> pick("function"),
                   tags |-> h.tags]
             ov == Overlay(h, s, {"batch", "filters", "function"})
             w == [source |-> h.source, batch |-> pick("batch"),
                   filters |-> Nil, function |-> pick("function"),
                   tags |-> h.tags]
  <2>1. /\ h.source \in Value /\ h.tags \in Tags
        /\ pick("batch") \in Value \cup {Nil}
        /\ pick("filters") \in Value \cup {Nil} /\ pick("function") \in Value
    BY <1>1, SpecFields
  <2>2. ov = v
    <3>1. DOMAIN h = {"source", "batch", "filters", "function", "tags"}
      BY <1>1, SpecDomain
    <3>2. QED
      BY <3>1 DEF Overlay
  <2> HIDE DEF ov
  <2>3. [v EXCEPT !.filters = Nil] = w
    OBVIOUS
  <2>4. UpdatedTo(K, h, s, o) = IF filterCriteriasDeleted(o, s) THEN w ELSE v
    BY <1>1, <2>2, <2>3 DEF UpdatedTo, MappingUpdate, ov
  <2>5. ~filterCriteriasDeleted(o, s) /\ o.filters = h.filters =>
          pick("filters") \in {Nil, s.filters}
    BY DEF filterCriteriasDeleted
  <2>6. v \in SpecOf[K] /\ w \in SpecOf[K]
    <3> HIDE DEF pick
    <3>1. Nil \in Value \cup {Nil}
      OBVIOUS
    <3>2. QED
      BY <1>1, <2>1, <3>1, IsMapping
  <2>7. /\ v.tags = h.tags /\ w.tags = h.tags
        /\ v.filters = pick("filters") /\ w.filters = Nil
    OBVIOUS
  <2> HIDE DEF v, w, pick
  <2>8. QED
    BY <2>4, <2>5, <2>6, <2>7
<1>2. CASE K = "CodeSigningConfig"
  <2> DEFINE v == [description |-> pick("description"),
                   publishers |-> pick("publishers"), tags |-> h.tags]
  <2>1. /\ h.tags \in Tags /\ pick("description") \in Value \cup {Nil}
        /\ pick("publishers") \in Value
    BY <1>2, SpecFields
  <2>2. UpdatedTo(K, h, s, o) = v
    <3>1. DOMAIN h = {"description", "publishers", "tags"}
      BY <1>2, SpecDomain
    <3>2. QED
      BY <1>2, <3>1 DEF UpdatedTo, SigningUpdate, Overlay
  <2> HIDE DEF pick
  <2>3. v \in SpecOf[K] /\ v.tags = h.tags
    BY <1>2, <2>1, IsSigning
  <2>4. QED
    BY <1>2, <2>2, <2>3
<1>3. QED
  BY <1>1, <1>2, TheKinds

LEMMA sdkUpdateStep ==
  ASSUME NEW K \in Kinds, InvOf(K), NEW k \in Key, sdkUpdate(k)
  PROVE  StepOf(K, k)
<1> DEFINE p == pass[k]
           n == Number(k)
           s == p.desired.spec
           o == p.latest.spec
           h == resources[n].has
           busy == resources[n].busy \/ K = "EventSourceMapping"
           u == UpdatedTo(K, h, s, o)
           w == [u EXCEPT !.tags = s.tags]
           q == [p EXCEPT !.pc = "writeback", !.why = "updated", !.todo = {},
                          !.latest = [spec |-> w, status |-> Id(n)]]
<1>0. p.pc = "update" /\ ~Idle(k) /\ kind = K /\ UNCHANGED <<cr, queued, kind>>
  BY Row DEF sdkUpdate, At, Idle
<1>1. /\ n \in DOMAIN resources /\ Knows(p, cr[k], n) /\ Has(p, resources) = h
      /\ p.latest.status = Id(n) /\ p.desired.status = Id(n) /\ p.why = "sync"
      /\ h \in SpecOf[K] /\ resources[n].busy \in BOOLEAN
  BY <1>0, AtUpdate
<1>2. SoundPass(p, cr[k], Locations, Held, SpecOf[K], Statuses)
  BY Row
<1>3. CASE ~Exists(n) \/ (kind = "EventSourceMapping" /\ resources[n].busy)
  BY <1>0, <1>3, RefusedStep DEF sdkUpdate
<1>4. CASE ~(~Exists(n) \/ (kind = "EventSourceMapping" /\ resources[n].busy))
  <2>1. Becomes(n, u, busy) /\ Answered(q, k)
    <3>1. u = IF kind = "EventSourceMapping" THEN MappingUpdate(h, s, o)
              ELSE SigningUpdate(h, s)
      BY <1>0 DEF UpdatedTo
    <3> HIDE DEF u
    <3>2. QED
      BY <1>0, <1>4, <3>1 DEF sdkUpdate, Id
  <2>2. s \in SpecOf[K] /\ o \in SpecOf[K] /\ p.latest.status \in Statuses
    BY <1>0, Known
  <2>3. \A f \in ReadFields(K) : o[f] = h[f]
    BY <1>0, <1>1, Row DEF Seen
  <2> HIDE DEF h, n, o
  <2>4. /\ u \in SpecOf[K] /\ u.tags = h.tags
        /\ K = "EventSourceMapping" => u.filters \in {Nil, s.filters}
    <3>1. K = "EventSourceMapping" => o.filters = h.filters
      BY <2>3 DEF ReadFields
    <3> HIDE DEF s
    <3>2. QED
      BY <1>1, <2>2, <3>1, UpdatedIs
  <2> HIDE DEF u
  <2>5. s.tags \in Tags
    BY <2>2, SpecFields
  <2>6. /\ w \in SpecOf[K] /\ w.tags = s.tags
        /\ \A f \in ReadFields(K) : w[f] = u[f]
        /\ K = "EventSourceMapping" => w.filters = u.filters
    BY <2>4, <2>5, Retagged
  <2> HIDE DEF w
  <2>7. /\ q.pc = "writeback" /\ q.why = "updated" /\ q.desired = p.desired
        /\ q.latest.spec = w /\ q.latest.status = Id(n) /\ q.outcome = p.outcome
        /\ q.latest = [spec |-> w, status |-> Id(n)] /\ DOMAIN q = DOMAIN p
    BY <1>2 DEF SoundPass, IdlePass
  <2> HIDE DEF q
  <2>8. q.latest \in [spec : SpecOf[K], status : Statuses] /\ p.outcome \in Conditions
    BY <1>1, <1>2, <2>2, <2>6, <2>7 DEF SoundPass
  <2>9. busy \in BOOLEAN /\ (NoDriftYet => Clean(u))
    BY <1>1, <2>4, Row DEF Clean, h
  <2> HIDE DEF busy
  <2>10. /\ ResourceStep(K, k) /\ DOMAIN resources' = DOMAIN resources
         /\ resources'[n].has = u
         /\ resources'[n].exists = resources[n].exists
    BY <1>1, <2>1, <2>4, <2>9, Changed
  <2>11. Has(q, resources') = u
    BY <2>7, <2>10 DEF Has, Id
  <2>12. Seen(K, q, resources')
    BY <2>4, <2>6, <2>7 DEF Seen
  <2>13. NoDriftYet => ExactPass(K, q, cr[k], resources', k \in queued)
    <3> SUFFICES ASSUME NoDriftYet
                 PROVE  ExactPass(K, q, cr[k], resources', k \in queued)
      OBVIOUS
    <3>1. ExactPass(K, p, cr[k], resources, k \in queued)
      BY <1>0, Row DEF Exact
    <3>2. SameTags(s, h) /\ Clean(s)
      BY <1>0, <1>1, <3>1 DEF ExactPass
    <3>3. Clean(q.latest.spec)
      BY <2>6, <2>7, <3>2 DEF Clean
    <3>4. Same(K, q.latest.spec, Has(q, resources'))
      BY <2>4, <2>6, <2>7, <2>11, <3>2 DEF Same, SameTags
    <3>5. There(q.latest.status, resources')
      BY <1>1, <1>4, <2>7, <2>10 DEF There, Exists, Id
    <3>6. QED
      BY <2>7, <3>1, <3>3, <3>4, <3>5 DEF ExactPass
  <2>14. RowStep(K, k, q)
    BY <1>0, <1>1, <2>7, <2>8, <2>10, <2>12, <2>13, UpdateRow
  <2>15. QED
    BY <1>0, <2>1, <2>10, <2>14, AnsweredStep
<1>5. QED
  BY <1>3, <1>4

-----------------------------------------------------------------------------
(* Delete, and the patch of the spec.                                      *)

LEMMA OneChanges ==
  ASSUME NEW S, NEW rs \in Seq(S), NEW n \in DOMAIN rs, NEW r \in S,
         NEW rt, rt = [rs EXCEPT ![n] = r]
  PROVE  /\ rt \in Seq(S) /\ DOMAIN rt = DOMAIN rs /\ rt[n] = r
         /\ \A m \in DOMAIN rs : m # n => rt[m] = rs[m]
OBVIOUS

LEMMA Deleted ==
  ASSUME NEW K \in Kinds, InvOf(K), NEW k \in Key, NEW n \in DOMAIN resources,
         Knows(pass[k], cr[k], n),
         resources' = [resources EXCEPT ![n].exists = FALSE]
  PROVE  ResourceStep(K, k) /\ DOMAIN resources' = DOMAIN resources
         /\ ~resources'[n].exists
<1> DEFINE x == resources[n]
           r == [exists |-> FALSE, by |-> x.by, busy |-> x.busy, has |-> x.has]
<1>0. resources \in Seq(Resource(K))
  BY Row
<1>1. resources' = [resources EXCEPT ![n] = r]
  <2>1. x = [exists |-> x.exists, by |-> x.by, busy |-> x.busy, has |-> x.has]
    BY <1>0, Lens
  <2> HIDE DEF x
  <2>2. ASSUME NEW y, y = [x EXCEPT !.exists = FALSE] PROVE y = r
    BY <2>1, <2>2
  <2>3. QED
    BY <2>2 DEF x
<1>2. r \in Resource(K)
  BY <1>0, Lens DEF Resource
<1>3. r.has = x.has /\ ~r.exists /\ r.by = x.by
  OBVIOUS
<1> HIDE DEF r
<1>4. /\ resources' \in Seq(Resource(K)) /\ DOMAIN resources' = DOMAIN resources
      /\ resources'[n] = r
      /\ \A m \in DOMAIN resources : m # n => resources'[m] = resources[m]
  <2> DEFINE rt == resources'
  <2>1. rt = [resources EXCEPT ![n] = r]
    BY <1>1
  <2> HIDE DEF rt
  <2>2. /\ rt \in Seq(Resource(K)) /\ DOMAIN rt = DOMAIN resources /\ rt[n] = r
        /\ \A m \in DOMAIN resources : m # n => rt[m] = resources[m]
    BY <1>0, <1>2, <2>1, OneChanges
  <2>3. QED
    BY <2>2 DEF rt
<1>5. QED
  BY <1>3, <1>4, Row DEF ResourceStep

LEMMA sdkDeleteStep ==
  ASSUME NEW K \in Kinds, InvOf(K), NEW k \in Key, sdkDelete(k)
  PROVE  StepOf(K, k)
<1> DEFINE p == pass[k]
           n == p.latest.status.id
           q == [p EXCEPT !.pc = "unmanage"]
<1>0. p.pc = "delete" /\ p.pc # "idle" /\ ~Idle(k) /\ UNCHANGED <<cr, queued, kind>>
  BY DEF sdkDelete, At, Idle
<1>1. CASE ~Exists(n) \/ resources[n].busy
  BY <1>0, <1>1, RefusedStep DEF sdkDelete
<1>2. CASE ~(~Exists(n) \/ resources[n].busy)
  <2>1. /\ resources' = [resources EXCEPT ![n].exists = FALSE] /\ Answered(q, k)
        /\ n \in DOMAIN resources
    BY <1>2 DEF sdkDelete, Exists
  <2>2. /\ SoundPass(p, cr[k], Locations, Held, SpecOf[K], Statuses)
        /\ Steady(p, cr[k], resources)
    BY Row
  <2>3. SteadyPass(p, cr[k], resources) /\ p.why = "delete"
    BY <1>0, <2>2 DEF Steady, SteadyPass
  <2>4. p.latest.status = Id(n) /\ n \in Nat /\ Knows(p, cr[k], n)
    BY <1>0, <2>3, Known, IdsDiffer DEF SteadyPass
  <2>5. /\ q.pc = "unmanage" /\ q.why = p.why /\ q.desired = p.desired
        /\ q.latest = p.latest
    BY <2>2 DEF SoundPass, IdlePass
  <2>6. SoundPass(q, cr[k], Locations, Held, SpecOf[K], Statuses)
    <3>1. "unmanage" \in Locations /\ "unmanage" \notin Held
      BY DEF Locations, Held
    <3> HIDE DEF p
    <3>2. QED
      BY <1>0, <2>2, <2>3, <3>1, MovedIsSound
  <2> HIDE DEF q
  <2>7. ResourceStep(K, k) /\ DOMAIN resources' = DOMAIN resources
        /\ ~resources'[n].exists
    BY <2>1, <2>4, Deleted
  <2>8. Gone(p.latest.status, resources')
    BY <2>4, <2>7, Row, IdsDiffer DEF Gone
  <2>9. cr[k].status # p.latest.status => Gone(cr[k].status, resources')
    BY <2>3, <2>7, Known, GoneStays DEF SteadyPass
  <2>10. Steady(q, cr[k], resources')
    BY <1>0, <2>2, <2>3, <2>5, <2>8, <2>9 DEF Steady, SteadyPass, Fresh
  <2>11. Seen(K, q, resources')
    BY <2>5 DEF Seen
  <2>12. NoDriftYet => Exact(K, q, cr[k], resources', k \in queued)
    <3> SUFFICES ASSUME NoDriftYet
                 PROVE  Exact(K, q, cr[k], resources', k \in queued)
      OBVIOUS
    <3>1. ExactPass(K, p, cr[k], resources, k \in queued)
          /\ (cr[k].exists => Clean(cr[k].spec))
      BY <1>0, Row DEF Exact
    <3>2. ExactPass(K, q, cr[k], resources', k \in queued)
      BY <2>3, <2>5, <3>1 DEF ExactPass
    <3>3. QED
      BY <2>5, <3>1, <3>2 DEF Exact
  <2>13. \A m : /\ Knows(q, cr[k], m) <=> Knows(p, cr[k], m)
                /\ Keeps(q, cr[k], m) <=> Keeps(p, cr[k], m)
    BY <1>0, <2>5, SameIds
  <2>14. RowStep(K, k, q)
    BY <2>6, <2>7, <2>10, <2>11, <2>12, <2>13 DEF RowStep
  <2>15. QED
    BY <1>0, <2>1, <2>7, <2>14, AnsweredStep
<1>3. QED
  BY <1>1, <1>2

(* d is what Create or Update was given, l what it returned, and c stored. *)
LEMMA PatchedIs ==
  ASSUME NEW K \in Kinds, NEW d \in SpecOf[K], NEW l \in SpecOf[K],
         NEW c \in SpecOf[K]
  PROVE  LET s == Patched(d, l, c) IN
         /\ s \in SpecOf[K]
         /\ Clean(l) /\ Clean(c) => Clean(s)
         /\ s = c /\ c = d => l = d
         /\ K = "EventSourceMapping" /\ l.filters \in {Nil, d.filters}
              /\ c.filters = Nil => s.filters = Nil
<1> DEFINE s == Patched(d, l, c)
           pick(f) == IF d[f] # l[f] THEN l[f] ELSE c[f]
<1>1. DOMAIN s = DOMAIN d /\ \A f \in DOMAIN d : s[f] = pick(f)
  BY DEF Patched
<1>2. /\ s \in SpecOf[K] /\ s.tags = pick("tags")
      /\ K = "EventSourceMapping" => s.filters = pick("filters")
  <2>1. CASE K = "EventSourceMapping"
    <3>1. /\ pick("source") \in Value /\ pick("batch") \in Value \cup {Nil}
          /\ pick("filters") \in Value \cup {Nil} /\ pick("function") \in Value
          /\ pick("tags") \in Tags
      BY <2>1, SpecFields
    <3>2. DOMAIN d = {"source", "batch", "filters", "function", "tags"}
      BY <2>1, SpecDomain
    <3>3. s = [source |-> pick("source"), batch |-> pick("batch"),
               filters |-> pick("filters"), function |-> pick("function"),
               tags |-> pick("tags")]
      BY <3>2 DEF Patched
    <3> HIDE DEF s, pick
    <3>4. QED
      BY <2>1, <3>1, <3>3, IsMapping
  <2>2. CASE K = "CodeSigningConfig"
    <3>1. /\ pick("description") \in Value \cup {Nil}
          /\ pick("publishers") \in Value /\ pick("tags") \in Tags
      BY <2>2, SpecFields
    <3>2. DOMAIN d = {"description", "publishers", "tags"}
      BY <2>2, SpecDomain
    <3>3. s = [description |-> pick("description"),
               publishers |-> pick("publishers"), tags |-> pick("tags")]
      BY <3>2 DEF Patched
    <3> HIDE DEF s, pick
    <3>4. QED
      BY <2>2, <3>1, <3>3, IsSigning
  <2>3. QED
    BY <2>1, <2>2, TheKinds
<1> HIDE DEF s
<1>3. s = c /\ c = d => l = d
  <2>1. s = c /\ c = d => \A f \in DOMAIN d : l[f] = d[f]
    BY <1>1
  <2>2. QED
    BY <2>1, SpecDomain
<1>4. Clean(l) /\ Clean(c) => Clean(s)
  BY <1>2 DEF Clean
<1>5. K = "EventSourceMapping" /\ l.filters \in {Nil, d.filters} /\ c.filters = Nil
        => s.filters = Nil
  BY <1>2
<1>6. QED
  BY <1>2, <1>3, <1>4, <1>5 DEF s

LEMMA WriteBackStep ==
  ASSUME NEW K \in Kinds, InvOf(K), NEW k \in Key, WriteBack(k)
  PROVE  StepOf(K, k)
<1> DEFINE p == pass[k]
           d == p.desired.spec
           l == p.latest.spec
           s == Patched(d, l, cr[k].spec)
           c == [cr[k] EXCEPT !.spec = s]
<1>0. /\ p.pc = "writeback" /\ p.pc # "idle" /\ ~Idle(k)
      /\ UNCHANGED <<kind, resources, spent>> /\ StoreSpec(k, s)
  BY DEF WriteBack, At, Idle, PatchSpec, StoreSpec
<1>1. /\ SoundPass(p, cr[k], Locations, Held, SpecOf[K], Statuses)
      /\ SoundCR(cr[k], SpecOf[K], Statuses)
      /\ Steady(p, cr[k], resources) /\ SteadyPass(p, cr[k], resources)
      /\ Seen(K, p, resources) /\ ResourceStep(K, k)
  BY <1>0, Row, ResourcesStay DEF Steady
<1>2. /\ cr[k].finalizer /\ cr[k].exists /\ cr[k].spec \in SpecOf[K]
      /\ d \in SpecOf[K] /\ l \in SpecOf[K]
  BY <1>0, <1>1, Known, ExistingCR DEF SoundPass, SoundCR, Held
<1>3. /\ s \in SpecOf[K]
      /\ Clean(l) /\ Clean(cr[k].spec) => Clean(s)
      /\ s = cr[k].spec /\ cr[k].spec = d => l = d
      /\ K = "EventSourceMapping" /\ cr[k].spec.filters = Nil => s.filters = Nil
  BY <1>0, <1>1, <1>2, PatchedIs DEF Seen
<1>4. PICK loc, o :
        /\ pass' = [pass EXCEPT ![k].pc = loc, ![k].outcome = o]
        /\ \/ p.why = "created" /\ loc = "read" /\ o = p.outcome
           \/ p.why = "updated" /\ loc = "finish" /\ o = "Synced"
  <2>1. p.why \in {"created", "updated"}
    BY <1>0, <1>1 DEF SteadyPass, Fresh
  <2>2. CASE p.why = "created"
    <3>1. pass' = [pass EXCEPT ![k] = [p EXCEPT !.pc = "read"]]
      BY <2>2 DEF WriteBack, Goto
    <3>2. [p EXCEPT !.pc = "read"] = [p EXCEPT !.pc = "read", !.outcome = p.outcome]
      BY <1>1 DEF SoundPass, IdlePass
    <3>3. pass' = [pass EXCEPT ![k].pc = "read", ![k].outcome = p.outcome]
      BY <3>1, <3>2
    <3>4. QED
      BY <2>2, <3>3
  <2>3. CASE p.why = "updated"
    BY <2>3 DEF WriteBack, EndPass
  <2>4. QED
    BY <2>1, <2>2, <2>3
<1> DEFINE q == [p EXCEPT !.pc = loc, !.outcome = o]
<1> HIDE DEF s
<1>5. /\ pass' = [pass EXCEPT ![k] = q] /\ q.pc = loc /\ q.outcome = o
      /\ q.why = p.why /\ q.desired = p.desired /\ q.latest = p.latest
      /\ DOMAIN q = DOMAIN p
  BY <1>1, <1>4 DEF SoundPass, IdlePass, InvOf, PassInv
<1>6. /\ cr' = [cr EXCEPT ![k] = c] /\ c.spec = s /\ c.status = cr[k].status
      /\ c.finalizer /\ c.exists
  <2>1. cr' = [cr EXCEPT ![k] = c]
    BY <1>0 DEF StoreSpec, InvOf, PassInv
  <2>2. cr[k] \in CRs(SpecOf[K], Statuses)
    BY <1>1 DEF SoundCR
  <2>3. QED
    BY <1>2, <1>3, <2>1, <2>2, RespecIsCR
<1> HIDE DEF q, c
<1>7. SoundPass(q, cr[k], Locations, Held, SpecOf[K], Statuses)
  <2>1. loc \in Locations \ Held /\ loc \notin {"idle", "unmanage"} /\ o \in Conditions
    BY <1>1, <1>4 DEF Locations, Held, Conditions, SoundPass
  <2>2. QED
    BY <1>0, <1>1, <1>5, <2>1 DEF SoundPass
<1>8. PassInv(Locations, Held, SpecOf[K], Statuses)'
  BY <1>0, <1>2, <1>3, <1>5, <1>7, StoreSpecStep DEF InvOf
<1>9. /\ queued' \ {k} = queued \ {k}
      /\ k \notin queued' => s = cr[k].spec /\ k \notin queued
  BY <1>0 DEF StoreSpec
<1>10. Steady(q, c, resources')
  BY <1>0, <1>1, <1>4, <1>5, <1>6 DEF Steady, SteadyPass, Fresh, Gone
<1>11. Seen(K, q, resources')
  BY <1>4, <1>5 DEF Seen
<1>12. NoDriftYet => Exact(K, q, c, resources', k \in queued')
  <2> SUFFICES ASSUME NoDriftYet PROVE Exact(K, q, c, resources', k \in queued')
    OBVIOUS
  <2>1. /\ ExactPass(K, p, cr[k], resources, k \in queued)
        /\ Clean(cr[k].spec)
    BY <1>0, <1>2, Row DEF Exact
  <2>2. /\ Clean(d) /\ Clean(l) /\ Clean(s)
        /\ There(p.latest.status, resources) /\ Same(K, l, Has(p, resources))
    BY <1>0, <1>3, <2>1 DEF ExactPass
  <2>3. k \notin queued' => c.exists /\ c.spec = d /\ l = d
    BY <1>3, <1>6, <1>9, <2>1 DEF ExactPass
  <2>4. There(q.latest.status, resources') /\ Has(q, resources') = Has(p, resources)
    BY <1>0, <1>5, <2>2 DEF Has
  <2>5. k \notin queued' => Same(K, q.desired.spec, Has(q, resources'))
    BY <1>5, <2>2, <2>3, <2>4
  <2>6. ExactPass(K, q, c, resources', k \in queued')
    BY <1>4, <1>5, <2>2, <2>3, <2>4, <2>5 DEF ExactPass
  <2>7. QED
    BY <1>4, <1>5, <1>6, <2>2, <2>6 DEF Exact
<1>13. \A n : /\ Knows(q, c, n) <=> Knows(p, cr[k], n)
              /\ Keeps(q, c, n) <=> Keeps(p, cr[k], n)
  BY <1>0, <1>4, <1>5, <1>6 DEF Knows, Keeps
<1>14. KeyStep(K, k, q, c)
  BY <1>0, <1>5, <1>6, <1>9, <1>10, <1>11, <1>12, <1>13 DEF KeyStep
<1>15. NotLost(k, q, c) /\ FiltersKept(K, k, c)
  BY <1>0, <1>3, <1>6, <1>13 DEF NotLost, FiltersKept
<1>16. QED
  BY <1>1, <1>8, <1>14, <1>15 DEF StepOf

-----------------------------------------------------------------------------
(* The steps that the kinds have in common.                                *)

LEMMA StartRow ==
  ASSUME NEW K \in Kinds, InvOf(K), NEW k \in Key, Start(k),
         UNCHANGED <<kind, resources>>
  PROVE  StepOf(K, k)
<1>0. /\ Steady(pass[k], cr[k], resources) /\ Seen(K, pass[k], resources)
      /\ SoundCR(cr[k], SpecOf[K], Statuses) /\ pass[k].pc = "idle"
      /\ cr' = cr /\ queued' = queued \ {k} /\ ResourceStep(K, k)
      /\ cr' = [cr EXCEPT ![k] = cr[k]]
  BY Row, ResourcesStay DEF Start, Idle, At, InvOf, PassInv
<1>1. spent'.drifts = spent.drifts /\ spent'.faults = spent.faults
  BY Row DEF Start, Spend, Counts
<1>2. PassInv(Locations, Held, SpecOf[K], Statuses)'
  BY StartStep, CommonLocations DEF InvOf
<1>3. NoDriftYet /\ cr[k].exists => Clean(cr[k].spec)
  BY Row DEF Exact
<1>4. CASE ~cr[k].exists
  <2>1. pass' = [pass EXCEPT ![k] = pass[k]]
    BY <1>4 DEF Start, InvOf, PassInv
  <2>2. NoDriftYet => Exact(K, pass[k], cr[k], resources', k \in queued')
    BY <1>0, <1>4 DEF Exact
  <2>3. /\ KeyStep(K, k, pass[k], cr[k]) /\ NotLost(k, pass[k], cr[k])
        /\ FiltersKept(K, k, cr[k])
    BY <1>0, <1>1, <2>1, <2>2 DEF KeyStep, NotLost, FiltersKept
  <2>4. QED
    BY <1>0, <1>2, <2>3 DEF StepOf
<1>5. CASE cr[k].exists
  <2> DEFINE p == [IdlePass EXCEPT !.pc = "read",
                     !.why = IF cr[k].deleting THEN "delete" ELSE "sync",
                     !.desired = cr[k],
                     !.latest = [spec |-> cr[k].spec, status |-> cr[k].status]]
  <2>1. pass' = [pass EXCEPT ![k] = p]
    BY <1>5 DEF Start
  <2>2. /\ p.pc = "read" /\ p.why \in {"sync", "delete"} /\ p.desired = cr[k]
        /\ p.latest.spec = cr[k].spec /\ p.latest.status = cr[k].status
    BY DEF IdlePass
  <2> HIDE DEF p
  <2>3. Steady(p, cr[k], resources')
    BY <1>0, <1>5, <2>2 DEF Steady, SteadyPass, Fresh
  <2>4. Seen(K, p, resources')
    BY <2>2 DEF Seen
  <2>5. NoDriftYet => Exact(K, p, cr[k], resources', k \in queued')
    BY <1>3, <1>5, <2>2 DEF Exact, ExactPass
  <2>6. \A n : /\ Knows(p, cr[k], n) => Knows(pass[k], cr[k], n)
               /\ Keeps(pass[k], cr[k], n) => Keeps(p, cr[k], n)
    BY <1>0, <2>2 DEF Knows, Keeps
  <2>7. /\ KeyStep(K, k, p, cr[k]) /\ NotLost(k, p, cr[k]) /\ FiltersKept(K, k, cr[k])
    BY <1>0, <1>1, <2>1, <2>3, <2>4, <2>5, <2>6 DEF KeyStep, NotLost, FiltersKept
  <2>8. QED
    BY <1>0, <1>2, <2>7 DEF StepOf
<1>6. QED
  BY <1>4, <1>5

LEMMA ManageRow ==
  ASSUME NEW K \in Kinds, InvOf(K), NEW k \in Key, Manage(k),
         UNCHANGED <<kind, resources>>
  PROVE  StepOf(K, k)
<1> DEFINE p == pass[k]
           q == [p EXCEPT !.pc = "create"]
           c == [cr[k] EXCEPT !.finalizer = TRUE]
<1>0. /\ p.pc = "manage" /\ p.pc # "idle" /\ ~Idle(k)
      /\ queued' = queued /\ spent' = spent /\ ResourceStep(K, k)
  BY ResourcesStay DEF Manage, Idle, At
<1>1. CASE ~cr[k].exists
  <2>1. cr' = cr /\ EndPass(k, "Recoverable")
    BY <1>1 DEF Manage
  <2>2. QED
    BY <1>0, <2>1, EndStep DEF Conditions
<1>2. CASE cr[k].exists
  <2>1. /\ SoundPass(p, cr[k], Locations, Held, SpecOf[K], Statuses)
        /\ SoundCR(cr[k], SpecOf[K], Statuses)
        /\ Steady(p, cr[k], resources) /\ SteadyPass(p, cr[k], resources)
    BY <1>0, Row DEF Steady
  <2>2. PassInv(Locations, Held, SpecOf[K], Statuses)'
    BY ManageStep, CommonLocations DEF InvOf
  <2>3. /\ pass' = [pass EXCEPT ![k] = q] /\ q.pc = "create" /\ q.why = p.why
        /\ q.desired = p.desired /\ q.latest = p.latest
    BY <1>2, <2>1 DEF Manage, Goto, SoundPass, IdlePass, InvOf, PassInv
  <2>4. /\ cr' = [cr EXCEPT ![k] = c] /\ c.finalizer /\ c.exists
        /\ c.spec = cr[k].spec /\ c.status = cr[k].status
    <3>1. cr' = [cr EXCEPT ![k] = c]
      BY <1>2 DEF Manage, InvOf, PassInv
    <3>2. cr[k] \in [exists : {TRUE}, spec : SpecOf[K], status : Statuses,
            deleting : BOOLEAN, finalizer : BOOLEAN, cond : Conditions]
      BY <1>2, <2>1, ExistingCR DEF SoundCR
    <3>3. QED
      BY <1>2, <3>1, <3>2
  <2> HIDE DEF q, c
  <2>5. Steady(q, c, resources')
    BY <1>0, <2>1, <2>3, <2>4 DEF Steady, SteadyPass, Fresh
  <2>6. Seen(K, q, resources')
    BY <2>3 DEF Seen
  <2>7. NoDriftYet => Exact(K, q, c, resources', k \in queued')
    <3> SUFFICES ASSUME NoDriftYet PROVE Exact(K, q, c, resources', k \in queued')
      OBVIOUS
    <3>1. ExactPass(K, p, cr[k], resources, k \in queued) /\ Clean(cr[k].spec)
      BY <1>0, <1>2, Row DEF Exact
    <3>2. QED
      BY <1>0, <2>3, <2>4, <3>1 DEF Exact, ExactPass
  <2>8. \A n : /\ Knows(q, c, n) <=> Knows(p, cr[k], n)
               /\ Keeps(q, c, n) <=> Keeps(p, cr[k], n)
    BY <1>0, <2>3, <2>4 DEF Knows, Keeps
  <2>9. KeyStep(K, k, q, c) /\ NotLost(k, q, c) /\ FiltersKept(K, k, c)
    BY <1>0, <2>3, <2>4, <2>5, <2>6, <2>7, <2>8 DEF KeyStep, NotLost, FiltersKept
  <2>10. QED
    BY <1>0, <2>2, <2>9 DEF StepOf
<1>3. QED
  BY <1>1, <1>2

(* A pass that is over: its CR is c.                                       *)
LEMMA OverRow ==
  ASSUME NEW K \in Kinds, InvOf(K), NEW k \in Key, NEW c,
         PassInv(Locations, Held, SpecOf[K], Statuses)',
         pass' = [pass EXCEPT ![k] = IdlePass], cr' = [cr EXCEPT ![k] = c],
         queued' \ {k} = queued \ {k}, spent' = spent,
         UNCHANGED <<kind, resources>>,
         c.exists /\ c.status # NoStatus => c.finalizer,
         NoDriftYet => Exact(K, IdlePass, c, resources, k \in queued'),
         \A n \in Nat : c.status = Id(n) => Knows(pass[k], cr[k], n),
         \A n \in DOMAIN resources :
           Keeps(pass[k], cr[k], n) /\ resources[n].exists => c.status = Id(n),
         FiltersKept(K, k, c)
  PROVE  StepOf(K, k)
<1>0. ResourceStep(K, k) /\ IdlePass.pc = "idle"
  BY ResourcesStay DEF IdlePass
<1>1. /\ Steady(IdlePass, c, resources') /\ Seen(K, IdlePass, resources')
      /\ \A n : Knows(IdlePass, c, n) => c.status = Id(n)
      /\ \A n : c.status = Id(n) => Keeps(IdlePass, c, n)
  BY <1>0 DEF Steady, Seen, Knows, Keeps
<1>2. KeyStep(K, k, IdlePass, c) /\ NotLost(k, IdlePass, c)
  BY <1>1 DEF KeyStep, NotLost
<1>3. QED
  BY <1>0, <1>2 DEF StepOf

LEMMA UnmanageRow ==
  ASSUME NEW K \in Kinds, InvOf(K), NEW k \in Key, Unmanage(k),
         UNCHANGED <<kind, resources>>
  PROVE  StepOf(K, k)
<1>1. PassInv(Locations, Held, SpecOf[K], Statuses)'
  BY UnmanageStep, CommonLocations DEF InvOf
<1>2. ~NoCR.exists /\ NoCR.status = Nil /\ IdlePass.pc = "idle"
  BY DEF NoCR, IdlePass
<1>3. NoDriftYet => Exact(K, IdlePass, NoCR, resources, k \in queued')
  BY <1>2 DEF Exact
<1>4. \A n \in Nat : NoCR.status # Id(n)
  BY <1>2, IdsDiffer
<1>5. \A n \in DOMAIN resources : Keeps(pass[k], cr[k], n) => ~resources[n].exists
  BY Row DEF Unmanage, At, Steady, SteadyPass, Keeps, Gone
<1>6. FiltersKept(K, k, NoCR)
  BY <1>2 DEF FiltersKept
<1>7. QED
  BY <1>1, <1>2, <1>3, <1>4, <1>5, <1>6, OverRow DEF Unmanage

LEMMA FinishRow ==
  ASSUME NEW K \in Kinds, InvOf(K), NEW k \in Key, Finish(k),
         UNCHANGED <<kind, resources>>
  PROVE  StepOf(K, k)
<1> DEFINE p == pass[k]
<1>0. p.pc = "finish" /\ p.pc # "idle" /\ ~Idle(k) /\ IdlePass.pc = "idle"
  BY DEF Finish, Idle, At, IdlePass
<1>1. PassInv(Locations, Held, SpecOf[K], Statuses)'
  BY FinishStep, CommonLocations DEF InvOf
<1>2. /\ SoundCR(cr[k], SpecOf[K], Statuses)
      /\ Steady(p, cr[k], resources) /\ SteadyPass(p, cr[k], resources)
  BY <1>0, Row DEF Steady
<1>3. CASE ~cr[k].exists
  <2>1. cr[k].status = Nil /\ ~cr[k].finalizer
    BY <1>2, <1>3, AbsentCR DEF SoundCR
  <2>2. p.latest.status = NoStatus
    BY <1>2, <2>1 DEF SteadyPass
  <2>3. \A n \in Nat : cr[k].status # Id(n) /\ p.latest.status # Id(n)
    BY <2>1, <2>2, IdsDiffer
  <2>4. /\ cr' = [cr EXCEPT ![k] = cr[k]] /\ queued' = queued
        /\ pass' = [pass EXCEPT ![k] = IdlePass] /\ spent' = spent
    BY <1>3 DEF Finish, InvOf, PassInv
  <2>5. NoDriftYet => Exact(K, IdlePass, cr[k], resources, k \in queued')
    BY <1>0, <1>3 DEF Exact
  <2>6. \A n \in DOMAIN resources : ~Keeps(p, cr[k], n)
    BY <2>3, Row DEF Keeps
  <2>7. FiltersKept(K, k, cr[k])
    BY DEF FiltersKept
  <2>8. QED
    BY <1>1, <1>3, <2>3, <2>4, <2>5, <2>6, <2>7, OverRow
<1>4. CASE cr[k].exists
  <2> DEFINE c == [cr[k] EXCEPT !.cond = p.outcome, !.status = p.latest.status]
  <2>1. /\ cr' = [cr EXCEPT ![k] = c] /\ queued' \ {k} = queued \ {k}
        /\ pass' = [pass EXCEPT ![k] = IdlePass] /\ spent' = spent
        /\ queued \subseteq queued'
    BY <1>4 DEF Finish, InvOf, PassInv
  <2>2. /\ c.exists /\ c.spec = cr[k].spec /\ c.status = p.latest.status
        /\ c.cond = p.outcome /\ c.finalizer = cr[k].finalizer
    <3>1. cr[k] \in [exists : {TRUE}, spec : SpecOf[K], status : Statuses,
            deleting : BOOLEAN, finalizer : BOOLEAN, cond : Conditions]
      BY <1>2, <1>4, ExistingCR DEF SoundCR
    <3>2. QED
      BY <1>4, <3>1
  <2> HIDE DEF c
  <2>3. c.exists /\ c.status # NoStatus => c.finalizer
    BY <1>2, <2>2 DEF SteadyPass
  <2>4. NoDriftYet => Exact(K, IdlePass, c, resources, k \in queued')
    <3> SUFFICES ASSUME NoDriftYet
                 PROVE  Exact(K, IdlePass, c, resources, k \in queued')
      OBVIOUS
    <3>1. ExactPass(K, p, cr[k], resources, k \in queued) /\ Clean(cr[k].spec)
      BY <1>0, <1>4, Row DEF Exact
    <3>2. k \notin queued' /\ c.cond = "Synced" =>
            /\ There(c.status, resources)
            /\ Same(K, c.spec, resources[c.status.id].has)
      BY <1>0, <2>1, <2>2, <3>1 DEF ExactPass, Has
    <3>3. QED
      BY <1>0, <2>2, <3>1, <3>2 DEF Exact
  <2>5. \A n \in Nat : c.status = Id(n) => Knows(p, cr[k], n)
    BY <1>0, <2>2 DEF Knows
  <2>6. \A n \in DOMAIN resources :
          Keeps(p, cr[k], n) /\ resources[n].exists => c.status = Id(n)
    BY <1>0, <1>2, <2>2 DEF SteadyPass, Keeps, Gone
  <2>7. FiltersKept(K, k, c)
    BY <2>2 DEF FiltersKept
  <2>8. QED
    BY <1>1, <2>1, <2>3, <2>4, <2>5, <2>6, <2>7, OverRow
<1>5. QED
  BY <1>3, <1>4

LEMMA CallFailsRow ==
  ASSUME NEW K \in Kinds, InvOf(K), NEW k \in Key, CallFails(k),
         UNCHANGED <<kind, resources>>
  PROVE  StepOf(K, k)
BY ResourcesStay, EndStep DEF CallFails, Idle, At, Conditions

(* A CR changes, or not, and its key is queued.                            *)
LEMMA QueuedRow ==
  ASSUME NEW K \in Kinds, InvOf(K), NEW k \in Key, NEW c,
         PassInv(Locations, Held, SpecOf[K], Statuses)',
         pass' = pass, cr' = [cr EXCEPT ![k] = c], queued' = queued \cup {k},
         spent'.drifts = spent.drifts, spent'.faults = spent.faults,
         UNCHANGED <<kind, resources>>,
         c.finalizer = cr[k].finalizer,
         \/ cr[k].exists /\ c.exists /\ c.status = cr[k].status
         \/ /\ ~cr[k].finalizer
            /\ c.status = IF c.exists THEN NoStatus ELSE Nil,
         NoDriftYet /\ c.exists => Clean(c.spec),
         FiltersKept(K, k, c)
  PROVE  StepOf(K, k)
<1> DEFINE p == pass[k]
<1>0. /\ Steady(p, cr[k], resources) /\ Seen(K, p, resources)
      /\ SoundCR(cr[k], SpecOf[K], Statuses) /\ ResourceStep(K, k)
      /\ pass' = [pass EXCEPT ![k] = p]
  BY Row, ResourcesStay DEF InvOf, PassInv
<1>1. \A n \in Nat : Id(n) # NoStatus /\ Id(n) # Nil
  BY IdsDiffer
<1>2. ~cr[k].finalizer =>
        /\ \A n \in Nat : cr[k].status # Id(n)
        /\ p.pc # "idle" => p.latest.status = NoStatus
  <2>1. ~cr[k].exists => cr[k].status = Nil
    <3>1. cr[k] \in CRs(SpecOf[K], Statuses)
      BY <1>0 DEF SoundCR
    <3> DEFINE e == cr[k]
    <3> HIDE DEF e
    <3>2. e \in CRs(SpecOf[K], Statuses)
      BY <3>1 DEF e
    <3>3. ~e.exists => e.status = Nil
      BY ZenonT(60), <3>2, AbsentCR
    <3>4. QED
      BY <3>3 DEF e
  <2>2. QED
    BY <1>0, <1>1, <2>1 DEF Steady, SteadyPass
<1>3. \A n \in Nat : c.status = Id(n) <=> cr[k].status = Id(n)
  BY <1>1, <1>2
<1>4. Steady(p, c, resources')
  <2>1. c.exists /\ c.status # NoStatus => c.finalizer
    BY <1>0 DEF Steady
  <2>2. DOMAIN resources \subseteq Nat
    BY Row
  <2>3. p.pc # "idle" => SteadyPass(p, c, resources)
    BY <1>0, <1>2, <1>3, <2>2 DEF Steady, SteadyPass, Gone
  <2>4. QED
    BY <2>1, <2>3 DEF Steady
<1>5. NoDriftYet => Exact(K, p, c, resources', k \in queued')
  BY Row DEF Exact, ExactPass
<1>6. \A n \in Nat : /\ Knows(p, c, n) <=> Knows(p, cr[k], n)
                     /\ Keeps(p, c, n) <=> Keeps(p, cr[k], n)
  BY <1>3 DEF Knows, Keeps
<1>7. KeyStep(K, k, p, c) /\ NotLost(k, p, c)
  BY <1>0, <1>4, <1>5, <1>6, Row DEF KeyStep, NotLost
<1>8. QED
  BY <1>0, <1>7 DEF StepOf

LEMMA ResyncRow ==
  ASSUME NEW K \in Kinds, InvOf(K), NEW k \in Key, Resync(k),
         UNCHANGED <<kind, resources>>
  PROVE  StepOf(K, k)
<1>1. PassInv(Locations, Held, SpecOf[K], Statuses)'
  BY ResyncStep DEF InvOf
<1>2. cr' = [cr EXCEPT ![k] = cr[k]] /\ cr[k].exists
  BY DEF Resync, InvOf, PassInv
<1>3. NoDriftYet => Clean(cr[k].spec)
  BY <1>2, Row DEF Exact
<1>4. FiltersKept(K, k, cr[k])
  BY DEF FiltersKept
<1>5. QED
  BY <1>1, <1>2, <1>3, <1>4, QueuedRow DEF Resync

LEMMA Edits ==
  ASSUME spent \in Counts, Spend("edits")
  PROVE  /\ spent'.drifts = spent.drifts /\ spent'.faults = spent.faults
         /\ spent'.edits # spent.edits
BY DEF Spend, Counts

LEMMA WantedIs ==
  ASSUME NEW K \in Kinds, kind = K, NEW s \in Wanted
  PROVE  s \in SpecOf[K] /\ Clean(s)
BY TaggedSpecs DEF Wanted, Clean

LEMMA UserRow ==
  ASSUME NEW K \in Kinds, InvOf(K), NEW k \in Key, NEW s \in Wanted,
         UserApply(k, s, NoStatus) \/ UserEdit(k, s),
         UNCHANGED <<kind, resources>>
  PROVE  StepOf(K, k)
<1>0. /\ kind = K /\ spent \in Counts /\ SoundCR(cr[k], SpecOf[K], Statuses)
      /\ NoDriftYet /\ cr[k].exists => Clean(cr[k].spec)
      /\ Spend("edits") /\ pass' = pass /\ queued' = queued \cup {k}
  BY Row DEF Exact, UserApply, UserEdit
<1>1. /\ spent'.drifts = spent.drifts /\ spent'.faults = spent.faults
      /\ \A c : FiltersKept(K, k, c)
  BY <1>0, Edits DEF FiltersKept
<1>2. s \in SpecOf[K] /\ Clean(s) /\ NoStatus \in Statuses
  BY <1>0, WantedIs, IdsDiffer
<1>3. CASE UserApply(k, s, NoStatus)
  <2>1. PassInv(Locations, Held, SpecOf[K], Statuses)'
    BY <1>2, <1>3, UserApplyStep DEF InvOf
  <2> DEFINE c == FreshCR(s, NoStatus)
  <2>2. c.exists /\ ~c.finalizer /\ c.status = NoStatus /\ c.spec = s
    BY DEF FreshCR
  <2>3. cr' = [cr EXCEPT ![k] = c] /\ ~cr[k].finalizer
    BY <1>0, <1>3 DEF UserApply, SoundCR
  <2>4. c.finalizer = cr[k].finalizer
    <3>1. c.finalizer = FALSE
      BY DEF FreshCR
    <3>2. cr[k].finalizer = FALSE
      BY <1>0, <1>3, AbsentCR DEF SoundCR, UserApply
    <3>3. QED
      BY <3>1, <3>2
  <2> HIDE DEF c
  <2>5. QED
    BY <1>0, <1>1, <1>2, <2>1, <2>2, <2>3, <2>4, QueuedRow
<1>4. CASE UserEdit(k, s)
  <2>1. PassInv(Locations, Held, SpecOf[K], Statuses)'
    BY <1>2, <1>4, UserEditStep DEF InvOf
  <2> DEFINE c == [cr[k] EXCEPT !.spec = s]
  <2>2. cr' = [cr EXCEPT ![k] = c] /\ cr[k].exists
    BY <1>4 DEF UserEdit, InvOf, PassInv
  <2>3. c.exists /\ c.finalizer = cr[k].finalizer /\ c.status = cr[k].status
        /\ c.spec = s
    BY <1>0, <1>2, <2>2, RespecIsCR DEF SoundCR
  <2> HIDE DEF c
  <2>4. QED
    BY <1>0, <1>1, <1>2, <2>1, <2>2, <2>3, QueuedRow
<1>5. QED
  BY <1>3, <1>4

LEMMA UserDeleteRow ==
  ASSUME NEW K \in Kinds, InvOf(K), NEW k \in Key, UserDelete(k),
         UNCHANGED <<kind, resources>>
  PROVE  StepOf(K, k)
<1>0. /\ spent \in Counts /\ SoundCR(cr[k], SpecOf[K], Statuses)
      /\ NoDriftYet /\ cr[k].exists => Clean(cr[k].spec)
      /\ Spend("edits") /\ pass' = pass /\ queued' = queued \cup {k}
  BY Row DEF Exact, UserDelete
<1>1. /\ spent'.drifts = spent.drifts /\ spent'.faults = spent.faults
      /\ \A c : FiltersKept(K, k, c)
  BY <1>0, Edits DEF FiltersKept
<1>2. PassInv(Locations, Held, SpecOf[K], Statuses)' /\ cr[k].exists
  BY UserDeleteStep DEF InvOf, UserDelete
<1>3. cr[k] \in [exists : {TRUE}, spec : SpecOf[K], status : Statuses,
        deleting : BOOLEAN, finalizer : BOOLEAN, cond : Conditions]
  BY <1>0, <1>2, ExistingCR DEF SoundCR
<1>4. CASE cr[k].finalizer
  <2> DEFINE c == [cr[k] EXCEPT !.deleting = TRUE]
  <2>1. cr' = [cr EXCEPT ![k] = c]
    BY <1>4 DEF UserDelete, InvOf, PassInv
  <2>2. c.exists /\ c.finalizer = cr[k].finalizer /\ c.status = cr[k].status
        /\ c.spec = cr[k].spec
    BY <1>2, <1>3
  <2> HIDE DEF c
  <2>3. QED
    BY <1>0, <1>1, <1>2, <2>1, <2>2, QueuedRow
<1>5. CASE ~cr[k].finalizer
  <2>1. cr' = [cr EXCEPT ![k] = NoCR]
    BY <1>5 DEF UserDelete, InvOf, PassInv
  <2>2. ~NoCR.exists /\ NoCR.status = Nil /\ NoCR.finalizer = FALSE
    BY DEF NoCR
  <2>3. NoCR.finalizer = cr[k].finalizer
    BY <1>3, <1>5, <2>2
  <2>4. QED
    BY <1>0, <1>1, <1>2, <1>5, <2>1, <2>2, <2>3, QueuedRow
<1>6. QED
  BY <1>4, <1>5

-----------------------------------------------------------------------------
(* What happens in AWS by itself, restarts, and the beginning.             *)

LEMMA KeyNext ==
  ASSUME NEW K \in Kinds, InvOf(K), NEW k \in Key, Handlers(k) \/ Environment(k)
  PROVE  StepOf(K, k)
<1>1. CASE Other(k)
  BY <1>1, StartRow, ManageRow, UnmanageRow, FinishRow DEF Other
<1>2. CASE ReadOne(k)
  BY <1>2, sdkFindStep, ReadTagsStep DEF ReadOne
<1>3. CASE Create(k)
  BY <1>3, sdkCreateStep DEF Create
<1>4. CASE Update(k)
  BY <1>4, UntagResourceStep, TagResourceStep, sdkUpdateStep DEF Update, SyncTags
<1>5. CASE WriteBack(k)
  BY <1>5, WriteBackStep
<1>6. CASE Delete(k)
  BY <1>6, sdkDeleteStep DEF Delete
<1>7. CASE Environment(k)
  BY <1>7, CallFailsRow, ResyncRow, UserRow, UserDeleteRow DEF Environment
<1>8. QED
  BY <1>1, <1>2, <1>3, <1>4, <1>5, <1>6, <1>7 DEF Handlers

(* Nothing comes into being, and what was read stays as it was read; before*)
(* the first drift, everything that counts stays.                          *)
AwsStep(K) ==
  /\ UNCHANGED <<cr, pass, queued, kind>>
  /\ spent' \in Counts /\ spent'.faults = spent.faults
  /\ resources' \in Seq(Resource(K)) /\ DOMAIN resources' = DOMAIN resources
  /\ \A n \in DOMAIN resources :
       /\ resources'[n].exists => resources[n].exists
       /\ resources'[n].by = resources[n].by
       /\ \A f \in ReadFields(K) : resources'[n].has[f] = resources[n].has[f]
  /\ spent'.drifts = 0 =>
       /\ NoDriftYet
       /\ \A n \in DOMAIN resources : /\ resources'[n].exists = resources[n].exists
                                      /\ resources'[n].has = resources[n].has

LEMMA AwsRow ==
  ASSUME NEW K \in Kinds, NEW p, NEW c, NEW rs, NEW rt, NEW q,
         SoundPass(p, c, Locations, Held, SpecOf[K], Statuses),
         \A n \in Nat : Knows(p, c, n) => n \in DOMAIN rs,
         DOMAIN rt = DOMAIN rs, DOMAIN rs \subseteq Nat,
         \A n \in DOMAIN rs :
           /\ rt[n].exists => rs[n].exists
           /\ \A f \in ReadFields(K) : rt[n].has[f] = rs[n].has[f],
         Steady(p, c, rs), Seen(K, p, rs)
  PROVE  /\ Steady(p, c, rt) /\ Seen(K, p, rt)
         /\ /\ \A n \in DOMAIN rs : rt[n].exists = rs[n].exists /\ rt[n].has = rs[n].has
            /\ Exact(K, p, c, rs, q)
            => Exact(K, p, c, rt, q)
<1>1. \A st : /\ Gone(st, rs) => Gone(st, rt)
              /\ There(st, rt) => There(st, rs)
  BY DEF Gone, There
<1>2. Steady(p, c, rt)
  BY <1>1 DEF Steady, SteadyPass
<1>3. p.pc # "idle" /\ p.latest.status # NoStatus =>
        p.latest.status.id \in DOMAIN rs
  BY IdsDiffer DEF Knows, SoundPass
<1>4. Seen(K, p, rt)
  <2>1. p.pc \in {"tags", "untag", "tag", "update"} =>
          p.latest.status.id \in DOMAIN rs
    BY <1>3 DEF Steady, SteadyPass
  <2>2. p.pc \in {"tags", "untag", "tag", "update"} =>
          \A f \in ReadFields(K) : Has(p, rt)[f] = Has(p, rs)[f]
    BY <2>1 DEF Has
  <2>3. QED
    BY <2>2 DEF Seen
<1>5. ASSUME \A n \in DOMAIN rs : rt[n].exists = rs[n].exists /\ rt[n].has = rs[n].has,
             Exact(K, p, c, rs, q)
      PROVE  Exact(K, p, c, rt, q)
  <2>1. \A st : There(st, rs) => There(st, rt) /\ rt[st.id].has = rs[st.id].has
    BY <1>5 DEF There
  <2>2. p.latest.status.id \in DOMAIN rs => Has(p, rt) = Has(p, rs)
    BY <1>5 DEF Has
  <2>3. ASSUME p.pc # "idle" PROVE ExactPass(K, p, c, rt, q)
    <3>1. ExactPass(K, p, c, rs, q) /\ SteadyPass(p, c, rs)
      BY <1>5, <2>3 DEF Exact, Steady
    <3>2. \/ p.pc \in {"untag", "tag", "update", "writeback"}
          \/ p.pc \in {"read", "tags"} /\ p.why = "created"
          \/ p.pc = "finish" /\ p.outcome = "Synced" /\ ~q
          => p.latest.status.id \in DOMAIN rs
      BY <1>3, <2>3, <3>1 DEF SteadyPass, Fresh, ExactPass, There
    <3>3. QED
      BY <2>1, <2>2, <3>1, <3>2 DEF ExactPass
  <2>4. p.pc = "idle" => Exact(K, p, c, rt, q)
    BY <1>5, <2>1 DEF Exact
  <2>5. QED
    BY <1>5, <2>3, <2>4 DEF Exact
<1>6. QED
  BY <1>2, <1>4, <1>5

LEMMA AwsKeepsInv ==
  ASSUME NEW K \in Kinds, InvOf(K), AwsStep(K)
  PROVE  InvOf(K)'
<1>0. /\ kind' = K /\ resources' \in Seq(Resource(K))
      /\ cr' = cr /\ pass' = pass /\ queued' = queued
      /\ resources \in Seq(Resource(K)) /\ DOMAIN resources \subseteq Nat
  BY Lens DEF InvOf, AwsStep
<1>1. PassInv(Locations, Held, SpecOf[K], Statuses)'
  BY NoStep DEF InvOf, AwsStep, PassInv
<1>2. Own'
  BY <1>0 DEF InvOf, Own, AwsStep, Knows
<1>3. ASSUME NEW k \in Key
      PROVE  /\ Steady(pass[k], cr[k], resources')
             /\ Seen(K, pass[k], resources')
             /\ NoDriftYet' => Exact(K, pass[k], cr[k], resources', k \in queued)
  <2> DEFINE q == k \in queued
  <2>1. \A n \in Nat : Knows(pass[k], cr[k], n) => n \in DOMAIN resources
    BY DEF InvOf, Own
  <2>2. NoDriftYet => Exact(K, pass[k], cr[k], resources, q)
    BY Row
  <2> HIDE DEF q
  <2> DEFINE rt == resources'
  <2>3. /\ DOMAIN rt = DOMAIN resources
        /\ \A n \in DOMAIN resources :
             /\ rt[n].exists => resources[n].exists
             /\ \A f \in ReadFields(K) : rt[n].has[f] = resources[n].has[f]
        /\ NoDriftYet' =>
             /\ NoDriftYet
             /\ \A n \in DOMAIN resources : /\ rt[n].exists = resources[n].exists
                                            /\ rt[n].has = resources[n].has
    BY DEF AwsStep, NoDriftYet
  <2> HIDE DEF rt
  <2>4. /\ Steady(pass[k], cr[k], rt) /\ Seen(K, pass[k], rt)
        /\ NoDriftYet' => Exact(K, pass[k], cr[k], rt, q)
    BY <1>0, <2>1, <2>2, <2>3, Row, AwsRow
  <2>5. QED
    BY <2>4 DEF q, rt
<1>4. NoDriftYet' => \A n \in DOMAIN resources' : Clean(resources'[n].has)
  BY DEF InvOf, AwsStep, NoDriftYet
<1>5. QED
  BY <1>0, <1>1, <1>2, <1>3, <1>4 DEF InvOf

(* One resource changes, but not what it is asked for.                     *)
LEMMA AwsChange ==
  ASSUME NEW K \in Kinds, InvOf(K), NEW n \in DOMAIN resources,
         NEW has \in SpecOf[K], NEW busy \in BOOLEAN, NEW exists \in BOOLEAN,
         resources' = [resources EXCEPT ![n] =
           [exists |-> exists, by |-> resources[n].by, busy |-> busy, has |-> has]],
         exists => resources[n].exists,
         \A f \in ReadFields(K) : has[f] = resources[n].has[f],
         UNCHANGED <<cr, pass, queued, kind>>,
         spent' \in Counts, spent'.faults = spent.faults,
         spent'.drifts = 0 => /\ NoDriftYet /\ exists = resources[n].exists
                              /\ has = resources[n].has
  PROVE  AwsStep(K)
<1> DEFINE r == [exists |-> exists, by |-> resources[n].by, busy |-> busy,
                 has |-> has]
           rt == resources'
<1>1. resources \in Seq(Resource(K))
  BY Row DEF InvOf
<1>2. resources[n] \in Resource(K)
  BY <1>1, Lens
<1>3. r \in Resource(K)
  BY <1>2 DEF Resource
<1>4. /\ r.exists = exists /\ r.by = resources[n].by /\ r.has = has
      /\ rt = [resources EXCEPT ![n] = r]
  OBVIOUS
<1> HIDE DEF r, rt
<1>5. /\ rt \in Seq(Resource(K)) /\ DOMAIN rt = DOMAIN resources /\ rt[n] = r
      /\ \A m \in DOMAIN resources : m # n => rt[m] = resources[m]
  BY <1>1, <1>3, <1>4, OneChanges
<1>6. QED
  BY <1>4, <1>5 DEF AwsStep, rt

LEMMA BecomesIs ==
  ASSUME NEW K \in Kinds, InvOf(K), NEW n \in DOMAIN resources, NEW has, NEW busy,
         Becomes(n, has, busy)
  PROVE  resources' = [resources EXCEPT ![n] =
           [exists |-> resources[n].exists, by |-> resources[n].by,
            busy |-> busy, has |-> has]]
<1> DEFINE x == resources[n]
<1>1. x = [exists |-> x.exists, by |-> x.by, busy |-> x.busy, has |-> x.has]
  BY Lens DEF InvOf
<1> HIDE DEF x
<1>2. ASSUME NEW y, y = [x EXCEPT !.has = has, !.busy = busy]
      PROVE  y = [exists |-> x.exists, by |-> x.by, busy |-> busy, has |-> has]
  BY <1>1, <1>2
<1>3. QED
  BY <1>2 DEF Becomes, x

LEMMA SettleStep ==
  ASSUME NEW K \in Kinds, InvOf(K), Settle PROVE AwsStep(K)
<1>1. PICK n \in DOMAIN resources : Becomes(n, resources[n].has, FALSE)
  BY DEF Settle
<1>2. /\ resources[n].has \in SpecOf[K] /\ resources[n].exists \in BOOLEAN
      /\ spent \in Counts
  BY Lens DEF InvOf, PassInv
<1>3. UNCHANGED <<cr, pass, queued, kind, spent>>
  BY DEF Settle, passVars
<1> DEFINE x == resources[n]
           b == FALSE
<1>4. /\ resources' = [resources EXCEPT ![n] =
          [exists |-> x.exists, by |-> resources[n].by, busy |-> b, has |-> x.has]]
      /\ b \in BOOLEAN
  BY <1>1, BecomesIs
<1>5. /\ x.has = resources[n].has /\ x.exists = resources[n].exists
      /\ x.has \in SpecOf[K] /\ x.exists \in BOOLEAN
  BY <1>2
<1> HIDE DEF b, x
<1>6. QED
  BY <1>2, <1>3, <1>4, <1>5, AwsChange DEF NoDriftYet

LEMMA UseStep ==
  ASSUME NEW K \in Kinds, InvOf(K), Use PROVE AwsStep(K)
<1>1. PICK n \in DOMAIN resources :
        Becomes(n, resources[n].has, ~resources[n].busy)
  BY DEF Use
<1>2. /\ resources[n].has \in SpecOf[K] /\ resources[n].exists \in BOOLEAN
      /\ (~resources[n].busy) \in BOOLEAN /\ spent \in Counts
  BY Lens DEF InvOf, PassInv
<1>3. /\ UNCHANGED <<cr, pass, queued, kind>> /\ spent' \in Counts
      /\ spent'.faults = spent.faults /\ spent'.drifts = spent.drifts
  BY <1>2, Edits, SpendType DEF Use
<1> DEFINE x == resources[n]
           b == ~resources[n].busy
<1>4. /\ resources' = [resources EXCEPT ![n] =
          [exists |-> x.exists, by |-> resources[n].by, busy |-> b, has |-> x.has]]
      /\ b \in BOOLEAN
  BY <1>1, BecomesIs
<1>5. /\ x.has = resources[n].has /\ x.exists = resources[n].exists
      /\ x.has \in SpecOf[K] /\ x.exists \in BOOLEAN
  BY <1>2
<1> HIDE DEF b, x
<1>6. QED
  BY <1>2, <1>3, <1>4, <1>5, AwsChange DEF NoDriftYet

LEMMA DriftStep ==
  ASSUME NEW K \in Kinds, InvOf(K), Drift PROVE AwsStep(K)
<1>0. /\ UNCHANGED <<cr, pass, queued, kind>> /\ spent' \in Counts
      /\ spent'.faults = spent.faults /\ spent'.drifts # 0
      /\ kind = K
  <2>1. spent \in Counts /\ Spend("drifts")
    BY DEF InvOf, PassInv, Drift
  <2>2. spent' \in Counts
    BY <2>1, SpendType
  <2>3. spent'.faults = spent.faults /\ spent'.drifts # 0
    BY <2>1 DEF Spend, Counts
  <2>4. QED
    BY <2>2, <2>3 DEF Drift, InvOf
<1>1. PICK n \in DOMAIN resources :
        \/ resources' = [resources EXCEPT ![n].exists = FALSE]
        \/ \E t \in UserKey \cup SystemKey, v \in Value \cup {Nil} :
             /\ Exists(n)
             /\ Becomes(n, [resources[n].has EXCEPT !.tags[t] = v], resources[n].busy)
  BY DEF Drift
<1> DEFINE x == resources[n]
<1>2. /\ x = [exists |-> x.exists, by |-> x.by, busy |-> x.busy, has |-> x.has]
      /\ x.exists \in BOOLEAN /\ x.busy \in BOOLEAN /\ x.has \in SpecOf[K]
  BY Lens DEF InvOf
<1>3. CASE resources' = [resources EXCEPT ![n].exists = FALSE]
  <2>1. resources' = [resources EXCEPT ![n] = [x EXCEPT !.exists = FALSE]]
    BY <1>3
  <2> HIDE DEF x
  <2>2. ASSUME NEW y, y = [x EXCEPT !.exists = FALSE]
        PROVE  y = [exists |-> FALSE, by |-> x.by, busy |-> x.busy, has |-> x.has]
    BY <1>2, <2>2
  <2>3. resources' = [resources EXCEPT ![n] =
          [exists |-> FALSE, by |-> x.by, busy |-> x.busy, has |-> x.has]]
    BY <2>1, <2>2
  <2>4. QED
    BY <1>0, <1>2, <2>3, AwsChange DEF x
<1>4. CASE resources' # [resources EXCEPT ![n].exists = FALSE]
  <2>1. PICK t \in UserKey \cup SystemKey, v \in Value \cup {Nil} :
          Becomes(n, [x.has EXCEPT !.tags[t] = v], x.busy)
    BY <1>1, <1>4
  <2> DEFINE h == x.has
             tags == [h.tags EXCEPT ![t] = v]
             g == [h EXCEPT !.tags = tags]
  <2>2. h.tags \in Tags
    BY <1>2, SpecFields
  <2>3. tags \in Tags
    BY <2>2 DEF Tags
  <2>4. Becomes(n, g, x.busy)
    <3>1. [h EXCEPT !.tags[t] = v] = g
      BY <1>2, SpecDomain
    <3>2. QED
      BY <2>1, <3>1
  <2> HIDE DEF tags
  <2>5. g \in SpecOf[K] /\ \A f \in ReadFields(K) : g[f] = h[f]
    BY <1>2, <2>3, Retagged
  <2> HIDE DEF g
  <2>6. resources' = [resources EXCEPT ![n] =
          [exists |-> x.exists, by |-> x.by, busy |-> x.busy, has |-> g]]
    BY <2>4, BecomesIs
  <2>7. QED
    BY <1>0, <1>2, <2>5, <2>6, AwsChange
<1>5. QED
  BY <1>3, <1>4

LEMMA StutterStep ==
  ASSUME NEW K \in Kinds, InvOf(K), UNCHANGED vars PROVE AwsStep(K)
BY DEF AwsStep, InvOf, PassInv, vars, passVars, NoDriftYet

LEMMA CrashKeepsInv ==
  ASSUME NEW K \in Kinds, InvOf(K), Crash, UNCHANGED <<kind, resources>>
  PROVE  InvOf(K)'
<1>0. /\ IdlePass.pc = "idle" /\ cr' = cr /\ kind = K /\ DOMAIN cr = Key
      /\ \A k \in Key : pass'[k] = IdlePass /\ (k \in queued' <=> cr[k].exists)
      /\ NoDriftYet' <=> NoDriftYet
  <2>1. spent \in Counts /\ Spend("faults")
    BY DEF InvOf, PassInv, Crash
  <2>2. spent'.drifts = spent.drifts
    BY <2>1 DEF Spend, Counts
  <2>3. QED
    BY <2>2 DEF IdlePass, Crash, InvOf, NoDriftYet, PassInv
<1>1. PassInv(Locations, Held, SpecOf[K], Statuses)'
  BY CrashStep, CommonLocations DEF InvOf
<1>2. \A k \in Key, n \in Nat :
        Knows(pass'[k], cr'[k], n) => Knows(pass[k], cr[k], n)
  BY <1>0 DEF Knows
<1>3. Own'
  <2> SUFFICES ASSUME NEW i \in Key, NEW n \in Nat, Knows(pass'[i], cr'[i], n)
               PROVE  /\ n \in DOMAIN resources'
                      /\ \A j \in Key : Knows(pass'[j], cr'[j], n) => j = i
    BY DEF Own, Knows, Id
  <2>1. QED
    BY <1>2 DEF InvOf, Own
<1>4. ASSUME NEW k \in Key
      PROVE  /\ Steady(pass'[k], cr'[k], resources')
             /\ Seen(K, pass'[k], resources')
             /\ NoDriftYet' => Exact(K, pass'[k], cr'[k], resources', k \in queued')
  BY <1>0, Row DEF Steady, Seen, Exact
<1>5. /\ kind' = K /\ resources' \in Seq(Resource(K))
      /\ NoDriftYet' => \A n \in DOMAIN resources' : Clean(resources'[n].has)
  BY <1>0 DEF InvOf
<1>6. QED
  BY <1>1, <1>3, <1>4, <1>5 DEF InvOf

LEMMA NextCases ==
  ASSUME NEW K \in Kinds, InvOf(K), [Next]_vars
  PROVE  \/ \E k \in Key : StepOf(K, k)
         \/ AwsStep(K)
         \/ Crash /\ UNCHANGED <<kind, resources>>
BY KeyNext, SettleStep, UseStep, DriftStep, StutterStep DEF Next

LEMMA InvInductive ==
  ASSUME NEW K \in Kinds, InvOf(K), [Next]_vars
  PROVE  InvOf(K)'
BY NextCases, StepKeepsInv, AwsKeepsInv, CrashKeepsInv DEF StepOf

LEMMA InitKeepsInv == Init => Inv
<1> SUFFICES ASSUME Init PROVE InvOf(kind) /\ kind \in Kinds
  BY DEF Inv
<1> DEFINE K == kind
<1>0. K \in Kinds /\ PassInit(Wanted, NoStatus)
  BY DEF Init, Kinds
<1>1. Wanted \subseteq SpecOf[K] /\ NoStatus \in Statuses /\ "idle" \in Locations
  BY IdsDiffer DEF Wanted, Locations
<1> HIDE DEF K
<1>2. PassInv(Locations, Held, SpecOf[K], Statuses)
  BY <1>0, <1>1, InitInv
<1>3. ASSUME NEW k \in Key
      PROVE  /\ pass[k].pc = "idle" /\ cr[k].status = NoStatus /\ k \in queued
             /\ cr[k].spec \in Wanted
  BY <1>0 DEF PassInit, IdlePass, FreshCR
<1>4. resources \in Seq(Resource(K)) /\ \A n \in DOMAIN resources : Clean(resources[n].has)
  <2>1. CASE resources = <<>>
    BY <2>1
  <2>2. CASE resources # <<>>
    <3>1. PICK s \in Wanted :
            resources = <<[exists |-> TRUE, by |-> "other", busy |-> FALSE, has |-> s]>>
      BY <2>2 DEF Init
    <3> DEFINE x == [exists |-> TRUE, by |-> "other", busy |-> FALSE, has |-> s]
    <3>2. s \in SpecOf[K] /\ Clean(s)
      BY <1>0, WantedIs DEF K
    <3>3. x \in Resource(K) /\ x.has = s
      BY <3>2 DEF Resource
    <3> HIDE DEF x
    <3>4. resources = <<x>>
      BY <3>1 DEF x
    <3>5. QED
      BY <3>2, <3>3, <3>4
  <2>3. QED
    BY <2>1, <2>2
<1>5. Own
  BY <1>3, IdsDiffer DEF Own, Knows
<1>6. ASSUME NEW k \in Key
      PROVE  /\ Steady(pass[k], cr[k], resources) /\ Seen(K, pass[k], resources)
             /\ Exact(K, pass[k], cr[k], resources, k \in queued)
  <2>1. Clean(cr[k].spec)
    BY <1>0, <1>3, WantedIs DEF K
  <2>2. QED
    BY <1>3, <2>1 DEF Steady, Seen, Exact
<1>7. QED
  BY <1>0, <1>2, <1>4, <1>5, <1>6 DEF InvOf, K

LEMMA InvHolds == Spec => []Inv
<1>1. Inv /\ [Next]_vars => Inv'
  <2> SUFFICES ASSUME Inv, [Next]_vars PROVE Inv'
    OBVIOUS
  <2>1. PICK K \in Kinds : InvOf(K)
    BY DEF Inv
  <2>2. InvOf(K)'
    BY <2>1, InvInductive
  <2>3. QED
    BY <2>2 DEF Inv
<1>2. QED
  BY <1>1, InitKeepsInv, PTL DEF Spec

-----------------------------------------------------------------------------
(* What is lost.                                                           *)

LEMMA LostIs ==
  \A n : n \in Lost <=>
    /\ n \in DOMAIN resources /\ resources[n].exists /\ resources[n].by = "us"
    /\ \A k \in Key : ~Keeps(pass[k], cr[k], n)
BY DEF Lost, Exists, Keeps, Id, Idle, At

LEMMA LostNext ==
  \A n : n \in Lost' =>
    /\ n \in DOMAIN resources' /\ resources'[n].exists /\ resources'[n].by = "us"
    /\ \A k \in Key : ~Keeps(pass'[k], cr'[k], n)
BY DEF Lost, Exists, Keeps, Id, Idle, At

(* What a step of a key loses: at most what its creation just made.        *)
LEMMA StepLoses ==
  ASSUME NEW K \in Kinds, InvOf(K), NEW k \in Key, StepOf(K, k)
  PROVE  /\ Lost' \subseteq Lost \cup {Len(resources) + 1}
         /\ \/ spent'.faults = spent.faults /\ Lost' \subseteq Lost
            \/ spent'.faults = spent.faults + 1
<1>1. PICK p, c : KeyStep(K, k, p, c) /\ NotLost(k, p, c)
  BY DEF StepOf
<1>2. /\ pass'[k] = p /\ cr'[k] = c
      /\ \A j \in Key \ {k} : pass'[j] = pass[j] /\ cr'[j] = cr[j]
  BY <1>1, Row DEF KeyStep
<1>3. ResourceStep(K, k)
  BY DEF StepOf
<1>4. ASSUME NEW n \in Lost'
      PROVE  /\ n \in DOMAIN resources' /\ ~Keeps(p, c, n)
             /\ n \in DOMAIN resources => n \in Lost
  <2>1. /\ n \in DOMAIN resources' /\ resources'[n].exists
        /\ resources'[n].by = "us"
        /\ \A j \in Key : ~Keeps(pass'[j], cr'[j], n)
    BY <1>4, LostNext
  <2>2. ~Keeps(p, c, n)
    BY <1>2, <2>1
  <2>3. ASSUME n \in DOMAIN resources PROVE n \in Lost
    <3>1. resources[n].exists /\ resources[n].by = "us"
      BY <1>3, <2>1, <2>3 DEF ResourceStep
    <3>2. ~Keeps(pass[k], cr[k], n)
      BY <1>1, <2>1, <2>2, <2>3 DEF NotLost
    <3>3. \A j \in Key \ {k} : ~Keeps(pass[j], cr[j], n)
      BY <1>2, <2>1
    <3>4. QED
      BY <2>3, <3>1, <3>2, <3>3, LostIs
  <2>4. QED
    BY <2>1, <2>2, <2>3
<1>5. Lost' \subseteq Lost \cup {Len(resources) + 1}
  BY <1>3, <1>4 DEF ResourceStep
<1>6. QED
  BY <1>1, <1>4, <1>5 DEF NotLost

LEMMA AwsLoses ==
  ASSUME NEW K \in Kinds, InvOf(K), AwsStep(K)
  PROVE  Lost' \subseteq Lost /\ spent'.faults = spent.faults
<1> SUFFICES ASSUME NEW n \in Lost' PROVE n \in Lost
  BY DEF AwsStep
<1>1. /\ n \in DOMAIN resources' /\ resources'[n].exists
      /\ resources'[n].by = "us"
      /\ \A j \in Key : ~Keeps(pass'[j], cr'[j], n)
  BY LostNext
<1>2. QED
  BY <1>1, LostIs DEF AwsStep

(* What the passes were working on when the controller went down.          *)
InHand == {pass[k].latest.status.id : k \in Key}

LEMMA CrashLoses ==
  ASSUME NEW K \in Kinds, InvOf(K), Crash, UNCHANGED <<kind, resources>>
  PROVE  /\ Lost' \subseteq Lost \cup InHand
         /\ spent'.faults = spent.faults + 1
<1>1. spent'.faults = spent.faults + 1
  BY DEF Crash, Spend, InvOf, PassInv, Counts
<1> SUFFICES ASSUME NEW n \in Lost', n \notin InHand PROVE n \in Lost
  BY <1>1
<1>2. /\ n \in DOMAIN resources /\ resources[n].exists
      /\ resources[n].by = "us"
      /\ \A j \in Key : cr[j].status # Id(n)
  BY LostNext DEF Keeps, Crash
<1>3. \A j \in Key : pass[j].latest.status # Id(n)
  BY DEF InHand, Id
<1>4. QED
  BY <1>2, <1>3, LostIs DEF Keeps

LEMMA InHandIsSmall ==
  IsFiniteSet(InHand) /\ Cardinality(InHand) =< Cardinality(Key)
<1> DEFINE f == [k \in Key |-> pass[k].latest.status.id]
<1>1. f \in Surjection(Key, InHand)
  BY DEF Surjection, InHand
<1> HIDE DEF f
<1>2. QED
  BY <1>1, TaggedKeys, FS_Surjection

LossInv == IsFiniteSet(Lost) /\ LossesAreBounded

LEMMA FewerAreLost ==
  ASSUME LossInv, spent.faults \in Nat, Lost' \subseteq Lost,
         spent'.faults = spent.faults
  PROVE  LossInv'
<1> DEFINE B == Lost'
           m == spent.faults * Cardinality(Key)
<1>1. IsFiniteSet(B) /\ Cardinality(B) =< Cardinality(Lost)
  BY FS_Subset DEF LossInv
<1>2. Cardinality(B) \in Nat /\ Cardinality(Lost) \in Nat
      /\ Cardinality(Key) \in Nat
  BY <1>1, FS_CardinalityType, TaggedKeys DEF LossInv
<1>3. m \in Nat /\ Cardinality(Lost) =< m
  BY <1>2 DEF LossInv, LossesAreBounded
<1> HIDE DEF m
<1>4. Cardinality(B) =< m
  BY <1>1, <1>2, <1>3
<1>5. QED
  BY <1>1, <1>4 DEF LossInv, LossesAreBounded, m

LEMMA MoreAreLost ==
  ASSUME LossInv, spent.faults \in Nat, NEW X, IsFiniteSet(X),
         Cardinality(X) =< Cardinality(Key), Lost' \subseteq Lost \cup X,
         spent'.faults = spent.faults + 1
  PROVE  LossInv'
<1> DEFINE B == Lost'
           c == Cardinality(Key)
           f == spent.faults
<1>1. c \in Nat /\ f \in Nat /\ Cardinality(X) =< c
  BY FS_CardinalityType, TaggedKeys
<1>2. IsFiniteSet(Lost) /\ Cardinality(Lost) =< f * c /\ B \subseteq Lost \cup X
  BY DEF LossInv, LossesAreBounded
<1> HIDE DEF B, c, f
<1>3. IsFiniteSet(B) /\ Cardinality(B) =< (f + 1) * c
  BY <1>1, <1>2, MoreAreBounded
<1>4. QED
  BY <1>3 DEF LossInv, LossesAreBounded, B, c, f

LEMMA LossInvInductive ==
  ASSUME NEW K \in Kinds, InvOf(K), LossInv, [Next]_vars
  PROVE  LossInv'
<1>0. spent.faults \in Nat
  BY DEF InvOf, PassInv, Counts
<1>1. CASE \E k \in Key : StepOf(K, k)
  <2>1. PICK k \in Key : StepOf(K, k)
    BY <1>1
  <2> DEFINE X == {Len(resources) + 1}
  <2>2. IsFiniteSet(X) /\ Cardinality(X) = 1
    BY FS_Singleton
  <2>3. Cardinality(Key) \in Nat /\ Cardinality(Key) # 0
    BY TaggedKeys, FS_CardinalityType, FS_EmptySet
  <2>4. Cardinality(X) =< Cardinality(Key)
    BY <2>2, <2>3
  <2> HIDE DEF X
  <2>5. /\ Lost' \subseteq Lost \cup X
        /\ \/ spent'.faults = spent.faults /\ Lost' \subseteq Lost
           \/ spent'.faults = spent.faults + 1
    BY <2>1, StepLoses DEF X
  <2>6. QED
    BY <1>0, <2>2, <2>4, <2>5, FewerAreLost, MoreAreLost
<1>2. CASE AwsStep(K)
  BY <1>0, <1>2, AwsLoses, FewerAreLost
<1>3. CASE Crash /\ UNCHANGED <<kind, resources>>
  BY <1>0, <1>3, CrashLoses, InHandIsSmall, MoreAreLost
<1>4. QED
  BY <1>1, <1>2, <1>3, NextCases

LEMMA NothingIsLostAtFirst == Init => LossInv
<1> SUFFICES ASSUME Init PROVE LossInv
  OBVIOUS
<1>1. \A n \in DOMAIN resources : resources[n].by # "us"
  <2>1. CASE resources = <<>>
    BY <2>1
  <2>2. CASE resources # <<>>
    <3>1. PICK s \in Wanted :
            resources = <<[exists |-> TRUE, by |-> "other", busy |-> FALSE, has |-> s]>>
      BY <2>2 DEF Init
    <3>2. QED
      BY <3>1
  <2>3. QED
    BY <2>1, <2>2
<1>2. Lost = {}
  BY <1>1 DEF Lost
<1>3. Cardinality(Lost) = 0 /\ IsFiniteSet(Lost)
  BY <1>2, FS_EmptySet
<1>4. spent.faults = 0
  BY DEF Init, PassInit
<1>5. Cardinality(Key) \in Nat
  BY FS_CardinalityType, TaggedKeys
<1>6. QED
  BY <1>3, <1>4, <1>5 DEF LossInv, LossesAreBounded

-----------------------------------------------------------------------------
(* The variables are of their types: a spec has the fields of its kind, a  *)
(* status an id or none, and the pass is where the reconciler can be.      *)
THEOREM TypeCorrect == Spec => []TypeOK
<1>1. Inv => TypeOK
  <2> SUFFICES ASSUME Inv PROVE TypeOK
    OBVIOUS
  <2>1. PICK K \in Kinds : InvOf(K)
    BY DEF Inv
  <2>2. kind = K /\ K \in DOMAIN SpecOf /\ resources \in Seq(Resource(K))
        /\ PassTypeOK(Locations, SpecOf[K], Statuses)
    BY <2>1, InvGivesType DEF InvOf, Kinds
  <2>3. QED
    BY <2>2 DEF TypeOK
<1>2. QED
  BY <1>1, InvHolds, PTL

(* No step of the controller, of AWS or of a restart brings back filters   *)
(* that a user has removed: filterCriteriasDeleted sends the empty list, so*)
(* that the answer that is written back has none.                          *)
THEOREM RemovedFiltersStayRemoved == Spec => FilterRemovalsAreKept
<1>1. ASSUME Inv, [Next]_vars, NEW k \in Key, kind = "EventSourceMapping",
             spent'.edits = spent.edits, cr[k].exists, cr'[k].exists,
             cr[k].spec.filters = Nil
      PROVE  cr'[k].spec.filters = Nil
  <2>1. PICK K \in Kinds : InvOf(K)
    BY <1>1 DEF Inv
  <2>2. K = "EventSourceMapping" /\ DOMAIN cr = Key
    BY <1>1, <2>1 DEF InvOf, PassInv
  <2>3. CASE \E j \in Key : StepOf(K, j)
    <3>0. PICK j \in Key : StepOf(K, j)
      BY <2>3
    <3>1. PICK p, c : KeyStep(K, j, p, c) /\ FiltersKept(K, j, c)
      BY <3>0 DEF StepOf
    <3>2. cr' = [cr EXCEPT ![j] = c]
      BY <3>1 DEF KeyStep
    <3>3. CASE j = k
      BY <1>1, <2>2, <3>1, <3>2, <3>3 DEF FiltersKept
    <3>4. CASE j # k
      BY <1>1, <2>2, <3>2, <3>4
    <3>5. QED
      BY <3>3, <3>4
  <2>4. CASE AwsStep(K) \/ Crash
    BY <1>1, <2>4 DEF AwsStep, Crash
  <2>5. QED
    BY <1>1, <2>1, <2>3, <2>4, NextCases
<1>2. Inv /\ [Next]_vars =>
        [\A k \in Key :
           /\ kind = "EventSourceMapping" /\ spent'.edits = spent.edits
           /\ cr[k].exists /\ cr'[k].exists /\ cr[k].spec.filters = Nil
           => cr'[k].spec.filters = Nil]_vars
  BY <1>1
<1>3. QED
  BY <1>2, InvHolds, PTL DEF Spec, FilterRemovalsAreKept

(* A CR at rest that says Synced has in AWS the fields and the tags that it*)
(* asks for: a failure between UntagResource and TagResource, or before the*)
(* update, leaves no condition that claims otherwise.                      *)
THEOREM SyncedIsApplied == Spec => []SyncedMeansApplied
<1>1. Inv => SyncedMeansApplied
  <2> SUFFICES ASSUME Inv, NoDriftYet, NEW k \in Key, Rests(k), cr[k].exists,
                      cr[k].cond = "Synced"
               PROVE  Applied(k)
    BY DEF SyncedMeansApplied
  <2>1. PICK K \in Kinds : InvOf(K)
    BY DEF Inv
  <2>2. /\ There(cr[k].status, resources)
        /\ Same(K, cr[k].spec, resources[cr[k].status.id].has)
    BY <2>1, Row DEF Rests, Idle, At, Exact
  <2>3. cr[k].spec \in SpecOf[K]
    BY <2>1, Row, ExistingCR DEF SoundCR
  <2>4. DOMAIN cr[k].spec \ {"tags", "function"} \subseteq ReadFields(K)
    BY <2>3, SpecDomain DEF ReadFields
  <2>5. QED
    BY <2>2, <2>4 DEF Applied, Exists, There, Same, SameTags
<1>2. QED
  BY <1>1, InvHolds, PTL

(* Only a creation whose answer is lost, and a restart while passes hold an*)
(* id that their CRs do not have yet, leave something in AWS that nothing  *)
(* will delete: one per CR at most each time.                              *)
THEOREM LossesAreFew == Spec => []LossesAreBounded
<1>1. Inv /\ LossInv /\ [Next]_vars => LossInv'
  <2> SUFFICES ASSUME Inv, LossInv, [Next]_vars PROVE LossInv'
    OBVIOUS
  <2>1. PICK K \in Kinds : InvOf(K)
    BY DEF Inv
  <2>2. QED
    BY <2>1, LossInvInductive
<1>2. LossInv => LossesAreBounded
  BY DEF LossInv
<1>3. QED
  BY <1>1, <1>2, NothingIsLostAtFirst, InvHolds, PTL DEF Spec

-----------------------------------------------------------------------------
(* Nothing is forgotten.                                                   *)

Work == Held \cup {"manage"}

LEMMA WorkIsApart == SetApart(Work)
BY DEF SetApart, Work, Held

LEMMA ShapeIs == ASSUME Inv PROVE \E K \in Kinds : Shaped(SpecOf[K], Statuses)
<1>1. PICK K \in Kinds : PassInv(Locations, Held, SpecOf[K], Statuses)
  BY DEF Inv, InvOf
<1>2. QED
  BY <1>1, InvGivesShape

LEMMA FieldsOfPass ==
  ASSUME Inv, NEW k \in Key
  PROVE  /\ k \in DOMAIN pass
         /\ DOMAIN pass[k] =
              {"pc", "why", "desired", "latest", "found", "todo", "outcome"}
BY ShapeIs, PassFields

LEMMA Finalized ==
  ASSUME Inv, NEW k \in Key, ~Idle(k)
  PROVE  /\ IsManaged(k) => cr[k].finalizer
         /\ pass[k].why = "created" => cr[k].finalizer
         /\ pass[k].pc \in Held => cr[k].finalizer
         /\ cr[k].finalizer => cr[k].exists
<1>1. PICK K \in Kinds : PassInv(Locations, Held, SpecOf[K], Statuses)
  BY DEF Inv, InvOf
<1>2. QED
  BY <1>1 DEF PassInv, SoundPass, SoundCR, IsManaged, Idle, At

LEMMA MovingWorks ==
  ASSUME Inv, NEW k \in Key, ~Idle(k), NEW p, pass' = [pass EXCEPT ![k] = p],
         UNCHANGED <<cr, queued>>, p.pc # "idle",
         pass[k].why = "delete" => p.why = "delete" /\ p.pc \notin Work,
         pass[k].why # "delete" => p.why # "delete",
         p.pc = "finish" => Ended(p, cr[k])
  PROVE  Works(k, Work)
BY ShapeIs, MoveWorks DEF Idle, At

LEMMA RefusedWorks ==
  ASSUME Inv, NEW k \in Key, ~Idle(k), EndPass(k, "Recoverable"),
         UNCHANGED <<cr, queued>>
  PROVE  Works(k, Work)
BY ShapeIs, WorkIsApart, EndWorks

LEMMA AnsweredWorks ==
  ASSUME Inv, NEW k \in Key, ~Idle(k), NEW p, Answered(p, k),
         UNCHANGED <<cr, queued>>, p.pc # "idle",
         pass[k].why = "delete" => p.why = "delete" /\ p.pc \notin Work,
         pass[k].why # "delete" => p.why # "delete",
         p.pc = "finish" => Ended(p, cr[k])
  PROVE  Works(k, Work)
BY MovingWorks, RefusedWorks DEF Answered

LEMMA FindWorks ==
  ASSUME Inv, NEW k \in Key, sdkFind(k) PROVE Works(k, Work)
<1>1. ~Idle(k) /\ UNCHANGED <<cr, queued>>
  BY DEF sdkFind, Idle, At
<1>2. CASE NotFound(k)
  BY <1>1, <1>2, ShapeIs, WorkIsApart, NotFoundWorks
<1>3. CASE ~NotFound(k)
  <2> DEFINE s == Observed(Subject(k))
             q == [pass[k] EXCEPT !.pc = "tags", !.latest = s]
  <2>1. Continue(k, "tags", s)
    BY <1>3 DEF sdkFind
  <2> HIDE DEF s
  <2>2. pass' = [pass EXCEPT ![k] = q] /\ q.pc = "tags" /\ q.why = pass[k].why
    BY <2>1, FieldsOfPass DEF Continue
  <2> HIDE DEF q
  <2>3. QED
    BY <1>1, <2>2, MovingWorks DEF Work, Held
<1>4. QED
  BY <1>2, <1>3

LEMMA ReadTagsWorks ==
  ASSUME Inv, NEW k \in Key, ReadTags(k) PROVE Works(k, Work)
<1>1. ~Idle(k) /\ UNCHANGED <<cr, queued>>
  BY DEF ReadTags, Idle, At
<1>2. CASE EndPass(k, "Recoverable")
  BY <1>1, <1>2, RefusedWorks
<1>3. CASE ~EndPass(k, "Recoverable")
  <2> DEFINE q(l, o, t, d, s) == [pass[k] EXCEPT !.pc = l, !.outcome = o, !.todo = t,
                                                 !.desired = d, !.latest = s]
  <2>1. PICK l, o, t, d, s :
          /\ pass' = [pass EXCEPT ![k] = q(l, o, t, d, s)]
          /\ \/ pass[k].why = "created" /\ l = "finish" /\ o = "Synced"
             \/ pass[k].why = "delete" /\ l = "delete"
             \/ pass[k].why = "sync" /\ l = "finish" /\ o = "Terminal"
             \/ pass[k].why = "sync" /\ IsManaged(k) /\ l = "finish" /\ o = "Synced"
             \/ pass[k].why = "sync" /\ l \in {"untag", "update"}
    <3> DEFINE n == pass[k].latest.status.id
               latest == [pass[k].latest EXCEPT !.spec.tags = GetTags(n)]
               desired == [pass[k].desired EXCEPT
                             !.spec.tags = syncAWSTags(@, GetTags(n))]
               delta == newResourceDelta(desired.spec, latest.spec)
               next(l, o) ==
                 pass' = [pass EXCEPT ![k].pc = l, ![k].outcome = o, ![k].todo = delta,
                                      ![k].desired = desired, ![k].latest = latest]
    <3>1. \/ pass[k].why = "created" /\ next("finish", "Synced")
          \/ pass[k].why = "delete" /\ next("delete", "Unknown")
          \/ pass[k].why = "sync" /\ next("finish", "Terminal")
          \/ pass[k].why = "sync" /\ IsManaged(k) /\ next("finish", "Synced")
          \/ pass[k].why = "sync" /\ (next("untag", "Unknown") \/ next("update", "Unknown"))
      BY <1>3 DEF ReadTags
    <3> HIDE DEF latest, desired, delta, n
    <3> DEFINE moved(l, o) ==
                 pass' = [pass EXCEPT ![k] = q(l, o, delta, desired, latest)]
    <3>2. ASSUME NEW l, NEW o, next(l, o) PROVE moved(l, o)
      BY <3>2, FieldsOfPass
    <3> HIDE DEF q, next, moved
    <3>3. \/ pass[k].why = "created" /\ moved("finish", "Synced")
          \/ pass[k].why = "delete" /\ moved("delete", "Unknown")
          \/ pass[k].why = "sync" /\ moved("finish", "Terminal")
          \/ pass[k].why = "sync" /\ IsManaged(k) /\ moved("finish", "Synced")
          \/ /\ pass[k].why = "sync"
             /\ moved("untag", "Unknown") \/ moved("update", "Unknown")
      BY <3>1, <3>2
    <3>4. QED
      BY <3>3, Zenon DEF moved
  <2> DEFINE r == q(l, o, t, d, s)
  <2>2. r.pc = l /\ r.outcome = o /\ r.why = pass[k].why
    BY FieldsOfPass
  <2>3. pass' = [pass EXCEPT ![k] = r]
    BY <2>1
  <2> HIDE DEF r
  <2>4. IsManaged(k) \/ pass[k].why = "created" => cr[k].finalizer
    BY <1>1, Finalized
  <2>5. /\ r.pc # "idle"
        /\ pass[k].why = "delete" => r.why = "delete" /\ r.pc \notin Work
        /\ r.pc = "finish" => Ended(r, cr[k])
    BY <2>1, <2>2, <2>4 DEF Ended, Work, Held
  <2>6. QED
    BY <1>1, <2>2, <2>3, <2>5, MovingWorks
<1>4. QED
  BY <1>2, <1>3

LEMMA CreateWorks ==
  ASSUME Inv, AllMindful(Work), NEW k \in Key, sdkCreate(k) PROVE Works(k, Work)
<1>1. ~Idle(k) /\ UNCHANGED <<cr, queued>> /\ pass[k].why # "delete"
  BY DEF sdkCreate, AllMindful, Mindful, Work, Held, Idle, At
<1>2. PICK s : \/ EndPass(k, "Recoverable")
               \/ Answered([pass[k] EXCEPT !.pc = "writeback", !.why = "created",
                                           !.latest = s], k)
  BY DEF sdkCreate, Refused
<1> DEFINE q == [pass[k] EXCEPT !.pc = "writeback", !.why = "created", !.latest = s]
<1>3. q.pc = "writeback" /\ q.why = "created"
  BY FieldsOfPass
<1>4. EndPass(k, "Recoverable") \/ Answered(q, k)
  BY <1>2
<1> HIDE DEF q
<1>5. QED
  BY <1>1, <1>3, <1>4, RefusedWorks, AnsweredWorks

LEMMA SyncTagsWorks ==
  ASSUME Inv, AllMindful(Work), NEW k \in Key, SyncTags(k) PROVE Works(k, Work)
<1>1. /\ ~Idle(k) /\ UNCHANGED <<cr, queued>> /\ pass[k].why # "delete"
      /\ cr[k].finalizer
  BY Finalized
     DEF SyncTags, UntagResource, TagResource, AllMindful, Mindful, Work, Held, Idle, At
<1>2. CASE UntagResource(k)
  <2> DEFINE q == [pass[k] EXCEPT !.pc = "tag"]
  <2>1. q.pc = "tag" /\ q.why = pass[k].why
    BY FieldsOfPass
  <2>2. EndPass(k, "Recoverable") \/ pass' = [pass EXCEPT ![k] = q]
    BY <1>2 DEF UntagResource, Refused, Answered
  <2> HIDE DEF q
  <2>3. QED
    BY <1>1, <2>1, <2>2, RefusedWorks, MovingWorks
<1>3. CASE TagResource(k)
  <2> DEFINE d == pass[k].desired
             l == AfterTags(pass[k].todo)
             s == IF l = "finish" THEN [spec |-> d.spec, status |-> d.status]
                  ELSE pass[k].latest
             q == [pass[k] EXCEPT !.pc = l, !.outcome = "Synced", !.latest = s]
  <2>1. EndPass(k, "Recoverable") \/ pass' = [pass EXCEPT ![k] = q]
    BY <1>3, FieldsOfPass DEF TagResource, Refused, Answered
  <2> HIDE DEF s
  <2>2. q.pc = l /\ q.why = pass[k].why /\ q.outcome = "Synced"
    BY FieldsOfPass
  <2> HIDE DEF q
  <2>3. l \in {"finish", "update"}
    BY DEF AfterTags
  <2>4. QED
    BY <1>1, <2>1, <2>2, <2>3, RefusedWorks, MovingWorks DEF Ended
<1>4. QED
  BY <1>2, <1>3 DEF SyncTags

LEMMA UpdateWorks ==
  ASSUME Inv, AllMindful(Work), NEW k \in Key, sdkUpdate(k) PROVE Works(k, Work)
<1>1. ~Idle(k) /\ UNCHANGED <<cr, queued>> /\ pass[k].why # "delete"
  BY DEF sdkUpdate, AllMindful, Mindful, Work, Held, Idle, At
<1>2. PICK s : \/ EndPass(k, "Recoverable")
               \/ Answered([pass[k] EXCEPT !.pc = "writeback", !.why = "updated",
                                           !.todo = {}, !.latest = s], k)
  BY DEF sdkUpdate, Refused
<1> DEFINE q == [pass[k] EXCEPT !.pc = "writeback", !.why = "updated", !.todo = {},
                                !.latest = s]
<1>3. q.pc = "writeback" /\ q.why = "updated"
  BY FieldsOfPass
<1>4. EndPass(k, "Recoverable") \/ Answered(q, k)
  BY <1>2
<1> HIDE DEF q
<1>5. QED
  BY <1>1, <1>3, <1>4, RefusedWorks, AnsweredWorks

LEMMA DeleteWorks ==
  ASSUME Inv, NEW k \in Key, sdkDelete(k) PROVE Works(k, Work)
<1> DEFINE q == [pass[k] EXCEPT !.pc = "unmanage"]
<1>1. q.pc = "unmanage" /\ q.why = pass[k].why
  BY FieldsOfPass
<1>2. ~Idle(k) /\ UNCHANGED <<cr, queued>>
  BY DEF sdkDelete, Idle, At
<1>3. EndPass(k, "Recoverable") \/ Answered(q, k)
  BY DEF sdkDelete, Refused
<1> HIDE DEF q
<1>4. QED
  BY <1>1, <1>2, <1>3, RefusedWorks, AnsweredWorks DEF Work, Held

LEMMA NextMinds ==
  ASSUME Inv, AllMindful(Work), [Next]_vars PROVE AllMindful(Work)'
<1>1. SetApart(Work)
  BY WorkIsApart
<1>2. PICK K \in Kinds : Shaped(SpecOf[K], Statuses)
  BY ShapeIs
<1>3. ASSUME NEW k \in Key, Handlers(k) PROVE AllMindful(Work)'
  <2>1. CASE Other(k)
    BY <1>1, <1>2, <2>1, StartMinds, ManageMinds, UnmanageMinds, FinishMinds DEF Other
  <2>2. CASE WriteBack(k)
    <3>1. cr[k].finalizer /\ cr[k].exists /\ pass[k].pc \in Work
      BY <2>2, Finalized DEF WriteBack, Idle, At, Held, Work
    <3>2. QED
      BY <1>1, <1>2, <2>2, <3>1, StoreMinds DEF WriteBack, PatchSpec, Work, Held
  <2>3. QED
    BY <1>3, <2>1, <2>2, FindWorks, ReadTagsWorks, CreateWorks, SyncTagsWorks, UpdateWorks,
       DeleteWorks, WorkMinds DEF Handlers, ReadOne, Create, Update, Delete
<1>4. ASSUME NEW k \in Key, Environment(k) PROVE AllMindful(Work)'
  BY <1>1, <1>2, <1>4, FailMinds, ResyncMinds, UserApplyMinds, UserEditMinds,
     UserDeleteMinds DEF Environment
<1>5. CASE UNCHANGED <<cr, pass, queued>>
  BY <1>5 DEF AllMindful
<1>6. QED
  BY <1>1, <1>3, <1>4, <1>5, CrashMinds
     DEF Next, Settle, Use, Drift, vars, passVars

(* No EventSourceMapping or CodeSigningConfig CR is forgotten, for any     *)
(* number of CRs, edits and failures.                                      *)
THEOREM NothingIsForgotten == Spec => []NeverForgotten
<1>1. Init => AllMindful(Work)
  BY WorkIsApart, InitMinds DEF Init
<1>2. Inv /\ AllMindful(Work) /\ [Next]_vars => AllMindful(Work)'
  BY NextMinds
<1>3. AllMindful(Work) => NeverForgotten
  BY MindfulSuffices
<1>4. QED
  BY <1>1, <1>2, <1>3, InvHolds, PTL DEF Spec
=============================================================================
