--------------------- MODULE ReferencingResource_proofs ---------------------
(***************************************************************************)
(* Proofs about ReferencingResource, for any number of CRs, of CRs that    *)
(* they refer to, of references in a list and of events: the type          *)
(* invariant, that nothing is sent half resolved, that what is stored      *)
(* stays valid, and that no CR goes while what it created is there.        *)
(***************************************************************************)
EXTENDS ReferencingResource, AckPass_proofs

(* Where a pass has seen the finalizer of its CR, or has added it.         *)
Held == {"create", "update", "writeback"}

(* Name, of the CRs of kind K.                                             *)
NameIn(K, k, s) ==
  IF K # "FunctionURLConfig" THEN k
  ELSE IF s.ids[FunctionName.field] = <<>> THEN Nil
       ELSE Head(s.ids[FunctionName.field])

(* Every field with references has as many items as they name CRs.         *)
Whole(K, s) ==
  \A f \in FieldsOf(K) :
    s.refs[f] # <<>> => Len(s.ids[f]) = Cardinality(Named(s.refs[f], Nil))

FieldAt(K, i) == ReferencesOf[K][i].field
IsList(K, i) == ReferencesOf[K][i].list

(* Of the i-th field, the references to resolve, and those still left.     *)
NamedAt(K, i, s) == Named(s.refs[FieldAt(K, i)], Nil)
LeftAt(K, i, todo, s) == {j \in NamedAt(K, i, s) : <<i, j>> \in todo}

(* A list has an item more for each reference that is not left any more, an*)
(* ordinary field one: s was the spec before, d is it now.                 *)
ResolvedTo(K, i, todo, s, d) ==
  LET f == FieldAt(K, i)
      named == NamedAt(K, i, s)
      left == LeftAt(K, i, todo, s)
  IN
  /\ IsList(K, i) => Len(d.ids[f]) + Cardinality(left)
                       = Len(s.ids[f]) + Cardinality(named)
  /\ ~IsList(K, i) /\ left = named => d.ids[f] = s.ids[f]
  /\ ~IsList(K, i) /\ left # named => Len(d.ids[f]) = 1

(* A pass that is resolving references: it has lost none of them.          *)
Progress(K, todo, s, d) ==
  /\ d.refs = s.refs
  /\ todo \subseteq Unresolved(K, s, Nil)
  /\ \A i \in DOMAIN ReferencesOf[K] : ResolvedTo(K, i, todo, s, d)

(* What the pass p of k has to go by where it is.                          *)
Knows(K, k, p) ==
  LET d == p.desired.spec
      s == p.latest.spec
  IN
  /\ p.pc = "read" => d = s
  /\ p.pc = "resolve" => Progress(K, p.todo, s, d)
  /\ p.pc = "find" /\ p.why = "sync" => Whole(K, d)
  /\ p.pc \in {"manage", "create", "update"} => Whole(K, d)
  /\ p.pc = "writeback" =>
       /\ s.refs = d.refs
       /\ \A i \in DOMAIN ReferencesOf[K] :
            LET r == ReferencesOf[K][i] IN
            r.required => s.ids[r.field] = d.ids[r.field]
  /\ p.pc = "delete" => p.why = "delete" /\ NameIn(K, k, s) = NameIn(K, k, d)

(* The resource of that name is there, in R, and is of k.                  *)
Owns(R, k, n) == n # Nil /\ R[n] # None /\ R[n].by = k

AWSType(K) ==
  /\ objects \in [Object -> ObjectStates]
  /\ resources \in [Names -> Resource(K)]

(* A pass that is about to let its CR go knows that nothing is left of it. *)
NothingOwned(K) ==
  \A k \in Key :
    At(k, "unmanage") => ~Owns(resources, k, NameIn(K, k, pass[k].desired.spec))

InvOf(K) ==
  /\ kind = K
  /\ PassInv(Locations, Held, SpecOf(K), {Nil})
  /\ AWSType(K)
  /\ \A k \in Key : Knows(K, k, pass[k])
  /\ NothingOwned(K)

(* The kind never changes, so each behaviour keeps the invariant of one.   *)
Inv == \E K \in Kinds : InvOf(K)

-----------------------------------------------------------------------------
(* What holds of the three kinds.                                          *)

LEMMA TheKinds ==
  ASSUME NEW K \in Kinds
  PROVE  K \in {"FunctionURLConfig", "Function", "EventSourceMapping"}
BY ReferencingKinds DEF ReferencesOf

LEMMA FieldsDiffer ==
  ASSUME NEW K \in Kinds, NEW i \in DOMAIN ReferencesOf[K],
         NEW j \in DOMAIN ReferencesOf[K],
         ReferencesOf[K][i].field = ReferencesOf[K][j].field
  PROVE  i = j
<1> USE DEF ReferencesOf, Reference, FunctionName, Code_S3Bucket,
            CodeSigningConfigARN, KMSKeyARN, Role, SecurityGroupIDs, SubnetIDs,
            SchemaRegistry_URI, EventSourceARN, Queues
<1>1. CASE K = "FunctionURLConfig"
  BY <1>1
<1>2. CASE K = "Function"
  BY <1>2
<1>3. CASE K = "EventSourceMapping"
  BY <1>3
<1>4. QED
  BY <1>1, <1>2, <1>3, TheKinds

LEMMA ReferencesAre ==
  ASSUME NEW K \in Kinds, NEW i \in DOMAIN ReferencesOf[K]
  PROVE  /\ FieldAt(K, i) \in FieldsOf(K)
         /\ FieldAt(K, i) = ReferencesOf[K][i].field
         /\ ReferencesOf[K][i] \in Range(ReferencesOf[K])
         /\ i \in Nat
<1>1. /\ FieldAt(K, i) \in FieldsOf(K)
      /\ FieldAt(K, i) = ReferencesOf[K][i].field
  BY DEF FieldsOf, FieldAt
<1>2. ReferencesOf[K][i] \in Range(ReferencesOf[K])
  BY DEF Range
<1>3. i \in Nat
  <2> USE DEF ReferencesOf, Reference, FunctionName, Code_S3Bucket,
              CodeSigningConfigARN, KMSKeyARN, Role, SecurityGroupIDs, SubnetIDs,
              SchemaRegistry_URI, EventSourceARN, Queues
  <2>1. CASE K = "FunctionURLConfig"
    BY <2>1
  <2>2. CASE K = "Function"
    BY <2>2
  <2>3. CASE K = "EventSourceMapping"
    BY <2>3
  <2>4. QED
    BY <2>1, <2>2, <2>3, TheKinds
<1>4. QED
  BY <1>1, <1>2, <1>3

(* SentOf, of the CRs of kind K.                                           *)
SentIn(K, s) == {f \in Sent[K] : f = FunctionName.field => s.ids[f] # <<>>}

(* An update sends the required fields of which it reads back an answer.   *)
LEMMA RequiredAreSent ==
  ASSUME NEW K \in Kinds, NEW i \in DOMAIN ReferencesOf[K], NEW s,
         ReferencesOf[K][i].required, ReferencesOf[K][i].field \in ReadBack[K]
  PROVE  ReferencesOf[K][i].field \in SentIn(K, s)
<1> USE DEF ReadBack, SentIn, Sent, ReferencesOf, Reference, FunctionName, Code_S3Bucket,
            CodeSigningConfigARN, KMSKeyARN, Role, SecurityGroupIDs, SubnetIDs,
            SchemaRegistry_URI, EventSourceARN, Queues
<1>1. CASE K = "FunctionURLConfig"
  BY <1>1
<1>2. CASE K = "Function"
  BY <1>2
<1>3. CASE K = "EventSourceMapping"
  BY <1>3
<1>4. QED
  BY <1>1, <1>2, <1>3, TheKinds

LEMMA ReadBackAreFields ==
  ASSUME NEW K \in Kinds PROVE ReadBack[K] \subseteq FieldsOf(K)
<1>1. CASE K = "FunctionURLConfig"
  BY <1>1 DEF ReadBack
<1>2. CASE K = "Function"
  BY <1>2 DEF ReadBack
<1>3. CASE K = "EventSourceMapping"
  BY <1>3 DEF ReadBack
<1>4. QED
  BY <1>1, <1>2, <1>3, TheKinds

-----------------------------------------------------------------------------
(* Specs, and what the handlers make of them.                              *)

LEMMA SpecFields ==
  ASSUME NEW K \in Kinds, NEW s \in SpecOf(K)
  PROVE  /\ s = [ids |-> s.ids, refs |-> s.refs, cors |-> s.cors]
         /\ s.ids \in [FieldsOf(K) -> Seq(Value)]
         /\ s.refs \in [FieldsOf(K) -> Seq(Object \cup {Nil})]
         /\ s.cors \in Value \cup {Nil}
         /\ \A i \in DOMAIN ReferencesOf[K] :
              ~IsList(K, i) => Len(s.refs[FieldAt(K, i)]) =< 1
BY ReferencesAre DEF SpecOf, FieldAt, IsList

LEMMA IsSpec ==
  ASSUME NEW K \in Kinds, NEW s \in SpecOf(K),
         NEW ids \in [FieldsOf(K) -> Seq(Value)], NEW cors \in Value \cup {Nil}
  PROVE  [ids |-> ids, refs |-> s.refs, cors |-> cors] \in SpecOf(K)
BY DEF SpecOf

LEMMA NameIs ==
  ASSUME NEW K, kind = K, NEW k, NEW s
  PROVE  Name(k, s) = NameIn(K, k, s)
BY DEF Name, NameIn

LEMMA NameType ==
  ASSUME NEW K \in Kinds, NEW k \in Key, NEW s \in SpecOf(K)
  PROVE  NameIn(K, k, s) \in Names \cup {Nil}
<1>1. CASE K # "FunctionURLConfig"
  BY <1>1 DEF NameIn, Names
<1>2. CASE K = "FunctionURLConfig"
  <2>1. FunctionName.field \in FieldsOf(K)
    BY <1>2 DEF FieldsOf, ReferencesOf
  <2>2. s.ids[FunctionName.field] \in Seq(Value)
    BY <2>1, SpecFields
  <2> HIDE DEF FunctionName
  <2>3. QED
    BY <1>2, <2>2 DEF NameIn, Names
<1>3. QED
  BY <1>1, <1>2

LEMMA ResolvedIsSpec ==
  ASSUME NEW K \in Kinds, NEW s \in SpecOf(K), NEW i \in DOMAIN ReferencesOf[K],
         NEW v \in Value
  PROVE  LET d == resolveReference(s, ReferencesOf[K][i], v) IN
         /\ d \in SpecOf(K) /\ d.refs = s.refs
         /\ d.ids[FieldAt(K, i)] = IF IsList(K, i)
                                     THEN Append(s.ids[FieldAt(K, i)], v) ELSE <<v>>
         /\ \A f \in FieldsOf(K) : f # FieldAt(K, i) => d.ids[f] = s.ids[f]
<1> DEFINE f0 == FieldAt(K, i)
           xs == IF IsList(K, i) THEN Append(s.ids[f0], v) ELSE <<v>>
           ids == [s.ids EXCEPT ![f0] = xs]
           d == resolveReference(s, ReferencesOf[K][i], v)
<1>1. d = [s EXCEPT !.ids = ids]
  BY SpecFields DEF resolveReference, FieldAt, IsList
<1>2. f0 \in FieldsOf(K)
  BY ReferencesAre
<1> HIDE DEF f0, d
<1>3. s.ids[f0] \in Seq(Value)
  BY <1>2, SpecFields
<1>4. xs \in Seq(Value)
  BY <1>3
<1> HIDE DEF xs
<1>5. ids \in [FieldsOf(K) -> Seq(Value)]
  BY <1>2, <1>4, SpecFields
<1>6. ids[f0] = xs /\ \A f \in FieldsOf(K) : f # f0 => ids[f] = s.ids[f]
  BY <1>2, SpecFields
<1> HIDE DEF ids
<1>7. d = [ids |-> ids, refs |-> s.refs, cors |-> s.cors]
  BY <1>1, SpecFields
<1>8. d \in SpecOf(K)
  BY <1>5, <1>7, IsSpec, SpecFields
<1>9. d.refs = s.refs /\ d.ids = ids
  BY <1>7
<1>10. QED
  BY <1>6, <1>8, <1>9 DEF xs, f0, d

LEMMA ResourceFields ==
  ASSUME NEW K, NEW r \in Resource(K), r # None
  PROVE  /\ r = [by |-> r.by, ids |-> r.ids, cors |-> r.cors]
         /\ r.ids \in [FieldsOf(K) -> Seq(Value)] /\ r.cors \in Value \cup {Nil}
         /\ r.by \in Key \cup {"other"}
BY DEF Resource

LEMMA IsResource ==
  ASSUME NEW K, NEW by \in Key \cup {"other"},
         NEW ids \in [FieldsOf(K) -> Seq(Value)], NEW cors \in Value \cup {Nil}
  PROVE  [by |-> by, ids |-> ids, cors |-> cors] \in Resource(K)
BY DEF Resource

LEMMA ObservedIsSpec ==
  ASSUME NEW K \in Kinds, kind = K, NEW k, NEW s \in SpecOf(K),
         NEW r \in Resource(K), r # None
  PROVE  LET o == Observed(s, r) IN
         /\ o \in SpecOf(K) /\ o.refs = s.refs
         /\ NameIn(K, k, o) = NameIn(K, k, s)
         /\ \A f \in FieldsOf(K) :
              o.ids[f] = IF f \in ReadBack[K] THEN r.ids[f] ELSE s.ids[f]
<1> DEFINE ids == [f \in FieldsOf(K) |-> IF f \in ReadBack[K] THEN r.ids[f]
                                         ELSE s.ids[f]]
<1>1. ids \in [FieldsOf(K) -> Seq(Value)]
  BY SpecFields, ResourceFields
<1>2. Observed(s, r) = [ids |-> ids, refs |-> s.refs, cors |-> r.cors]
  <2>1. ids = [f \in DOMAIN s.ids |-> IF f \in ReadBack[kind] THEN r.ids[f]
                                      ELSE s.ids[f]]
    BY SpecFields
  <2> HIDE DEF ids
  <2>2. Observed(s, r) = [s EXCEPT !.cors = r.cors, !.ids = ids]
    BY <2>1 DEF Observed
  <2>3. s = [ids |-> s.ids, refs |-> s.refs, cors |-> s.cors]
    BY SpecFields
  <2>4. QED
    BY <2>2, <2>3
<1>3. \A f \in FieldsOf(K) :
        ids[f] = IF f \in ReadBack[K] THEN r.ids[f] ELSE s.ids[f]
  OBVIOUS
<1> HIDE DEF ids
<1>4. Observed(s, r) \in SpecOf(K)
  BY <1>1, <1>2, IsSpec, ResourceFields
<1>5. Observed(s, r).refs = s.refs /\ Observed(s, r).ids = ids
  BY <1>2
<1>6. NameIn(K, k, Observed(s, r)) = NameIn(K, k, s)
  <2>1. CASE K # "FunctionURLConfig"
    BY <2>1 DEF NameIn
  <2>2. CASE K = "FunctionURLConfig"
    <3>1. FunctionName.field \in FieldsOf(K) /\ ReadBack[K] = {}
      BY <2>2 DEF FieldsOf, ReferencesOf, ReadBack
    <3>2. ids[FunctionName.field] = s.ids[FunctionName.field]
      BY <1>3, <3>1
    <3>3. QED
      BY <1>5, <3>2 DEF NameIn
  <2>3. QED
    BY <2>1, <2>2
<1>7. QED
  BY <1>3, <1>4, <1>5, <1>6

(* What an update of the resource r to the spec s makes of it.             *)
Updated(K, s, r) ==
  [r EXCEPT !.cors = IF s.cors = Nil THEN @ ELSE s.cors,
            !.ids = [f \in DOMAIN @ |-> IF f \in SentIn(K, s) THEN s.ids[f]
                                        ELSE @[f]]]

LEMMA UpdatedIsResource ==
  ASSUME NEW K \in Kinds, NEW s \in SpecOf(K), NEW r \in Resource(K), r # None
  PROVE  LET u == Updated(K, s, r) IN
         /\ u \in Resource(K) /\ u # None /\ u.by = r.by
         /\ \A f \in FieldsOf(K) :
              u.ids[f] = IF f \in SentIn(K, s) THEN s.ids[f] ELSE r.ids[f]
<1> DEFINE ids == [f \in FieldsOf(K) |-> IF f \in SentIn(K, s) THEN s.ids[f]
                                         ELSE r.ids[f]]
           cors == IF s.cors = Nil THEN r.cors ELSE s.cors
           u == [by |-> r.by, ids |-> ids, cors |-> cors]
<1>1. ids \in [FieldsOf(K) -> Seq(Value)] /\ cors \in Value \cup {Nil}
  BY SpecFields, ResourceFields
<1>2. Updated(K, s, r) = u
  <2>1. ids = [f \in DOMAIN r.ids |-> IF f \in SentIn(K, s) THEN s.ids[f]
                                      ELSE r.ids[f]]
    BY ResourceFields
  <2> HIDE DEF ids
  <2>2. cors = IF s.cors = Nil THEN r.cors ELSE s.cors
    OBVIOUS
  <2> HIDE DEF cors
  <2>3. r = [by |-> r.by, ids |-> r.ids, cors |-> r.cors]
    BY ResourceFields
  <2>4. ASSUME NEW o, o = [r EXCEPT !.cors = cors, !.ids = ids]
        PROVE  o = u
    BY <2>3, <2>4
  <2> HIDE DEF u
  <2>5. [r EXCEPT !.cors = cors, !.ids = ids] = u
    BY <2>4
  <2>6. QED
    BY <2>1, <2>2, <2>5 DEF Updated
<1>3. \A f \in FieldsOf(K) :
        ids[f] = IF f \in SentIn(K, s) THEN s.ids[f] ELSE r.ids[f]
  OBVIOUS
<1>4. r.by # Nil
  BY ResourceFields, ReferencingNil
<1> HIDE DEF ids, cors
<1>5. u \in Resource(K) /\ u # None
  BY <1>1, <1>4, IsResource, ResourceFields DEF None
<1>6. QED
  BY <1>2, <1>3, <1>5

-----------------------------------------------------------------------------
(* References are resolved one by one, none twice and none left out.       *)

LEMMA FieldTypes ==
  ASSUME NEW K \in Kinds, NEW s \in SpecOf(K), NEW i \in DOMAIN ReferencesOf[K]
  PROVE  /\ s.refs[FieldAt(K, i)] \in Seq(Object \cup {Nil})
         /\ s.ids[FieldAt(K, i)] \in Seq(Value)
         /\ Len(s.refs[FieldAt(K, i)]) \in Nat
         /\ Len(s.ids[FieldAt(K, i)]) \in Nat
<1>1. /\ s.refs[FieldAt(K, i)] \in Seq(Object \cup {Nil})
      /\ s.ids[FieldAt(K, i)] \in Seq(Value)
  BY ReferencesAre, SpecFields
<1>2. QED
  BY <1>1

LEMMA NamedAre ==
  ASSUME NEW K \in Kinds, NEW s \in SpecOf(K), NEW i \in DOMAIN ReferencesOf[K]
  PROVE  /\ NamedAt(K, i, s) \subseteq 1..Len(s.refs[FieldAt(K, i)])
         /\ \A j \in NamedAt(K, i, s) : s.refs[FieldAt(K, i)][j] \in Object
         /\ IsFiniteSet(NamedAt(K, i, s))
<1> DEFINE refs == s.refs[FieldAt(K, i)]
<1>1. refs \in Seq(Object \cup {Nil}) /\ Len(refs) \in Nat
  BY FieldTypes
<1>2. /\ NamedAt(K, i, s) \subseteq 1..Len(refs)
      /\ \A j \in NamedAt(K, i, s) : refs[j] \in Object
  BY <1>1 DEF NamedAt, Named
<1>3. IsFiniteSet(1..Len(refs))
  BY <1>1, FS_Interval
<1>4. IsFiniteSet(NamedAt(K, i, s))
  BY <1>2, <1>3, FS_Subset
<1>5. QED
  BY <1>2, <1>4

LEMMA UnresolvedPairs ==
  ASSUME NEW K, NEW s
  PROVE  /\ \A x \in Unresolved(K, s, Nil) :
              /\ x = <<x[1], x[2]>> /\ x[1] \in DOMAIN ReferencesOf[K]
              /\ x[2] \in NamedAt(K, x[1], s)
         /\ \A i \in DOMAIN ReferencesOf[K] :
              \A j \in NamedAt(K, i, s) : <<i, j>> \in Unresolved(K, s, Nil)
BY DEF Unresolved, NamedAt, FieldAt

LEMMA ProgressStarts ==
  ASSUME NEW K \in Kinds, NEW s \in SpecOf(K)
  PROVE  Progress(K, Unresolved(K, s, Nil), s, s)
<1> SUFFICES ASSUME NEW i \in DOMAIN ReferencesOf[K]
             PROVE  ResolvedTo(K, i, Unresolved(K, s, Nil), s, s)
  BY DEF Progress
<1>1. LeftAt(K, i, Unresolved(K, s, Nil), s) = NamedAt(K, i, s)
  BY UnresolvedPairs DEF LeftAt
<1>2. QED
  BY <1>1 DEF ResolvedTo

LEMMA ProgressEnds ==
  ASSUME NEW K \in Kinds, NEW s \in SpecOf(K), NEW d \in SpecOf(K),
         Progress(K, {}, s, d), validateReferenceFields(K, s)
  PROVE  Whole(K, d)
<1> SUFFICES ASSUME NEW i \in DOMAIN ReferencesOf[K], d.refs[FieldAt(K, i)] # <<>>
             PROVE  Len(d.ids[FieldAt(K, i)])
                      = Cardinality(Named(d.refs[FieldAt(K, i)], Nil))
  BY DEF Whole, FieldsOf, FieldAt
<1> DEFINE f == FieldAt(K, i)
           named == NamedAt(K, i, s)
<1>1. ResolvedTo(K, i, {}, s, d) /\ d.refs = s.refs
  BY DEF Progress
<1>2. s.ids[f] = <<>>
  BY <1>1, ReferencesAre DEF validateReferenceFields
<1>3. LeftAt(K, i, {}, s) = {} /\ Cardinality({}) = 0
  BY FS_EmptySet DEF LeftAt
<1>4. named = Named(d.refs[f], Nil)
  BY <1>1 DEF NamedAt
<1>5. named \subseteq 1..Len(s.refs[f]) /\ IsFiniteSet(named)
  BY NamedAre
<1>6. Cardinality(named) \in Nat /\ Len(d.ids[f]) \in Nat /\ Len(s.ids[f]) = 0
  BY <1>2, <1>5, FS_CardinalityType, FieldTypes
<1>7. CASE IsList(K, i)
  <2>1. Len(d.ids[f]) + 0 = 0 + Cardinality(named)
    BY <1>1, <1>3, <1>6, <1>7 DEF ResolvedTo
  <2> HIDE DEF f, named
  <2>2. QED
    BY <1>4, <1>6, <2>1 DEF f
<1>8. CASE ~IsList(K, i)
  <2>1. Len(s.refs[f]) \in Nat /\ Len(s.refs[f]) =< 1
    BY <1>8, FieldTypes, SpecFields
  <2>2. CASE named = {}
    <3>1. d.ids[f] = s.ids[f]
      BY <1>1, <1>3, <1>8, <2>2 DEF ResolvedTo
    <3>2. Cardinality(named) = 0
      BY <1>3, <2>2
    <3>3. QED
      BY <1>4, <1>6, <3>1, <3>2
  <2>3. CASE named # {}
    <3>1. Len(d.ids[f]) = 1
      BY <1>1, <1>3, <1>8, <2>3 DEF ResolvedTo
    <3> HIDE DEF named, f
    <3>2. named = {1}
      BY <1>5, <2>1, <2>3
    <3>3. Cardinality(named) = 1
      BY <3>2, FS_Singleton
    <3>4. QED
      BY <1>4, <3>1, <3>3 DEF f
  <2>4. QED
    BY <2>2, <2>3
<1>9. QED
  BY <1>7, <1>8

(* An item is one more of its field, and leaves the others alone.          *)
LEMMA ProgressGoesOn ==
  ASSUME NEW K \in Kinds, NEW s \in SpecOf(K), NEW d \in SpecOf(K), NEW todo,
         Progress(K, todo, s, d), NEW x \in todo, NEW v \in Value
  PROVE  /\ resolveReference(d, ReferencesOf[K][x[1]], v) \in SpecOf(K)
         /\ Progress(K, todo \ {x}, s,
                     resolveReference(d, ReferencesOf[K][x[1]], v))
<1> DEFINE e == resolveReference(d, ReferencesOf[K][x[1]], v)
           f0 == FieldAt(K, x[1])
           named == NamedAt(K, x[1], s)
           left == LeftAt(K, x[1], todo, s)
           rest == LeftAt(K, x[1], todo \ {x}, s)
<1>1. todo \subseteq Unresolved(K, s, Nil)
  BY DEF Progress
<1>2. x = <<x[1], x[2]>> /\ x[1] \in DOMAIN ReferencesOf[K] /\ x[2] \in named
  BY <1>1, UnresolvedPairs
<1>3. /\ e \in SpecOf(K) /\ e.refs = d.refs
      /\ e.ids[f0] = IF IsList(K, x[1]) THEN Append(d.ids[f0], v) ELSE <<v>>
      /\ \A f \in FieldsOf(K) : f # f0 => e.ids[f] = d.ids[f]
  BY <1>2, ResolvedIsSpec
<1> HIDE DEF e
<1>4. ASSUME NEW i \in DOMAIN ReferencesOf[K], i # x[1]
      PROVE  ResolvedTo(K, i, todo \ {x}, s, e)
  <2>1. ResolvedTo(K, i, todo, s, d)
    BY DEF Progress
  <2>2. FieldAt(K, i) # f0
    BY <1>2, <1>4, FieldsDiffer, ReferencesAre
  <2>3. e.ids[FieldAt(K, i)] = d.ids[FieldAt(K, i)]
    BY <1>3, <2>2, ReferencesAre
  <2>4. LeftAt(K, i, todo \ {x}, s) = LeftAt(K, i, todo, s)
    BY <1>2, <1>4 DEF LeftAt
  <2>5. QED
    BY <2>1, <2>3, <2>4 DEF ResolvedTo
<1>5. ResolvedTo(K, x[1], todo \ {x}, s, e)
  <2>1. ResolvedTo(K, x[1], todo, s, d)
    BY <1>2 DEF Progress
  <2>2. x[2] \in left /\ rest = left \ {x[2]} /\ rest # named
    BY <1>2 DEF LeftAt
  <2>3. IsFiniteSet(named) /\ IsFiniteSet(left)
    <3>1. IsFiniteSet(named) /\ left \subseteq named
      BY <1>2, NamedAre DEF LeftAt
    <3>2. QED
      BY <3>1, FS_Subset
  <2>4. d.ids[f0] \in Seq(Value) /\ Len(d.ids[f0]) \in Nat /\ Len(s.ids[f0]) \in Nat
    BY <1>2, FieldTypes
  <2> HIDE DEF f0, named, left, rest
  <2>5. /\ Cardinality(rest) = Cardinality(left) - 1
        /\ Cardinality(left) \in Nat /\ Cardinality(named) \in Nat
    BY <2>2, <2>3, FS_RemoveElement, FS_CardinalityType
  <2>6. CASE IsList(K, x[1])
    <3>1. Len(d.ids[f0]) + Cardinality(left) = Len(s.ids[f0]) + Cardinality(named)
      BY <2>1, <2>6 DEF ResolvedTo, f0, named, left
    <3>2. Len(e.ids[f0]) = Len(d.ids[f0]) + 1
      BY <1>3, <2>4, <2>6
    <3>3. Len(e.ids[f0]) + Cardinality(rest) = Len(s.ids[f0]) + Cardinality(named)
      BY <2>4, <2>5, <3>1, <3>2
    <3>4. QED
      BY <2>6, <3>3 DEF ResolvedTo, f0, named, rest
  <2>7. CASE ~IsList(K, x[1])
    <3>1. e.ids[f0] = <<v>> /\ Len(<<v>>) = 1
      BY <1>3, <2>7
    <3>2. QED
      BY <2>2, <2>7, <3>1 DEF ResolvedTo, f0, named, rest
  <2>8. QED
    BY <2>6, <2>7
<1>6. Progress(K, todo \ {x}, s, e)
  BY <1>1, <1>3, <1>4, <1>5 DEF Progress
<1>7. QED
  BY <1>3, <1>6 DEF e

-----------------------------------------------------------------------------
(* The frame of a step: what is to be shown of the pass that makes it, and *)
(* of the resources that it leaves to the others.                          *)

LEMMA NothingToKnow ==
  ASSUME NEW K, NEW k, NEW p, p.pc \in {"idle", "finish", "unmanage"}
  PROVE  Knows(K, k, p)
BY DEF Knows

LEMMA IdleKnows ==
  ASSUME NEW K, NEW k PROVE Knows(K, k, IdlePass) /\ IdlePass.pc # "unmanage"
BY NothingToKnow DEF IdlePass

LEMMA SpecsOfPass ==
  ASSUME NEW K \in Kinds, InvOf(K), NEW k \in Key, ~Idle(k)
  PROVE  /\ pass[k].desired.spec \in SpecOf(K)
         /\ pass[k].latest.spec \in SpecOf(K)
         /\ pass[k].desired \in CRs(SpecOf(K), {Nil}) /\ pass[k].desired.exists
<1>1. SoundPass(pass[k], cr[k], Locations, Held, SpecOf(K), {Nil})
  BY DEF InvOf, PassInv
<1>2. QED
  BY <1>1, ExistingCR DEF SoundPass, Idle, At

LEMMA Commons == Common(Locations, Held)
BY DEF Common, Locations, Held

LEMMA StepOf ==
  ASSUME NEW K \in Kinds, InvOf(K), NEW k \in Key, NEW p,
         PassInv(Locations, Held, SpecOf(K), {Nil})', AWSType(K)', kind' = kind,
         pass' = [pass EXCEPT ![k] = p], Knows(K, k, p),
         p.pc = "unmanage" => ~Owns(resources', k, NameIn(K, k, p.desired.spec)),
         \A j \in Key \ {k} : \A n : Owns(resources', j, n) => Owns(resources, j, n)
  PROVE  InvOf(K)'
<1>1. DOMAIN pass = Key
  BY DEF InvOf, PassInv
<1>2. \A j \in Key : Knows(K, j, pass'[j])
  BY <1>1 DEF InvOf
<1>3. NothingOwned(K)'
  <2>1. SUFFICES ASSUME NEW j \in Key, pass'[j].pc = "unmanage"
                 PROVE  ~Owns(resources', j, NameIn(K, j, pass'[j].desired.spec))
    BY DEF NothingOwned, At
  <2>2. CASE j = k
    BY <1>1, <2>1, <2>2
  <2>3. CASE j # k
    <3>1. pass'[j] = pass[j]
      BY <1>1, <2>3
    <3>2. ~Owns(resources, j, NameIn(K, j, pass[j].desired.spec))
      BY <2>1, <3>1 DEF InvOf, NothingOwned, At
    <3>3. QED
      BY <2>3, <3>1, <3>2
  <2>4. QED
    BY <2>2, <2>3
<1>4. QED
  BY <1>2, <1>3 DEF InvOf

(* A step that leaves the passes and AWS alone.                            *)
LEMMA StepElsewhere ==
  ASSUME NEW K \in Kinds, InvOf(K),
         PassInv(Locations, Held, SpecOf(K), {Nil})',
         AWSType(K)', UNCHANGED <<kind, pass, resources>>
  PROVE  InvOf(K)'
BY DEF InvOf, NothingOwned, Owns, At

LEMMA EndStep ==
  ASSUME NEW K \in Kinds, InvOf(K), NEW k \in Key, ~Idle(k),
         NEW o \in Conditions, EndPass(k, o), UNCHANGED <<cr, queued, kind>>,
         spent' \in Counts, AWSType(K)',
         \A j \in Key \ {k} : \A n : Owns(resources', j, n) => Owns(resources, j, n)
  PROVE  InvOf(K)'
<1> DEFINE p == [pass[k] EXCEPT !.pc = "finish", !.outcome = o]
<1>1. PassInv(Locations, Held, SpecOf(K), {Nil})'
  BY EndPassStep, Commons DEF InvOf
<1>2. pass' = [pass EXCEPT ![k] = p]
  BY DEF EndPass, InvOf, PassInv
<1>3. p.pc = "finish"
  BY DEF InvOf, PassInv, SoundPass, IdlePass
<1> HIDE DEF p
<1>4. Knows(K, k, p) /\ p.pc # "unmanage"
  BY <1>3, NothingToKnow
<1>5. QED
  BY <1>1, <1>2, <1>4, StepOf

LEMMA GoStep ==
  ASSUME NEW K \in Kinds, InvOf(K), NEW k \in Key, ~Idle(k), NEW l \in Locations,
         Goto(k, l), l \in Held => cr[k].finalizer,
         Knows(K, k, [pass[k] EXCEPT !.pc = l]),
         l = "unmanage" => /\ pass[k].why = "delete"
                           /\ ~Owns(resources, k, NameIn(K, k, pass[k].desired.spec)),
         UNCHANGED <<cr, queued, kind, objects, resources>>, spent' \in Counts
  PROVE  InvOf(K)'
<1> DEFINE p == [pass[k] EXCEPT !.pc = l]
<1>1. PassInv(Locations, Held, SpecOf(K), {Nil})'
  BY GotoStep DEF InvOf
<1>2. pass' = [pass EXCEPT ![k] = p]
  BY DEF Goto, InvOf, PassInv
<1>3. p.pc = l /\ p.desired = pass[k].desired
  BY DEF InvOf, PassInv, SoundPass, IdlePass
<1>4. AWSType(K)'
  BY DEF InvOf, AWSType
<1>5. \A j, n : Owns(resources', j, n) <=> Owns(resources, j, n)
  BY DEF Owns
<1> HIDE DEF p
<1>6. p.pc = "unmanage" => ~Owns(resources', k, NameIn(K, k, p.desired.spec))
  BY <1>3, <1>5
<1>7. Knows(K, k, p)
  BY DEF p
<1>8. QED
  BY <1>1, <1>2, <1>4, <1>5, <1>6, <1>7, StepOf

-----------------------------------------------------------------------------
(* The steps of a pass that leave AWS alone.                               *)

LEMMA OtherStep ==
  ASSUME NEW K \in Kinds, InvOf(K), NEW k \in Key, Other(k)
  PROVE  InvOf(K)'
<1>0. /\ PassInv(Locations, Held, SpecOf(K), {Nil}) /\ AWSType(K)'
      /\ kind' = kind /\ resources' = resources
  BY DEF Other, InvOf, AWSType, Owns
<1>1. CASE Start(k)
  <2>1. PassInv(Locations, Held, SpecOf(K), {Nil})'
    BY <1>0, <1>1, StartStep, Commons
  <2>2. CASE ~cr[k].exists
    <3>1. UNCHANGED <<kind, pass, resources>>
      BY <1>1, <2>2 DEF Start, Other
    <3>2. QED
      BY <1>0, <2>1, <3>1, StepElsewhere
  <2>3. CASE cr[k].exists
    <3> DEFINE p == [IdlePass EXCEPT !.pc = "read",
                       !.why = IF cr[k].deleting THEN "delete" ELSE "sync",
                       !.desired = cr[k],
                       !.latest = [spec |-> cr[k].spec, status |-> cr[k].status]]
    <3>1. pass' = [pass EXCEPT ![k] = p]
      BY <1>1, <2>3 DEF Start
    <3>2. Knows(K, k, p) /\ p.pc = "read"
      BY DEF Knows, IdlePass
    <3> HIDE DEF p
    <3>3. QED
      BY <1>0, <2>1, <3>1, <3>2, StepOf
  <2>4. QED
    BY <2>2, <2>3
<1>2. CASE Manage(k)
  <2>1. PassInv(Locations, Held, SpecOf(K), {Nil})'
    BY <1>0, <1>2, ManageStep, Commons
  <2>2. CASE cr[k].exists
    <3> DEFINE p == [pass[k] EXCEPT !.pc = "create"]
    <3>1. pass' = [pass EXCEPT ![k] = p]
      BY <1>2, <2>2 DEF Manage, Goto, InvOf, PassInv
    <3>2. Whole(K, pass[k].desired.spec)
      BY <1>2 DEF Manage, At, InvOf, Knows
    <3>3. p.pc = "create" /\ p.desired = pass[k].desired
      BY DEF InvOf, PassInv, SoundPass, IdlePass
    <3> HIDE DEF p
    <3>4. Knows(K, k, p)
      BY <3>2, <3>3 DEF Knows
    <3>5. QED
      BY <1>0, <2>1, <3>1, <3>3, <3>4, StepOf
  <2>3. CASE ~cr[k].exists
    <3>1. /\ EndPass(k, "Recoverable") /\ ~Idle(k) /\ UNCHANGED <<cr, queued>>
          /\ spent' \in Counts
      BY <1>0, <1>2, <2>3 DEF Manage, Idle, At, PassInv
    <3>2. QED
      BY <1>0, <3>1, EndStep DEF Conditions
  <2>4. QED
    BY <2>2, <2>3
<1>3. CASE Unmanage(k)
  <2>1. PassInv(Locations, Held, SpecOf(K), {Nil})'
    BY <1>0, <1>3, UnmanageStep, Commons
  <2>2. pass' = [pass EXCEPT ![k] = IdlePass]
    BY <1>3 DEF Unmanage
  <2>3. QED
    BY <1>0, <2>1, <2>2, IdleKnows, StepOf
<1>4. CASE Finish(k)
  <2>1. PassInv(Locations, Held, SpecOf(K), {Nil})'
    BY <1>0, <1>4, FinishStep, Commons
  <2>2. pass' = [pass EXCEPT ![k] = IdlePass]
    BY <1>4 DEF Finish
  <2>3. QED
    BY <1>0, <2>1, <2>2, IdleKnows, StepOf
<1>5. QED
  BY <1>1, <1>2, <1>3, <1>4 DEF Other

(* A step that changes nothing but the pass of k.                          *)
LEMMA PassStep ==
  ASSUME NEW K \in Kinds, InvOf(K), NEW k \in Key, NEW p,
         pass' = [pass EXCEPT ![k] = p],
         SoundPass(p, cr[k], Locations, Held, SpecOf(K), {Nil}), Knows(K, k, p),
         p.pc = "unmanage" => ~Owns(resources, k, NameIn(K, k, p.desired.spec)),
         UNCHANGED <<cr, queued, spent, kind, objects, resources>>
  PROVE  InvOf(K)'
<1>1. PassInv(Locations, Held, SpecOf(K), {Nil})'
  <2>1. PassInv(Locations, Held, SpecOf(K), {Nil}) /\ spent' \in Counts
    BY DEF InvOf, PassInv
  <2>2. QED
    BY <2>1, StepOfPass
<1>2. AWSType(K)'
  BY DEF InvOf, AWSType
<1>3. QED
  BY <1>1, <1>2, StepOf

LEMMA ResolveReferencesStep ==
  ASSUME NEW K \in Kinds, InvOf(K), NEW k \in Key, ResolveReferences(k)
  PROVE  InvOf(K)'
<1> DEFINE todo == Unresolved(kind, pass[k].desired.spec, Nil)
           p == [pass[k] EXCEPT !.pc = "resolve", !.todo = todo]
<1>1. pass' = [pass EXCEPT ![k] = p]
  BY DEF ResolveReferences, InvOf, PassInv
<1>2. pass[k].pc = "read" /\ ~Idle(k)
  BY DEF ResolveReferences, At, Idle
<1>3. SoundPass(pass[k], cr[k], Locations, Held, SpecOf(K), {Nil})
  BY DEF InvOf, PassInv
<1>4. Progress(K, todo, pass[k].latest.spec, pass[k].desired.spec)
  BY <1>2, SpecsOfPass, ProgressStarts DEF InvOf, Knows
<1> HIDE DEF todo
<1>5. /\ p.pc = "resolve" /\ p.todo = todo
      /\ p.desired = pass[k].desired /\ p.latest = pass[k].latest
      /\ p.why = pass[k].why /\ p.outcome = pass[k].outcome
      /\ DOMAIN p = DOMAIN pass[k]
  BY <1>3 DEF SoundPass, IdlePass
<1> HIDE DEF p
<1>6. SoundPass(p, cr[k], Locations, Held, SpecOf(K), {Nil})
  BY <1>2, <1>3, <1>5 DEF SoundPass, Locations, Held
<1>7. Knows(K, k, p)
  BY <1>4, <1>5 DEF Knows
<1>8. QED
  BY <1>1, <1>5, <1>6, <1>7, PassStep DEF ResolveReferences

LEMMA ResolveReferenceStep ==
  ASSUME NEW K \in Kinds, InvOf(K), NEW k \in Key, ResolveReference(k)
  PROVE  InvOf(K)'
<1>1. pass[k].pc = "resolve" /\ ~Idle(k)
  BY DEF ResolveReference, Resolving, At, Idle
<1> DEFINE d == pass[k].desired.spec
<1>2. PICK x \in pass[k].todo :
        /\ getReferencedResourceState(Referenced(k, x), Nil)
        /\ pass' = [pass EXCEPT
             ![k].todo = @ \ {x},
             ![k].desired.spec = resolveReference(@, ReferencesOf[kind][x[1]],
                                                  Referenced(k, x).value)]
  BY DEF ResolveReference
<1> DEFINE v == Referenced(k, x).value
           e == resolveReference(d, ReferencesOf[K][x[1]], v)
           c == [pass[k].desired EXCEPT !.spec = e]
           p == [pass[k] EXCEPT !.todo = pass[k].todo \ {x}, !.desired = c]
<1>3. kind = K /\ AWSType(K)
  BY DEF InvOf
<1>4. Progress(K, pass[k].todo, pass[k].latest.spec, d)
  BY <1>1 DEF InvOf, Knows
<1>5. /\ d \in SpecOf(K) /\ pass[k].latest.spec \in SpecOf(K)
      /\ pass[k].desired \in CRs(SpecOf(K), {Nil}) /\ pass[k].desired.exists
  BY <1>1, SpecsOfPass
<1>6. v \in Value
  <2>1. /\ x = <<x[1], x[2]>> /\ x[1] \in DOMAIN ReferencesOf[K]
        /\ x[2] \in NamedAt(K, x[1], pass[k].latest.spec)
    BY <1>4, UnresolvedPairs DEF Progress
  <2>2. d.refs = pass[k].latest.spec.refs
    BY <1>4 DEF Progress
  <2>3. d.refs[FieldAt(K, x[1])][x[2]] \in Object
    BY <1>5, <2>1, <2>2, NamedAre
  <2>4. Referenced(k, x) \in States
    BY <1>3, <2>3, ReferencingStates DEF Referenced, AWSType, FieldAt
  <2>5. QED
    BY <1>2, <2>4 DEF getReferencedResourceState, States
<1>7. /\ e \in SpecOf(K)
      /\ Progress(K, pass[k].todo \ {x}, pass[k].latest.spec, e)
  BY <1>2, <1>4, <1>5, <1>6, ProgressGoesOn
<1>8. SoundPass(pass[k], cr[k], Locations, Held, SpecOf(K), {Nil})
  BY DEF InvOf, PassInv
<1>9. pass' = [pass EXCEPT ![k] = p]
  BY <1>2, <1>3, <1>8 DEF InvOf, PassInv, SoundPass, IdlePass
<1> HIDE DEF e
<1>10. /\ c \in CRs(SpecOf(K), {Nil}) /\ c.exists /\ c.spec = e
       /\ c.finalizer = pass[k].desired.finalizer
  BY <1>5, <1>7, RespecIsCR
<1> HIDE DEF c
<1>11. /\ p.pc = pass[k].pc /\ p.todo = pass[k].todo \ {x}
       /\ p.desired = c /\ p.latest = pass[k].latest
       /\ p.why = pass[k].why /\ p.outcome = pass[k].outcome
       /\ DOMAIN p = DOMAIN pass[k]
  BY <1>8 DEF SoundPass, IdlePass
<1> HIDE DEF p
<1>12. SoundPass(p, cr[k], Locations, Held, SpecOf(K), {Nil})
  BY <1>1, <1>8, <1>10, <1>11 DEF SoundPass
<1>13. Knows(K, k, p)
  BY <1>1, <1>7, <1>10, <1>11 DEF Knows
<1>14. QED
  BY <1>1, <1>9, <1>11, <1>12, <1>13, PassStep DEF ResolveReference

LEMMA ResolutionErrorStep ==
  ASSUME NEW K \in Kinds, InvOf(K), NEW k \in Key, Resolving(k), ResolutionError(k),
         UNCHANGED <<cr, queued, kind, objects, resources>>, spent' \in Counts
  PROVE  InvOf(K)'
<1>1. ~Idle(k)
  BY DEF Resolving, Idle, At
<1>2. CASE pass[k].why = "delete"
  <2>1. Goto(k, "find")
    BY <1>2 DEF ResolutionError
  <2>2. [pass[k] EXCEPT !.pc = "find"].pc = "find"
        /\ [pass[k] EXCEPT !.pc = "find"].why = "delete"
    BY <1>2 DEF InvOf, PassInv, SoundPass, IdlePass
  <2>3. Knows(K, k, [pass[k] EXCEPT !.pc = "find"])
    BY <2>2 DEF Knows
  <2>4. QED
    BY <1>1, <2>1, <2>3, GoStep DEF Locations, Held
<1>3. CASE pass[k].why # "delete"
  <2>1. EndPass(k, "Recoverable") /\ "Recoverable" \in Conditions
    BY <1>3 DEF ResolutionError, Conditions
  <2>2. AWSType(K)'
    BY DEF InvOf, AWSType
  <2>3. QED
    BY <1>1, <2>1, <2>2, EndStep
<1>4. QED
  BY <1>2, <1>3

LEMMA ResolveStep ==
  ASSUME NEW K \in Kinds, InvOf(K), NEW k \in Key, Resolve(k)
  PROVE  InvOf(K)'
<1>0. spent \in Counts
  BY DEF InvOf, PassInv
<1>1. CASE ReferenceNotReady(k)
  <2>1. spent' \in Counts
    BY <1>0, <1>1, SpendType DEF ReferenceNotReady
  <2>2. QED
    BY <1>1, <2>1, ResolutionErrorStep DEF ReferenceNotReady
<1>2. CASE Resolved(k)
  <2>1. /\ Resolving(k) /\ pass[k].pc = "resolve" /\ ~Idle(k)
        /\ UNCHANGED <<cr, queued, kind, objects, resources>> /\ spent' \in Counts
    BY <1>0, <1>2 DEF Resolved, Resolving, At, Idle
  <2>2. CASE validateReferenceFields(kind, pass[k].latest.spec)
    <3> DEFINE p == [pass[k] EXCEPT !.pc = "find"]
    <3>1. Progress(K, {}, pass[k].latest.spec, pass[k].desired.spec)
      BY <1>2, <2>1 DEF Resolved, InvOf, Knows
    <3>2. Whole(K, pass[k].desired.spec)
      BY <2>1, <2>2, <3>1, SpecsOfPass, ProgressEnds DEF InvOf
    <3>3. p.pc = "find" /\ p.desired = pass[k].desired
      BY DEF InvOf, PassInv, SoundPass, IdlePass
    <3>4. Goto(k, "find")
      BY <1>2, <2>2 DEF Resolved
    <3> HIDE DEF p
    <3>5. Knows(K, k, p)
      BY <3>2, <3>3 DEF Knows
    <3>6. QED
      BY <2>1, <3>4, <3>5, GoStep DEF Locations, Held, p
  <2>3. CASE ~validateReferenceFields(kind, pass[k].latest.spec)
    BY <1>2, <2>1, <2>3, ResolutionErrorStep DEF Resolved
  <2>4. QED
    BY <2>2, <2>3
<1>3. QED
  BY <1>1, <1>2, ResolveReferencesStep, ResolveReferenceStep DEF Resolve

-----------------------------------------------------------------------------
(* ReadOne.                                                                *)

LEMMA NotFoundKeeps ==
  ASSUME NEW K \in Kinds, InvOf(K), NEW k \in Key, At(k, "find"), NotFound(k),
         requiredFieldsMissing(k, Subject(k)) \/ ~Exists(Name(k, Subject(k))),
         UNCHANGED <<cr, queued, spent, kind, objects, resources>>
  PROVE  InvOf(K)'
<1>0. /\ ~Idle(k) /\ spent' \in Counts /\ AWSType(K)' /\ kind = K
      /\ SoundPass(pass[k], cr[k], Locations, Held, SpecOf(K), {Nil})
  BY DEF At, Idle, InvOf, PassInv, AWSType
<1>1. \A l : [pass[k] EXCEPT !.pc = l].pc = l
             /\ [pass[k] EXCEPT !.pc = l].desired = pass[k].desired
  BY <1>0 DEF SoundPass, IdlePass
<1>2. CASE pass[k].why = "sync"
  <2> DEFINE l == IF IsManaged(k) THEN "create" ELSE "manage"
             p == [pass[k] EXCEPT !.pc = l]
  <2>1. Goto(k, l)
    BY <1>2 DEF NotFound
  <2>2. Whole(K, pass[k].desired.spec)
    BY <1>2 DEF At, InvOf, Knows
  <2>3. l \in Locations /\ l # "unmanage" /\ l \in {"create", "manage"}
    BY DEF Locations
  <2>4. l \in Held => cr[k].finalizer
    BY <1>0 DEF SoundPass, IsManaged, Idle, At, Held
  <2>5. p.pc = l /\ p.desired = pass[k].desired
    BY <1>1
  <2> HIDE DEF l, p
  <2>6. Knows(K, k, p)
    BY <2>2, <2>3, <2>5 DEF Knows
  <2>7. QED
    BY <1>0, <2>1, <2>3, <2>4, <2>6, GoStep DEF p
<1>3. CASE pass[k].why = "delete"
  <2>1. Goto(k, "unmanage")
    BY <1>3 DEF NotFound
  <2>2. Knows(K, k, [pass[k] EXCEPT !.pc = "unmanage"])
    <3> DEFINE p == [pass[k] EXCEPT !.pc = "unmanage"]
    <3>1. p.pc = "unmanage"
      BY <1>1
    <3> HIDE DEF p
    <3>2. Knows(K, k, p)
      BY <3>1, NothingToKnow
    <3>3. QED
      BY <3>2 DEF p
  <2>3. ~Owns(resources, k, NameIn(K, k, pass[k].desired.spec))
    <3>1. Subject(k) = pass[k].desired.spec
      BY <1>3 DEF Subject
    <3>2. QED
      BY <1>0, <3>1, NameIs DEF requiredFieldsMissing, Exists, Owns
  <2>4. QED
    BY <1>0, <1>3, <2>1, <2>2, <2>3, GoStep DEF Locations, Held
<1>4. CASE pass[k].why \notin {"sync", "delete"}
  <2>1. EndPass(k, "Recoverable") /\ "Recoverable" \in Conditions
    BY <1>4 DEF NotFound, Conditions
  <2>2. QED
    BY <1>0, <2>1, EndStep
<1>5. QED
  BY <1>2, <1>3, <1>4

LEMMA sdkFindStep ==
  ASSUME NEW K \in Kinds, InvOf(K), NEW k \in Key, sdkFind(k)
  PROVE  InvOf(K)'
<1>0. /\ At(k, "find") /\ pass[k].pc = "find" /\ ~Idle(k) /\ kind = K /\ AWSType(K)
      /\ SoundPass(pass[k], cr[k], Locations, Held, SpecOf(K), {Nil})
      /\ UNCHANGED <<cr, queued, spent, kind, objects, resources>>
  BY DEF sdkFind, At, Idle, InvOf, PassInv
<1>1. CASE requiredFieldsMissing(k, Subject(k)) \/ ~Exists(Name(k, Subject(k)))
  BY <1>0, <1>1, NotFoundKeeps DEF sdkFind
<1>2. CASE ~requiredFieldsMissing(k, Subject(k)) /\ Exists(Name(k, Subject(k)))
  <2> DEFINE d == pass[k].desired.spec
             n == Name(k, Subject(k))
             s == Observed(Subject(k), resources[n])
             p(l, o) == [pass[k] EXCEPT !.pc = l, !.outcome = o, !.latest.spec = s]
  <2>1. Subject(k) \in SpecOf(K)
    BY <1>0, SpecsOfPass DEF Subject
  <2>2. n \in Names /\ resources[n] \in Resource(K) /\ resources[n] # None
    BY <1>0, <1>2, <2>1, NameIs, NameType DEF AWSType, Exists
  <2>3. s \in SpecOf(K) /\ NameIn(K, k, s) = NameIn(K, k, Subject(k))
    BY <1>0, <2>1, <2>2, ObservedIsSpec
  <2> HIDE DEF s
  <2>4. ASSUME NEW l \in {"finish", "delete", "update"}, NEW o \in Conditions,
               pass' = [pass EXCEPT ![k].pc = l, ![k].outcome = o,
                                    ![k].latest.spec = s],
               l = "update" => pass[k].why = "sync" /\ IsManaged(k),
               l = "delete" => pass[k].why = "delete"
        PROVE  InvOf(K)'
    <3>1. pass' = [pass EXCEPT ![k] = p(l, o)]
      BY <1>0, <2>4 DEF InvOf, PassInv, SoundPass, IdlePass
    <3>2. l \in Held => cr[k].finalizer
      BY <1>0, <2>4 DEF SoundPass, IsManaged, Held
    <3>3. l \in Locations /\ l # "unmanage"
      BY <2>4 DEF Locations
    <3>4. SoundPass(p(l, o), cr[k], Locations, Held, SpecOf(K), {Nil})
      BY <1>0, <2>3, <3>2, <3>3, FilledIsSound
    <3>5. /\ p(l, o).pc = l /\ p(l, o).why = pass[k].why
          /\ p(l, o).desired = pass[k].desired /\ p(l, o).latest.spec = s
      BY <1>0 DEF SoundPass, IdlePass
    <3> HIDE DEF p
    <3>6. CASE l = "finish"
      <4>1. Knows(K, k, p(l, o))
        BY <3>5, <3>6, NothingToKnow
      <4>2. QED
        BY <1>0, <3>1, <3>3, <3>4, <3>5, <4>1, PassStep
    <3>7. CASE l = "update"
      <4>1. Whole(K, d)
        BY <1>0, <2>4, <3>7 DEF InvOf, Knows
      <4>2. Knows(K, k, p(l, o))
        BY <3>5, <3>7, <4>1 DEF Knows
      <4>3. QED
        BY <1>0, <3>1, <3>3, <3>4, <3>5, <4>2, PassStep
    <3>8. CASE l = "delete"
      <4>1. Subject(k) = d
        BY <2>4, <3>8 DEF Subject
      <4>2. Knows(K, k, p(l, o))
        BY <2>3, <2>4, <3>5, <3>8, <4>1 DEF Knows
      <4>3. QED
        BY <1>0, <3>1, <3>3, <3>4, <3>5, <4>2, PassStep
    <3>9. QED
      BY <3>6, <3>7, <3>8
  <2>5. \/ pass[k].why = "created" /\ pass' = [pass EXCEPT ![k].pc = "finish",
             ![k].outcome = "Synced", ![k].latest.spec = s]
        \/ pass[k].why = "delete" /\ pass' = [pass EXCEPT ![k].pc = "delete",
             ![k].outcome = "Unknown", ![k].latest.spec = s]
        \/ pass[k].why = "sync" /\ pass' = [pass EXCEPT ![k].pc = "finish",
             ![k].outcome = "Terminal", ![k].latest.spec = s]
        \/ pass[k].why = "sync" /\ pass' = [pass EXCEPT ![k].pc = "finish",
             ![k].outcome = "Synced", ![k].latest.spec = s]
        \/ /\ pass[k].why = "sync" /\ IsManaged(k)
           /\ pass' = [pass EXCEPT ![k].pc = "update",
                ![k].outcome = "Unknown", ![k].latest.spec = s]
    BY <1>2 DEF sdkFind, s
  <2>6. {"Synced", "Unknown", "Terminal"} \subseteq Conditions
    BY DEF Conditions
  <2> HIDE DEF n, d
  <2>7. QED
    BY <2>4, <2>5, <2>6
<1>3. QED
  BY <1>1, <1>2

-----------------------------------------------------------------------------
(* Create, Update and Delete, which change a resource of AWS.              *)

(* The call has had its effect r on the resource n, and nobody else gets   *)
(* what they do not have by it.                                            *)
LEMMA ResourceChanges ==
  ASSUME NEW K, AWSType(K), NEW n, NEW r \in Resource(K), NEW k,
         r = None \/ r.by = k \/ (resources[n] # None /\ r.by = resources[n].by),
         resources' = [resources EXCEPT ![n] = r], UNCHANGED objects
  PROVE  /\ AWSType(K)'
         /\ \A j \in Key \ {k} : \A m : Owns(resources', j, m) => Owns(resources, j, m)
<1>1. CASE n \notin Names
  <2>1. resources' = resources
    BY <1>1 DEF AWSType
  <2>2. QED
    BY <2>1 DEF AWSType
<1>2. CASE n \in Names
  <2>1. AWSType(K)'
    BY <1>2 DEF AWSType
  <2>2. \A m : m # n => resources'[m] = resources[m]
    OBVIOUS
  <2>3. resources'[n] = r
    BY <1>2 DEF AWSType
  <2>4. QED
    BY <2>1, <2>2, <2>3 DEF Owns
<1>3. QED
  BY <1>1, <1>2

(* The pass gets the answer, and becomes p, or does not get it.            *)
LEMMA AnsweredStep ==
  ASSUME NEW K \in Kinds, InvOf(K), NEW k \in Key, ~Idle(k), NEW p, Answered(k, p),
         SoundPass(p, cr[k], Locations, Held, SpecOf(K), {Nil}), Knows(K, k, p),
         p.pc = "unmanage" => ~Owns(resources', k, NameIn(K, k, p.desired.spec)),
         UNCHANGED <<cr, queued, kind>>, AWSType(K)',
         \A j \in Key \ {k} : \A n : Owns(resources', j, n) => Owns(resources, j, n)
  PROVE  InvOf(K)'
<1>1. PassInv(Locations, Held, SpecOf(K), {Nil}) /\ spent \in Counts
  BY DEF InvOf, PassInv
<1>2. CASE pass' = [pass EXCEPT ![k] = p] /\ UNCHANGED spent
  <2>1. PassInv(Locations, Held, SpecOf(K), {Nil})'
    BY <1>1, <1>2, StepOfPass
  <2>2. QED
    BY <1>2, <2>1, StepOf
<1>3. CASE Spend("faults") /\ EndPass(k, "Recoverable")
  BY <1>1, <1>3, SpendType, EndStep DEF Conditions
<1>4. QED
  BY <1>2, <1>3 DEF Answered

LEMMA RefusedStep ==
  ASSUME NEW K \in Kinds, InvOf(K), NEW k \in Key, ~Idle(k), Refused(k),
         UNCHANGED <<cr, queued, kind, objects>>
  PROVE  InvOf(K)'
<1>1. AWSType(K)' /\ spent' \in Counts /\ "Recoverable" \in Conditions
  BY DEF Refused, InvOf, PassInv, AWSType, Conditions
<1>2. QED
  BY <1>1, EndStep DEF Refused

LEMMA sdkCreateStep ==
  ASSUME NEW K \in Kinds, InvOf(K), NEW k \in Key, sdkCreate(k)
  PROVE  InvOf(K)'
<1> DEFINE s == pass[k].desired.spec
           n == Name(k, s)
           r == [by |-> k, ids |-> s.ids, cors |-> s.cors]
           l == Observed(s, r)
           p == [pass[k] EXCEPT !.pc = "writeback", !.why = "created",
                                !.latest.spec = l]
<1>0. /\ pass[k].pc = "create" /\ ~Idle(k) /\ kind = K /\ AWSType(K)
      /\ SoundPass(pass[k], cr[k], Locations, Held, SpecOf(K), {Nil})
      /\ UNCHANGED <<cr, queued, kind, objects>>
  BY DEF sdkCreate, At, Idle, InvOf, PassInv
<1>1. CASE RequestFails(s) \/ Lacking(s) \/ Exists(n)
  BY <1>0, <1>1, RefusedStep DEF sdkCreate
<1>2. CASE ~(RequestFails(s) \/ Lacking(s) \/ Exists(n))
  <2>1. resources' = [resources EXCEPT ![n] = r] /\ Answered(k, p)
    BY <1>2 DEF sdkCreate
  <2>2. s \in SpecOf(K)
    BY <1>0, SpecsOfPass
  <2> HIDE DEF s
  <2>3. r \in Resource(K)
    BY <2>2, SpecFields, IsResource
  <2>4. r # None
    BY ReferencingNil DEF None
  <2>5. l \in SpecOf(K) /\ l.refs = s.refs /\ \A f \in FieldsOf(K) : l.ids[f] = s.ids[f]
    BY <1>0, <2>2, <2>3, <2>4, ObservedIsSpec
  <2> HIDE DEF l
  <2>6. cr[k].finalizer /\ pass[k].pc # "idle"
    BY <1>0 DEF SoundPass, Held
  <2>7. /\ SoundPass(p, cr[k], Locations, Held, SpecOf(K), {Nil})
        /\ p.pc = "writeback" /\ p.desired = pass[k].desired /\ p.latest.spec = l
    <3>1. /\ DOMAIN pass[k] = DOMAIN IdlePass
          /\ pass[k].latest.status = Nil
          /\ pass[k].latest \in [spec : SpecOf(K) \cup {Nil}, status : {Nil} \cup {Nil}]
      BY <1>0 DEF SoundPass
    <3>2. [pass[k].latest EXCEPT !.spec = l] = [spec |-> l, status |-> Nil]
      BY <3>1
    <3>3. /\ p.pc = "writeback" /\ p.why = "created" /\ p.desired = pass[k].desired
          /\ p.outcome = pass[k].outcome /\ p.latest = [spec |-> l, status |-> Nil]
          /\ DOMAIN p = DOMAIN pass[k]
      BY <3>1, <3>2 DEF IdlePass
    <3> HIDE DEF p
    <3>4. p.latest \in [spec : SpecOf(K), status : {Nil}] /\ p.latest.spec = l
      BY <2>5, <3>3
    <3>5. p.pc \in Locations /\ p.pc # "unmanage"
      BY <3>3 DEF Locations
    <3>6. SoundPass(p, cr[k], Locations, Held, SpecOf(K), {Nil})
      BY <1>0, <2>6, <3>3, <3>4, <3>5, AnsweredIsSound
    <3>7. QED
      BY <3>3, <3>4, <3>6
  <2> HIDE DEF p
  <2>8. Knows(K, k, p)
    BY <2>5, <2>7, ReferencesAre DEF Knows, s
  <2>9. r.by = k
    OBVIOUS
  <2> HIDE DEF r, n
  <2>10. /\ AWSType(K)'
         /\ \A j \in Key \ {k} : \A m :
              Owns(resources', j, m) => Owns(resources, j, m)
    BY <1>0, <2>1, <2>3, <2>9, ResourceChanges
  <2>11. p.pc # "unmanage"
    BY <2>7
  <2>12. QED
    BY <1>0, <2>1, <2>7, <2>8, <2>10, <2>11, AnsweredStep
<1>3. QED
  BY <1>1, <1>2

LEMMA sdkUpdateStep ==
  ASSUME NEW K \in Kinds, InvOf(K), NEW k \in Key, sdkUpdate(k)
  PROVE  InvOf(K)'
<1> DEFINE s == pass[k].desired.spec
           n == Name(k, s)
           r0 == resources[n]
           r == Updated(K, s, r0)
           l == Observed(s, r)
           p == [pass[k] EXCEPT !.pc = "writeback", !.why = "updated",
                                !.latest.spec = l]
<1>0. /\ pass[k].pc = "update" /\ ~Idle(k) /\ kind = K /\ AWSType(K)
      /\ SoundPass(pass[k], cr[k], Locations, Held, SpecOf(K), {Nil})
      /\ UNCHANGED <<cr, queued, kind, objects>>
  BY DEF sdkUpdate, At, Idle, InvOf, PassInv
<1>1. CASE RequestFails(s) \/ (kind = "Function" /\ Lacking(s)) \/ ~Exists(n)
  BY <1>0, <1>1, RefusedStep DEF sdkUpdate
<1>2. CASE ~(RequestFails(s) \/ (kind = "Function" /\ Lacking(s)) \/ ~Exists(n))
  <2>1. resources' = [resources EXCEPT ![n] = r] /\ Answered(k, p)
    BY <1>0, <1>2 DEF sdkUpdate, Updated, SentOf, SentIn
  <2>2. s \in SpecOf(K)
    BY <1>0, SpecsOfPass
  <2>3. n \in Names /\ r0 \in Resource(K) /\ r0 # None
    BY <1>0, <1>2, <2>2, NameIs, NameType DEF AWSType, Exists
  <2> HIDE DEF s, n, r0
  <2>4. /\ r \in Resource(K) /\ r # None /\ r.by = r0.by
        /\ \A f \in FieldsOf(K) :
             r.ids[f] = IF f \in SentIn(K, s) THEN s.ids[f] ELSE r0.ids[f]
    BY <1>0, <2>2, <2>3, UpdatedIsResource
  <2> HIDE DEF r
  <2>5. /\ l \in SpecOf(K) /\ l.refs = s.refs
        /\ \A f \in FieldsOf(K) :
             l.ids[f] = IF f \in ReadBack[K] THEN r.ids[f] ELSE s.ids[f]
    BY <1>0, <2>2, <2>4, ObservedIsSpec
  <2> HIDE DEF l
  <2>6. cr[k].finalizer /\ pass[k].pc # "idle"
    BY <1>0 DEF SoundPass, Held
  <2>7. /\ SoundPass(p, cr[k], Locations, Held, SpecOf(K), {Nil})
        /\ p.pc = "writeback" /\ p.desired = pass[k].desired /\ p.latest.spec = l
    <3>1. /\ DOMAIN pass[k] = DOMAIN IdlePass
          /\ pass[k].latest.status = Nil
          /\ pass[k].latest \in [spec : SpecOf(K) \cup {Nil}, status : {Nil} \cup {Nil}]
      BY <1>0 DEF SoundPass
    <3>2. [pass[k].latest EXCEPT !.spec = l] = [spec |-> l, status |-> Nil]
      BY <3>1
    <3>3. /\ p.pc = "writeback" /\ p.why = "updated" /\ p.desired = pass[k].desired
          /\ p.outcome = pass[k].outcome /\ p.latest = [spec |-> l, status |-> Nil]
          /\ DOMAIN p = DOMAIN pass[k]
      BY <3>1, <3>2 DEF IdlePass
    <3> HIDE DEF p
    <3>4. p.latest \in [spec : SpecOf(K), status : {Nil}] /\ p.latest.spec = l
      BY <2>5, <3>3
    <3>5. p.pc \in Locations /\ p.pc # "unmanage"
      BY <3>3 DEF Locations
    <3>6. SoundPass(p, cr[k], Locations, Held, SpecOf(K), {Nil})
      BY <1>0, <2>6, <3>3, <3>4, <3>5, AnsweredIsSound
    <3>7. QED
      BY <3>3, <3>4, <3>6
  <2> HIDE DEF p
  <2>8. \A i \in DOMAIN ReferencesOf[K] :
          ReferencesOf[K][i].required
            => l.ids[ReferencesOf[K][i].field] = s.ids[ReferencesOf[K][i].field]
    BY <2>4, <2>5, ReferencesAre, RequiredAreSent
  <2>9. Knows(K, k, p)
    BY <2>5, <2>7, <2>8 DEF Knows, s
  <2>10. /\ AWSType(K)'
         /\ \A j \in Key \ {k} : \A m :
              Owns(resources', j, m) => Owns(resources, j, m)
    BY <1>0, <2>1, <2>3, <2>4, ResourceChanges DEF r0
  <2>11. p.pc # "unmanage"
    BY <2>7
  <2>12. QED
    BY <1>0, <2>1, <2>7, <2>9, <2>10, <2>11, AnsweredStep
<1>3. QED
  BY <1>1, <1>2

(* What the patch makes of the stored spec c: a field that is given and    *)
(* that the answer has changed becomes what the answer says.               *)
Restored(d, l, c) ==
  [Patched(ClearResolvedReferences(d), ClearResolvedReferences(l), c) EXCEPT
     !.ids = Patched(ClearResolvedReferences(d).ids, ClearResolvedReferences(l).ids,
                     c.ids)]

LEMMA WhatIsStored ==
  ASSUME NEW K \in Kinds, NEW d \in SpecOf(K), NEW l \in SpecOf(K),
         NEW c \in SpecOf(K), l.refs = d.refs
  PROVE  /\ Restored(d, l, c) \in SpecOf(K)
         /\ Restored(d, l, c).refs = c.refs
         /\ \A f \in FieldsOf(K) :
              Restored(d, l, c).ids[f] =
                IF d.refs[f] = <<>> /\ d.ids[f] # l.ids[f] THEN l.ids[f] ELSE c.ids[f]
<1> DEFINE clear(s) == [f \in FieldsOf(K) |-> IF s.refs[f] # <<>> THEN <<>>
                                              ELSE s.ids[f]]
           ids == [f \in FieldsOf(K) |->
                     IF clear(d)[f] # clear(l)[f] THEN clear(l)[f] ELSE c.ids[f]]
           cors == IF d.cors # l.cors THEN l.cors ELSE c.cors
<1>1. ASSUME NEW s \in SpecOf(K)
      PROVE  /\ ClearResolvedReferences(s)
                  = [ids |-> clear(s), refs |-> s.refs, cors |-> s.cors]
             /\ clear(s) \in [FieldsOf(K) -> Seq(Value)]
  <2>1. clear(s) = [f \in DOMAIN s.ids |-> IF s.refs[f] # <<>> THEN <<>>
                                           ELSE s.ids[f]]
    BY SpecFields
  <2>2. clear(s) \in [FieldsOf(K) -> Seq(Value)]
    BY SpecFields
  <2> HIDE DEF clear
  <2>3. ClearResolvedReferences(s) = [s EXCEPT !.ids = clear(s)]
    BY <2>1 DEF ClearResolvedReferences
  <2>4. s = [ids |-> s.ids, refs |-> s.refs, cors |-> s.cors]
    BY SpecFields
  <2>5. QED
    BY <2>2, <2>3, <2>4
<1>2. \A f \in FieldsOf(K) :
        ids[f] = IF d.refs[f] = <<>> /\ d.ids[f] # l.ids[f] THEN l.ids[f] ELSE c.ids[f]
  OBVIOUS
<1>3. ids \in [FieldsOf(K) -> Seq(Value)]
  BY <1>1, SpecFields
<1>4. cors \in Value \cup {Nil}
  BY SpecFields
<1> HIDE DEF clear
<1>5. Patched(ClearResolvedReferences(d).ids, ClearResolvedReferences(l).ids, c.ids)
        = ids
  BY <1>1 DEF Patched
<1> HIDE DEF ids
<1>6. Patched(ClearResolvedReferences(d), ClearResolvedReferences(l), c)
        = [ids |-> IF clear(d) # clear(l) THEN clear(l) ELSE c.ids,
           refs |-> c.refs, cors |-> cors]
  BY <1>1 DEF Patched
<1>7. Restored(d, l, c) = [ids |-> ids, refs |-> c.refs, cors |-> cors]
  BY <1>5, <1>6 DEF Restored
<1>8. Restored(d, l, c) \in SpecOf(K)
  BY <1>3, <1>4, <1>7, IsSpec
<1>9. Restored(d, l, c).refs = c.refs /\ Restored(d, l, c).ids = ids
  BY <1>7
<1>10. QED
  BY <1>2, <1>8, <1>9

LEMMA WriteBackStep ==
  ASSUME NEW K \in Kinds, InvOf(K), NEW k \in Key, WriteBack(k)
  PROVE  InvOf(K)'
<1> DEFINE t == Restored(pass[k].desired.spec, pass[k].latest.spec, cr[k].spec)
           p == IF pass[k].why = "created" THEN [pass[k] EXCEPT !.pc = "find"]
                ELSE [pass[k] EXCEPT !.pc = "finish", !.outcome = "Synced"]
<1>0. /\ pass[k].pc = "writeback" /\ ~Idle(k) /\ kind = K /\ AWSType(K)
      /\ PassInv(Locations, Held, SpecOf(K), {Nil})
      /\ SoundPass(pass[k], cr[k], Locations, Held, SpecOf(K), {Nil})
      /\ SoundCR(cr[k], SpecOf(K), {Nil})
  BY DEF WriteBack, At, Idle, InvOf, PassInv
<1>1. StoreSpec(k, t) /\ UNCHANGED <<kind, objects, resources>>
  BY DEF WriteBack, Restored
<1>2. pass' = [pass EXCEPT ![k] = p]
  BY <1>0 DEF WriteBack, Goto, EndPass, PassInv, SoundPass
<1>3. cr[k].exists /\ cr[k].spec \in SpecOf(K) /\ cr[k].finalizer
  BY <1>0, ExistingCR DEF SoundPass, SoundCR, Held
<1>4. pass[k].latest.spec.refs = pass[k].desired.spec.refs
  BY <1>0 DEF InvOf, Knows
<1>5. t \in SpecOf(K)
  BY <1>0, <1>3, <1>4, SpecsOfPass, WhatIsStored
<1> HIDE DEF t
<1>6. /\ SoundPass(p, cr[k], Locations, Held, SpecOf(K), {Nil})
      /\ Knows(K, k, p) /\ p.pc # "unmanage"
  <2>1. CASE pass[k].why = "created"
    <3>1. p = [pass[k] EXCEPT !.pc = "find"]
      BY <2>1
    <3>2. SoundPass(p, cr[k], Locations, Held, SpecOf(K), {Nil})
      BY <1>0, <3>1, MovedIsSound DEF Idle, At, Locations, Held
    <3>3. p.pc = "find" /\ p.why = "created"
      BY <1>0, <2>1, <3>1 DEF SoundPass, IdlePass
    <3> HIDE DEF p
    <3>4. QED
      BY <3>2, <3>3 DEF Knows
  <2>2. CASE pass[k].why # "created"
    <3>1. p = [pass[k] EXCEPT !.pc = "finish", !.outcome = "Synced"]
      BY <2>2
    <3>2. SoundPass(p, cr[k], Locations, Held, SpecOf(K), {Nil})
      <4>1. "Synced" \in Conditions /\ pass[k].pc # "idle"
        BY <1>0 DEF Conditions
      <4>2. SoundPass([pass[k] EXCEPT !.pc = "finish", !.outcome = "Synced"],
                      cr[k], Locations, Held, SpecOf(K), {Nil})
        BY <1>0, <4>1, EndIsSound, Commons
      <4> HIDE DEF p
      <4>3. QED
        BY <3>1, <4>2
    <3>3. p.pc = "finish"
      BY <1>0, <3>1 DEF SoundPass, IdlePass
    <3> HIDE DEF p
    <3>4. Knows(K, k, p)
      BY <3>3, NothingToKnow
    <3>5. QED
      BY <3>2, <3>3, <3>4
  <2>3. QED
    BY <2>1, <2>2
<1> HIDE DEF p
<1>7. PassInv(Locations, Held, SpecOf(K), {Nil})'
  BY <1>0, <1>1, <1>2, <1>3, <1>5, <1>6, StoreSpecStep
<1>8. AWSType(K)'
  BY <1>0, <1>1 DEF AWSType
<1>9. QED
  BY <1>1, <1>2, <1>6, <1>7, <1>8, StepOf

LEMMA sdkDeleteStep ==
  ASSUME NEW K \in Kinds, InvOf(K), NEW k \in Key, sdkDelete(k)
  PROVE  InvOf(K)'
<1> DEFINE n == Name(k, pass[k].latest.spec)
           p == [pass[k] EXCEPT !.pc = "unmanage"]
<1>0. /\ pass[k].pc = "delete" /\ ~Idle(k) /\ kind = K /\ AWSType(K)
      /\ SoundPass(pass[k], cr[k], Locations, Held, SpecOf(K), {Nil})
      /\ UNCHANGED <<cr, queued, kind, objects>>
  BY DEF sdkDelete, At, Idle, InvOf, PassInv
<1>1. /\ pass[k].why = "delete"
      /\ n = NameIn(K, k, pass[k].desired.spec)
  BY <1>0, NameIs DEF InvOf, Knows
<1>2. CASE ~Exists(n)
  BY <1>0, <1>2, RefusedStep DEF sdkDelete
<1>3. CASE Exists(n)
  <2>1. resources' = [resources EXCEPT ![n] = None] /\ Answered(k, p)
    BY <1>3 DEF sdkDelete
  <2>2. n \in Names
    BY <1>0, <1>1, <1>3, SpecsOfPass, NameType DEF Exists
  <2> HIDE DEF n
  <2>3. None \in Resource(K)
    BY DEF Resource
  <2>4. /\ AWSType(K)'
        /\ \A j \in Key \ {k} : \A m :
             Owns(resources', j, m) => Owns(resources, j, m)
    BY <1>0, <2>1, <2>3, ResourceChanges
  <2>5. SoundPass(p, cr[k], Locations, Held, SpecOf(K), {Nil})
    BY <1>0, <1>1, MovedIsSound DEF Idle, At, Locations, Held
  <2>6. p.pc = "unmanage" /\ p.desired = pass[k].desired
    BY <1>0 DEF SoundPass, IdlePass
  <2> HIDE DEF p
  <2>7. Knows(K, k, p)
    BY <2>6, NothingToKnow
  <2>8. ~Owns(resources', k, NameIn(K, k, p.desired.spec))
    BY <1>0, <1>1, <2>1, <2>2, <2>6 DEF Owns, AWSType
  <2>9. QED
    BY <1>0, <2>1, <2>4, <2>5, <2>7, <2>8, AnsweredStep
<1>4. QED
  BY <1>2, <1>3

-----------------------------------------------------------------------------
(* What happens around the passes, and the invariant.                      *)

LEMMA EnvironmentStep ==
  ASSUME NEW K \in Kinds, InvOf(K), NEW k \in Key, Environment(k)
  PROVE  InvOf(K)'
<1>0. /\ PassInv(Locations, Held, SpecOf(K), {Nil}) /\ kind = K /\ AWSType(K)'
      /\ UNCHANGED <<kind, objects, resources>>
  BY DEF Environment, InvOf, AWSType
<1>1. CASE CallFails(k)
  <2>1. /\ ~Idle(k) /\ EndPass(k, "Recoverable") /\ UNCHANGED <<cr, queued>>
        /\ spent' \in Counts
    BY <1>0, <1>1, SpendType DEF CallFails, Idle, At, PassInv
  <2>2. QED
    BY <1>0, <2>1, EndStep DEF Conditions
<1>2. CASE Resync(k)
  <2>1. PassInv(Locations, Held, SpecOf(K), {Nil})'
    BY <1>0, <1>2, ResyncStep
  <2>2. QED
    BY <1>0, <1>2, <2>1, StepElsewhere DEF Resync
<1>3. ASSUME NEW s \in Wanted, UserApply(k, s, Nil) \/ UserEdit(k, s)
      PROVE  InvOf(K)'
  <2>1. s \in SpecOf(K)
    BY <1>0, ReferencingSpecs DEF Wanted
  <2>2. PassInv(Locations, Held, SpecOf(K), {Nil})'
    BY <1>0, <1>3, <2>1, UserApplyStep, UserEditStep
  <2>3. QED
    BY <1>0, <1>3, <2>2, StepElsewhere DEF UserApply, UserEdit
<1>4. CASE UserDelete(k)
  <2>1. PassInv(Locations, Held, SpecOf(K), {Nil})'
    BY <1>0, <1>4, UserDeleteStep
  <2>2. QED
    BY <1>0, <1>4, <2>1, StepElsewhere DEF UserDelete
<1>5. QED
  BY <1>1, <1>2, <1>3, <1>4 DEF Environment

LEMMA CrashKeeps ==
  ASSUME NEW K \in Kinds, InvOf(K), Crash, UNCHANGED <<kind, objects, resources>>
  PROVE  InvOf(K)'
<1>1. PassInv(Locations, Held, SpecOf(K), {Nil})'
  BY CrashStep, Commons DEF InvOf
<1>2. \A k \in Key : pass'[k] = IdlePass
  BY DEF Crash
<1>3. \A k \in Key : Knows(K, k, pass'[k]) /\ pass'[k].pc # "unmanage"
  BY <1>2, IdleKnows
<1>4. QED
  BY <1>1, <1>3 DEF InvOf, AWSType, NothingOwned, At

LEMMA DriftStep ==
  ASSUME NEW K \in Kinds, InvOf(K), NEW n \in Names, Drift(n)
  PROVE  InvOf(K)'
<1> DEFINE r == IF Exists(n) THEN None ELSE Foreign(kind)
<1>1. r \in Resource(K)
  <2>1. [f \in FieldsOf(K) |-> <<>>] \in [FieldsOf(K) -> Seq(Value)]
    OBVIOUS
  <2>2. Foreign(kind) \in Resource(K)
    BY <2>1, IsResource DEF Foreign, InvOf
  <2>3. QED
    BY <2>2 DEF Resource
<1>2. \A j \in Key : r = None \/ r.by # j
  BY ReferencingNil DEF Foreign
<1> HIDE DEF r
<1>3. /\ resources' = [resources EXCEPT ![n] = r]
      /\ UNCHANGED <<cr, queued, pass, kind, objects>>
  BY DEF Drift, r
<1>4. AWSType(K)'
  BY <1>1, <1>3 DEF AWSType, InvOf
<1>5. spent' \in Counts
  BY SpendType DEF Drift, InvOf, PassInv
<1>6. PassInv(Locations, Held, SpecOf(K), {Nil})'
  <2>1. PassInv(Locations, Held, SpecOf(K), {Nil}) /\ queued' \subseteq Key
    BY <1>3 DEF InvOf, PassInv
  <2>2. QED
    BY <1>3, <1>5, <2>1, NoStep
<1>7. \A j \in Key : \A m : Owns(resources', j, m) => Owns(resources, j, m)
  BY <1>2, <1>3 DEF Owns, InvOf, AWSType
<1>8. QED
  BY <1>3, <1>4, <1>6, <1>7 DEF InvOf, NothingOwned, At

LEMMA ObjectChangesStep ==
  ASSUME NEW K \in Kinds, InvOf(K), NEW o \in Object, ObjectChanges(o)
  PROVE  InvOf(K)'
<1>1. spent' \in Counts
  BY SpendType DEF ObjectChanges, InvOf, PassInv
<1>2. PassInv(Locations, Held, SpecOf(K), {Nil})'
  <2>1. PassInv(Locations, Held, SpecOf(K), {Nil}) /\ queued' \subseteq Key
    BY DEF ObjectChanges, InvOf, PassInv
  <2>2. QED
    BY <1>1, <2>1, NoStep DEF ObjectChanges
<1>3. AWSType(K)'
  BY DEF ObjectChanges, InvOf, AWSType
<1>4. QED
  BY <1>2, <1>3, StepElsewhere DEF ObjectChanges

LEMMA NextKeepsInvOf ==
  ASSUME NEW K \in Kinds, InvOf(K), [Next]_vars
  PROVE  InvOf(K)'
<1>1. ASSUME NEW k \in Key, Handlers(k)
      PROVE  InvOf(K)'
  BY <1>1, OtherStep, ResolveStep, sdkFindStep, sdkCreateStep, sdkUpdateStep,
     WriteBackStep, sdkDeleteStep DEF Handlers, ReadOne, Create, Update, Delete
<1>2. CASE UNCHANGED vars
  <2>1. PassInv(Locations, Held, SpecOf(K), {Nil})'
    <3>1. PassInv(Locations, Held, SpecOf(K), {Nil}) /\ queued' \subseteq Key
          /\ spent' \in Counts
      BY <1>2 DEF vars, passVars, InvOf, PassInv
    <3>2. QED
      BY <1>2, <3>1, NoStep DEF vars, passVars
  <2>2. AWSType(K)'
    BY <1>2 DEF vars, InvOf, AWSType
  <2>3. QED
    BY <1>2, <2>1, <2>2, StepElsewhere DEF vars, passVars
<1>3. QED
  BY <1>1, <1>2, EnvironmentStep, ObjectChangesStep, DriftStep, CrashKeeps DEF Next

LEMMA InitImpliesInv ==
  ASSUME Init
  PROVE  Inv
<1>1. PICK K \in Kinds : K = kind
  BY DEF Init
<1>2. PassInv(Locations, Held, SpecOf(K), {Nil})
  <2>1. Wanted \subseteq SpecOf(K) /\ Nil \in {Nil} /\ "idle" \in Locations
    BY <1>1, ReferencingSpecs DEF Wanted, Locations
  <2>2. PassInit(Wanted, Nil)
    BY DEF Init
  <2>3. ASSUME NEW W, W = Wanted
        PROVE  PassInv(Locations, Held, SpecOf(K), {Nil})
    BY <2>1, <2>2, <2>3, InitInv
  <2>4. QED
    BY <2>3
<1>3. AWSType(K)
  BY DEF Init, AWSType, Resource
<1>4. \A k \in Key : pass[k] = IdlePass
  BY DEF Init, PassInit
<1>5. \A k \in Key : Knows(K, k, pass[k]) /\ pass[k].pc # "unmanage"
  BY <1>4, IdleKnows
<1>6. InvOf(K)
  BY <1>1, <1>2, <1>3, <1>5 DEF InvOf, NothingOwned, At
<1>7. QED
  BY <1>6 DEF Inv

LEMMA InvInductive == Inv /\ [Next]_vars => Inv'
BY NextKeepsInvOf DEF Inv

LEMMA InvHolds == Spec => []Inv
BY InitImpliesInv, InvInductive, PTL DEF Spec

-----------------------------------------------------------------------------
(* The theorems.                                                           *)

(* The variables have their types in every reachable state: passes end up  *)
(* with no specs and no resources of another shape.                        *)
THEOREM TypeCorrect == Spec => []TypeOK
<1>1. Inv => TypeOK
  <2>1. SUFFICES ASSUME NEW K \in Kinds, InvOf(K) PROVE TypeOK
    BY DEF Inv
  <2>2. kind = K /\ PassTypeOK(Locations, SpecOf(K), {Nil})
    BY <2>1, InvGivesType DEF InvOf
  <2>3. QED
    BY <2>1, <2>2 DEF InvOf, AWSType, TypeOK
<1>2. QED
  BY <1>1, InvHolds, PTL

(* Every call that changes something in AWS carries a value for each       *)
(* reference of its spec that names a CR, for any number of references in a*)
(* list, wherever between them are those that name none.                   *)
THEOREM NothingIsSentHalfResolved == Spec => []NeverHalfResolved
<1>1. Inv => NeverHalfResolved
  BY DEF Inv, InvOf, Knows, Whole, NeverHalfResolved, At
<1>2. QED
  BY <1>1, InvHolds, PTL

(* A pass is changed by its own steps and by restarts.                     *)
LEMMA OnlyItsPass ==
  ASSUME DOMAIN pass = Key,
         NEW j \in Key, NEW k \in Key \ {j}, Handlers(j) \/ Environment(j)
  PROVE  pass'[k] = pass[k]
<1>1. CASE Other(j)
  BY <1>1 DEF Other, Start, Manage, Unmanage, Finish, Goto, EndPass
<1>2. CASE Resolve(j)
  BY <1>2 DEF Resolve, ResolveReferences, ResolveReference, ReferenceNotReady,
              Resolved, ResolutionError, Goto, EndPass
<1>3. CASE sdkFind(j)
  <2>1. CASE NotFound(j)
    <3>1. CASE pass[j].why = "sync"
      BY <2>1, <3>1 DEF NotFound, Goto
    <3>2. CASE pass[j].why = "delete"
      BY <2>1, <3>2 DEF NotFound, Goto
    <3>3. CASE pass[j].why \notin {"sync", "delete"}
      BY <2>1, <3>3 DEF NotFound, EndPass
    <3>4. QED
      BY <3>1, <3>2, <3>3
  <2>2. CASE ~NotFound(j)
    BY <1>3, <2>2 DEF sdkFind
  <2>3. QED
    BY <2>1, <2>2
<1>4. CASE sdkCreate(j) \/ sdkUpdate(j) \/ sdkDelete(j)
  BY <1>4 DEF sdkCreate, sdkUpdate, sdkDelete, Refused, Answered, EndPass
<1>5. CASE WriteBack(j)
  BY <1>5 DEF WriteBack, Goto, EndPass
<1>6. CASE Environment(j)
  BY <1>6 DEF Environment, CallFails, EndPass, Resync, UserApply, UserEdit, UserDelete
<1>7. QED
  BY <1>1, <1>2, <1>3, <1>4, <1>5, <1>6 DEF Handlers, ReadOne, Create, Update, Delete

(* So is a CR, but for the users, who change no CR that is being stored.   *)
LEMMA StoredByWriteBack ==
  ASSUME NEW K \in Kinds, InvOf(K), [Next]_vars, NEW k \in Key,
         At(k, "writeback"), ~At(k, "writeback")'
  PROVE  WriteBack(k) \/ UNCHANGED <<cr, kind>>
<1>1. CASE Handlers(k)
  BY <1>1 DEF At, Handlers, Other, Start, Manage, Unmanage, Finish, Idle,
       Resolve, ResolveReferences, ResolveReference, ReferenceNotReady, Resolved,
       Resolving, ReadOne, sdkFind, Create, sdkCreate, Update, sdkUpdate, Delete,
       sdkDelete
<1>2. CASE Environment(k)
  BY <1>2 DEF At, Environment, CallFails, Resync, UserApply, UserEdit, UserDelete
<1>3. ASSUME NEW j \in Key \ {k}, Handlers(j) \/ Environment(j)
      PROVE  FALSE
  BY <1>3, OnlyItsPass DEF At, InvOf, PassInv
<1>4. CASE Crash /\ UNCHANGED <<kind, objects, resources>>
  BY <1>4 DEF Crash
<1>5. CASE UNCHANGED pass
  BY <1>5 DEF At
<1>6. QED
  BY <1>1, <1>2, <1>3, <1>4, <1>5 DEF Next, vars, passVars, ObjectChanges, Drift

(* A valid spec stays valid when the pass that has read its references     *)
(* stores what AWS answered: what the references resolved to is never      *)
(* stored, and no required field gets lost.                                *)
LEMMA WriteBackKeepsValid ==
  ASSUME NEW K \in Kinds, InvOf(K), NEW k \in Key, WriteBack(k), cr[k].exists,
         cr[k].spec.refs = pass[k].desired.spec.refs,
         validateReferenceFields(K, cr[k].spec)
  PROVE  validateReferenceFields(K, cr'[k].spec)
<1> DEFINE d == pass[k].desired.spec
           l == pass[k].latest.spec
           c == cr[k].spec
           t == Restored(d, l, c)
<1>1. /\ At(k, "writeback") /\ ~Idle(k) /\ PassInv(Locations, Held, SpecOf(K), {Nil})
      /\ SoundCR(cr[k], SpecOf(K), {Nil})
  BY DEF WriteBack, At, Idle, InvOf, PassInv
<1>2. d \in SpecOf(K) /\ l \in SpecOf(K) /\ c \in SpecOf(K)
  BY <1>1, SpecsOfPass, ExistingCR DEF SoundCR
<1>3. /\ l.refs = d.refs
      /\ \A i \in DOMAIN ReferencesOf[K] :
           ReferencesOf[K][i].required
             => l.ids[ReferencesOf[K][i].field] = d.ids[ReferencesOf[K][i].field]
  BY <1>1 DEF InvOf, Knows, At
<1>4. cr'[k].spec = t
  <2>1. cr' = [cr EXCEPT ![k] = [cr[k] EXCEPT !.spec = t]]
    BY <1>1 DEF WriteBack, StoreSpec, Restored, PassInv
  <2> HIDE DEF t
  <2>2. [cr[k] EXCEPT !.spec = t].spec = t
    BY <1>1, ExistingCR DEF SoundCR
  <2>3. QED
    BY <1>1, <2>1, <2>2 DEF PassInv
<1> HIDE DEF d, l, c
<1>5. /\ t.refs = c.refs
      /\ \A f \in FieldsOf(K) :
           t.ids[f] = IF d.refs[f] = <<>> /\ d.ids[f] # l.ids[f] THEN l.ids[f]
                      ELSE c.ids[f]
  BY <1>2, <1>3, WhatIsStored
<1> HIDE DEF t
<1>6. c.refs = d.refs /\ validateReferenceFields(K, c)
  BY DEF c, d
<1>7. validateReferenceFields(K, t)
  <2>1. SUFFICES ASSUME NEW i \in DOMAIN ReferencesOf[K]
                 PROVE  LET r == ReferencesOf[K][i] IN
                        /\ t.refs[r.field] = <<>> \/ t.ids[r.field] = <<>>
                        /\ r.required => t.refs[r.field] # <<>> \/ t.ids[r.field] # <<>>
    BY DEF validateReferenceFields, Range
  <2> DEFINE f == ReferencesOf[K][i].field
  <2>2. f \in FieldsOf(K) /\ ReferencesOf[K][i] \in Range(ReferencesOf[K])
    BY ReferencesAre
  <2>3. /\ c.refs[f] = <<>> \/ c.ids[f] = <<>>
        /\ ReferencesOf[K][i].required => c.refs[f] # <<>> \/ c.ids[f] # <<>>
    BY <1>6, <2>2 DEF validateReferenceFields
  <2>4. ReferencesOf[K][i].required => l.ids[f] = d.ids[f]
    BY <1>3
  <2> HIDE DEF f
  <2>5. t.refs[f] = <<>> \/ t.ids[f] = <<>>
    BY <1>5, <1>6, <2>2, <2>3
  <2>6. ReferencesOf[K][i].required => t.refs[f] # <<>> \/ t.ids[f] # <<>>
    BY <1>5, <1>6, <2>2, <2>3, <2>4
  <2>7. QED
    BY <2>5, <2>6 DEF f
<1>8. QED
  BY <1>4, <1>7

THEOREM StoredSpecsStayValid == Spec => ReferencesStayValid
<1> DEFINE A == \A k \in Key :
       /\ At(k, "writeback") /\ ~At(k, "writeback")' /\ cr[k].exists
       /\ cr[k].spec.refs = pass[k].desired.spec.refs
       /\ validateReferenceFields(kind, cr[k].spec)
       => validateReferenceFields(kind, cr'[k].spec)
<1>1. Inv /\ [Next]_vars => [A]_vars
  <2>1. SUFFICES ASSUME NEW K \in Kinds, InvOf(K), [Next]_vars PROVE A
    BY DEF Inv
  <2>2. kind = K
    BY <2>1 DEF InvOf
  <2>3. QED
    BY <2>1, <2>2, StoredByWriteBack, WriteBackKeepsValid
<1>2. Spec => [][A]_vars
  BY <1>1, InvHolds, PTL DEF Spec
<1>3. QED
  BY <1>2 DEF ReferencesStayValid

-----------------------------------------------------------------------------
(* A CR that its finalizer holds goes by Unmanage.                         *)
LEMMA GoesByUnmanage ==
  ASSUME NEW K \in Kinds, InvOf(K), [Next]_vars, NEW k \in Key,
         cr[k].exists, cr[k].finalizer, ~cr'[k].exists
  PROVE  At(k, "unmanage")
<1>0. DOMAIN cr = Key /\ SoundCR(cr[k], SpecOf(K), {Nil})
  BY DEF InvOf, PassInv
<1>1. DOMAIN cr[k] = DOMAIN NoCR
  BY <1>0, ExistingCR DEF SoundCR, NoCR
<1>2. ASSUME NEW j \in Key, Handlers(j)
      PROVE  At(k, "unmanage")
  <2>1. CASE Unmanage(j)
    BY <1>0, <2>1 DEF Unmanage
  <2>2. CASE Manage(j)
    BY <1>0, <1>1, <2>2 DEF Manage, NoCR
  <2>3. CASE Finish(j)
    BY <1>0, <1>1, <2>3 DEF Finish, NoCR
  <2>4. CASE WriteBack(j)
    BY <1>0, <1>1, <2>4 DEF WriteBack, StoreSpec, NoCR
  <2>5. CASE UNCHANGED cr
    BY <2>5
  <2>6. QED
    BY <1>2, <2>1, <2>2, <2>3, <2>4, <2>5 DEF Handlers, Other, Start, Resolve,
       ResolveReferences, ResolveReference, ReferenceNotReady, Resolved, ReadOne,
       sdkFind, Create, sdkCreate, Update, sdkUpdate, Delete, sdkDelete
<1>3. ASSUME NEW j \in Key, Environment(j)
      PROVE  FALSE
  <2>1. CASE \E s \in Wanted : UserApply(j, s, Nil)
    BY <1>0, <2>1 DEF UserApply, FreshCR
  <2>2. CASE \E s \in Wanted : UserEdit(j, s)
    BY <1>0, <1>1, <2>2 DEF UserEdit, NoCR
  <2>3. CASE UserDelete(j)
    BY <1>0, <1>1, <2>3 DEF UserDelete, NoCR
  <2>4. CASE CallFails(j) \/ Resync(j)
    BY <2>4 DEF CallFails, Resync
  <2>5. QED
    BY <1>3, <2>1, <2>2, <2>3, <2>4 DEF Environment
<1>4. QED
  BY <1>2, <1>3 DEF Next, vars, passVars, ObjectChanges, Drift, Crash

(* A CR does not go while what it has created under its name is there.     *)
THEOREM NothingElseLeaks == Spec => LeaksAreKnown
<1> DEFINE A == \A k \in Key :
       cr[k].exists /\ cr[k].finalizer /\ ~cr'[k].exists
       => LET n == Name(k, pass[k].desired.spec) IN
          Exists(n) => resources[n].by # k
<1>1. Inv /\ [Next]_vars => [A]_vars
  <2>1. SUFFICES ASSUME NEW K \in Kinds, InvOf(K), [Next]_vars, NEW k \in Key,
                        cr[k].exists, cr[k].finalizer, ~cr'[k].exists
                 PROVE  LET n == Name(k, pass[k].desired.spec) IN
                        Exists(n) => resources[n].by # k
    BY DEF Inv
  <2>2. At(k, "unmanage") /\ kind = K
    BY <2>1, GoesByUnmanage DEF InvOf
  <2>3. QED
    BY <2>1, <2>2, NameIs DEF InvOf, NothingOwned, Owns, Exists
<1>2. Spec => [][A]_vars
  BY <1>1, InvHolds, PTL DEF Spec
<1>3. QED
  BY <1>2 DEF LeaksAreKnown

-----------------------------------------------------------------------------
(* Nothing is forgotten.                                                   *)

Work == Held \cup {"manage"}

LEMMA WorkIsApart == SetApart(Work)
BY DEF SetApart, Work, Held

LEMMA ShapeIs == ASSUME Inv PROVE \E K \in Kinds : Shaped(SpecOf(K), {Nil})
<1>1. PICK K \in Kinds : PassInv(Locations, Held, SpecOf(K), {Nil})
  BY DEF Inv, InvOf
<1>2. QED
  BY <1>1, InvGivesShape

LEMMA FieldsOfPass ==
  ASSUME Inv, NEW k \in Key
  PROVE  /\ k \in DOMAIN pass
         /\ DOMAIN pass[k] =
              {"pc", "why", "desired", "latest", "found", "todo", "outcome"}
BY ShapeIs, PassFields

LEMMA Finalized ==
  ASSUME Inv, NEW k \in Key, ~Idle(k)
  PROVE  /\ IsManaged(k) => cr[k].finalizer
         /\ pass[k].why = "created" => cr[k].finalizer
         /\ pass[k].pc \in Held => cr[k].finalizer
         /\ cr[k].finalizer => cr[k].exists
<1>1. PICK K \in Kinds : PassInv(Locations, Held, SpecOf(K), {Nil})
  BY DEF Inv, InvOf
<1>2. QED
  BY <1>1 DEF PassInv, SoundPass, SoundCR, IsManaged, Idle, At

LEMMA MovingWorks ==
  ASSUME Inv, NEW k \in Key, ~Idle(k), NEW p, pass' = [pass EXCEPT ![k] = p],
         UNCHANGED <<cr, queued>>, p.pc # "idle",
         pass[k].why = "delete" => p.why = "delete" /\ p.pc \notin Work,
         pass[k].why # "delete" => p.why # "delete",
         p.pc = "finish" => Ended(p, cr[k])
  PROVE  Works(k, Work)
BY ShapeIs, MoveWorks DEF Idle, At

LEMMA RefusedWorks ==
  ASSUME Inv, NEW k \in Key, ~Idle(k), EndPass(k, "Recoverable"),
         UNCHANGED <<cr, queued>>
  PROVE  Works(k, Work)
BY ShapeIs, WorkIsApart, EndWorks

LEMMA AnsweredWorks ==
  ASSUME Inv, NEW k \in Key, ~Idle(k), NEW p, Answered(k, p),
         UNCHANGED <<cr, queued>>, p.pc # "idle",
         pass[k].why = "delete" => p.why = "delete" /\ p.pc \notin Work,
         pass[k].why # "delete" => p.why # "delete",
         p.pc = "finish" => Ended(p, cr[k])
  PROVE  Works(k, Work)
BY MovingWorks, RefusedWorks DEF Answered

LEMMA ResolveWorks ==
  ASSUME Inv, NEW k \in Key, Resolve(k) PROVE Works(k, Work)
<1>1. ~Idle(k) /\ UNCHANGED <<cr, queued>>
  BY DEF Resolve, ResolveReferences, ResolveReference, ReferenceNotReady, Resolved,
         Resolving, Idle, At
<1>2. ASSUME ResolutionError(k) PROVE Works(k, Work)
  <2>1. CASE Goto(k, "find")
    BY <1>1, <2>1, ShapeIs, GotoWorks DEF Work, Held
  <2>2. CASE EndPass(k, "Recoverable")
    BY <1>1, <2>2, RefusedWorks
  <2>3. QED
    BY <1>2, <2>1, <2>2 DEF ResolutionError
<1>3. CASE ResolveReferences(k)
  <2> DEFINE t == Unresolved(kind, pass[k].desired.spec, Nil)
             q == [pass[k] EXCEPT !.pc = "resolve", !.todo = t]
  <2>1. pass' = [pass EXCEPT ![k] = q]
    BY <1>3, FieldsOfPass DEF ResolveReferences
  <2> HIDE DEF t
  <2>2. q.pc = "resolve" /\ q.why = pass[k].why
    BY FieldsOfPass
  <2> HIDE DEF q
  <2>3. QED
    BY <1>1, <2>1, <2>2, MovingWorks DEF Work, Held
<1>4. CASE ResolveReference(k)
  <2> DEFINE q(t, s) == [pass[k] EXCEPT !.todo = t, !.desired.spec = s]
  <2>1. PICK x \in pass[k].todo :
          pass' = [pass EXCEPT
            ![k].todo = @ \ {x},
            ![k].desired.spec =
              resolveReference(@, ReferencesOf[kind][x[1]], Referenced(k, x).value)]
    BY <1>4 DEF ResolveReference
  <2>2. PICK t, s : pass' = [pass EXCEPT ![k].todo = t, ![k].desired.spec = s]
    <3> DEFINE s == resolveReference(pass[k].desired.spec, ReferencesOf[kind][x[1]],
                                     Referenced(k, x).value)
               t == pass[k].todo \ {x}
    <3>1. pass' = [pass EXCEPT ![k].todo = t, ![k].desired.spec = s]
      BY <2>1, FieldsOfPass
    <3> HIDE DEF s, t
    <3>2. QED
      BY <3>1
  <2> DEFINE r == q(t, s)
  <2>3. pass' = [pass EXCEPT ![k] = r]
    BY <2>2, FieldsOfPass
  <2>4. r.pc = "resolve" /\ r.why = pass[k].why
    BY <1>4, FieldsOfPass DEF ResolveReference, Resolving, At
  <2> HIDE DEF r
  <2>5. QED
    BY <1>1, <2>3, <2>4, MovingWorks DEF Work, Held
<1>5. CASE ReferenceNotReady(k)
  BY <1>2, <1>5 DEF ReferenceNotReady
<1>6. CASE Resolved(k)
  <2>1. CASE Goto(k, "find")
    BY <1>1, <2>1, ShapeIs, GotoWorks DEF Work, Held
  <2>2. QED
    BY <1>2, <1>6, <2>1 DEF Resolved
<1>7. QED
  BY <1>3, <1>4, <1>5, <1>6 DEF Resolve

LEMMA FindWorks ==
  ASSUME Inv, NEW k \in Key, sdkFind(k) PROVE Works(k, Work)
<1>1. ~Idle(k) /\ UNCHANGED <<cr, queued>>
  BY DEF sdkFind, Idle, At
<1>2. CASE NotFound(k)
  BY <1>1, <1>2, ShapeIs, WorkIsApart, NotFoundWorks
<1>3. CASE ~NotFound(k)
  <2> DEFINE q(l, o, s) == [pass[k] EXCEPT !.pc = l, !.outcome = o, !.latest.spec = s]
  <2>1. PICK l, o, s :
          /\ pass' = [pass EXCEPT ![k] = q(l, o, s)]
          /\ \/ pass[k].why = "created" /\ l = "finish" /\ o = "Synced"
             \/ pass[k].why = "delete" /\ l = "delete"
             \/ pass[k].why = "sync" /\ l = "finish" /\ o = "Terminal"
             \/ pass[k].why = "sync" /\ IsManaged(k) /\ l = "finish" /\ o = "Synced"
             \/ pass[k].why = "sync" /\ l = "update"
    <3> DEFINE s == Observed(Subject(k), resources[Name(k, Subject(k))])
               next(l, o) == pass' = [pass EXCEPT ![k].pc = l, ![k].outcome = o,
                                                  ![k].latest.spec = s]
    <3>1. \/ pass[k].why = "created" /\ next("finish", "Synced")
          \/ pass[k].why = "delete" /\ next("delete", "Unknown")
          \/ pass[k].why = "sync" /\ next("finish", "Terminal")
          \/ pass[k].why = "sync" /\ IsManaged(k) /\ next("finish", "Synced")
          \/ pass[k].why = "sync" /\ next("update", "Unknown")
      BY <1>3, Zenon DEF sdkFind
    <3> HIDE DEF s
    <3>2. ASSUME NEW l, NEW o, next(l, o) PROVE pass' = [pass EXCEPT ![k] = q(l, o, s)]
      BY <3>2, FieldsOfPass
    <3> HIDE DEF q, next
    <3>3. QED
      BY <3>1, <3>2, Zenon
  <2> DEFINE r == q(l, o, s)
  <2>2. r.pc = l /\ r.outcome = o /\ r.why = pass[k].why
    BY FieldsOfPass
  <2>3. pass' = [pass EXCEPT ![k] = r]
    BY <2>1
  <2> HIDE DEF r
  <2>4. IsManaged(k) \/ pass[k].why = "created" => cr[k].finalizer
    BY <1>1, Finalized
  <2>5. /\ r.pc # "idle"
        /\ pass[k].why = "delete" => r.why = "delete" /\ r.pc \notin Work
        /\ r.pc = "finish" => Ended(r, cr[k])
    BY <2>1, <2>2, <2>4 DEF Ended, Work, Held
  <2>6. QED
    BY <1>1, <2>2, <2>3, <2>5, MovingWorks
<1>4. QED
  BY <1>2, <1>3

LEMMA ChangeWorks ==
  ASSUME Inv, AllMindful(Work), NEW k \in Key, sdkCreate(k) \/ sdkUpdate(k)
  PROVE  Works(k, Work)
<1>1. ~Idle(k) /\ UNCHANGED <<cr, queued>> /\ pass[k].why # "delete"
  BY DEF sdkCreate, sdkUpdate, AllMindful, Mindful, Work, Held, Idle, At
<1> DEFINE q(w, s) == [pass[k] EXCEPT !.pc = "writeback", !.why = w, !.latest.spec = s]
<1>2. PICK w, s : /\ EndPass(k, "Recoverable") \/ Answered(k, q(w, s))
                  /\ w \in {"created", "updated"}
  BY Zenon DEF sdkCreate, sdkUpdate, Refused
<1> DEFINE r == q(w, s)
<1>3. r.pc = "writeback" /\ r.why = w
  BY FieldsOfPass
<1>4. EndPass(k, "Recoverable") \/ Answered(k, r)
  BY <1>2
<1> HIDE DEF r
<1>5. QED
  BY <1>1, <1>2, <1>3, <1>4, RefusedWorks, AnsweredWorks

LEMMA DeleteWorks ==
  ASSUME Inv, NEW k \in Key, sdkDelete(k) PROVE Works(k, Work)
<1> DEFINE q == [pass[k] EXCEPT !.pc = "unmanage"]
<1>1. q.pc = "unmanage" /\ q.why = pass[k].why
  BY FieldsOfPass
<1>2. ~Idle(k) /\ UNCHANGED <<cr, queued>>
  BY DEF sdkDelete, Idle, At
<1>3. EndPass(k, "Recoverable") \/ Answered(k, q)
  BY DEF sdkDelete, Refused
<1> HIDE DEF q
<1>4. QED
  BY <1>1, <1>2, <1>3, RefusedWorks, AnsweredWorks DEF Work, Held

LEMMA NextMinds ==
  ASSUME Inv, AllMindful(Work), [Next]_vars PROVE AllMindful(Work)'
<1>1. SetApart(Work)
  BY WorkIsApart
<1>2. PICK K \in Kinds : Shaped(SpecOf(K), {Nil})
  BY ShapeIs
<1>3. ASSUME NEW k \in Key, Handlers(k) PROVE AllMindful(Work)'
  <2>1. CASE Other(k)
    BY <1>1, <1>2, <2>1, StartMinds, ManageMinds, UnmanageMinds, FinishMinds DEF Other
  <2>2. CASE WriteBack(k)
    <3>1. cr[k].finalizer /\ cr[k].exists /\ pass[k].pc \in Work
      BY <2>2, Finalized DEF WriteBack, Idle, At, Held, Work
    <3>2. QED
      BY <1>1, <1>2, <2>2, <3>1, StoreMinds DEF WriteBack, Work, Held
  <2>3. QED
    BY <1>3, <2>1, <2>2, ResolveWorks, FindWorks, ChangeWorks, DeleteWorks, WorkMinds
       DEF Handlers, ReadOne, Create, Update, Delete
<1>4. ASSUME NEW k \in Key, Environment(k) PROVE AllMindful(Work)'
  BY <1>1, <1>2, <1>4, FailMinds, ResyncMinds, UserApplyMinds, UserEditMinds,
     UserDeleteMinds DEF Environment
<1>5. CASE UNCHANGED <<cr, pass, queued>>
  BY <1>5 DEF AllMindful
<1>6. QED
  BY <1>1, <1>3, <1>4, <1>5, CrashMinds
     DEF Next, ObjectChanges, Drift, vars, passVars

(* No CR is forgotten whose references are resolved, fail to be, or change,*)
(* for any number of CRs, edits and failures.                              *)
THEOREM NothingIsForgotten == Spec => []NeverForgotten
<1>1. Init => AllMindful(Work)
  BY WorkIsApart, InitMinds DEF Init
<1>2. Inv /\ AllMindful(Work) /\ [Next]_vars => AllMindful(Work)'
  BY NextMinds
<1>3. AllMindful(Work) => NeverForgotten
  BY MindfulSuffices
<1>4. QED
  BY <1>1, <1>2, <1>3, InvHolds, PTL DEF Spec
=============================================================================
