----------------------------- MODULE References -----------------------------
(***************************************************************************)
(* References from the spec of a custom resource (CR) to other CRs, of the *)
(* same or of another controller: the references.go of each kind.  A field *)
(* of the spec may be given, or taken from another CR that the spec names. *)
(* Version, Alias and FunctionURLConfig have the one field FunctionName.   *)
(*                                                                         *)
(* ids are the fields, given or resolved, and refs the CRs that they are   *)
(* taken from, both as sequences: of at most one for an ordinary field.    *)
(* A reference without a from, {} in YAML, is a reference all the same; it *)
(* names no CR, and is nil here.                                           *)
(***************************************************************************)
EXTENDS Naturals, Sequences, SequencesExt

(* A field with a reference: whether it, or the reference, must be there,  *)
(* and whether it is a list.                                               *)
Reference(name, required, list) ==
  [field |-> name, required |-> required, list |-> list]

FunctionName == Reference("FunctionName", TRUE, FALSE)

Code_S3Bucket == Reference("Code.S3Bucket", FALSE, FALSE)
CodeSigningConfigARN == Reference("CodeSigningConfigARN", FALSE, FALSE)
KMSKeyARN == Reference("KMSKeyARN", FALSE, FALSE)
Role == Reference("Role", TRUE, FALSE)
SecurityGroupIDs == Reference("VPCConfig.SecurityGroupIDs", FALSE, TRUE)
SubnetIDs == Reference("VPCConfig.SubnetIDs", FALSE, TRUE)

SchemaRegistry_URI == Reference("AccessConfigs.URI", FALSE, FALSE)
EventSourceARN == Reference("EventSourceARN", FALSE, FALSE)
Queues == Reference("Queues", FALSE, TRUE)

(* In the order in which they are resolved.                                *)
ReferencesOf ==
  [FunctionURLConfig |-> <<FunctionName>>,
   Function |-> <<Code_S3Bucket, CodeSigningConfigARN, KMSKeyARN, Role,
                  SecurityGroupIDs, SubnetIDs>>,
   EventSourceMapping |-> <<SchemaRegistry_URI, EventSourceARN, FunctionName,
                            Queues>>]

FieldsOf(K) == {ReferencesOf[K][i].field : i \in DOMAIN ReferencesOf[K]}

(* A field is given or has references, not both; one that is required has  *)
(* one of them. References that name no CR count.                          *)
validateReferenceFields(K, s) ==
  \A r \in Range(ReferencesOf[K]) :
    /\ s.refs[r.field] = <<>> \/ s.ids[r.field] = <<>>
    /\ r.required => s.refs[r.field] # <<>> \/ s.ids[r.field] # <<>>

(* The references, by their places, that name a CR.                        *)
Named(refs, nil) == {j \in DOMAIN refs : refs[j] # nil}

(* What is to be resolved, by field and place. The others are passed over, *)
(* without an error.                                                       *)
Unresolved(K, s, nil) ==
  UNION {{i} \X Named(s.refs[ReferencesOf[K][i].field], nil) :
           i \in DOMAIN ReferencesOf[K]}

(* It is done field by field, and each list in its order.                  *)
IsNext(x, todo) ==
  /\ x \in todo
  /\ \A y \in todo : x[1] < y[1] \/ (x[1] = y[1] /\ x[2] =< y[2])

(* Mutant: what is taken from it may be missing.                           *)
MutantGetReferencedResourceState(object, nil) ==
  object.exists /\ "Terminal" \notin object.conds /\ "Synced" \in object.conds

(* A CR can be referred to if it is there, is not Terminal, is Synced, and *)
(* has what is taken from it.                                              *)
getReferencedResourceState(object, nil) ==
  /\ object.exists
  /\ "Terminal" \notin object.conds /\ "Synced" \in object.conds
  /\ object.value # nil

(* The spec with one more of its references resolved, in place.            *)
resolveReference(s, r, v) ==
  [s EXCEPT !.ids[r.field] = IF r.list THEN Append(@, v) ELSE <<v>>]

(* Mutant: what has been resolved is kept.                                 *)
MutantClearResolvedReferences(s) == s

(* What may be stored: the spec without what its references resolved to.   *)
ClearResolvedReferences(s) ==
  [s EXCEPT !.ids = [f \in DOMAIN @ |-> IF s.refs[f] # <<>> THEN <<>> ELSE @[f]]]
=============================================================================
