----------------------- MODULE MCReferencingResource -----------------------
(***************************************************************************)
(* ReferencingResource with one CR of any of the three kinds.              *)
(***************************************************************************)
EXTENDS ReferencingResource

CONSTANTS a, b, huge, k1, o1, o2

(* A spec in which these fields are given, and these taken from other CRs. *)
Asking(K, ids, refs, cors) ==
  [ids |-> [f \in FieldsOf(K) |-> IF f \in DOMAIN ids THEN ids[f] ELSE <<>>],
   refs |-> [f \in FieldsOf(K) |-> IF f \in DOMAIN refs THEN refs[f] ELSE <<>>],
   cors |-> cors]
With(r, xs) == [f \in {r.field} |-> xs]
And(g, h) == [f \in DOMAIN g \cup DOMAIN h |-> IF f \in DOMAIN g THEN g[f] ELSE h[f]]
Nothing == [f \in {} |-> <<>>]

(* Nil is a reference that names no CR. The last one has no function at all.*)
Urls ==
  {Asking("FunctionURLConfig", With(FunctionName, <<a>>), Nothing, a),
   Asking("FunctionURLConfig", Nothing, With(FunctionName, <<o1>>), Nil),
   Asking("FunctionURLConfig", Nothing, With(FunctionName, <<o2>>), huge),
   Asking("FunctionURLConfig", Nothing, With(FunctionName, <<Nil>>), a),
   Asking("FunctionURLConfig", Nothing, Nothing, Nil)}

(* Lists of references; no key and no role by a reference; an invalid spec.*)
Functions ==
  {Asking("Function", With(KMSKeyARN, <<a>>),
          And(With(Role, <<o1>>), With(SecurityGroupIDs, <<o2, Nil, o1>>)), Nil),
   Asking("Function", Nothing, And(With(Role, <<o2>>),
          And(With(Code_S3Bucket, <<o1>>), With(KMSKeyARN, <<Nil>>))), Nil),
   Asking("Function", Nothing, With(Role, <<Nil>>), Nil),
   Asking("Function", With(Role, <<a>>), With(Role, <<o1>>), Nil)}

(* A source that is given, and three that are referred to; no function by a*)
(* reference.                                                              *)
Mappings ==
  {Asking("EventSourceMapping", With(EventSourceARN, <<b>>),
          With(FunctionName, <<o1>>), Nil),
   Asking("EventSourceMapping", Nothing,
          And(With(FunctionName, <<o1>>), With(EventSourceARN, <<o2>>)), Nil),
   Asking("EventSourceMapping", With(FunctionName, <<a>>),
          And(With(SchemaRegistry_URI, <<o1>>), With(Queues, <<Nil, o2>>)), Nil),
   Asking("EventSourceMapping", With(SchemaRegistry_URI, <<b>>),
          With(FunctionName, <<Nil>>), Nil)}

SpecsByKind ==
  [FunctionURLConfig |-> Urls, Function |-> Functions, EventSourceMapping |-> Mappings]

(* Terminal though synced before, synced without what is taken from it, and*)
(* synced with either of two values.                                       *)
Like(conds, v) == [exists |-> TRUE, conds |-> conds, value |-> v]
Four == {Like({"Synced", "Terminal"}, a)} \cup {Like({"Synced"}, v) : v \in {Nil, a, b}}

UpTo(e, f, d) == [edits |-> e, faults |-> f, drifts |-> d, overlaps |-> 0]

FewThings == {UpTo(2, 1, 0), UpTo(1, 1, 1)}
=============================================================================
