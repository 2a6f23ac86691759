--------------------------- MODULE MCLambdaAlias ---------------------------
(***************************************************************************)
(* LambdaAlias with one CR.                                                *)
(***************************************************************************)
EXTENDS LambdaAlias

CONSTANTS a, b, k1, s1, s2, g, h, account

Full(v, r, e, ps) ==
  [version |-> v, routing |-> r, eventInvoke |-> e, provisioned |-> e,
   permissions |-> ps]
Perm(s, x) == [sid |-> s, grant |-> x]

(* Two policies that share a statement; a change of both the alias and a   *)
(* statement; a repeated, a missing and a rewritten one.                   *)
Six ==
  {Full(a, Nil, Nil, <<>>),
   Full(a, a, a, <<Perm(s1, g), Perm(s2, g)>>),
   Full(b, Nil, Nil, <<Perm(s1, h), Perm(s2, g)>>),
   Full(b, b, Nil, <<Perm(s1, g), Perm(s1, h)>>),
   Full(a, Nil, a, <<Perm(Nil, g)>>),
   Full(a, a, a, <<Perm(s1, account)>>)}

UpTo(e, f, d) == [edits |-> e, faults |-> f, drifts |-> d, overlaps |-> 0]

FewThings == {UpTo(2, 1, 0), UpTo(1, 2, 0), UpTo(1, 1, 1), UpTo(2, 0, 1)}
=============================================================================
