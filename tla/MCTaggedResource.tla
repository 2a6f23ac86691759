-------------------------- MODULE MCTaggedResource --------------------------
(***************************************************************************)
(* TaggedResource with one CR of either kind.                              *)
(***************************************************************************)
EXTENDS TaggedResource

CONSTANTS a, b, k1, team, system

Tagged(v) == [t \in {team, system} |-> IF t = team THEN v ELSE Nil]

Mapping(s, n, f, fn, t) ==
  [source |-> s, batch |-> n, filters |-> f, function |-> fn, tags |-> Tagged(t)]
Signing(d, p, t) == [description |-> d, publishers |-> p, tags |-> Tagged(t)]

(* Filters and a tag, without them, another tag; a changed source and size.*)
Few ==
  {Mapping(a, Nil, a, a, a), Mapping(a, Nil, Nil, a, Nil), Mapping(b, b, Nil, a, b)}
  \cup {Signing(Nil, a, Nil), Signing(a, a, a), Signing(Nil, b, b)}

UpTo(e, f, d) == [edits |-> e, faults |-> f, drifts |-> d, overlaps |-> 0]

FewThings == {UpTo(2, 1, 0), UpTo(1, 2, 0), UpTo(1, 1, 1), UpTo(2, 0, 1)}
=============================================================================
