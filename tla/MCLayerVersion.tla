--------------------------- MODULE MCLayerVersion ---------------------------
(***************************************************************************)
(* LayerVersion with one CR and two layers.                                *)
(***************************************************************************)
EXTENDS LayerVersion

CONSTANTS a, b, l1, l2, k1

LayerWith(l, d) == [layer |-> l, description |-> d, content |-> a]

(* Both descriptions in the first layer, one in the second.                *)
Three == {LayerWith(l1, a), LayerWith(l1, b), LayerWith(l2, a)}

UpTo(e, f, d) == [edits |-> e, faults |-> f, drifts |-> d, overlaps |-> 0]

(* Two edits with any two failures, or with one and a change in AWS.       *)
FewThings == {UpTo(3, 1, 0), UpTo(2, 2, 0), UpTo(2, 1, 1)}

(* The content of what was there before does not matter.                   *)
MCInit ==
  Init /\ \A l \in Layer : layers[l] = <<>> \/ layers[l][1].content = a

MCSpec == MCInit /\ [][Next]_vars /\ Fairness
=============================================================================
