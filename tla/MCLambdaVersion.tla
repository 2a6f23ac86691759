-------------------------- MODULE MCLambdaVersion --------------------------
(***************************************************************************)
(* LambdaVersion with two CRs, one that configures its version and one that*)
(* does not.                                                               *)
(***************************************************************************)
EXTENDS LambdaVersion

CONSTANTS a, k1, k2, c1, c2

SpecWith(e, p) == [eventInvoke |-> e, provisioned |-> p, pin |-> Nil]

BareOrFull == {SpecWith(Nil, Nil), SpecWith(a, a)}

UpTo(e, f, d, o) ==
  [edits |-> e, faults |-> f, drifts |-> d, overlaps |-> o]

(* Any two of an edit, a failure, a change in AWS, and an overlap; and two *)
(* edits with a failure or a change: a CR is deleted and applied again, or *)
(* its version is deleted and the code changed twice.                      *)
FewThings == {UpTo(2, 1, 0, 0), UpTo(2, 0, 1, 0), UpTo(0, 1, 1, 0),
              UpTo(1, 0, 0, 1), UpTo(0, 1, 0, 1), UpTo(0, 0, 1, 1)}

(* The first CR starts with the configurations and the second without.     *)
MCInit ==
  /\ Init
  /\ function.code = c1
  /\ cr[k1].spec = SpecWith(a, a) /\ cr[k2].spec = SpecWith(Nil, Nil)

MCSpec == MCInit /\ [][Next]_vars /\ Fairness
=============================================================================
