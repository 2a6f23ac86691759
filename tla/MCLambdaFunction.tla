-------------------------- MODULE MCLambdaFunction --------------------------
(***************************************************************************)
(* LambdaFunction with few fields that vary.                               *)
(***************************************************************************)
EXTENDS LambdaFunction

CONSTANTS a, b    \* two values

(* The specs in which the given fields are set or not, and the code is one *)
(* of the given.                                                           *)
Varying(fields, codes) ==
  {[f \in Fields |-> IF f = "code" THEN k
                    ELSE IF f \in fields THEN c[f] ELSE Nil] :
     c \in [fields -> {Nil, a}], k \in codes}

(* Layers and the code together, and a code signing config on its own: the *)
(* removal that is not sent, the change that is deferred, the deletion     *)
(* that is blocked.                                                        *)
LayersCodeSigning == Varying({"layers"}, {a, b}) \cup Varying({"csc"}, {a})

(* The same, and the concurrency, which no creation sends: what a pass that *)
(* ends Synced after a creation may leave to the regular resync.           *)
CreatedIncomplete == LayersCodeSigning \cup Varying({"concurrency"}, {a})

(* Configuration and code, together and apart.                             *)
ConfigCode == Varying({"config"}, {a, b})

(* Tags only.                                                              *)
Tags == Varying({"tags"}, {a})

(* A tag whose value is another one: it is untagged and tagged again.      *)
TagsReplaced == {[s EXCEPT !["tags"] = b] : s \in Varying({}, {a})}

(* Every field takes part, one at a time.                                  *)
OneAtATime ==
  UNION {Varying({f}, {a}) : f \in Fields} \cup Varying({}, {b})
    \cup TagsReplaced
=============================================================================
