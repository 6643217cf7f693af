--------------------------- MODULE WriteOnceIndex ---------------------------
(***************************************************************************)
(* What the internal package index promises its consumers: under a stable  *)
(* name at most one artifact is ever served, and a digest that a release   *)
(* has announced for a name is that of the artifact served under it.       *)
(*                                                                         *)
(* PublishPipeline implements this specification.                          *)
(***************************************************************************)
CONSTANTS Version,      \* the stable versions a name may carry
          Artifact,     \* what may be stored
          Nothing       \* a version that is not published

VARIABLES served,       \* the artifact stored for each version
          announced     \* the <<version, artifact>> pairs releases announced

vars == <<served, announced>>

Init == /\ served = [v \in Version |-> Nothing]
        /\ announced = {}

Publish(v, a) == /\ served[v] = Nothing
                 /\ served' = [served EXCEPT ![v] = a]
                 /\ UNCHANGED announced

Announce(v) == /\ served[v] # Nothing
               /\ announced' = announced \cup {<<v, served[v]>>}
               /\ UNCHANGED served

Next == \E v \in Version : Announce(v) \/ \E a \in Artifact : Publish(v, a)

Spec == Init /\ [][Next]_vars
=============================================================================
