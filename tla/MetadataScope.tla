--------------------------- MODULE MetadataScope ---------------------------
(***************************************************************************)
(* What a connection promises about the catalog its metadata comes from,   *)
(* without saying how the catalog is found.  The scope of a connection is  *)
(* either fixed from the start or undecided; an undecided scope is decided *)
(* at most once, during a metadata call, and never changes afterwards.     *)
(* Every answer holds rows of the scope only.                              *)
(*                                                                         *)
(* CatalogDiscovery implements this specification.                         *)
(***************************************************************************)
CONSTANTS Catalog,      \* the catalog names of the server
          None,         \* the scope "no catalog filter"
          Undecided     \* the scope of a connection that has not decided

VARIABLES scope,        \* Undecided, None or a catalog
          calling,      \* whether a metadata call is in progress
          origins       \* the catalogs the last answer has rows of

vars == <<scope, calling, origins>>

\* The catalogs whose rows an answer may hold under a scope.
Within(s) == IF s \in Catalog THEN {s} ELSE Catalog

Init == /\ scope \in Catalog \cup {Undecided}
        /\ calling = FALSE
        /\ origins = {}

Call == /\ ~calling
        /\ calling' = TRUE
        /\ origins' = {}
        /\ UNCHANGED scope

\* The scope is kept, or decided for good.
KeepOrDecide == \/ UNCHANGED scope
                \/ scope = Undecided /\ scope' \in Catalog \cup {None}

Look == /\ calling
        /\ KeepOrDecide
        /\ UNCHANGED <<calling, origins>>

Return == /\ calling
          /\ calling' = FALSE
          /\ KeepOrDecide
          /\ origins' \in SUBSET Within(scope')

Next == Call \/ Look \/ Return

Spec == Init /\ [][Next]_vars

\* Every call returns.
LiveSpec == Spec /\ (calling ~> ~calling)
=============================================================================
