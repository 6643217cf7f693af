-------------------------- MODULE MCReflectionCache --------------------------
(* Instances of ReflectionCache for TLC. *)
EXTENDS ReflectionCache

OneSchema == {"s1"}
TwoTables == {"t1", "t2"}
OneVersion == {"v1"}
=============================================================================
