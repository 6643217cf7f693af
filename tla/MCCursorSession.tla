--------------------------- MODULE MCCursorSession ---------------------------
(* Instances of CursorSession for TLC. *)
EXTENDS CursorSession, TLC

CONSTANTS v1, v2, a, b

MCValue == {v1, v2}
Interchangeable == Permutations(Cursor)
FullBatches == {<<>>, <<v1>>, <<v1, v2>>, <<v2, v1, v1>>}
EmptyTupleBatches == {<<v1, Empty>>}
=============================================================================
