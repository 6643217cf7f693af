--------------------------- MODULE MCTableMetadata ---------------------------
(* Instances of TableMetadata for TLC. *)
EXTENDS TableMetadata

CONSTANTS a, b, s1, s2, x, y

MCName == {a, b}
MCDbSchema == {s1, s2}
MCColumns == {x, y}

\* Every row of one name, some rows of another, endpoints without rows with and
\* without a table_schema column, and a malformed row.
MCReported ==
  {e \in Endpoint :
     \/ e.name = a /\ (e.type = "absent" => e.cell = x)
     \/ e.name = b /\ e.schema = s1 /\ e.cell \in {"null", x} /\ e.type = "TABLE"
     \/ e.name = None /\ e.schema = None /\ e.cell \in {"absent", "null"} /\ e.type # "VIEW"
     \/ e.name = Malformed /\ e.schema = None /\ e.cell = "null" /\ e.type = "TABLE"}
=============================================================================
