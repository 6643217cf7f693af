---------------------------- MODULE TableMetadata ----------------------------
(***************************************************************************)
(* From the endpoints of one GetTables answer to a TableMetadataResult     *)
(* (flightsql/dbapi.py): the rows of the requested schema are collected    *)
(* endpoint by endpoint, then the serialized Arrow schemas are decoded row *)
(* by row.  A name with an undecodable row, or one that several schemas    *)
(* report when none was requested, is left without columns.                *)
(*                                                                         *)
(* An endpoint carries at most one row here: the code concatenates the     *)
(* rows of the endpoints, and what it asks of an endpoint (which optional  *)
(* columns it has) is part of each row.                                    *)
(***************************************************************************)
EXTENDS Naturals, Sequences

CONSTANTS
  Name, DbSchema,
  Columns,          \* the column lists a serialized schema decodes to
  None,             \* Python's None: no schema requested, a null, no row
  Malformed,        \* a table_name that is missing, empty or not a string
  Reported,         \* what an endpoint may carry
  MaxEndpoints      \* bound: endpoints of an answer

\* table_schema of a row: no such column, a null, bytes that do not decode, bytes
\* whose decoding raises what the handler does not catch, or the columns.
Cell == {"absent", "null", "corrupt", "fatal"} \cup Columns
RelationType == {"TABLE", "VIEW"}

Endpoint == [name   : Name \cup {None, Malformed},
             schema : DbSchema \cup {None},
             cell   : Cell,
             type   : RelationType \cup {"absent"}]

ASSUME ConstantsAssumption ==
  /\ None \notin Name /\ Malformed \notin Name /\ None # Malformed
  /\ None \notin DbSchema
  /\ Columns \cap {"absent", "null", "corrupt", "fatal", "unseen", "invalid"} = {}
  /\ Reported \subseteq Endpoint
  /\ MaxEndpoints \in Nat

VARIABLES
  request,      \* requested_schema
  endpoints,    \* the answer
  pc,
  pos,          \* endpoints or rows done with, in the current loop
  rows,         \* the rows kept
  sawSchema,    \* saw_table_schema
  types,        \* table_types, "unset" for a name without one
  parsed,       \* parsed_by_name and invalid_names: what is known of a name
  result

vars == <<request, endpoints, pc, pos, rows, sawSchema, types, parsed, result>>

NoResult == [status |-> "none"]
Failed   == [status |-> "failed"]

\* columns maps the described names only; typed says that types were reported.
Answer(names, described, supported, given, typed) ==
  [status |-> "parsed", names |-> names, described |-> described,
   supported |-> supported, given |-> given, typed |-> typed]

Init ==
  /\ request \in DbSchema \cup {None}
  /\ endpoints \in UNION {[1..n -> Reported] : n \in 0..MaxEndpoints}
  /\ pc = "collect" /\ pos = 0 /\ rows = <<>> /\ sawSchema = FALSE
  /\ types = [n \in Name |-> "unset"]
  /\ parsed = [n \in Name |-> "unseen"]
  /\ result = NoResult

\* GetTables filters are patterns: a row may be of another schema.
AcceptedAny(row) == TRUE
Accepted(row) == request = None \/ row.schema \in {None, request}

SetLast(n, type) == [types EXCEPT ![n] = type]
SetDefault(n, type) == IF types[n] = "unset" THEN [types EXCEPT ![n] = type] ELSE types

\* _table_metadata_rows and, over the same rows, _table_types.
Collect ==
  /\ pc = "collect" /\ pos < Len(endpoints)
  /\ LET e == endpoints[pos + 1] IN
     IF e.name = Malformed
     THEN /\ pc' = "done" /\ result' = Failed
          /\ UNCHANGED <<pos, rows, sawSchema, types>>
     ELSE /\ pos' = pos + 1
          /\ sawSchema' = (sawSchema \/ e.cell # "absent")
          /\ IF e.name # None /\ Accepted(e)
             THEN rows' = Append(rows, e) /\ types' = SetDefault(e.name, e.type)
             ELSE UNCHANGED <<rows, types>>
          /\ UNCHANGED <<pc, result>>
  /\ UNCHANGED <<request, endpoints, parsed>>

\* The schemas that the rows kept report for a name.
SchemasOf(n) == {rows[k].schema : k \in {j \in 1..Len(rows) : rows[j].name = n}}

AmbiguousNever(n) == FALSE
Ambiguous(n) == request = None /\ \E s, t \in SchemasOf(n) : s # t

\* The start of _parse_table_schema_rows.
StartParse ==
  /\ pc = "collect" /\ pos = Len(endpoints)
  /\ pc' = "parse" /\ pos' = 0
  /\ parsed' = [n \in Name |-> IF Ambiguous(n) THEN "invalid" ELSE "unseen"]
  /\ UNCHANGED <<request, endpoints, rows, sawSchema, types, result>>

\* What is known of the row's name after the row: once invalid, invalid.
Learned(known, cell) == IF known # "invalid" /\ cell \in Columns THEN cell ELSE "invalid"

ParseRow ==
  /\ pc = "parse" /\ pos < Len(rows)
  /\ LET r == rows[pos + 1] IN
     IF parsed[r.name] # "invalid" /\ r.cell = "fatal"
     THEN /\ pc' = "done" /\ result' = Failed
          /\ UNCHANGED <<pos, parsed>>
     ELSE /\ parsed' = [parsed EXCEPT ![r.name] = Learned(@, r.cell)]
          /\ pos' = pos + 1
          /\ UNCHANGED <<pc, result>>
  /\ UNCHANGED <<request, endpoints, rows, sawSchema, types>>

Names == {rows[k].name : k \in 1..Len(rows)}
Described == {n \in Names : parsed[n] \in Columns}

\* _table_metadata_from_info: the three results; without rows nothing is
\* reported and nothing is missing.
SupportedIfSeen == sawSchema
Supported == Described = Names

Finish ==
  /\ pc = "parse" /\ pos = Len(rows)
  /\ pc' = "done"
  /\ result' = Answer(Names, Described, Supported,
                      Supported \/ sawSchema,
                      rows # <<>> /\ \A k \in 1..Len(endpoints) : endpoints[k].type # "absent")
  /\ UNCHANGED <<request, endpoints, pos, rows, sawSchema, types, parsed>>

Next == Collect \/ StartParse \/ ParseRow \/ Finish

Spec == Init /\ [][Next]_vars

-----------------------------------------------------------------------------
(* Properties *)

ResultType == [status : {"none", "failed"}] \cup
              [status : {"parsed"}, names : SUBSET Name, described : SUBSET Name,
               supported : BOOLEAN, given : BOOLEAN, typed : BOOLEAN]

TypeOK ==
  /\ request \in DbSchema \cup {None}
  /\ endpoints \in Seq(Endpoint)
  /\ pc \in {"collect", "parse", "done"}
  /\ pos \in Nat
  /\ rows \in Seq(Endpoint)
  /\ sawSchema \in BOOLEAN
  /\ types \in [Name -> RelationType \cup {"absent", "unset"}]
  /\ parsed \in [Name -> {"unseen", "invalid"} \cup Columns]
  /\ result \in ResultType

\* Rows are kept in the first loop and decoded in the second; this is what each
\* loop has established after pos steps, and the result is what they ended with.
Kept(m) == {endpoints[j] : j \in {i \in 1..m : endpoints[i].name # None /\ Accepted(endpoints[i])}}
RowSet == {rows[k] : k \in 1..Len(rows)}
Parsing == pc = "parse" \/ result.status = "parsed"

CollectInv ==
  /\ pc = "collect" => /\ pos <= Len(endpoints) /\ RowSet = Kept(pos)
                       /\ \A j \in 1..pos : endpoints[j].name # Malformed
  /\ Parsing => /\ pos <= Len(rows) /\ RowSet = Kept(Len(endpoints))
                /\ \A j \in 1..Len(endpoints) : endpoints[j].name # Malformed

DecodeInv ==
  Parsing => \A n \in Name :
    /\ parsed[n] = "invalid" <=>
         Ambiguous(n) \/ \E k \in 1..pos : rows[k].name = n /\ rows[k].cell \notin Columns
    /\ parsed[n] \in Columns => \E k \in 1..pos : rows[k].name = n /\ rows[k].cell = parsed[n]
    /\ parsed[n] = "unseen" => \A k \in 1..pos : rows[k].name # n

ResultInv ==
  /\ pc # "done" => result = NoResult
  /\ result.status = "parsed" => /\ pc = "done" /\ pos = Len(rows)
                                 /\ result.names = Names
                                 /\ result.described = Described
                                 /\ result.supported = Supported

ParseInv == CollectInv /\ DecodeInv /\ ResultInv

\* The rows of an answer that count for a name, whatever the order they come in.
Counting(n) == {k \in 1..Len(endpoints) : endpoints[k].name = n /\ Accepted(endpoints[k])}

\* Several schemas report the name and none was requested.
Contested(n) == request = None /\ \E j, k \in Counting(n) : endpoints[j].schema # endpoints[k].schema

\* What a name must satisfy to have columns.
Describable(n) == /\ Counting(n) # {}
                  /\ \A k \in Counting(n) : endpoints[k].cell \in Columns
                  /\ ~Contested(n)

\* A name is described exactly if all its rows decode and one schema reports
\* it: one undecodable row, in whichever endpoint and position, is enough to
\* have the name probed.
DescribedExactly ==
  result.status = "parsed" => result.described = {n \in Name : Describable(n)}

\* The columns of a described name are those of a row of that very name, in the
\* requested schema (or in the one schema that reports it): no schema's columns
\* are ever kept under another's name.
ColumnsAreItsOwn ==
  result.status = "parsed" =>
    \A n \in result.described :
      \E k \in 1..Len(endpoints) :
        /\ endpoints[k].name = n /\ endpoints[k].cell = parsed[n]
        /\ request # None => endpoints[k].schema \in {None, request}
        /\ request = None => \A j \in 1..Len(endpoints) :
             endpoints[j].name = n => endpoints[j].schema = endpoints[k].schema

\* The answer claims complete schemas only if no reported name lacks one, so
\* that nothing needs a probe; and a name that is reported is never lost.
SupportIsComplete ==
  result.status = "parsed" =>
    /\ result.names = {n \in Name : Counting(n) # {}}
    /\ result.supported <=> \A n \in result.names : Describable(n)

\* A table is told from a view by its own rows: when every endpoint reports
\* types each name has one, of the first row that counts.
TypesAreItsOwn ==
  result.status = "parsed" /\ result.typed =>
    \A n \in result.names : \E k \in Counting(n) :
      /\ endpoints[k].type = types[n]
      /\ \A j \in Counting(n) : k <= j
=============================================================================
