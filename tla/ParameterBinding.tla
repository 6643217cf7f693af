-------------------------- MODULE ParameterBinding --------------------------
(***************************************************************************)
(* The record of one tuple of parameters (flightsql/dbapi.py,              *)
(* build_parameter_record and ParameterRecordBuilder): which value goes to *)
(* which field of the schema the server has reported for the prepared      *)
(* statement, and what becomes of the value there.  A step is one turn of  *)
(* the loop over the fields or values.                                     *)
(*                                                                         *)
(* Numbers are counted in halves, so that an int is even and a fraction    *)
(* odd.  Half stands for 2^63.                                             *)
(***************************************************************************)
EXTENDS Integers, Sequences, FiniteSets

CONSTANTS
  Half,          \* the number of non-negative 64-bit signed integers
  Other,         \* field names that are not "$" and a number
  NoSchema,      \* the server reports no parameter schema
  Tuples,        \* the tuples of parameters
  Schemas        \* the parameter schemas

ValueKind == {"int", "float", "decimal", "str", "none", "object"}
Value == [kind : ValueKind, num : Int]

\* bound: int and uint fields hold whole numbers in -bound..bound-1 and
\* 0..bound-1, decimal fields multiples of unit below bound (both in halves).
FieldKind == {"int", "uint", "decimal", "str", "view", "union"}
FieldType == {t \in [kind : FieldKind, bound : Nat, unit : {1, 2}] :
                /\ t.kind = "int" => t.bound <= Half
                /\ t.kind = "uint" => t.bound <= 2 * Half}

\* The name i is "$i".
Field == [name : Nat \cup Other, type : FieldType]

ASSUME ParameterAssumption ==
  /\ Half \in Nat \ {0} /\ Other \cap Nat = {}
  /\ Tuples \subseteq Seq(Value) /\ Schemas \subseteq Seq(Field) \cup {NoSchema}
  /\ NoSchema \notin Seq(Field)

VARIABLES
  values, schema,   \* the arguments
  pc,               \* "start", "typed", "legacy" or the result
  record            \* the cells so far: what is stored, and the value it is of

vars == <<values, schema, pc, record>>

Init == /\ values \in Tuples /\ schema \in Schemas
        /\ pc = "start" /\ record = <<>>

\* No schema to go by, or one that pyarrow cannot build from Python values.
Legacy ==
  \/ schema = NoSchema
  \/ Len(schema) # Len(values) \/ Len(values) = 0
  \/ \E k \in 1..Len(schema) : schema[k].type.kind = "union"

Choose == /\ pc = "start"
          /\ pc' = IF Legacy THEN "legacy" ELSE "typed"
          /\ UNCHANGED <<values, schema, record>>

-----------------------------------------------------------------------------
(* The schema of the server *)

\* The names are exactly $1 to $n.
NumberedWithin == {schema[k].name : k \in 1..Len(schema)} \subseteq 1..Len(values)
Numbered == {schema[k].name : k \in 1..Len(schema)} = 1..Len(values)

\* Which value field k takes.
Index(k) == IF Numbered THEN schema[k].name ELSE k

Rejected == [kind |-> "rejected", num |-> 0]
Null     == [kind |-> "null", num |-> 0]
Number(n) == [kind |-> "number", num |-> n]
Text(n)   == [kind |-> "text", num |-> n]

Within(n, t) ==
  CASE t.kind = "int"     -> n % 2 = 0 /\ -2 * t.bound <= n /\ n < 2 * t.bound
    [] t.kind = "uint"    -> n % 2 = 0 /\ 0 <= n /\ n < 2 * t.bound
    [] t.kind = "decimal" -> n % t.unit = 0 /\ -t.bound < n /\ n < t.bound

\* The Arrow type a value is given first: an int is an int64, from 2^63 on a
\* uint64, and for a decimal field an exact Decimal.
SourceInferred(v, t) == IF v.kind = "int" /\ v.num >= 2 * Half THEN "uint64"
                        ELSE IF v.kind = "int" THEN "int64" ELSE v.kind
Source(v, t) ==
  IF v.kind = "int" /\ t.kind = "decimal" THEN "decimal"
  ELSE IF v.kind = "int" /\ v.num >= 2 * Half THEN "uint64"
  ELSE IF v.kind = "int" THEN "int64" ELSE v.kind

\* Whether a value of that type can be made at all.
Constructs(source, v) ==
  /\ source = "int64" => -2 * Half <= v.num /\ v.num < 2 * Half
  /\ source = "uint64" => v.num < 4 * Half
  /\ source # "object"

\* Arrow's safe cast.  From an integer type to a decimal one it asks for room
\* for every value of the type; from a float it may round.  The texts of this model are
\* no numerals: a text that is one would be parsed.
Cast(source, n, t) ==
  CASE source = "none" -> {Null}
    [] source \in {"int64", "uint64", "decimal", "float"} /\ t.kind \in {"int", "uint"} ->
         IF Within(n, t) THEN {Number(n)} ELSE {Rejected}
    [] source = "decimal" /\ t.kind = "decimal" ->
         IF Within(n, t) THEN {Number(n)} ELSE {Rejected}
    [] source \in {"int64", "uint64"} /\ t.kind = "decimal" ->
         IF t.bound > 4 * Half THEN {Number(n)} ELSE {Rejected}
    [] source = "float" /\ t.kind = "decimal" ->
         {Rejected} \cup {Number(r) : r \in {r \in {n - 1, n, n + 1} : Within(r, t)}}
    [] source \in {"int64", "uint64", "decimal", "float", "str"} /\ t.kind = "str" -> {Text(n)}
    [] source = "str" /\ t.kind \in {"int", "uint", "decimal"} -> {Rejected}

\* A view is built directly; it takes text only.
Direct(v) == CASE v.kind = "none" -> {Null}
               [] v.kind = "str"  -> {Text(v.num)}
               [] v.kind \notin {"none", "str"} -> {Rejected}

Halved(v) == [v EXCEPT !.num = (v.num \div 2) * 2]
StoredUnsafe(v, t) ==
  LET u == IF v.kind = "float" /\ t.kind = "int" THEN Halved(v) ELSE v IN
  IF t.kind = "view" THEN Direct(v)
  ELSE IF Constructs(Source(u, t), u) THEN Cast(Source(u, t), u.num, t) ELSE {Rejected}
Stored(v, t) ==
  IF t.kind = "view" THEN Direct(v)
  ELSE IF Constructs(Source(v, t), v) THEN Cast(Source(v, t), v.num, t) ELSE {Rejected}

Position == Len(record) + 1

BindField ==
  /\ pc = "typed"
  /\ \E cell \in Stored(values[Index(Position)], schema[Position].type) :
       \/ /\ cell = Rejected
          /\ pc' = "dataError" /\ UNCHANGED record
       \/ /\ cell # Rejected
          /\ record' = Append(record, [cell |-> cell, of |-> Index(Position)])
          /\ pc' = IF Position = Len(schema) THEN "bound" ELSE pc
  /\ UNCHANGED <<values, schema>>

-----------------------------------------------------------------------------
(* One dense union per parameter *)

\* An int must be an int64; NULL, Decimal and other objects have no child.
Packs(v) == \/ v.kind \in {"float", "str"}
            \/ v.kind = "int" /\ -2 * Half <= v.num /\ v.num < 2 * Half

Packed(v) == IF v.kind = "str" THEN Text(v.num) ELSE Number(v.num)

PackValue ==
  /\ pc = "legacy" /\ Position <= Len(values)
  /\ \/ /\ ~Packs(values[Position])
        /\ pc' = "error" /\ UNCHANGED record
     \/ /\ Packs(values[Position])
        /\ record' = Append(record, [cell |-> Packed(values[Position]), of |-> Position])
        /\ UNCHANGED pc
  /\ UNCHANGED <<values, schema>>

\* The record of no values has no columns.
Pack == /\ pc = "legacy" /\ Len(record) = Len(values)
        /\ pc' = "packed"
        /\ UNCHANGED <<values, schema, record>>

Next == Choose \/ BindField \/ PackValue \/ Pack

Spec == Init /\ [][Next]_vars

-----------------------------------------------------------------------------
(* Properties *)

Cell == [cell : [kind : {"null", "number", "text"}, num : Int], of : Nat]

TypeOK ==
  /\ values \in Seq(Value) /\ schema \in Seq(Field) \cup {NoSchema}
  /\ pc \in {"start", "typed", "legacy", "bound", "packed", "dataError", "error"}
  /\ record \in Seq(Cell)

\* How far the loop has come, which value each cell is of and that it is one
\* of those the value may become.
LoopInv ==
  /\ pc = "start" => record = <<>>
  /\ pc \in {"typed", "bound", "dataError"} =>
       /\ schema # NoSchema /\ Len(schema) = Len(values)
       /\ \A k \in 1..Len(schema) : schema[k].type.kind # "union"
       /\ Len(record) <= Len(schema)
       /\ \A k \in 1..Len(record) :
            /\ record[k].of = Index(k)
            /\ record[k].cell # Rejected
            /\ record[k].cell \in Stored(values[Index(k)], schema[k].type)
  /\ pc \in {"typed", "dataError"} => Len(record) < Len(schema)
  /\ pc = "bound" => Len(record) = Len(schema)
  /\ pc = "dataError" => Rejected \in Stored(values[Index(Position)], schema[Position].type)
  /\ pc \in {"legacy", "packed"} =>
       /\ Len(record) <= Len(values)
       /\ \A k \in 1..Len(record) : record[k].of = k
  /\ pc = "packed" => Len(record) = Len(values)

\* Every value of the tuple is bound exactly once.  If the fields are named $1
\* to $n, in whatever order the server reports them, "$i" has the i-th value;
\* with any other names, duplicates and gaps included, binding is positional.
EveryValueOnce ==
  pc \in {"bound", "packed"} =>
    /\ \A i \in 1..Len(values) : \E k \in 1..Len(record) :
         /\ record[k].of = i
         /\ \A j \in 1..Len(record) : record[j].of = i => j = k
    /\ pc = "bound" =>
         IF \A i \in 1..Len(values) : \E k \in 1..Len(schema) : schema[k].name = i
         THEN \A k \in 1..Len(schema) : schema[k].name = record[k].of
         ELSE \A k \in 1..Len(schema) : record[k].of = k

\* Whether an exact number can be stored in a field as it is.
Holds(n, t) ==
  \/ t.kind = "int" /\ \E i \in -t.bound .. t.bound - 1 : n = 2 * i
  \/ t.kind = "uint" /\ \E i \in 0 .. t.bound - 1 : n = 2 * i
  \/ t.kind = "decimal" /\ (n % 2 = 1 => t.unit = 1) /\ n < t.bound /\ -n < t.bound

\* "Fractional floats/Decimals cannot silently truncate": a cell of an integer
\* field is the number given; a cell of a decimal field is the int or Decimal
\* given.  NULL stays NULL and nothing else becomes NULL.
BindsExactly ==
  pc = "bound" => \A k \in 1..Len(record) :
    LET v == values[record[k].of]  c == record[k].cell  t == schema[k].type IN
    /\ c.kind = "null" <=> v.kind = "none"
    /\ v.kind \in {"int", "decimal", "float"} /\ t.kind \in {"int", "uint"} =>
         c.num = v.num /\ Holds(v.num, t)
    /\ v.kind \in {"int", "decimal"} /\ t.kind = "decimal" => c.num = v.num /\ Holds(v.num, t)

\* And no number that its field can hold is refused: an int of any size up to
\* the field's, into an integer or a decimal field that has room for it.
RefusesOnlyMisfits ==
  pc = "dataError" =>
    LET t == schema[Position].type
        v == values[IF \A i \in 1..Len(values) : \E k \in 1..Len(schema) : schema[k].name = i
                    THEN schema[Position].name ELSE Position]
    IN /\ v.kind # "none"
       /\ v.kind = "int" /\ t.kind # "view" => ~Holds(v.num, t)
       /\ v.kind = "decimal" /\ t.kind # "view" => ~Holds(v.num, t)
=============================================================================
