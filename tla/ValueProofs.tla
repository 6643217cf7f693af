---------------------------- MODULE ValueProofs ----------------------------
(***************************************************************************)
(* Theorems about the two conversions of an execute: ParameterBinding, for *)
(* tuples and schemas of any length, numbers of any size and any width of  *)
(* the Arrow types; and TemporalValues, for columns of any well-formed     *)
(* arrays, in any windows and chunks, nested to any depth.                 *)
(***************************************************************************)
EXTENDS ParameterBinding, TemporalValues, FiniteSetTheorems, SequenceTheorems,
        WellFoundedInduction, TLAPS

-----------------------------------------------------------------------------
(* Parameters                                                               *)

\* n fields whose names are the numbers 1 to n have each name once.
LEMMA NamesAreDistinct ==
  ASSUME schema \in Seq(Field), Len(schema) = Len(values), values \in Seq(Value), Numbered,
         NEW j \in 1..Len(schema), NEW k \in 1..Len(schema), schema[j].name = schema[k].name
  PROVE  j = k
<1> DEFINE n == Len(values)
           f == [i \in 1..n |-> schema[i].name]
<1>1. n \in Nat /\ IsFiniteSet(1..n)
  BY FS_Interval
<1>2. f \in Surjection(1..n, 1..n)
  <2>1. \A i \in 1..n : f[i] = schema[i].name
    OBVIOUS
  <2>2. f \in [1..n -> 1..n]
    BY DEF Numbered
  <2>3. \A b \in 1..n : \E a \in 1..n : f[a] = b
    BY <2>1 DEF Numbered
  <2>4. QED
    BY <2>2, <2>3 DEF Surjection
<1>3. f \in Injection(1..n, 1..n)
  BY <1>1, <1>2, FS_SurjSameCardinalityImpliesInj
<1>4. f[j] = f[k] => j = k
  BY <1>3 DEF Injection, IsInjective
<1>5. QED
  BY <1>4

\* Every field takes a value of the tuple.
LEMMA IndexInRange ==
  ASSUME schema \in Seq(Field), Len(schema) = Len(values), NEW k \in 1..Len(schema)
  PROVE  Index(k) \in 1..Len(values)
BY DEF Index, Numbered

LEMMA PlacedTypes ==
  ASSUME schema \in Seq(Field), Len(schema) = Len(values), values \in Seq(Value),
         NEW k \in 1..Len(schema)
  PROVE  /\ values[Index(k)] \in Value /\ schema[k].type \in FieldType
         /\ Index(k) \in Nat
<1>1. Index(k) \in 1..Len(values)
  BY IndexInRange
<1>2. schema[k] \in Field /\ Len(values) \in Nat
  OBVIOUS
<1>3. schema[k].type \in FieldType
  BY <1>2 DEF Field
<1>4. QED
  BY <1>1, <1>2, <1>3

LEMMA StoredType ==
  ASSUME NEW v \in Value, NEW t \in FieldType, t.kind # "union", NEW c \in Stored(v, t), c # Rejected
  PROVE  c \in [kind : {"null", "number", "text"}, num : Int]
<1> USE DEF Value, ValueKind, FieldType, FieldKind, Null, Number, Text
<1>1. CASE t.kind = "view"
  BY <1>1 DEF Stored, Direct
<1>2. CASE t.kind # "view"
  <2>1. c \in Cast(Source(v, t), v.num, t)
    BY <1>2 DEF Stored
  <2>2. Source(v, t) \in {"int64", "uint64", "float", "decimal", "str", "none"}
    BY <1>2 DEF Source, Stored, Constructs
  <2>3. QED
    BY <2>1, <2>2, <1>2 DEF Cast
<1>3. QED
  BY <1>1, <1>2

\* The record and the place in the loop keep their types.
THEOREM BindingInvariant == Spec => [](TypeOK /\ LoopInv)
<1>1. Init => TypeOK /\ LoopInv
  BY ParameterAssumption DEF ParameterAssumption, Init, TypeOK, LoopInv
<1>2. TypeOK /\ LoopInv /\ [Next]_vars => (TypeOK /\ LoopInv)'
  <2> SUFFICES ASSUME TypeOK, LoopInv, [Next]_vars PROVE (TypeOK /\ LoopInv)'
    OBVIOUS
  <2>0. Position = Len(record) + 1 /\ Len(record) \in Nat
    BY DEF Position, TypeOK
  <2>1. CASE Choose
    <3>1. UNCHANGED <<values, schema, record>> /\ record = <<>> /\ pc' \in {"legacy", "typed"}
      BY <2>1 DEF Choose, LoopInv
    <3>2. pc' = "typed" => /\ schema # NoSchema /\ Len(schema) = Len(values) /\ Len(values) # 0
                           /\ \A k \in 1..Len(schema) : schema[k].type.kind # "union"
      BY <2>1 DEF Choose, Legacy
    <3>3. values \in Seq(Value) /\ (schema # NoSchema => schema \in Seq(Field))
      BY DEF TypeOK
    <3>4. QED
      BY <3>1, <3>2, <3>3 DEF TypeOK, LoopInv
  <2>2. CASE BindField
    <3>1. /\ pc = "typed" /\ UNCHANGED <<values, schema>>
          /\ schema \in Seq(Field) /\ Len(schema) = Len(values) /\ Position \in 1..Len(schema)
          /\ values \in Seq(Value)
      BY <2>0, <2>2 DEF BindField, LoopInv, TypeOK
    <3>2. PICK cell \in Stored(values[Index(Position)], schema[Position].type) :
            \/ /\ cell = Rejected
               /\ pc' = "dataError" /\ UNCHANGED record
            \/ /\ cell # Rejected
               /\ record' = Append(record, [cell |-> cell, of |-> Index(Position)])
               /\ pc' = IF Position = Len(schema) THEN "bound" ELSE pc
      BY <2>2 DEF BindField
    <3>3. \A k : Index(k)' = Index(k)
      BY <3>1 DEF Index, Numbered
    <3>4. CASE cell = Rejected
      <4>1. pc' = "dataError" /\ record' = record /\ Position' = Position
        BY <3>2, <3>4 DEF Position
      <4>2. QED
        BY <3>1, <3>2, <3>3, <3>4, <4>1, <2>0 DEF TypeOK, LoopInv
    <3>5. CASE cell # Rejected
      <4> DEFINE new == [cell |-> cell, of |-> Index(Position)]
      <4>1. record' = Append(record, new) /\ pc' \in {"typed", "bound"}
            /\ (pc' = "bound" <=> Position = Len(schema))
        BY <3>1, <3>2, <3>5
      <4>2. values[Index(Position)] \in Value /\ schema[Position].type \in FieldType
            /\ Index(Position) \in Nat
        BY <3>1, PlacedTypes
      <4>3. schema[Position].type.kind # "union"
        BY <3>1 DEF LoopInv
      <4>4. new \in Cell
        BY <3>5, <4>2, <4>3, StoredType DEF Cell
      <4>5. record' \in Seq(Cell) /\ Len(record') = Position
            /\ record'[Position] = new /\ \A k \in 1..Len(record) : record'[k] = record[k]
        BY <4>1, <4>4, <2>0 DEF TypeOK
      <4> HIDE DEF new
      <4>6. \A k \in 1..Len(record') : k = Position \/ k \in 1..Len(record)
        BY <4>5, <2>0
      <4>7. \A k \in 1..Len(record') :
              /\ record'[k].of = Index(k)
              /\ record'[k].cell # Rejected
              /\ record'[k].cell \in Stored(values[Index(k)], schema[k].type)
        BY <3>1, <3>5, <4>5, <4>6 DEF LoopInv, new
      <4>8. TypeOK'
        BY <3>1, <4>1, <4>5 DEF TypeOK
      <4>9. QED
        BY <3>1, <3>3, <4>1, <4>5, <4>7, <4>8, <2>0 DEF LoopInv
    <3>6. QED
      BY <3>4, <3>5
  <2>3. CASE PackValue \/ Pack
    <3>1. /\ UNCHANGED <<values, schema>> /\ pc = "legacy"
          /\ values \in Seq(Value)
      BY <2>3 DEF PackValue, Pack, TypeOK
    <3>2. CASE Pack \/ (PackValue /\ pc' = "error")
      <4>1. record' = record /\ (pc' = "error" \/ (pc' = "packed" /\ Len(record) = Len(values)))
        BY <3>2 DEF Pack, PackValue
      <4>2. QED
        BY <3>1, <4>1 DEF TypeOK, LoopInv
    <3>3. CASE PackValue /\ pc' # "error"
      <4> DEFINE new == [cell |-> Packed(values[Position]), of |-> Position]
      <4>1. record' = Append(record, new) /\ pc' = "legacy" /\ Position \in 1..Len(values)
        BY <3>1, <3>3, <2>0 DEF PackValue
      <4>2. values[Position] \in Value
        BY <3>1, <4>1
      <4>3. new \in Cell
        BY <4>1, <4>2 DEF Cell, Packed, Text, Number, Value
      <4>4. record' \in Seq(Cell) /\ Len(record') = Position
            /\ record'[Position].of = Position /\ \A k \in 1..Len(record) : record'[k] = record[k]
        BY <4>1, <4>3, <2>0 DEF TypeOK
      <4> HIDE DEF new
      <4>5. \A k \in 1..Len(record') : k = Position \/ k \in 1..Len(record)
        BY <4>4, <2>0
      <4>6. \A k \in 1..Len(record') : record'[k].of = k
        BY <3>1, <4>4, <4>5 DEF LoopInv
      <4>7. QED
        BY <3>1, <4>1, <4>4, <4>6, <2>0 DEF TypeOK, LoopInv
    <3>4. QED
      BY <2>3, <3>2, <3>3
  <2>4. CASE UNCHANGED vars
    BY <2>4 DEF vars, TypeOK, LoopInv, Index, Numbered, Position
  <2>5. QED
    BY <2>1, <2>2, <2>3, <2>4 DEF Next
<1>3. QED
  BY <1>1, <1>2, PTL DEF Spec

-----------------------------------------------------------------------------
(* Which value goes where *)

\* The names are $1 to $n exactly if each of these numbers is among them.
LEMMA NumberedIffComplete ==
  ASSUME schema \in Seq(Field), values \in Seq(Value), Len(schema) = Len(values)
  PROVE  Numbered <=> \A i \in 1..Len(values) : \E k \in 1..Len(schema) : schema[k].name = i
<1> DEFINE n == Len(values)
           names == {schema[k].name : k \in 1..n}
<1>1. Numbered => \A i \in 1..n : \E k \in 1..n : schema[k].name = i
  BY DEF Numbered
<1>2. ASSUME \A i \in 1..n : \E k \in 1..n : schema[k].name = i PROVE names = 1..n
  <2>0. n \in Nat
    OBVIOUS
  <2> HIDE DEF n
  <2>1. IsFiniteSet(1..n) /\ Cardinality(1..n) = n
    BY <2>0, FS_Interval
  <2> DEFINE f == [k \in 1..n |-> schema[k].name]
  <2>2. f \in Surjection(1..n, names)
    BY DEF Surjection
  <2>3. IsFiniteSet(names) /\ Cardinality(names) <= n
    BY <2>1, <2>2, FS_Surjection
  <2>4. 1..n \in SUBSET names
    BY <1>2 DEF n
  <2> HIDE DEF names
  <2>5. Cardinality(names) \in Nat /\ n <= Cardinality(names)
    BY <2>1, <2>3, <2>4, FS_Subset, FS_CardinalityType
  <2>6. QED
    BY <2>0, <2>1, <2>3, <2>4, <2>5, FS_Subset
<1>3. QED
  BY <1>1, <1>2 DEF Numbered

\* Every value of the tuple is bound once, to the placeholder of its number if
\* the server's fields are numbered and in order if they are not.
THEOREM ValuesBoundOnce == Spec => []EveryValueOnce
<1>1. TypeOK /\ LoopInv => EveryValueOnce
  <2> SUFFICES ASSUME TypeOK, LoopInv, pc \in {"bound", "packed"} PROVE EveryValueOnce
    BY DEF EveryValueOnce
  <2>0. values \in Seq(Value) /\ Len(values) \in Nat
    BY DEF TypeOK
  <2>1. CASE pc = "packed"
    <3>1. Len(record) = Len(values) /\ \A k \in 1..Len(record) : record[k].of = k
      BY <2>1 DEF LoopInv
    <3>2. QED
      BY <2>1, <3>1 DEF EveryValueOnce
  <2>2. CASE pc = "bound"
    <3>1. /\ schema \in Seq(Field) /\ Len(schema) = Len(values) /\ Len(record) = Len(values)
          /\ \A k \in 1..Len(values) : record[k].of = Index(k)
      BY <2>2 DEF LoopInv, TypeOK
    <3>2. CASE Numbered
      <4>1. \A k \in 1..Len(values) : record[k].of = schema[k].name
        BY <3>1, <3>2 DEF Index
      <4>2. \A i \in 1..Len(values) : \E k \in 1..Len(values) : schema[k].name = i
        BY <3>1, <3>2 DEF Numbered
      <4>3. \A j, k \in 1..Len(values) : schema[j].name = schema[k].name => j = k
        BY <2>0, <3>1, <3>2, NamesAreDistinct
      <4>4. \A i \in 1..Len(values) : \E k \in 1..Len(record) :
              /\ record[k].of = i
              /\ \A j \in 1..Len(record) : record[j].of = i => j = k
        <5> SUFFICES ASSUME NEW i \in 1..Len(values)
                     PROVE  \E k \in 1..Len(values) :
                              /\ record[k].of = i
                              /\ \A j \in 1..Len(values) : record[j].of = i => j = k
          BY <3>1
        <5>1. PICK k \in 1..Len(values) : schema[k].name = i
          BY <4>2
        <5>2. \A j \in 1..Len(values) : record[j].of = i => j = k
          BY <4>1, <4>3, <5>1
        <5>3. QED
          BY <4>1, <5>1, <5>2
      <4>5. QED
        BY <2>2, <3>1, <4>1, <4>2, <4>4 DEF EveryValueOnce
    <3>3. CASE ~Numbered
      <4>1. \A k \in 1..Len(values) : record[k].of = k
        BY <3>1, <3>3 DEF Index
      <4>2. ~(\A i \in 1..Len(values) : \E k \in 1..Len(schema) : schema[k].name = i)
        BY <2>0, <3>1, <3>3, NumberedIffComplete
      <4>3. \A i \in 1..Len(values) : \E k \in 1..Len(record) :
              /\ record[k].of = i
              /\ \A j \in 1..Len(record) : record[j].of = i => j = k
        BY <3>1, <4>1
      <4>4. QED
        BY <2>2, <3>1, <4>1, <4>2, <4>3 DEF EveryValueOnce
    <3>4. QED
      BY <3>2, <3>3
  <2>3. QED
    BY <2>1, <2>2
<1>2. QED
  BY <1>1, BindingInvariant, PTL

-----------------------------------------------------------------------------
(* What becomes of a value *)

\* What Arrow checks of a number is that the field can hold it.
LEMMA WithinIffHolds ==
  ASSUME NEW n \in Int, NEW t \in FieldType, t.kind \in {"int", "uint", "decimal"}
  PROVE  Within(n, t) <=> Holds(n, t)
<1>0. t.bound \in Nat /\ t.unit \in {1, 2}
  BY DEF FieldType
<1>1. CASE t.kind = "int"
  <2>1. ASSUME n % 2 = 0, -2 * t.bound <= n, n < 2 * t.bound
        PROVE  n \div 2 \in -t.bound .. t.bound - 1 /\ n = 2 * (n \div 2)
    BY <1>0, <2>1
  <2>2. ASSUME NEW i \in -t.bound .. t.bound - 1, n = 2 * i
        PROVE  n % 2 = 0 /\ -2 * t.bound <= n /\ n < 2 * t.bound
    BY <1>0, <2>2
  <2>3. QED
    BY <1>1, <2>1, <2>2 DEF Within, Holds
<1>2. CASE t.kind = "uint"
  <2>1. ASSUME n % 2 = 0, 0 <= n, n < 2 * t.bound
        PROVE  n \div 2 \in 0 .. t.bound - 1 /\ n = 2 * (n \div 2)
    BY <1>0, <2>1
  <2>2. ASSUME NEW i \in 0 .. t.bound - 1, n = 2 * i
        PROVE  n % 2 = 0 /\ 0 <= n /\ n < 2 * t.bound
    BY <1>0, <2>2
  <2>3. QED
    BY <1>2, <2>1, <2>2 DEF Within, Holds
<1>3. CASE t.kind = "decimal"
  <2>1. n % t.unit = 0 <=> (n % 2 = 1 => t.unit = 1)
    <3>1. CASE t.unit = 1
      BY <3>1
    <3>2. CASE t.unit = 2
      BY <3>2
    <3>3. QED
      BY <1>0, <3>1, <3>2
  <2>2. -t.bound < n <=> -n < t.bound
    BY <1>0
  <2>3. QED
    BY <1>3, <2>1, <2>2 DEF Within, Holds
<1>4. QED
  BY <1>1, <1>2, <1>3

\* A number in an integer field, or an exact one in a decimal field.
ExactPair(v, t) ==
  \/ v.kind \in {"int", "decimal", "float"} /\ t.kind \in {"int", "uint"}
  \/ v.kind \in {"int", "decimal"} /\ t.kind = "decimal"

LEMMA StoredExactly ==
  ASSUME NEW v \in Value, NEW t \in FieldType, ExactPair(v, t), NEW c \in Stored(v, t)
  PROVE  c \in {Number(v.num), Rejected} /\ (c = Number(v.num) => Within(v.num, t))
         /\ (c = Rejected => ~Within(v.num, t))
<1> USE DEF Number, Rejected
<1>1. t.kind # "view" /\ Half \in Nat \ {0} /\ v.num \in Int /\ t.bound \in Nat
  BY ParameterAssumption DEF ParameterAssumption, ExactPair, FieldType, Value
<1>2. CASE Constructs(Source(v, t), v)
  <2>1. c \in Cast(Source(v, t), v.num, t)
    BY <1>1, <1>2 DEF Stored
  <2>2. Source(v, t) \in {"int64", "uint64", "decimal", "float"}
        /\ (t.kind = "decimal" => Source(v, t) = "decimal")
    BY DEF Source, ExactPair
  <2>3. Cast(Source(v, t), v.num, t) = IF Within(v.num, t) THEN {Number(v.num)} ELSE {Rejected}
    <3>1. CASE t.kind \in {"int", "uint"}
      BY <2>2, <3>1 DEF Cast
    <3>2. CASE t.kind = "decimal"
      BY <2>2, <3>2 DEF Cast
    <3>3. QED
      BY <3>1, <3>2 DEF ExactPair
  <2>4. QED
    BY <2>1, <2>3
<1>3. CASE ~Constructs(Source(v, t), v)
  <2>1. c = Rejected
    BY <1>1, <1>3 DEF Stored
  <2>2. v.kind = "int" /\ t.kind \in {"int", "uint"}
    BY <1>3 DEF Constructs, Source, ExactPair
  <2>3. v.num < -2 * Half \/ v.num >= 4 * Half
    BY <1>1, <1>3, <2>2 DEF Constructs, Source
  <2>4. /\ t.kind = "int" => t.bound <= Half
        /\ t.kind = "uint" => t.bound <= 2 * Half
    BY DEF FieldType
  <2>5. ~Within(v.num, t)
    <3>1. CASE t.kind = "int"
      BY <1>1, <2>3, <2>4, <3>1 DEF Within
    <3>2. CASE t.kind = "uint"
      BY <1>1, <2>3, <2>4, <3>2 DEF Within
    <3>3. QED
      BY <2>2, <3>1, <3>2
  <2>6. QED
    BY <2>1, <2>5
<1>4. QED
  BY <1>2, <1>3

LEMMA NullIsNull ==
  ASSUME NEW v \in Value, NEW t \in FieldType, t.kind # "union", NEW c \in Stored(v, t)
  PROVE  /\ v.kind = "none" => c = Null
         /\ v.kind # "none" => c.kind # "null"
<1> USE DEF Value, ValueKind, FieldType, FieldKind, Null, Number, Text, Rejected
<1>1. CASE t.kind = "view"
  BY <1>1 DEF Stored, Direct
<1>2. CASE t.kind # "view"
  <2>1. c = Rejected \/ c \in Cast(Source(v, t), v.num, t)
    BY <1>2 DEF Stored
  <2>2. v.kind = "none" => c = Null
    BY <1>2 DEF Stored, Source, Constructs, Cast
  <2>3. v.kind # "none" => Source(v, t) \in {"int64", "uint64", "float", "decimal", "str", "object"}
    BY DEF Source
  <2>4. ASSUME v.kind # "none", c \in Cast(Source(v, t), v.num, t), Source(v, t) # "object"
        PROVE  c.kind # "null"
    BY <1>2, <2>3, <2>4 DEF Cast
  <2>5. Source(v, t) = "object" => c = Rejected
    BY <1>2 DEF Stored, Constructs
  <2>6. QED
    BY <2>1, <2>2, <2>4, <2>5
<1>3. QED
  BY <1>1, <1>2

\* No number is truncated on its way into an integer or decimal field, NULL
\* stays NULL and nothing else becomes NULL.
THEOREM BindingIsExact == Spec => []BindsExactly
<1>1. TypeOK /\ LoopInv => BindsExactly
  <2> SUFFICES ASSUME TypeOK, LoopInv, pc = "bound", NEW k \in 1..Len(record)
               PROVE  LET v == values[record[k].of]  c == record[k].cell  t == schema[k].type IN
                      /\ c.kind = "null" <=> v.kind = "none"
                      /\ v.kind \in {"int", "decimal", "float"} /\ t.kind \in {"int", "uint"} =>
                           c.num = v.num /\ Holds(v.num, t)
                      /\ v.kind \in {"int", "decimal"} /\ t.kind = "decimal" =>
                           c.num = v.num /\ Holds(v.num, t)
    BY DEF BindsExactly
  <2> DEFINE v == values[Index(k)]
             c == record[k].cell
             t == schema[k].type
  <2>1. /\ record[k].of = Index(k) /\ c # Rejected /\ c \in Stored(v, t)
        /\ schema \in Seq(Field) /\ Len(schema) = Len(values) /\ k \in 1..Len(schema)
        /\ t.kind # "union" /\ values \in Seq(Value)
    BY DEF LoopInv, TypeOK
  <2>2. v \in Value /\ t \in FieldType
    BY <2>1, PlacedTypes
  <2> HIDE DEF v, c, t
  <2>3. c.kind = "null" <=> v.kind = "none"
    BY <2>1, <2>2, NullIsNull DEF Null
  <2>4. ASSUME ExactPair(v, t) PROVE c.num = v.num /\ Holds(v.num, t)
    <3>1. c = Number(v.num) /\ Within(v.num, t)
      BY <2>1, <2>2, <2>4, StoredExactly
    <3>2. v.num \in Int /\ t.kind \in {"int", "uint", "decimal"}
      BY <2>2, <2>4 DEF Value, ExactPair
    <3>3. QED
      BY <3>1, <3>2, <2>2, WithinIffHolds DEF Number
  <2>5. QED
    BY <2>1, <2>3, <2>4 DEF v, c, t, ExactPair
<1>2. QED
  BY <1>1, BindingInvariant, PTL

\* No int or Decimal is refused that its field can hold.
THEOREM OnlyMisfitsRefused == Spec => []RefusesOnlyMisfits
<1>1. TypeOK /\ LoopInv => RefusesOnlyMisfits
  <2> SUFFICES ASSUME TypeOK, LoopInv, pc = "dataError" PROVE RefusesOnlyMisfits
    BY DEF RefusesOnlyMisfits
  <2> DEFINE v == values[Index(Position)]
             t == schema[Position].type
  <2>1. /\ schema \in Seq(Field) /\ Len(schema) = Len(values) /\ Position \in 1..Len(schema)
        /\ t.kind # "union" /\ values \in Seq(Value) /\ Rejected \in Stored(v, t)
    BY DEF LoopInv, TypeOK, Position
  <2>2. v \in Value /\ t \in FieldType
    BY <2>1, PlacedTypes
  <2>3. Index(Position) = IF \A i \in 1..Len(values) : \E k \in 1..Len(schema) : schema[k].name = i
                          THEN schema[Position].name ELSE Position
    BY <2>1, NumberedIffComplete DEF Index
  <2> HIDE DEF v, t
  <2>4. v.kind # "none"
    BY <2>1, <2>2, NullIsNull DEF Null, Rejected
  <2>5. ASSUME v.kind \in {"int", "decimal"}, t.kind # "view" PROVE ~Holds(v.num, t)
    <3>1. CASE t.kind \in {"int", "uint", "decimal"}
      <4>1. ExactPair(v, t) /\ v.num \in Int
        BY <2>2, <2>5, <3>1 DEF ExactPair, Value
      <4>2. ~Within(v.num, t)
        BY <2>1, <2>2, <4>1, StoredExactly DEF Rejected
      <4>3. QED
        BY <2>2, <3>1, <4>1, <4>2, WithinIffHolds
    <3>2. CASE t.kind \notin {"int", "uint", "decimal"}
      BY <3>2 DEF Holds
    <3>3. QED
      BY <3>1, <3>2
  <2>6. QED
    BY <2>3, <2>4, <2>5 DEF RefusesOnlyMisfits, v, t
<1>2. QED
  BY <1>1, BindingInvariant, PTL

-----------------------------------------------------------------------------
(* Recursion over the levels of nesting                                     *)

LessThan == {p \in Nat \X Nat : p[1] < p[2]}

LEMMA LeastNatural ==
  ASSUME NEW S \in SUBSET Nat, S # {}
  PROVE  \E m \in S : \A k \in S : m <= k
<1>1. IsWellFoundedOn(LessThan, Nat)
  BY NatLessThanWellFounded DEF OpToRel, LessThan
<1>2. PICK m \in S : \A k \in S : <<k, m>> \notin LessThan
  BY <1>1, WFMin
<1>3. ASSUME NEW k \in S PROVE m <= k
  <2>1. k \in Nat /\ m \in Nat /\ <<k, m>> \notin LessThan
    BY <1>2
  <2>2. <<k, m>> \in Nat \X Nat /\ <<k, m>>[1] = k /\ <<k, m>>[2] = m
    BY <2>1
  <2>3. ~(k < m)
    BY <2>1, <2>2, Zenon DEF LessThan
  <2>4. QED
    BY <2>1, <2>3
<1>4. QED
  BY <1>3

\* What holds at level 0, and at each level if at the one below, holds at all.
LEMMA EveryLevel ==
  ASSUME NEW S, 0 \in S, \A n \in 1..Depth : n - 1 \in S => n \in S
  PROVE  \A n \in 0..Depth : n \in S
<1> DEFINE missing == {n \in 0..Depth : n \notin S}
<1>1. missing \in SUBSET Nat
  BY ColumnsAssumption DEF ColumnsAssumption
<1>2. SUFFICES ASSUME missing # {} PROVE FALSE
  OBVIOUS
<1>3. PICK m \in missing : \A k \in missing : m <= k
  <2> HIDE DEF missing
  <2> QED
    BY <1>1, <1>2, LeastNatural
<1>4. m \in 1..Depth /\ m - 1 \in 0..Depth /\ m - 1 \notin missing
  BY <1>3, ColumnsAssumption DEF ColumnsAssumption
<1>5. QED
  BY <1>3, <1>4

LEMMA TypesLevels ==
  \A n \in 0..Depth : Types[n] = IF n = 0 THEN {} ELSE TypesOver(Types[n - 1])
<1> DEFINE Level(below, n) == IF n = 0 THEN {} ELSE TypesOver(below)
           UpTo(f, m) == f = [n \in 0..m |-> Level(f[n - 1], n)]
           done == {m \in 0..Depth : \E f : UpTo(f, m)}
<1>1. \A f, g : Level(f, 0) = Level(g, 0)
  OBVIOUS
<1>2. Types = CHOOSE f : UpTo(f, Depth)
  BY DEF Types
<1> HIDE DEF Level
<1>3. 0 \in done
  <2> DEFINE f == [n \in 0..0 |-> Level(<<>>, n)]
  <2>1. UpTo(f, 0)
    BY <1>1
  <2>2. QED
    BY <2>1, ColumnsAssumption DEF ColumnsAssumption
<1>4. ASSUME NEW m \in 1..Depth, m - 1 \in done PROVE m \in done
  <2>1. PICK f : UpTo(f, m - 1)
    BY <1>4
  <2> DEFINE g == [n \in 0..m |-> Level(f[n - 1], n)]
  <2>2. \A k \in 0..(m - 1) : g[k] = f[k]
    BY <2>1
  <2>3. \A n \in 0..m : n = 0 \/ n - 1 \in 0..(m - 1)
    OBVIOUS
  <2>4. \A n \in 0..m : Level(g[n - 1], n) = Level(f[n - 1], n)
    BY <2>2, <2>3, <1>1
  <2>5. UpTo(g, m)
    BY <2>4
  <2>6. m \in 0..Depth
    BY ColumnsAssumption DEF ColumnsAssumption
  <2> HIDE DEF g
  <2>7. QED
    BY <2>5, <2>6
<1>5. Depth \in done
  <2> HIDE DEF done
  <2>1. QED
    BY <1>3, <1>4, EveryLevel, ColumnsAssumption DEF ColumnsAssumption
<1>6. UpTo(Types, Depth)
  BY <1>2, <1>5
<1>7. QED
  BY <1>6 DEF Level

LEMMA ArraysLevels ==
  \A n \in 0..Depth : Arrays[n] = IF n = 0 THEN {} ELSE ArraysOver(Types[n], Arrays[n - 1])
<1> DEFINE Level(below, n) == IF n = 0 THEN {} ELSE ArraysOver(Types[n], below)
           UpTo(f, m) == f = [n \in 0..m |-> Level(f[n - 1], n)]
           done == {m \in 0..Depth : \E f : UpTo(f, m)}
<1>1. \A f, g : Level(f, 0) = Level(g, 0)
  OBVIOUS
<1>2. Arrays = CHOOSE f : UpTo(f, Depth)
  BY DEF Arrays
<1> HIDE DEF Level
<1>3. 0 \in done
  <2> DEFINE f == [n \in 0..0 |-> Level(<<>>, n)]
  <2>1. UpTo(f, 0)
    BY <1>1
  <2>2. QED
    BY <2>1, ColumnsAssumption DEF ColumnsAssumption
<1>4. ASSUME NEW m \in 1..Depth, m - 1 \in done PROVE m \in done
  <2>1. PICK f : UpTo(f, m - 1)
    BY <1>4
  <2> DEFINE g == [n \in 0..m |-> Level(f[n - 1], n)]
  <2>2. \A k \in 0..(m - 1) : g[k] = f[k]
    BY <2>1
  <2>3. \A n \in 0..m : n = 0 \/ n - 1 \in 0..(m - 1)
    OBVIOUS
  <2>4. \A n \in 0..m : Level(g[n - 1], n) = Level(f[n - 1], n)
    BY <2>2, <2>3, <1>1
  <2>5. UpTo(g, m)
    BY <2>4
  <2>6. m \in 0..Depth
    BY ColumnsAssumption DEF ColumnsAssumption
  <2> HIDE DEF g
  <2>7. QED
    BY <2>5, <2>6
<1>5. Depth \in done
  <2> HIDE DEF done
  <2>1. QED
    BY <1>3, <1>4, EveryLevel, ColumnsAssumption DEF ColumnsAssumption
<1>6. UpTo(Arrays, Depth)
  BY <1>2, <1>5
<1>7. QED
  BY <1>6 DEF Level

LEMMA ContainsLevels ==
  \A n \in 0..Depth : Contains[n] = [t \in Types[n] |-> ContainsWithin(t, Contains[n - 1])]
<1> DEFINE Level(below, n) == [t \in Types[n] |-> ContainsWithin(t, below)]
           UpTo(f, m) == f = [n \in 0..m |-> Level(f[n - 1], n)]
           done == {m \in 0..Depth : \E f : UpTo(f, m)}
<1>1. \A f, g : Level(f, 0) = Level(g, 0)
  BY TypesLevels, ColumnsAssumption DEF ColumnsAssumption
<1>2. Contains = CHOOSE f : UpTo(f, Depth)
  BY DEF Contains
<1> HIDE DEF Level
<1>3. 0 \in done
  <2> DEFINE f == [n \in 0..0 |-> Level(<<>>, n)]
  <2>1. UpTo(f, 0)
    BY <1>1
  <2>2. QED
    BY <2>1, ColumnsAssumption DEF ColumnsAssumption
<1>4. ASSUME NEW m \in 1..Depth, m - 1 \in done PROVE m \in done
  <2>1. PICK f : UpTo(f, m - 1)
    BY <1>4
  <2> DEFINE g == [n \in 0..m |-> Level(f[n - 1], n)]
  <2>2. \A k \in 0..(m - 1) : g[k] = f[k]
    BY <2>1
  <2>3. \A n \in 0..m : n = 0 \/ n - 1 \in 0..(m - 1)
    OBVIOUS
  <2>4. \A n \in 0..m : Level(g[n - 1], n) = Level(f[n - 1], n)
    BY <2>2, <2>3, <1>1
  <2>5. UpTo(g, m)
    BY <2>4
  <2>6. m \in 0..Depth
    BY ColumnsAssumption DEF ColumnsAssumption
  <2> HIDE DEF g
  <2>7. QED
    BY <2>5, <2>6
<1>5. Depth \in done
  <2> HIDE DEF done
  <2>1. QED
    BY <1>3, <1>4, EveryLevel, ColumnsAssumption DEF ColumnsAssumption
<1>6. UpTo(Contains, Depth)
  BY <1>2, <1>5
<1>7. QED
  BY <1>6 DEF Level

LEMMA NormalizableLevels ==
  \A n \in 0..Depth : Normalizable[n] = [t \in Types[n] |-> NormalizableOver(t, Contains[n], Normalizable[n - 1])]
<1> DEFINE Level(below, n) == [t \in Types[n] |-> NormalizableOver(t, Contains[n], below)]
           UpTo(f, m) == f = [n \in 0..m |-> Level(f[n - 1], n)]
           done == {m \in 0..Depth : \E f : UpTo(f, m)}
<1>1. \A f, g : Level(f, 0) = Level(g, 0)
  BY TypesLevels, ColumnsAssumption DEF ColumnsAssumption
<1>2. Normalizable = CHOOSE f : UpTo(f, Depth)
  BY DEF Normalizable
<1> HIDE DEF Level
<1>3. 0 \in done
  <2> DEFINE f == [n \in 0..0 |-> Level(<<>>, n)]
  <2>1. UpTo(f, 0)
    BY <1>1
  <2>2. QED
    BY <2>1, ColumnsAssumption DEF ColumnsAssumption
<1>4. ASSUME NEW m \in 1..Depth, m - 1 \in done PROVE m \in done
  <2>1. PICK f : UpTo(f, m - 1)
    BY <1>4
  <2> DEFINE g == [n \in 0..m |-> Level(f[n - 1], n)]
  <2>2. \A k \in 0..(m - 1) : g[k] = f[k]
    BY <2>1
  <2>3. \A n \in 0..m : n = 0 \/ n - 1 \in 0..(m - 1)
    OBVIOUS
  <2>4. \A n \in 0..m : Level(g[n - 1], n) = Level(f[n - 1], n)
    BY <2>2, <2>3, <1>1
  <2>5. UpTo(g, m)
    BY <2>4
  <2>6. m \in 0..Depth
    BY ColumnsAssumption DEF ColumnsAssumption
  <2> HIDE DEF g
  <2>7. QED
    BY <2>5, <2>6
<1>5. Depth \in done
  <2> HIDE DEF done
  <2>1. QED
    BY <1>3, <1>4, EveryLevel, ColumnsAssumption DEF ColumnsAssumption
<1>6. UpTo(Normalizable, Depth)
  BY <1>2, <1>5
<1>7. QED
  BY <1>6 DEF Level

LEMMA NormalizedTypeLevels ==
  \A n \in 0..Depth : NormalizedType[n] = [t \in Types[n] |-> NormalizedOver(t, NormalizedType[n - 1])]
<1> DEFINE Level(below, n) == [t \in Types[n] |-> NormalizedOver(t, below)]
           UpTo(f, m) == f = [n \in 0..m |-> Level(f[n - 1], n)]
           done == {m \in 0..Depth : \E f : UpTo(f, m)}
<1>1. \A f, g : Level(f, 0) = Level(g, 0)
  BY TypesLevels, ColumnsAssumption DEF ColumnsAssumption
<1>2. NormalizedType = CHOOSE f : UpTo(f, Depth)
  BY DEF NormalizedType
<1> HIDE DEF Level
<1>3. 0 \in done
  <2> DEFINE f == [n \in 0..0 |-> Level(<<>>, n)]
  <2>1. UpTo(f, 0)
    BY <1>1
  <2>2. QED
    BY <2>1, ColumnsAssumption DEF ColumnsAssumption
<1>4. ASSUME NEW m \in 1..Depth, m - 1 \in done PROVE m \in done
  <2>1. PICK f : UpTo(f, m - 1)
    BY <1>4
  <2> DEFINE g == [n \in 0..m |-> Level(f[n - 1], n)]
  <2>2. \A k \in 0..(m - 1) : g[k] = f[k]
    BY <2>1
  <2>3. \A n \in 0..m : n = 0 \/ n - 1 \in 0..(m - 1)
    OBVIOUS
  <2>4. \A n \in 0..m : Level(g[n - 1], n) = Level(f[n - 1], n)
    BY <2>2, <2>3, <1>1
  <2>5. UpTo(g, m)
    BY <2>4
  <2>6. m \in 0..Depth
    BY ColumnsAssumption DEF ColumnsAssumption
  <2> HIDE DEF g
  <2>7. QED
    BY <2>5, <2>6
<1>5. Depth \in done
  <2> HIDE DEF done
  <2>1. QED
    BY <1>3, <1>4, EveryLevel, ColumnsAssumption DEF ColumnsAssumption
<1>6. UpTo(NormalizedType, Depth)
  BY <1>2, <1>5
<1>7. QED
  BY <1>6 DEF Level

LEMMA NodesLevels ==
  \A n \in 0..Depth : Nodes[n] = [t \in Types[n] |-> NodesOver(t, Nodes[n - 1])]
<1> DEFINE Level(below, n) == [t \in Types[n] |-> NodesOver(t, below)]
           UpTo(f, m) == f = [n \in 0..m |-> Level(f[n - 1], n)]
           done == {m \in 0..Depth : \E f : UpTo(f, m)}
<1>1. \A f, g : Level(f, 0) = Level(g, 0)
  BY TypesLevels, ColumnsAssumption DEF ColumnsAssumption
<1>2. Nodes = CHOOSE f : UpTo(f, Depth)
  BY DEF Nodes
<1> HIDE DEF Level
<1>3. 0 \in done
  <2> DEFINE f == [n \in 0..0 |-> Level(<<>>, n)]
  <2>1. UpTo(f, 0)
    BY <1>1
  <2>2. QED
    BY <2>1, ColumnsAssumption DEF ColumnsAssumption
<1>4. ASSUME NEW m \in 1..Depth, m - 1 \in done PROVE m \in done
  <2>1. PICK f : UpTo(f, m - 1)
    BY <1>4
  <2> DEFINE g == [n \in 0..m |-> Level(f[n - 1], n)]
  <2>2. \A k \in 0..(m - 1) : g[k] = f[k]
    BY <2>1
  <2>3. \A n \in 0..m : n = 0 \/ n - 1 \in 0..(m - 1)
    OBVIOUS
  <2>4. \A n \in 0..m : Level(g[n - 1], n) = Level(f[n - 1], n)
    BY <2>2, <2>3, <1>1
  <2>5. UpTo(g, m)
    BY <2>4
  <2>6. m \in 0..Depth
    BY ColumnsAssumption DEF ColumnsAssumption
  <2> HIDE DEF g
  <2>7. QED
    BY <2>5, <2>6
<1>5. Depth \in done
  <2> HIDE DEF done
  <2>1. QED
    BY <1>3, <1>4, EveryLevel, ColumnsAssumption DEF ColumnsAssumption
<1>6. UpTo(Nodes, Depth)
  BY <1>2, <1>5
<1>7. QED
  BY <1>6 DEF Level

LEMMA NormalizeLevels ==
  \A n \in 0..Depth : Normalize[n] = [a \in Arrays[n] |-> IF NormalizedType[n][a.type] = a.type THEN a
                       ELSE Rebuild(a, NormalizedType[n][a.type], Normalize[n - 1])]
<1> DEFINE Level(below, n) == [a \in Arrays[n] |-> IF NormalizedType[n][a.type] = a.type THEN a
                       ELSE Rebuild(a, NormalizedType[n][a.type], below)]
           UpTo(f, m) == f = [n \in 0..m |-> Level(f[n - 1], n)]
           done == {m \in 0..Depth : \E f : UpTo(f, m)}
<1>1. \A f, g : Level(f, 0) = Level(g, 0)
  BY ArraysLevels, ColumnsAssumption DEF ColumnsAssumption
<1>2. Normalize = CHOOSE f : UpTo(f, Depth)
  BY DEF Normalize
<1> HIDE DEF Level
<1>3. 0 \in done
  <2> DEFINE f == [n \in 0..0 |-> Level(<<>>, n)]
  <2>1. UpTo(f, 0)
    BY <1>1
  <2>2. QED
    BY <2>1, ColumnsAssumption DEF ColumnsAssumption
<1>4. ASSUME NEW m \in 1..Depth, m - 1 \in done PROVE m \in done
  <2>1. PICK f : UpTo(f, m - 1)
    BY <1>4
  <2> DEFINE g == [n \in 0..m |-> Level(f[n - 1], n)]
  <2>2. \A k \in 0..(m - 1) : g[k] = f[k]
    BY <2>1
  <2>3. \A n \in 0..m : n = 0 \/ n - 1 \in 0..(m - 1)
    OBVIOUS
  <2>4. \A n \in 0..m : Level(g[n - 1], n) = Level(f[n - 1], n)
    BY <2>2, <2>3, <1>1
  <2>5. UpTo(g, m)
    BY <2>4
  <2>6. m \in 0..Depth
    BY ColumnsAssumption DEF ColumnsAssumption
  <2> HIDE DEF g
  <2>7. QED
    BY <2>5, <2>6
<1>5. Depth \in done
  <2> HIDE DEF done
  <2>1. QED
    BY <1>3, <1>4, EveryLevel, ColumnsAssumption DEF ColumnsAssumption
<1>6. UpTo(Normalize, Depth)
  BY <1>2, <1>5
<1>7. QED
  BY <1>6 DEF Level

LEMMA PyValuesLevels ==
  \A n \in 0..Depth : PyValues[n] = [a \in Arrays[n] |-> PyValuesOver(a, PyValues[n - 1])]
<1> DEFINE Level(below, n) == [a \in Arrays[n] |-> PyValuesOver(a, below)]
           UpTo(f, m) == f = [n \in 0..m |-> Level(f[n - 1], n)]
           done == {m \in 0..Depth : \E f : UpTo(f, m)}
<1>1. \A f, g : Level(f, 0) = Level(g, 0)
  BY ArraysLevels, ColumnsAssumption DEF ColumnsAssumption
<1>2. PyValues = CHOOSE f : UpTo(f, Depth)
  BY DEF PyValues
<1> HIDE DEF Level
<1>3. 0 \in done
  <2> DEFINE f == [n \in 0..0 |-> Level(<<>>, n)]
  <2>1. UpTo(f, 0)
    BY <1>1
  <2>2. QED
    BY <2>1, ColumnsAssumption DEF ColumnsAssumption
<1>4. ASSUME NEW m \in 1..Depth, m - 1 \in done PROVE m \in done
  <2>1. PICK f : UpTo(f, m - 1)
    BY <1>4
  <2> DEFINE g == [n \in 0..m |-> Level(f[n - 1], n)]
  <2>2. \A k \in 0..(m - 1) : g[k] = f[k]
    BY <2>1
  <2>3. \A n \in 0..m : n = 0 \/ n - 1 \in 0..(m - 1)
    OBVIOUS
  <2>4. \A n \in 0..m : Level(g[n - 1], n) = Level(f[n - 1], n)
    BY <2>2, <2>3, <1>1
  <2>5. UpTo(g, m)
    BY <2>4
  <2>6. m \in 0..Depth
    BY ColumnsAssumption DEF ColumnsAssumption
  <2> HIDE DEF g
  <2>7. QED
    BY <2>5, <2>6
<1>5. Depth \in done
  <2> HIDE DEF done
  <2>1. QED
    BY <1>3, <1>4, EveryLevel, ColumnsAssumption DEF ColumnsAssumption
<1>6. UpTo(PyValues, Depth)
  BY <1>2, <1>5
<1>7. QED
  BY <1>6 DEF Level

LEMMA InPlaceLevels ==
  \A n \in 0..Depth : InPlace[n] = [a \in Arrays[n] |-> TruncatedBelow(a, InPlace[n - 1])]
<1> DEFINE Level(below, n) == [a \in Arrays[n] |-> TruncatedBelow(a, below)]
           UpTo(f, m) == f = [n \in 0..m |-> Level(f[n - 1], n)]
           done == {m \in 0..Depth : \E f : UpTo(f, m)}
<1>1. \A f, g : Level(f, 0) = Level(g, 0)
  BY ArraysLevels, ColumnsAssumption DEF ColumnsAssumption
<1>2. InPlace = CHOOSE f : UpTo(f, Depth)
  BY DEF InPlace
<1> HIDE DEF Level
<1>3. 0 \in done
  <2> DEFINE f == [n \in 0..0 |-> Level(<<>>, n)]
  <2>1. UpTo(f, 0)
    BY <1>1
  <2>2. QED
    BY <2>1, ColumnsAssumption DEF ColumnsAssumption
<1>4. ASSUME NEW m \in 1..Depth, m - 1 \in done PROVE m \in done
  <2>1. PICK f : UpTo(f, m - 1)
    BY <1>4
  <2> DEFINE g == [n \in 0..m |-> Level(f[n - 1], n)]
  <2>2. \A k \in 0..(m - 1) : g[k] = f[k]
    BY <2>1
  <2>3. \A n \in 0..m : n = 0 \/ n - 1 \in 0..(m - 1)
    OBVIOUS
  <2>4. \A n \in 0..m : Level(g[n - 1], n) = Level(f[n - 1], n)
    BY <2>2, <2>3, <1>1
  <2>5. UpTo(g, m)
    BY <2>4
  <2>6. m \in 0..Depth
    BY ColumnsAssumption DEF ColumnsAssumption
  <2> HIDE DEF g
  <2>7. QED
    BY <2>5, <2>6
<1>5. Depth \in done
  <2> HIDE DEF done
  <2>1. QED
    BY <1>3, <1>4, EveryLevel, ColumnsAssumption DEF ColumnsAssumption
<1>6. UpTo(InPlace, Depth)
  BY <1>2, <1>5
<1>7. QED
  BY <1>6 DEF Level

-----------------------------------------------------------------------------
(* Types                                                                    *)

LEMMA TypeAtLevel ==
  ASSUME NEW n \in 0..Depth, NEW t \in Types[n]
  PROVE  /\ n \in 1..Depth /\ n - 1 \in 0..Depth
         /\ t \in TypesOver(Types[n - 1])
         /\ \A i \in DOMAIN t.kids : t.kids[i] \in Types[n - 1]
<1>1. n # 0 /\ t \in TypesOver(Types[n - 1])
  BY TypesLevels
<1>2. t.kids \in Seq(Types[n - 1])
  BY <1>1 DEF TypesOver
<1>3. QED
  BY <1>1, <1>2, ColumnsAssumption DEF ColumnsAssumption

LEMMA NoTypes == Types[0] = {}
BY TypesLevels, ColumnsAssumption DEF ColumnsAssumption

\* The types within a type: itself, and those within its kids.
LEMMA NodesOf ==
  ASSUME NEW t, NEW below, NEW m
  PROVE  m \in NodesOver(t, below)
           <=> \/ m = [kind |-> t.kind, inside |-> {}]
               \/ \E i \in DOMAIN t.kids : \E k \in below[t.kids[i]] :
                    m = [kind |-> k.kind, inside |-> k.inside \cup {t.kind}]
<1> DEFINE Inner(i) == {[kind |-> k.kind, inside |-> k.inside \cup {t.kind}] : k \in below[t.kids[i]]}
<1>1. \A i : m \in Inner(i) <=> \E k \in below[t.kids[i]] :
                m = [kind |-> k.kind, inside |-> k.inside \cup {t.kind}]
  OBVIOUS
<1>2. NodesOver(t, below) = {[kind |-> t.kind, inside |-> {}]} \cup UNION {Inner(i) : i \in DOMAIN t.kids}
  BY DEF NodesOver
<1> HIDE DEF Inner
<1>3. m \in UNION {Inner(i) : i \in DOMAIN t.kids} <=> \E i \in DOMAIN t.kids : m \in Inner(i)
  OBVIOUS
<1>4. QED
  BY <1>1, <1>2, <1>3

LEMMA KindsWithin ==
  ASSUME NEW n \in 0..Depth, NEW t \in Types[n]
  PROVE  (\E m \in Nodes[n][t] : m.kind = "ns")
           <=> t.kind = "ns" \/ \E i \in DOMAIN t.kids : \E m \in Nodes[n - 1][t.kids[i]] : m.kind = "ns"
<1>0. Nodes[n][t] = NodesOver(t, Nodes[n - 1])
  BY NodesLevels
<1>1. ASSUME NEW m \in Nodes[n][t], m.kind = "ns"
      PROVE  t.kind = "ns" \/ \E i \in DOMAIN t.kids : \E k \in Nodes[n - 1][t.kids[i]] : k.kind = "ns"
  BY <1>0, <1>1, NodesOf
<1>2. ASSUME t.kind = "ns" PROVE \E m \in Nodes[n][t] : m.kind = "ns"
  <2>1. [kind |-> t.kind, inside |-> {}] \in Nodes[n][t]
    BY <1>0, NodesOf
  <2>2. QED
    BY <1>2, <2>1
<1>3. ASSUME NEW i \in DOMAIN t.kids, NEW k \in Nodes[n - 1][t.kids[i]], k.kind = "ns"
      PROVE  \E m \in Nodes[n][t] : m.kind = "ns"
  <2>1. [kind |-> k.kind, inside |-> k.inside \cup {t.kind}] \in Nodes[n][t]
    BY <1>0, NodesOf
  <2>2. QED
    BY <1>3, <2>1
<1>4. QED
  BY <1>1, <1>2, <1>3

\* _contains_nanosecond_temporal finds them at any depth.
LEMMA ContainsNodes ==
  \A n \in 0..Depth : \A t \in Types[n] :
    Contains[n][t] <=> \E m \in Nodes[n][t] : m.kind = "ns"
<1> DEFINE Right(n) == \A t \in Types[n] : Contains[n][t] <=> \E m \in Nodes[n][t] : m.kind = "ns"
           right == {n \in 0..Depth : Right(n)}
<1>1. 0 \in right
  BY NoTypes, ColumnsAssumption DEF ColumnsAssumption
<1>2. ASSUME NEW n \in 1..Depth, n - 1 \in right PROVE n \in right
  <2>1. n \in 0..Depth
    OBVIOUS
  <2>2. ASSUME NEW t \in Types[n] PROVE Contains[n][t] <=> \E m \in Nodes[n][t] : m.kind = "ns"
    <3>1. \A i \in DOMAIN t.kids : t.kids[i] \in Types[n - 1]
      BY <2>1, TypeAtLevel
    <3>2. Contains[n][t] <=> t.kind = "ns" \/ \E i \in DOMAIN t.kids : Contains[n - 1][t.kids[i]]
      <4>1. Contains[n][t] = ContainsWithin(t, Contains[n - 1])
        BY <2>1, ContainsLevels
      <4>2. QED
        BY <4>1 DEF ContainsWithin
    <3>3. Nodes[n][t] = NodesOver(t, Nodes[n - 1])
      BY <2>1, NodesLevels
    <3>4. \A i \in DOMAIN t.kids :
            Contains[n - 1][t.kids[i]] <=> \E m \in Nodes[n - 1][t.kids[i]] : m.kind = "ns"
      BY <3>1, <1>2
    <3>5. (\E m \in Nodes[n][t] : m.kind = "ns")
            <=> t.kind = "ns" \/ \E i \in DOMAIN t.kids : \E m \in Nodes[n - 1][t.kids[i]] : m.kind = "ns"
      BY <2>1, KindsWithin
    <3>6. QED
      BY <3>2, <3>4, <3>5
  <2>3. QED
    BY <2>1, <2>2
<1>3. QED
  <2> HIDE DEF right
  <2>1. \A n \in 0..Depth : n \in right
    BY <1>1, <1>2, EveryLevel
  <2>2. QED
    BY <2>1 DEF right

\* _normalized_temporal_type raises exactly for an opaque container around them.
LEMMA NormalizableNodes ==
  \A n \in 0..Depth : \A t \in Types[n] :
    Normalizable[n][t] <=> ~\E m \in Nodes[n][t] : m.kind = "ns" /\ "opaque" \in m.inside
<1> DEFINE Right(n) == \A t \in Types[n] :
             Normalizable[n][t] <=> ~\E m \in Nodes[n][t] : m.kind = "ns" /\ "opaque" \in m.inside
           right == {n \in 0..Depth : Right(n)}
<1>1. 0 \in right
  BY NoTypes, ColumnsAssumption DEF ColumnsAssumption
<1>2. ASSUME NEW n \in 1..Depth, n - 1 \in right PROVE n \in right
  <2>1. n \in 0..Depth
    OBVIOUS
  <2>2. ASSUME NEW t \in Types[n]
        PROVE  Normalizable[n][t] <=> ~\E m \in Nodes[n][t] : m.kind = "ns" /\ "opaque" \in m.inside
    <3>1. \A i \in DOMAIN t.kids : t.kids[i] \in Types[n - 1]
      BY <2>1, TypeAtLevel
    <3>2. Normalizable[n][t] = NormalizableOver(t, Contains[n], Normalizable[n - 1])
      BY <2>1, NormalizableLevels
    <3>3. Nodes[n][t] = NodesOver(t, Nodes[n - 1])
      BY <2>1, NodesLevels
    <3>4. t.kind \in Rebuilt \cup Scalar \cup {"opaque"} /\ (t.kind \in Scalar => DOMAIN t.kids = {})
      BY <2>1, TypeAtLevel DEF TypesOver
    <3>5. (\E m \in Nodes[n][t] : m.kind = "ns" /\ "opaque" \in m.inside)
            <=> \E i \in DOMAIN t.kids : \E m \in Nodes[n - 1][t.kids[i]] :
                  m.kind = "ns" /\ (t.kind = "opaque" \/ "opaque" \in m.inside)
      <4>1. ASSUME NEW m \in Nodes[n][t], m.kind = "ns", "opaque" \in m.inside
            PROVE  \E i \in DOMAIN t.kids : \E k \in Nodes[n - 1][t.kids[i]] :
                     k.kind = "ns" /\ (t.kind = "opaque" \/ "opaque" \in k.inside)
        <5>1. m # [kind |-> t.kind, inside |-> {}]
          BY <4>1
        <5>2. QED
          BY <3>3, <4>1, <5>1, NodesOf
      <4>2. ASSUME NEW i \in DOMAIN t.kids, NEW k \in Nodes[n - 1][t.kids[i]],
                   k.kind = "ns", t.kind = "opaque" \/ "opaque" \in k.inside
            PROVE  \E m \in Nodes[n][t] : m.kind = "ns" /\ "opaque" \in m.inside
        <5>1. [kind |-> k.kind, inside |-> k.inside \cup {t.kind}] \in Nodes[n][t]
          BY <3>3, NodesOf
        <5>2. QED
          BY <4>2, <5>1
      <4>3. QED
        BY <4>1, <4>2
    <3>6. CASE t.kind \in Rebuilt
      <4>1. \A i \in DOMAIN t.kids : Normalizable[n - 1][t.kids[i]]
              <=> ~\E m \in Nodes[n - 1][t.kids[i]] : m.kind = "ns" /\ "opaque" \in m.inside
        BY <3>1, <1>2
      <4>2. t.kind # "opaque"
        BY <3>6 DEF Rebuilt
      <4>3. Normalizable[n][t] <=> \A i \in DOMAIN t.kids : Normalizable[n - 1][t.kids[i]]
        BY <3>2, <3>6 DEF NormalizableOver
      <4>4. QED
        BY <3>5, <4>1, <4>2, <4>3
    <3>7. CASE t.kind = "opaque"
      <4>1. Normalizable[n][t] <=> ~Contains[n][t]
        BY <3>2, <3>7 DEF NormalizableOver, Rebuilt
      <4>2. Contains[n][t] <=> \E m \in Nodes[n][t] : m.kind = "ns"
        BY <2>1, ContainsNodes
      <4>3. (\E m \in Nodes[n][t] : m.kind = "ns")
              <=> \E i \in DOMAIN t.kids : \E m \in Nodes[n - 1][t.kids[i]] : m.kind = "ns"
        BY <2>1, <3>7, KindsWithin
      <4>4. QED
        BY <3>5, <3>7, <4>1, <4>2, <4>3
    <3>8. CASE t.kind \in Scalar
      BY <3>2, <3>4, <3>5, <3>8 DEF NormalizableOver, Rebuilt, Scalar
    <3>9. QED
      BY <3>4, <3>6, <3>7, <3>8
  <2>3. QED
    BY <2>1, <2>2
<1>3. QED
  <2> HIDE DEF right
  <2>1. \A n \in 0..Depth : n \in right
    BY <1>1, <1>2, EveryLevel
  <2>2. QED
    BY <2>1 DEF right

\* The type that it returns is one, and has no nanoseconds.
LEMMA NormalizedNodes ==
  \A n \in 0..Depth : \A t \in Types[n] :
    /\ NormalizedType[n][t] \in Types[n]
    /\ Normalizable[n][t] => \A m \in Nodes[n][NormalizedType[n][t]] : m.kind # "ns"
<1> DEFINE Right(n) == \A t \in Types[n] :
             /\ NormalizedType[n][t] \in Types[n]
             /\ Normalizable[n][t] => \A m \in Nodes[n][NormalizedType[n][t]] : m.kind # "ns"
           right == {n \in 0..Depth : Right(n)}
<1>1. 0 \in right
  BY NoTypes, ColumnsAssumption DEF ColumnsAssumption
<1>2. ASSUME NEW n \in 1..Depth, n - 1 \in right PROVE n \in right
  <2>1. n \in 0..Depth /\ Types[n] = TypesOver(Types[n - 1])
    BY TypesLevels
  <2>2. ASSUME NEW t \in Types[n]
        PROVE  /\ NormalizedType[n][t] \in Types[n]
               /\ Normalizable[n][t] => \A m \in Nodes[n][NormalizedType[n][t]] : m.kind # "ns"
    <3> DEFINE new == NormalizedType[n][t]
    <3>1. \A i \in DOMAIN t.kids : t.kids[i] \in Types[n - 1]
      BY <2>1, TypeAtLevel
    <3>2. new = NormalizedOver(t, NormalizedType[n - 1])
      BY <2>1, NormalizedTypeLevels
    <3>3. \A u \in Types[n] : Nodes[n][u] = NodesOver(u, Nodes[n - 1])
      BY <2>1, NodesLevels
    <3>4. Normalizable[n][t] = NormalizableOver(t, Contains[n], Normalizable[n - 1])
      BY <2>1, NormalizableLevels
    <3>5. /\ t \in [kind : Rebuilt \cup Scalar \cup {"opaque"}, size : Nat, kids : Seq(Types[n - 1])]
          /\ t.kind \in Scalar => t.kids = <<>>
      BY <2>1 DEF TypesOver
    <3>6. CASE t.kind = "ns"
      <4>1. new = [t EXCEPT !.kind = "us"]
        BY <3>2, <3>6 DEF NormalizedOver, Rebuilt
      <4>2. new \in Types[n] /\ new.kind = "us" /\ new.kids = <<>>
        BY <2>1, <3>5, <3>6, <4>1 DEF TypesOver, Scalar
      <4>3. \A m \in Nodes[n][new] : m.kind = "us"
        BY <3>3, <4>2 DEF NodesOver
      <4>4. QED
        BY <4>2, <4>3
    <3>7. CASE t.kind = "us"
      <4>1. new = t /\ t.kids = <<>>
        BY <3>2, <3>5, <3>7 DEF NormalizedOver, Rebuilt, Scalar
      <4>2. \A m \in Nodes[n][t] : m.kind = "us"
        BY <3>3, <3>7, <4>1 DEF NodesOver
      <4>3. QED
        BY <4>1, <4>2
    <3>8. CASE t.kind = "opaque"
      <4>1. new = t
        BY <3>2, <3>8 DEF NormalizedOver, Rebuilt
      <4>2. Normalizable[n][t] => ~\E m \in Nodes[n][t] : m.kind = "ns"
        BY <2>1, <3>4, <3>8, ContainsNodes DEF NormalizableOver, Rebuilt
      <4>3. QED
        BY <4>1, <4>2
    <3>9. CASE t.kind \in Rebuilt
      <4>1. new = [t EXCEPT !.kids = [i \in DOMAIN t.kids |-> NormalizedType[n - 1][t.kids[i]]]]
        BY <3>2, <3>9 DEF NormalizedOver, Rebuilt
      <4>2. /\ new.kind = t.kind /\ new.size = t.size
            /\ new.kids = [i \in DOMAIN t.kids |-> NormalizedType[n - 1][t.kids[i]]]
            /\ new \in [kind : Rebuilt \cup Scalar \cup {"opaque"}, size : Nat, kids : {new.kids}]
        BY <3>5, <4>1
      <4>3. new.kids \in Seq(Types[n - 1])
        <5>1. \A i \in DOMAIN t.kids : NormalizedType[n - 1][t.kids[i]] \in Types[n - 1]
          BY <3>1, <1>2
        <5>2. DOMAIN t.kids = 1..Len(t.kids) /\ Len(t.kids) \in Nat
          BY <3>5
        <5>3. QED
          BY <4>2, <5>1, <5>2
      <4>4. new \in Types[n]
        BY <2>1, <3>9, <4>2, <4>3 DEF TypesOver, Rebuilt, Scalar
      <4>5. ASSUME Normalizable[n][t], NEW m \in Nodes[n][new] PROVE m.kind # "ns"
        <5>1. \A i \in DOMAIN t.kids : Normalizable[n - 1][t.kids[i]]
          BY <3>4, <3>9, <4>5 DEF NormalizableOver
        <5>2. \A i \in DOMAIN t.kids : \A k \in Nodes[n - 1][new.kids[i]] : k.kind # "ns"
          BY <5>1, <3>1, <1>2, <4>2
        <5>3. \/ m = [kind |-> new.kind, inside |-> {}]
              \/ \E i \in DOMAIN new.kids : \E k \in Nodes[n - 1][new.kids[i]] :
                   m = [kind |-> k.kind, inside |-> k.inside \cup {new.kind}]
          BY <3>3, <4>4 DEF NodesOver
        <5>4. QED
          <6>1. CASE m = [kind |-> new.kind, inside |-> {}]
            BY <3>9, <4>2, <6>1 DEF Rebuilt
          <6>2. CASE \E i \in DOMAIN new.kids : \E k \in Nodes[n - 1][new.kids[i]] :
                       m = [kind |-> k.kind, inside |-> k.inside \cup {new.kind}]
            <7>1. PICK i \in DOMAIN new.kids : \E k \in Nodes[n - 1][new.kids[i]] :
                         m = [kind |-> k.kind, inside |-> k.inside \cup {new.kind}]
              BY <6>2
            <7>2. PICK k \in Nodes[n - 1][new.kids[i]] :
                         m = [kind |-> k.kind, inside |-> k.inside \cup {new.kind}]
              BY <7>1
            <7>3. i \in DOMAIN t.kids /\ m.kind = k.kind
              BY <4>2, <7>2
            <7>4. QED
              BY <5>2, <7>2, <7>3
          <6>3. QED
            BY <5>3, <6>1, <6>2
      <4>6. QED
        BY <4>4, <4>5
    <3>10. QED
      BY <3>5, <3>6, <3>7, <3>8, <3>9 DEF Scalar
  <2>3. QED
    BY <2>1, <2>2
<1>3. QED
  <2> HIDE DEF right
  <2>1. \A n \in 0..Depth : n \in right
    BY <1>1, <1>2, EveryLevel
  <2>2. QED
    BY <2>1 DEF right

-----------------------------------------------------------------------------
(* Arrays                                                                   *)

LEMMA NoArrays == Arrays[0] = {}
BY ArraysLevels, ColumnsAssumption DEF ColumnsAssumption

LEMMA ArrayAtLevel ==
  ASSUME NEW n \in 0..Depth, NEW a \in Arrays[n]
  PROVE  /\ n \in 1..Depth /\ n - 1 \in 0..Depth
         /\ a \in [type : Types[n], off : Nat, len : Nat, valid : Seq(BOOLEAN), data : Seq(Int),
                   pos : Seq(Nat), kids : Seq(Arrays[n - 1])]
         /\ WellFormed(a)
         /\ \A c \in DOMAIN a.kids : a.kids[c] \in Arrays[n - 1]
<1>1. n # 0 /\ a \in ArraysOver(Types[n], Arrays[n - 1])
  BY ArraysLevels
<1>2. a.kids \in Seq(Arrays[n - 1])
  BY <1>1 DEF ArraysOver
<1>3. QED
  BY <1>1, <1>2, ColumnsAssumption DEF ColumnsAssumption, ArraysOver

LEMMA ArrayIs ==
  ASSUME NEW n \in 1..Depth,
         NEW a \in [type : Types[n], off : Nat, len : Nat, valid : Seq(BOOLEAN), data : Seq(Int),
                    pos : Seq(Nat), kids : Seq(Arrays[n - 1])],
         WellFormed(a)
  PROVE  a \in Arrays[n]
<1>1. n \in 0..Depth /\ n # 0
  BY ColumnsAssumption DEF ColumnsAssumption
<1>2. Arrays[n] = ArraysOver(Types[n], Arrays[n - 1])
  BY <1>1, ArraysLevels
<1>3. QED
  BY <1>2 DEF ArraysOver

\* The fields of an array and of its type.
LEMMA ArrayFields ==
  ASSUME NEW n \in 0..Depth, NEW a \in Arrays[n]
  PROVE  /\ a.type \in Types[n] /\ a.off \in Nat /\ a.len \in Nat /\ a.valid \in Seq(BOOLEAN)
         /\ a.data \in Seq(Int) /\ a.pos \in Seq(Nat) /\ a.kids \in Seq(Arrays[n - 1])
         /\ a.type.kind \in Rebuilt \cup Scalar \cup {"opaque"} /\ a.type.size \in Nat
         /\ a.type.kids \in Seq(Types[n - 1]) /\ (a.type.kind \in Scalar => a.type.kids = <<>>)
<1>1. a.type \in TypesOver(Types[n - 1])
  BY ArrayAtLevel, TypeAtLevel
<1>2. QED
  BY <1>1, ArrayAtLevel DEF TypesOver

LEMMA Monotone ==
  ASSUME NEW i \in Nat, NEW j \in Nat, NEW s \in Nat, i <= j
  PROVE  i * s <= j * s /\ i * s \in Nat /\ j * s \in Nat
<1>1. PICK d \in Nat : j = i + d
  <2>1. j - i \in Nat /\ j = i + (j - i)
    OBVIOUS
  <2>2. QED
    BY <2>1
<1>2. j * s = i * s + d * s
  BY <1>1
<1>3. i * s \in Nat /\ d * s \in Nat
  OBVIOUS
<1>4. QED
  BY <1>2, <1>3

\* A buffer that reaches past one window reaches past those within it.
LEMMA Reaches ==
  ASSUME NEW i \in Nat, NEW j \in Nat, NEW o \in Nat, NEW l \in Nat, NEW k \in Nat,
         i <= o, o + l <= i + j, i + j + 1 <= k
  PROVE  i + 1 \in 1..k /\ o + 1 \in 1..k /\ o + l + 1 \in 1..k /\ i + j + 1 \in 1..k
OBVIOUS

\* A window within an array is an array, with that part of its values.
LEMMA SliceOf ==
  ASSUME NEW n \in 0..Depth, NEW a \in Arrays[n], NEW o \in Nat, NEW l \in Nat, o + l <= a.len
  PROVE  /\ Slice(a, o, l) \in Arrays[n]
         /\ Slice(a, o, l).type = a.type
         /\ Slice(a, o, l).len = l
         /\ \A i \in 1..l : PyValues[n][Slice(a, o, l)][i] = PyValues[n][a][o + i]
<1> DEFINE s == Slice(a, o, l)
<1>1. a \in [type : Types[n], off : Nat, len : Nat, valid : Seq(BOOLEAN), data : Seq(Int),
             pos : Seq(Nat), kids : Seq(Arrays[n - 1])]
  BY ArrayAtLevel
<1>2. a.off \in Nat /\ a.len \in Nat
  BY ArrayFields
<1>3. /\ s.type = a.type /\ s.off = a.off + o /\ s.len = l /\ s.valid = a.valid
      /\ s.data = a.data /\ s.pos = a.pos /\ s.kids = a.kids
  BY <1>1 DEF Slice
<1>4. s \in [type : Types[n], off : Nat, len : Nat, valid : Seq(BOOLEAN), data : Seq(Int),
             pos : Seq(Nat), kids : Seq(Arrays[n - 1])]
  <2>1. a.off + o \in Nat
    BY <1>2
  <2>2. QED
    BY <1>1, <2>1 DEF Slice
<1> HIDE DEF s
<1>5. /\ a.off \in Nat /\ a.len \in Nat /\ s.off + s.len <= a.off + a.len
      /\ Places(s) \subseteq Places(a)
      /\ Places(s) \cup {s.off + s.len + 1} \subseteq Places(a) \cup {a.off + a.len + 1}
  <2>1. s.off \in Nat /\ s.len \in Nat /\ a.off <= s.off /\ s.off + s.len <= a.off + a.len
    BY <1>2, <1>3
  <2>2. QED
    BY <1>2, <2>1 DEF Places
<1>6. WellFormed(s)
  <2>1. WellFormed(a) /\ a.type.size \in Nat /\ a.data \in Seq(Int)
    BY ArrayAtLevel, ArrayFields
  <2>2. ASSUME a.type.kind \in Spanned
        PROVE  /\ s.off + s.len + 1 <= Len(s.data)
               /\ \A p, q \in Places(s) \cup {s.off + s.len + 1} : p <= q => s.data[p] <= s.data[q]
               /\ s.data[s.off + 1] >= 0
               /\ \A c \in DOMAIN s.kids : s.data[s.off + s.len + 1] <= s.kids[c].len
    <3>1. /\ a.off + a.len + 1 <= Len(a.data)
          /\ \A p, q \in Places(a) \cup {a.off + a.len + 1} : p <= q => a.data[p] <= a.data[q]
          /\ a.data[a.off + 1] >= 0
          /\ \A c \in DOMAIN a.kids : a.data[a.off + a.len + 1] <= a.kids[c].len
      BY <2>1, <2>2 DEF WellFormed
    <3>2. /\ a.off + 1 \in Places(a) \cup {a.off + a.len + 1}
          /\ s.off + 1 \in Places(a) \cup {a.off + a.len + 1}
          /\ s.off + s.len + 1 \in Places(a) \cup {a.off + a.len + 1}
      BY <1>2, <1>3, <1>5 DEF Places
    <3>3. /\ a.data[a.off + 1] <= a.data[s.off + 1]
          /\ a.data[s.off + s.len + 1] <= a.data[a.off + a.len + 1]
      <4>1. a.off + 1 <= s.off + 1 /\ s.off + s.len + 1 <= a.off + a.len + 1
        BY <1>2, <1>3
      <4>2. a.off + a.len + 1 \in Places(a) \cup {a.off + a.len + 1}
        OBVIOUS
      <4>3. QED
        BY <3>1, <3>2, <4>1, <4>2
    <3>4. /\ a.data[a.off + 1] \in Int /\ a.data[s.off + 1] \in Int
          /\ a.data[s.off + s.len + 1] \in Int /\ a.data[a.off + a.len + 1] \in Int
      <4>1. \A p \in 1..Len(a.data) : a.data[p] \in Int
        BY <2>1
      <4>2. /\ a.off + 1 \in 1..Len(a.data) /\ s.off + 1 \in 1..Len(a.data)
            /\ s.off + s.len + 1 \in 1..Len(a.data) /\ a.off + a.len + 1 \in 1..Len(a.data)
        <5>1. a.off + a.len + 1 <= Len(a.data) /\ Len(a.data) \in Nat
          BY <2>1, <3>1
        <5>2. s.off \in Nat /\ s.len \in Nat /\ a.off <= s.off /\ s.off + s.len <= a.off + a.len
          BY <1>2, <1>3
        <5>3. QED
          BY <1>2, <5>1, <5>2, Reaches
      <4>3. QED
        BY <4>1, <4>2
    <3>5. \A c \in DOMAIN a.kids : a.kids[c].len \in Int
      <4>1. ASSUME NEW c \in DOMAIN a.kids PROVE a.kids[c].len \in Int
        <5>1. n - 1 \in 0..Depth /\ a.kids[c] \in Arrays[n - 1]
          BY ArrayAtLevel
        <5>2. a.kids[c].len \in Nat
          BY <5>1, ArrayFields
        <5>3. QED
          BY <5>2
      <4>2. QED
        BY <4>1
    <3>6. s.off + s.len + 1 <= Len(s.data)
      <4>1. a.off + a.len + 1 <= Len(a.data) /\ Len(a.data) \in Nat
        BY <2>1, <3>1
      <4>2. QED
        BY <1>2, <1>3, <4>1
    <3>7. \A p, q \in Places(s) \cup {s.off + s.len + 1} : p <= q => s.data[p] <= s.data[q]
      BY <1>3, <1>5, <3>1
    <3>8. s.data[s.off + 1] >= 0
      BY <1>3, <3>1, <3>3, <3>4
    <3>9. \A c \in DOMAIN s.kids : s.data[s.off + s.len + 1] <= s.kids[c].len
      <4>1. ASSUME NEW c \in DOMAIN a.kids PROVE a.data[s.off + s.len + 1] <= a.kids[c].len
        <5>1. /\ a.data[a.off + a.len + 1] <= a.kids[c].len /\ a.kids[c].len \in Int
              /\ a.data[s.off + s.len + 1] <= a.data[a.off + a.len + 1]
          BY <3>1, <3>3, <3>5
        <5>2. QED
          BY <3>4, <5>1
      <4>2. QED
        BY <1>3, <4>1
    <3>10. QED
      BY <3>6, <3>7, <3>8, <3>9
  <2>3. a.type.kind = "fixed" => (s.off + s.len) * s.type.size <= s.kids[1].len
    <3>1. ASSUME a.type.kind = "fixed" PROVE (s.off + s.len) * s.type.size <= s.kids[1].len
      <4>1. (a.off + a.len) * a.type.size <= a.kids[1].len /\ DOMAIN a.kids = {1}
        BY <2>1, <3>1 DEF WellFormed
      <4>2. a.kids[1].len \in Nat
        BY <4>1, ArrayAtLevel, ArrayFields
      <4>3. s.off + s.len \in Nat /\ a.off + a.len \in Nat
        BY <1>2, <1>3
      <4>4. (s.off + s.len) * a.type.size <= (a.off + a.len) * a.type.size
        BY <1>5, <2>1, <4>3, Monotone
      <4>5. (s.off + s.len) * a.type.size \in Nat /\ (a.off + a.len) * a.type.size \in Nat
        BY <2>1, <4>3, Monotone
      <4>6. QED
        BY <1>3, <4>1, <4>2, <4>4, <4>5
    <3>2. QED
      BY <3>1
  <2>4. Len(a.valid) \in Nat /\ Len(a.data) \in Nat /\ Len(a.pos) \in Nat
    BY ArrayFields
  <2>5. \A c \in DOMAIN a.kids : a.kids[c].len \in Nat
    BY ArrayAtLevel, ArrayFields
  <2>6. s.off \in Nat /\ s.len \in Nat
    BY <1>2, <1>3
  <2>7. \A k \in Nat : a.off + a.len <= k => s.off + s.len <= k
    BY <1>2, <1>3
  <2>8. /\ DOMAIN s.kids = DOMAIN s.type.kids
        /\ \A c \in DOMAIN s.kids : s.kids[c].type = s.type.kids[c]
        /\ s.off + s.len <= Len(s.valid)
        /\ s.type.kind \in Scalar \cup {"dictionary", "dense", "sparse"} => s.off + s.len <= Len(s.data)
        /\ s.type.kind \in {"list", "opaque", "fixed", "dictionary"} => DOMAIN s.kids = {1}
        /\ s.type.kind = "map" => DOMAIN s.kids = {1, 2}
    <3>1. /\ DOMAIN a.kids = DOMAIN a.type.kids
          /\ \A c \in DOMAIN a.kids : a.kids[c].type = a.type.kids[c]
          /\ a.type.kind \in {"list", "opaque", "fixed", "dictionary"} => DOMAIN a.kids = {1}
          /\ a.type.kind = "map" => DOMAIN a.kids = {1, 2}
      BY <2>1 DEF WellFormed
    <3>2. a.off + a.len <= Len(a.valid) /\ (a.type.kind \in Scalar \cup {"dictionary", "dense", "sparse"} => a.off + a.len <= Len(a.data))
      BY <2>1 DEF WellFormed
    <3>3. QED
      BY <1>3, <2>4, <2>7, <3>1, <3>2
  <2>9. s.type.kind \in {"struct", "sparse"} => \A c \in DOMAIN s.kids : s.off + s.len <= s.kids[c].len
    <3>1. a.type.kind \in {"struct", "sparse"} => \A c \in DOMAIN a.kids : a.off + a.len <= a.kids[c].len
      BY <2>1 DEF WellFormed
    <3>2. QED
      BY <1>3, <2>5, <2>7, <3>1
  <2>10. s.type.kind = "dictionary" =>
          \A p \in Places(s) : s.valid[p] => 0 <= s.data[p] /\ s.data[p] < s.kids[1].len
    BY <1>3, <1>5, <2>1 DEF WellFormed
  <2>11. s.type.kind \in {"dense", "sparse"} =>
           \A p \in Places(s) : s.valid[p] => s.data[p] \in DOMAIN s.kids
    BY <1>3, <1>5, <2>1 DEF WellFormed
  <2>12. s.type.kind = "dense" =>
           /\ s.off + s.len <= Len(s.pos)
           /\ \A p \in Places(s) : s.valid[p] => s.pos[p] < s.kids[s.data[p]].len
    <3>1. a.type.kind = "dense" =>
            /\ a.off + a.len <= Len(a.pos)
            /\ \A p \in Places(a) : a.valid[p] => a.pos[p] < a.kids[a.data[p]].len
      BY <2>1 DEF WellFormed
    <3>2. QED
      BY <1>3, <1>5, <2>4, <2>7, <3>1
  <2>13. QED
    BY <1>3, <2>2, <2>3, <2>8, <2>9, <2>10, <2>11, <2>12 DEF WellFormed
<1>7. s \in Arrays[n]
  BY <1>4, <1>6, ArrayAtLevel, ArrayIs
<1>8. ASSUME NEW i \in 1..l PROVE PyValues[n][s][i] = PyValues[n][a][o + i]
  <2> DEFINE kid == [c \in DOMAIN a.kids |-> PyValues[n - 1][a.kids[c]]]
             At(x, p) == IF x.valid[p] THEN Entry(x, p, kid) ELSE None
  <2>1. PyValues[n][s] = [j \in 1..s.len |-> At(s, s.off + j)]
    <3>1. PyValues[n][s] = PyValuesOver(s, PyValues[n - 1])
      BY <1>7, PyValuesLevels
    <3>2. QED
      BY <1>3, <3>1, Zenon DEF PyValuesOver
  <2>2. PyValues[n][a] = [j \in 1..a.len |-> At(a, a.off + j)]
    BY PyValuesLevels DEF PyValuesOver
  <2>3. s.off + i = a.off + (o + i) /\ o + i \in 1..a.len /\ i \in 1..s.len
    BY <1>3, <1>5
  <2>4. \A p : At(s, p) = At(a, p)
    BY <1>3 DEF Entry
  <2> HIDE DEF At
  <2>5. QED
    BY <2>1, <2>2, <2>3, <2>4
<1>9. QED
  BY <1>3, <1>7, <1>8 DEF s
-----------------------------------------------------------------------------
(* Truncation in place                                                      *)

LEMMA TowardZeroIs ==
  ASSUME NEW x \in Int
  PROVE  Truncated(x) = TowardZero(x) /\ TowardZero(x) \in Int
BY DEF Truncated, TowardZero

\* It changes the values of the nanosecond buffers, and nothing else.
LEMMA InPlaceOf ==
  \A n \in 0..Depth : \A a \in Arrays[n] :
    /\ InPlace[n][a] \in Arrays[n]
    /\ InPlace[n][a].type = a.type
    /\ InPlace[n][a].off = a.off
    /\ InPlace[n][a].len = a.len
    /\ InPlace[n][a].valid = a.valid
    /\ InPlace[n][a].pos = a.pos
    /\ InPlace[n][a].kids = [c \in DOMAIN a.kids |-> InPlace[n - 1][a.kids[c]]]
    /\ a.type.kind # "ns" => InPlace[n][a].data = a.data
    /\ a.type.kind = "ns" => InPlace[n][a].data = [i \in DOMAIN a.data |-> TowardZero(a.data[i])]
<1> DEFINE Right(n, a) ==
             /\ InPlace[n][a] \in Arrays[n]
             /\ InPlace[n][a].type = a.type
             /\ InPlace[n][a].off = a.off
             /\ InPlace[n][a].len = a.len
             /\ InPlace[n][a].valid = a.valid
             /\ InPlace[n][a].pos = a.pos
             /\ InPlace[n][a].kids = [c \in DOMAIN a.kids |-> InPlace[n - 1][a.kids[c]]]
             /\ a.type.kind # "ns" => InPlace[n][a].data = a.data
             /\ a.type.kind = "ns" => InPlace[n][a].data = [i \in DOMAIN a.data |-> TowardZero(a.data[i])]
           right == {n \in 0..Depth : \A a \in Arrays[n] : Right(n, a)}
<1>1. 0 \in right
  BY NoArrays, ColumnsAssumption DEF ColumnsAssumption
<1>2. ASSUME NEW n \in 1..Depth, n - 1 \in right PROVE n \in right
  <2>1. n \in 0..Depth
    OBVIOUS
  <2>2. ASSUME NEW a \in Arrays[n] PROVE Right(n, a)
    <3> DEFINE kids == [c \in DOMAIN a.kids |-> InPlace[n - 1][a.kids[c]]]
               data == IF a.type.kind = "ns" THEN [i \in DOMAIN a.data |-> TowardZero(a.data[i])] ELSE a.data
               b == [a EXCEPT !.data = data, !.kids = kids]
    <3>1. InPlace[n][a] = b
      <4>1. InPlace[n][a] = TruncatedBelow(a, InPlace[n - 1])
        BY <2>1, InPlaceLevels
      <4>2. QED
        BY <4>1, Zenon DEF TruncatedBelow
    <3>2. a \in [type : Types[n], off : Nat, len : Nat, valid : Seq(BOOLEAN), data : Seq(Int),
                 pos : Seq(Nat), kids : Seq(Arrays[n - 1])]
      BY <2>1, ArrayAtLevel
    <3>3. data \in Seq(Int) /\ Len(data) = Len(a.data)
      <4>1. a.data \in Seq(Int)
        BY <2>1, ArrayFields
      <4>2. [i \in DOMAIN a.data |-> TowardZero(a.data[i])] \in Seq(Int)
        <5>1. DOMAIN a.data = 1..Len(a.data) /\ Len(a.data) \in Nat
          BY <4>1
        <5>2. \A i \in 1..Len(a.data) : TowardZero(a.data[i]) \in Int
          <6>1. \A i \in 1..Len(a.data) : a.data[i] \in Int
            BY <4>1
          <6>2. QED
            BY <6>1, TowardZeroIs
        <5>3. QED
          BY <5>1, <5>2
      <4>3. Len([i \in DOMAIN a.data |-> TowardZero(a.data[i])]) = Len(a.data)
        BY <4>1
      <4>4. QED
        BY <4>1, <4>2, <4>3
    <3>4. /\ DOMAIN kids = DOMAIN a.kids
          /\ \A c \in DOMAIN a.kids : /\ kids[c] \in Arrays[n - 1]
                                      /\ kids[c].type = a.kids[c].type
                                      /\ kids[c].len = a.kids[c].len
      <4>1. \A c \in DOMAIN a.kids : a.kids[c] \in Arrays[n - 1]
        BY <2>1, ArrayAtLevel
      <4>2. \A k \in Arrays[n - 1] : /\ InPlace[n - 1][k] \in Arrays[n - 1]
                                     /\ InPlace[n - 1][k].type = k.type
                                     /\ InPlace[n - 1][k].len = k.len
        BY <1>2
      <4>3. QED
        BY <4>1, <4>2
    <3>5. kids \in Seq(Arrays[n - 1])
      <4>1. a.kids \in Seq(Arrays[n - 1])
        BY <2>1, ArrayFields
      <4>2. DOMAIN a.kids = 1..Len(a.kids) /\ Len(a.kids) \in Nat
        BY <4>1
      <4>3. kids = [c \in 1..Len(a.kids) |-> InPlace[n - 1][a.kids[c]]]
        BY <4>2
      <4>4. \A c \in 1..Len(a.kids) : InPlace[n - 1][a.kids[c]] \in Arrays[n - 1]
        BY <3>4, <4>2
      <4>5. [c \in 1..Len(a.kids) |-> InPlace[n - 1][a.kids[c]]] \in Seq(Arrays[n - 1])
        BY <4>2, <4>4
      <4>6. QED
        BY <4>3, <4>5
    <3> HIDE DEF kids, data
    <3>6. /\ b.type = a.type /\ b.off = a.off /\ b.len = a.len /\ b.valid = a.valid
          /\ b.pos = a.pos /\ b.kids = kids /\ b.data = data
      BY <3>2
    <3>7. b \in [type : Types[n], off : Nat, len : Nat, valid : Seq(BOOLEAN), data : Seq(Int),
                 pos : Seq(Nat), kids : Seq(Arrays[n - 1])]
      BY <3>2, <3>3, <3>5
    <3> HIDE DEF b
    <3>8. Places(b) = Places(a)
      BY <3>6 DEF Places
    <3>9. a.type.kind # "ns" => b.data = a.data
      BY <3>6 DEF data
    <3>10. WellFormed(b)
      <4>1. WellFormed(a)
        BY <2>1, ArrayAtLevel
      <4>2. DOMAIN b.kids = DOMAIN b.type.kids /\ \A c \in DOMAIN b.kids : b.kids[c].type = b.type.kids[c]
        BY <3>4, <3>6, <4>1 DEF WellFormed
      <4>3. /\ b.off + b.len <= Len(b.valid)
            /\ b.type.kind \in Scalar \cup {"dictionary", "dense", "sparse"} => b.off + b.len <= Len(b.data)
            /\ b.type.kind \in {"list", "opaque", "fixed", "dictionary"} => DOMAIN b.kids = {1}
            /\ b.type.kind = "map" => DOMAIN b.kids = {1, 2}
        BY <3>3, <3>4, <3>6, <4>1 DEF WellFormed
      <4>4. b.type.kind \in Spanned =>
              /\ b.off + b.len + 1 <= Len(b.data)
              /\ \A p, q \in Places(b) \cup {b.off + b.len + 1} : p <= q => b.data[p] <= b.data[q]
              /\ b.data[b.off + 1] >= 0
              /\ \A c \in DOMAIN b.kids : b.data[b.off + b.len + 1] <= b.kids[c].len
        <5>1. a.type.kind \in Spanned =>
                /\ a.off + a.len + 1 <= Len(a.data)
                /\ \A p, q \in Places(a) \cup {a.off + a.len + 1} : p <= q => a.data[p] <= a.data[q]
                /\ a.data[a.off + 1] >= 0
                /\ \A c \in DOMAIN a.kids : a.data[a.off + a.len + 1] <= a.kids[c].len
          BY <4>1 DEF WellFormed
        <5>2. a.type.kind \in Spanned => b.data = a.data
          BY <3>9 DEF Spanned
        <5>3. QED
          BY <3>4, <3>6, <3>8, <5>1, <5>2
      <4>5. /\ b.type.kind = "fixed" => (b.off + b.len) * b.type.size <= b.kids[1].len
            /\ b.type.kind \in {"struct", "sparse"} => \A c \in DOMAIN b.kids : b.off + b.len <= b.kids[c].len
        <5>1. b.type.kind = "fixed" => DOMAIN a.kids = {1}
          BY <3>6, <4>1 DEF WellFormed
        <5>2. b.type.kind = "fixed" => b.kids[1].len = a.kids[1].len
          BY <3>4, <3>6, <5>1
        <5>3. \A c \in DOMAIN b.kids : b.kids[c].len = a.kids[c].len
          BY <3>4, <3>6
        <5>4. QED
          BY <3>4, <3>6, <4>1, <5>2, <5>3 DEF WellFormed
      <4>6. b.type.kind = "dictionary" =>
              \A p \in Places(b) : b.valid[p] => 0 <= b.data[p] /\ b.data[p] < b.kids[1].len
        <5>1. b.type.kind = "dictionary" => DOMAIN a.kids = {1}
          BY <3>6, <4>1 DEF WellFormed
        <5>2. b.type.kind = "dictionary" => b.kids[1].len = a.kids[1].len
          BY <3>4, <3>6, <5>1
        <5>3. QED
          BY <3>6, <3>8, <3>9, <4>1, <5>2 DEF WellFormed
      <4>7. b.type.kind \in {"dense", "sparse"} =>
              \A p \in Places(b) : b.valid[p] => b.data[p] \in DOMAIN b.kids
        BY <3>4, <3>6, <3>8, <3>9, <4>1 DEF WellFormed
      <4>8. b.type.kind = "dense" =>
              /\ b.off + b.len <= Len(b.pos)
              /\ \A p \in Places(b) : b.valid[p] => b.pos[p] < b.kids[b.data[p]].len
        <5>1. b.type.kind = "dense" => \A p \in Places(b) : b.valid[p] => b.data[p] \in DOMAIN a.kids
          BY <3>4, <3>6, <4>7
        <5>2. QED
          BY <3>4, <3>6, <3>8, <3>9, <4>1, <5>1 DEF WellFormed
      <4>9. QED
        BY <4>2, <4>3, <4>4, <4>5, <4>6, <4>7, <4>8 DEF WellFormed
    <3>11. b \in Arrays[n]
      BY <3>7, <3>10, ArrayIs
    <3>12. QED
      BY <3>1, <3>6, <3>11 DEF data, kids
  <2> HIDE DEF Right
  <2>3. QED
    BY <2>1, <2>2
<1>3. QED
  <2> HIDE DEF right
  <2>1. \A n \in 0..Depth : n \in right
    BY <1>1, <1>2, EveryLevel
  <2>2. QED
    BY <2>1 DEF right

LEMMA InPlaceSlice ==
  ASSUME NEW n \in 0..Depth, NEW a \in Arrays[n], NEW o \in Nat, NEW l \in Nat, o + l <= a.len
  PROVE  InPlace[n][Slice(a, o, l)] = Slice(InPlace[n][a], o, l)
<1> DEFINE s == Slice(a, o, l)
           kids == [c \in DOMAIN a.kids |-> InPlace[n - 1][a.kids[c]]]
           data == IF a.type.kind = "ns" THEN [i \in DOMAIN a.data |-> TowardZero(a.data[i])] ELSE a.data
<1>1. a \in [type : Types[n], off : Nat, len : Nat, valid : Seq(BOOLEAN), data : Seq(Int),
             pos : Seq(Nat), kids : Seq(Arrays[n - 1])]
  BY ArrayAtLevel
<1>2. s \in Arrays[n] /\ s = [a EXCEPT !.off = a.off + o, !.len = l]
  BY <1>1, SliceOf DEF Slice
<1>3. InPlace[n][s] = TruncatedBelow(s, InPlace[n - 1]) /\ InPlace[n][a] = TruncatedBelow(a, InPlace[n - 1])
  BY <1>2, InPlaceLevels
<1>4. InPlace[n][a] = [a EXCEPT !.data = data, !.kids = kids]
  BY <1>3, Zenon DEF TruncatedBelow
<1>5. s.type = a.type /\ s.data = a.data /\ s.kids = a.kids
  BY <1>1, <1>2
<1>6. InPlace[n][s] = [s EXCEPT !.data = data, !.kids = kids]
  <2> HIDE DEF s
  <2>1. InPlace[n][s] = [s EXCEPT !.data = IF s.type.kind = "ns" THEN [i \in DOMAIN s.data |-> TowardZero(s.data[i])] ELSE s.data,
                                  !.kids = [c \in DOMAIN s.kids |-> InPlace[n - 1][s.kids[c]]]]
    BY <1>3, Zenon DEF TruncatedBelow
  <2>2. QED
    BY <1>5, <2>1
<1> HIDE DEF data, kids, s
<1>7. [s EXCEPT !.data = data, !.kids = kids] = [[a EXCEPT !.data = data, !.kids = kids] EXCEPT !.off = a.off + o, !.len = l]
  BY <1>1, <1>2
<1>8. Slice(InPlace[n][a], o, l) = [[a EXCEPT !.data = data, !.kids = kids] EXCEPT !.off = a.off + o, !.len = l]
  BY <1>1, <1>4 DEF Slice
<1>9. QED
  BY <1>6, <1>7, <1>8 DEF s

\* An array of a type without nanoseconds is as it is.
LEMMA PlainInPlace ==
  \A n \in 0..Depth : \A a \in Arrays[n] :
    (\A m \in Nodes[n][a.type] : m.kind # "ns") => InPlace[n][a] = a
<1> DEFINE right == {n \in 0..Depth : \A a \in Arrays[n] :
                       (\A m \in Nodes[n][a.type] : m.kind # "ns") => InPlace[n][a] = a}
<1>1. 0 \in right
  BY NoArrays, ColumnsAssumption DEF ColumnsAssumption
<1>2. ASSUME NEW n \in 1..Depth, n - 1 \in right PROVE n \in right
  <2>1. n \in 0..Depth
    OBVIOUS
  <2>2. ASSUME NEW a \in Arrays[n], \A m \in Nodes[n][a.type] : m.kind # "ns" PROVE InPlace[n][a] = a
    <3>1. a.type.kind # "ns" /\ \A i \in DOMAIN a.type.kids : \A m \in Nodes[n - 1][a.type.kids[i]] : m.kind # "ns"
      BY <2>1, <2>2, ArrayFields, KindsWithin
    <3>2. a.kids \in Seq(Arrays[n - 1]) /\ \A c \in DOMAIN a.kids : a.kids[c] \in Arrays[n - 1]
      BY <2>1, ArrayAtLevel, ArrayFields
    <3>3. DOMAIN a.kids = DOMAIN a.type.kids /\ \A c \in DOMAIN a.kids : a.kids[c].type = a.type.kids[c]
      BY <2>1, ArrayAtLevel DEF WellFormed
    <3>4. \A c \in DOMAIN a.kids : InPlace[n - 1][a.kids[c]] = a.kids[c]
      <4>1. ASSUME NEW c \in DOMAIN a.kids PROVE InPlace[n - 1][a.kids[c]] = a.kids[c]
        <5>1. a.kids[c] \in Arrays[n - 1] /\ \A m \in Nodes[n - 1][a.kids[c].type] : m.kind # "ns"
          BY <3>1, <3>2, <3>3
        <5>2. QED
          BY <1>2, <5>1
      <4>2. QED
        BY <4>1
    <3>5. [c \in DOMAIN a.kids |-> InPlace[n - 1][a.kids[c]]] = a.kids
      <4>1. a.kids = [c \in DOMAIN a.kids |-> a.kids[c]]
        BY <3>2
      <4>2. QED
        BY <3>4, <4>1
    <3>6. InPlace[n][a] = [a EXCEPT !.data = a.data, !.kids = a.kids]
      <4>1. InPlace[n][a] = TruncatedBelow(a, InPlace[n - 1])
        BY <2>1, InPlaceLevels
      <4>2. QED
        BY <3>1, <3>5, <4>1 DEF TruncatedBelow
    <3>7. QED
      BY <2>1, <3>6, ArrayAtLevel
  <2>3. QED
    BY <2>1, <2>2
<1>3. QED
  <2> HIDE DEF right
  <2>1. \A n \in 0..Depth : n \in right
    BY <1>1, <1>2, EveryLevel
  <2>2. QED
    BY <2>1 DEF right
-----------------------------------------------------------------------------
(* The arrays that are rebuilt                                              *)

\* The window of its children that an array is built over.
From(a) ==
  CASE a.type.kind \in {"list", "map"}          -> Start(a)
    [] a.type.kind = "fixed"                    -> a.off * a.type.size
    [] a.type.kind \in {"struct", "sparse"}     -> a.off
    [] a.type.kind \in {"dictionary", "dense"}  -> 0
Extent(a, child) ==
  CASE a.type.kind \in {"list", "map"}          -> Stop(a) - Start(a)
    [] a.type.kind = "fixed"                    -> a.len * a.type.size
    [] a.type.kind \in {"struct", "sparse"}     -> a.len
    [] a.type.kind \in {"dictionary", "dense"}  -> child.len

LEMMA PartOf ==
  ASSUME NEW n \in 0..Depth, NEW a \in Arrays[n], a.type.kind \in Rebuilt, NEW c \in DOMAIN a.kids
  PROVE  /\ From(a) \in Nat /\ Extent(a, a.kids[c]) \in Nat
         /\ From(a) + Extent(a, a.kids[c]) <= a.kids[c].len
         /\ Part(a, a.kids[c]) = Slice(a.kids[c], From(a), Extent(a, a.kids[c]))
<1> DEFINE child == a.kids[c]
<1>1. WellFormed(a) /\ a.off \in Nat /\ a.len \in Nat /\ a.type.size \in Nat
  BY ArrayAtLevel, ArrayFields
<1>2. child \in Arrays[n - 1] /\ n - 1 \in 0..Depth
  BY ArrayAtLevel
<1>3. child.len \in Nat /\ child.off \in Nat
  BY <1>2, ArrayFields
<1>4. CASE a.type.kind \in {"list", "map"}
  <2>1. /\ a.off + a.len + 1 <= Len(a.data)
        /\ \A p, q \in Places(a) \cup {a.off + a.len + 1} : p <= q => a.data[p] <= a.data[q]
        /\ a.data[a.off + 1] >= 0
        /\ a.data[a.off + a.len + 1] <= child.len
    BY <1>1, <1>4 DEF WellFormed, Spanned
  <2>2. a.data[a.off + 1] \in Int /\ a.data[a.off + a.len + 1] \in Int
    <3>1. \A p \in 1..Len(a.data) : a.data[p] \in Int
      BY ArrayFields
    <3>2. Len(a.data) \in Nat
      BY ArrayFields
    <3>3. a.off + 1 \in 1..Len(a.data) /\ a.off + a.len + 1 \in 1..Len(a.data)
      <4>1. ASSUME NEW k \in Nat, a.off + a.len + 1 <= k PROVE a.off + 1 \in 1..k /\ a.off + a.len + 1 \in 1..k
        BY <1>1, <4>1
      <4>2. QED
        BY <2>1, <3>2, <4>1
    <3>4. QED
      BY <3>1, <3>3
  <2>3. a.data[a.off + 1] <= a.data[a.off + a.len + 1]
    <3>1. /\ a.off + 1 \in Places(a) \cup {a.off + a.len + 1}
          /\ a.off + 1 <= a.off + a.len + 1
      BY <1>1 DEF Places
    <3>2. QED
      BY <2>1, <3>1
  <2>4. Start(a) = a.data[a.off + 1] /\ Stop(a) = a.data[a.off + a.len + 1]
    BY DEF Start, Stop
  <2>5. /\ Start(a) \in Nat /\ Stop(a) - Start(a) \in Nat /\ Start(a) + (Stop(a) - Start(a)) <= child.len
    BY <1>3, <2>1, <2>2, <2>3, <2>4
  <2>6. /\ From(a) = Start(a) /\ Extent(a, child) = Stop(a) - Start(a)
        /\ Part(a, child) = Slice(child, Start(a), Stop(a) - Start(a))
    BY <1>4 DEF From, Extent, Part
  <2>7. QED
    BY <2>5, <2>6
<1>5. CASE a.type.kind = "fixed"
  <2>1. (a.off + a.len) * a.type.size <= child.len
    BY <1>1, <1>5 DEF WellFormed
  <2>2. a.off * a.type.size \in Nat /\ a.len * a.type.size \in Nat
    BY <1>1, Monotone
  <2>3. (a.off + a.len) * a.type.size = a.off * a.type.size + a.len * a.type.size
    BY <1>1
  <2>4. /\ From(a) = a.off * a.type.size /\ Extent(a, child) = a.len * a.type.size
        /\ Part(a, child) = Slice(child, a.off * a.type.size, a.len * a.type.size)
    BY <1>5 DEF From, Extent, Part
  <2>5. QED
    BY <2>1, <2>2, <2>3, <2>4
<1>6. CASE a.type.kind \in {"struct", "sparse"}
  <2>1. a.off + a.len <= child.len
    BY <1>1, <1>6 DEF WellFormed
  <2>2. From(a) = a.off /\ Extent(a, child) = a.len /\ Part(a, child) = Slice(child, a.off, a.len)
    BY <1>6 DEF From, Extent, Part
  <2>3. QED
    BY <1>1, <2>1, <2>2
<1>7. CASE a.type.kind \in {"dictionary", "dense"}
  <2>1. From(a) = 0 /\ Extent(a, child) = child.len /\ Part(a, child) = child
    BY <1>7 DEF From, Extent, Part
  <2>2. child \in [type : Types[n - 1], off : Nat, len : Nat, valid : Seq(BOOLEAN), data : Seq(Int),
                   pos : Seq(Nat), kids : Seq(Arrays[n - 1 - 1])]
    BY <1>2, ArrayAtLevel
  <2>3. child.off + 0 = child.off
    BY <1>3
  <2>4. Slice(child, 0, child.len) = child
    BY <2>2, <2>3 DEF Slice
  <2>5. QED
    BY <1>3, <2>1, <2>4
<1>8. QED
  BY <1>4, <1>5, <1>6, <1>7 DEF Rebuilt

\* A window of a buffer holds what the buffer does, from its first place on.
LEMMA WindowOf ==
  ASSUME NEW n \in 0..Depth, NEW a \in Arrays[n], NEW S, NEW buffer \in Seq(S),
         a.off + a.len <= Len(buffer)
  PROVE  /\ Window(a, buffer) \in Seq(S) /\ Len(Window(a, buffer)) = a.len
         /\ \A i \in 1..a.len : Window(a, buffer)[i] = buffer[a.off + i]
<1>1. a.off \in Nat /\ a.len \in Nat /\ Len(buffer) \in Nat
  BY ArrayFields
<1>2. \A i \in 1..a.len : buffer[a.off + i] \in S
  <2>1. \A i \in 1..a.len : a.off + i \in 1..Len(buffer)
    BY <1>1
  <2>2. QED
    BY <2>1
<1>3. PICK window : window = [i \in 1..a.len |-> buffer[a.off + i]]
  OBVIOUS
<1>4. window \in [1..a.len -> S] /\ \A i \in 1..a.len : window[i] = buffer[a.off + i]
  BY <1>2, <1>3
<1>5. window \in Seq(S) /\ Len(window) = a.len
  BY <1>1, <1>4
<1>6. Window(a, buffer) = window
  BY <1>3 DEF Window
<1>7. QED
  BY <1>4, <1>5, <1>6

\* The new array is one, over children that are of the new types.
LEMMA RebuildIs ==
  ASSUME NEW n \in 0..Depth, NEW a \in Arrays[n], a.type.kind \in Rebuilt,
         NEW u \in Types[n], u.kind = a.type.kind, u.size = a.type.size, DOMAIN u.kids = DOMAIN a.kids,
         NEW below,
         \A c \in DOMAIN a.kids : /\ below[Part(a, a.kids[c])] \in Arrays[n - 1]
                                  /\ below[Part(a, a.kids[c])].type = u.kids[c]
                                  /\ below[Part(a, a.kids[c])].len = Extent(a, a.kids[c])
  PROVE  Rebuild(a, u, below) \in Arrays[n]
<1> DEFINE kids == [c \in DOMAIN a.kids |-> below[Part(a, a.kids[c])]]
           pos == IF a.type.kind = "dense" THEN Window(a, a.pos) ELSE <<>>
           b == Rebuild(a, u, below)
<1>1. a \in [type : Types[n], off : Nat, len : Nat, valid : Seq(BOOLEAN), data : Seq(Int),
             pos : Seq(Nat), kids : Seq(Arrays[n - 1])]
  BY ArrayAtLevel
<1>2. b = [a EXCEPT !.type = u, !.off = 0, !.valid = Window(a, a.valid), !.data = OwnData(a),
                    !.pos = pos, !.kids = kids]
  BY Zenon DEF Rebuild
<1>3. WellFormed(a) /\ a.off \in Nat /\ a.len \in Nat /\ a.type.size \in Nat
  BY ArrayAtLevel, ArrayFields
<1>4. /\ Window(a, a.valid) \in Seq(BOOLEAN) /\ Len(Window(a, a.valid)) = a.len
      /\ \A i \in 1..a.len : Window(a, a.valid)[i] = a.valid[a.off + i]
  <2>1. a.off + a.len <= Len(a.valid) /\ a.valid \in Seq(BOOLEAN)
    BY <1>3, ArrayFields DEF WellFormed
  <2>2. QED
    BY <2>1, WindowOf
<1>5. /\ pos \in Seq(Nat)
      /\ a.type.kind = "dense" => /\ Len(pos) = a.len
                                  /\ \A i \in 1..a.len : pos[i] = a.pos[a.off + i]
  <2>1. CASE a.type.kind = "dense"
    <3>1. a.off + a.len <= Len(a.pos) /\ a.pos \in Seq(Nat)
      BY <1>3, <2>1, ArrayFields DEF WellFormed
    <3>2. QED
      BY <2>1, <3>1, WindowOf
  <2>2. CASE a.type.kind # "dense"
    BY <2>2
  <2>3. QED
    BY <2>1, <2>2
<1>6. kids \in Seq(Arrays[n - 1]) /\ DOMAIN kids = DOMAIN a.kids
  <2>1. DOMAIN a.kids = 1..Len(a.kids) /\ Len(a.kids) \in Nat
    BY ArrayFields
  <2>2. kids = [c \in 1..Len(a.kids) |-> below[Part(a, a.kids[c])]]
    BY <2>1
  <2>3. \A c \in 1..Len(a.kids) : below[Part(a, a.kids[c])] \in Arrays[n - 1]
    BY <2>1
  <2>4. [c \in 1..Len(a.kids) |-> below[Part(a, a.kids[c])]] \in Seq(Arrays[n - 1])
    BY <2>1, <2>3
  <2>5. QED
    BY <2>2, <2>4
<1>7. \A c \in DOMAIN a.kids : kids[c].type = u.kids[c] /\ kids[c].len = Extent(a, a.kids[c])
  OBVIOUS
<1>8. a.type.kind \in {"list", "map"} =>
        /\ OwnData(a) \in Seq(Int) /\ Len(OwnData(a)) = a.len + 1
        /\ \A i \in 1..(a.len + 1) : OwnData(a)[i] = a.data[a.off + i] - Start(a)
        /\ \A p, q \in 1..(a.len + 1) : p <= q => OwnData(a)[p] <= OwnData(a)[q]
        /\ OwnData(a)[1] = 0 /\ OwnData(a)[a.len + 1] = Stop(a) - Start(a)
  <2>1. SUFFICES ASSUME a.type.kind \in {"list", "map"}
                 PROVE  /\ OwnData(a) \in Seq(Int) /\ Len(OwnData(a)) = a.len + 1
                        /\ \A i \in 1..(a.len + 1) : OwnData(a)[i] = a.data[a.off + i] - Start(a)
                        /\ \A p, q \in 1..(a.len + 1) : p <= q => OwnData(a)[p] <= OwnData(a)[q]
                        /\ OwnData(a)[1] = 0 /\ OwnData(a)[a.len + 1] = Stop(a) - Start(a)
    BY Zenon
  <2>2. /\ a.off + a.len + 1 <= Len(a.data)
        /\ \A p, q \in Places(a) \cup {a.off + a.len + 1} : p <= q => a.data[p] <= a.data[q]
    BY <1>3, <2>1 DEF WellFormed, Spanned
  <2>3. a.data \in Seq(Int) /\ Len(a.data) \in Nat
    BY ArrayFields
  <2>4. \A i \in 1..(a.len + 1) : a.off + i \in 1..Len(a.data) /\ a.off + i \in Places(a) \cup {a.off + a.len + 1}
    <3>1. ASSUME NEW i \in 1..(a.len + 1), NEW k \in Nat, a.off + a.len + 1 <= k
          PROVE  a.off + i \in 1..k /\ a.off + i \in (a.off + 1)..(a.off + a.len) \cup {a.off + a.len + 1}
      BY <1>3, <3>1
    <3>2. QED
      BY <2>2, <2>3, <3>1 DEF Places
  <2>5. \A i \in 1..(a.len + 1) : a.data[a.off + i] \in Int
    BY <2>3, <2>4
  <2>6. 1 \in 1..(a.len + 1) /\ a.len + 1 \in 1..(a.len + 1) /\ a.len + 1 \in Nat
    BY <1>3
  <2>7. Start(a) = a.data[a.off + 1] /\ Stop(a) = a.data[a.off + (a.len + 1)] /\ Start(a) \in Int /\ Stop(a) \in Int
    <3>1. a.off + (a.len + 1) = a.off + a.len + 1
      BY <1>3
    <3>2. Start(a) = a.data[a.off + 1] /\ Stop(a) = a.data[a.off + (a.len + 1)]
      BY <3>1 DEF Start, Stop
    <3>3. QED
      BY <2>5, <2>6, <3>2
  <2>8. OwnData(a) = [i \in 1..(a.len + 1) |-> a.data[a.off + i] - Start(a)]
    BY <2>1 DEF OwnData, Offsets
  <2>9. \A i \in 1..(a.len + 1) : a.data[a.off + i] - Start(a) \in Int
    BY <2>5, <2>7
  <2>10. OwnData(a) \in Seq(Int) /\ Len(OwnData(a)) = a.len + 1
    BY <2>6, <2>8, <2>9
  <2>11. \A p, q \in 1..(a.len + 1) : p <= q => OwnData(a)[p] <= OwnData(a)[q]
    <3>1. TAKE p, q \in 1..(a.len + 1)
    <3>2. HAVE p <= q
    <3>3. a.off + p <= a.off + q
      BY <1>3, <3>2
    <3>4. a.data[a.off + p] <= a.data[a.off + q]
      BY <2>2, <2>4, <3>3
    <3>5. QED
      BY <2>5, <2>7, <2>8, <3>4
  <2>12. OwnData(a)[1] = 0 /\ OwnData(a)[a.len + 1] = Stop(a) - Start(a)
    BY <2>6, <2>7, <2>8
  <2>13. QED
    BY <2>8, <2>10, <2>11, <2>12
<1>9. a.type.kind \in {"dictionary", "dense", "sparse"} =>
        /\ OwnData(a) \in Seq(Int) /\ Len(OwnData(a)) = a.len
        /\ \A i \in 1..a.len : OwnData(a)[i] = a.data[a.off + i]
  <2>1. ASSUME a.type.kind \in {"dictionary", "dense", "sparse"}
        PROVE  /\ OwnData(a) \in Seq(Int) /\ Len(OwnData(a)) = a.len
               /\ \A i \in 1..a.len : OwnData(a)[i] = a.data[a.off + i]
    <3>1. a.off + a.len <= Len(a.data) /\ a.data \in Seq(Int)
      BY <1>3, <2>1, ArrayFields DEF WellFormed
    <3>2. OwnData(a) = Window(a, a.data)
      BY <2>1 DEF OwnData
    <3>3. QED
      BY <3>1, <3>2, WindowOf
  <2>2. QED
    BY <2>1
<1>10. a.type.kind \in {"fixed", "struct"} => OwnData(a) = <<>>
  BY DEF OwnData
<1>11. OwnData(a) \in Seq(Int)
  <2>1. a.type.kind \in {"list", "map"} \/ a.type.kind \in {"dictionary", "dense", "sparse"}
          \/ a.type.kind \in {"fixed", "struct"}
    BY DEF Rebuilt
  <2>2. <<>> \in Seq(Int)
    OBVIOUS
  <2>3. QED
    BY <1>8, <1>9, <1>10, <2>1, <2>2
<1> HIDE DEF kids, pos
<1>12. /\ b.type = u /\ b.off = 0 /\ b.len = a.len /\ b.valid = Window(a, a.valid)
       /\ b.data = OwnData(a) /\ b.pos = pos /\ b.kids = kids
  <2> HIDE DEF b
  <2>1. QED
    BY <1>1, <1>2
<1>13. b \in [type : Types[n], off : Nat, len : Nat, valid : Seq(BOOLEAN), data : Seq(Int),
              pos : Seq(Nat), kids : Seq(Arrays[n - 1])]
  <2> HIDE DEF b
  <2>1. QED
    BY <1>1, <1>2, <1>4, <1>5, <1>6, <1>11
<1> HIDE DEF b
<1>14. /\ 0 + a.len = a.len /\ b.off + b.len = a.len /\ b.off + 1 = 1 /\ b.off + b.len + 1 = a.len + 1
       /\ Places(b) = 1..a.len
       /\ \A i \in 1..a.len : a.off + i \in Places(a)
  BY <1>3, <1>12 DEF Places
<1>15. DOMAIN b.kids = DOMAIN b.type.kids /\ \A c \in DOMAIN b.kids : b.kids[c].type = b.type.kids[c]
  BY <1>6, <1>7, <1>12
<1>16. /\ b.off + b.len <= Len(b.valid)
       /\ b.type.kind \in Scalar \cup {"dictionary", "dense", "sparse"} => b.off + b.len <= Len(b.data)
  <2>1. b.type.kind \notin Scalar
    BY <1>12 DEF Scalar, Rebuilt
  <2>2. QED
    BY <1>3, <1>4, <1>9, <1>12, <1>14, <2>1
<1>17. /\ b.type.kind \in {"list", "opaque", "fixed", "dictionary"} => DOMAIN b.kids = {1}
       /\ b.type.kind = "map" => DOMAIN b.kids = {1, 2}
  BY <1>3, <1>6, <1>12 DEF WellFormed
<1>18. b.type.kind \in Spanned =>
         /\ b.off + b.len + 1 <= Len(b.data)
         /\ \A p, q \in Places(b) \cup {b.off + b.len + 1} : p <= q => b.data[p] <= b.data[q]
         /\ b.data[b.off + 1] >= 0
         /\ \A c \in DOMAIN b.kids : b.data[b.off + b.len + 1] <= b.kids[c].len
  <2>1. SUFFICES ASSUME a.type.kind \in {"list", "map"}
                 PROVE  /\ a.len + 1 <= Len(b.data)
                        /\ \A p, q \in 1..(a.len + 1) : p <= q => b.data[p] <= b.data[q]
                        /\ b.data[1] >= 0
                        /\ \A c \in DOMAIN b.kids : b.data[a.len + 1] <= b.kids[c].len
    <3>1. b.type.kind \in Spanned => a.type.kind \in {"list", "map"}
      BY <1>12 DEF Spanned, Rebuilt
    <3>2. Places(b) \cup {b.off + b.len + 1} = 1..(a.len + 1)
      BY <1>3, <1>14
    <3>3. QED
      BY <1>14, <3>1, <3>2
  <2>2. \A c \in DOMAIN b.kids : b.kids[c].len = Stop(a) - Start(a) /\ Stop(a) - Start(a) \in Int
    <3>1. \A c \in DOMAIN a.kids : Extent(a, a.kids[c]) = Stop(a) - Start(a)
      BY <2>1 DEF Extent
    <3>2. \A c \in DOMAIN a.kids : Extent(a, a.kids[c]) \in Nat
      BY PartOf
    <3>3. QED
      BY <1>6, <1>7, <1>12, <3>1, <3>2
  <2>3. QED
    BY <1>3, <1>8, <1>12, <2>1, <2>2
<1>19. b.type.kind = "fixed" => (b.off + b.len) * b.type.size <= b.kids[1].len
  <2>1. ASSUME a.type.kind = "fixed" PROVE a.len * a.type.size <= b.kids[1].len
    <3>1. DOMAIN a.kids = {1}
      BY <1>3, <2>1 DEF WellFormed
    <3>2. b.kids[1].len = a.len * a.type.size
      BY <1>7, <1>12, <2>1, <3>1 DEF Extent
    <3>3. a.len * a.type.size \in Nat
      BY <1>3, Monotone
    <3>4. QED
      BY <3>2, <3>3
  <2>2. QED
    BY <1>12, <1>14, <2>1
<1>20. b.type.kind \in {"struct", "sparse"} => \A c \in DOMAIN b.kids : b.off + b.len <= b.kids[c].len
  <2>1. a.type.kind \in {"struct", "sparse"} => \A c \in DOMAIN b.kids : b.kids[c].len = a.len
    BY <1>6, <1>7, <1>12 DEF Extent
  <2>2. QED
    BY <1>3, <1>12, <1>14, <2>1
<1>21. b.type.kind = "dictionary" =>
         \A p \in Places(b) : b.valid[p] => 0 <= b.data[p] /\ b.data[p] < b.kids[1].len
  <2>1. SUFFICES ASSUME a.type.kind = "dictionary", NEW p \in 1..a.len, b.valid[p]
                 PROVE  0 <= b.data[p] /\ b.data[p] < b.kids[1].len
    BY <1>12, <1>14
  <2>2. DOMAIN a.kids = {1}
    BY <1>3, <2>1 DEF WellFormed
  <2>3. b.kids[1].len = a.kids[1].len
    BY <1>7, <1>12, <2>1, <2>2 DEF Extent
  <2>4. a.off + p \in Places(a) /\ a.valid[a.off + p] /\ b.data[p] = a.data[a.off + p]
    BY <1>4, <1>9, <1>12, <1>14, <2>1
  <2>5. 0 <= a.data[a.off + p] /\ a.data[a.off + p] < a.kids[1].len
    BY <1>3, <2>1, <2>4 DEF WellFormed
  <2>6. QED
    BY <2>3, <2>4, <2>5
<1>22. b.type.kind \in {"dense", "sparse"} =>
         \A p \in Places(b) : b.valid[p] => b.data[p] \in DOMAIN b.kids
  <2>1. SUFFICES ASSUME a.type.kind \in {"dense", "sparse"}, NEW p \in 1..a.len, b.valid[p]
                 PROVE  b.data[p] \in DOMAIN b.kids
    BY <1>12, <1>14
  <2>2. a.off + p \in Places(a) /\ a.valid[a.off + p] /\ b.data[p] = a.data[a.off + p]
    BY <1>4, <1>9, <1>12, <1>14, <2>1
  <2>3. a.data[a.off + p] \in DOMAIN a.kids
    BY <1>3, <2>1, <2>2 DEF WellFormed
  <2>4. QED
    BY <1>6, <1>12, <2>2, <2>3
<1>23. b.type.kind = "dense" =>
         /\ b.off + b.len <= Len(b.pos)
         /\ \A p \in Places(b) : b.valid[p] => b.pos[p] < b.kids[b.data[p]].len
  <2>1. ASSUME a.type.kind = "dense", NEW p \in 1..a.len, b.valid[p]
        PROVE  b.pos[p] < b.kids[b.data[p]].len
    <3>1. a.off + p \in Places(a) /\ a.valid[a.off + p] /\ b.data[p] = a.data[a.off + p]
      BY <1>4, <1>9, <1>12, <1>14, <2>1
    <3>2. a.data[a.off + p] \in DOMAIN a.kids /\ a.pos[a.off + p] < a.kids[a.data[a.off + p]].len
      BY <1>3, <2>1, <3>1 DEF WellFormed
    <3>3. b.kids[a.data[a.off + p]].len = a.kids[a.data[a.off + p]].len
      BY <1>7, <1>12, <2>1, <3>2 DEF Extent
    <3>4. b.pos[p] = a.pos[a.off + p]
      BY <1>5, <1>12, <2>1
    <3>5. QED
      BY <3>1, <3>2, <3>3, <3>4
  <2>2. a.type.kind = "dense" => b.off + b.len <= Len(b.pos)
    BY <1>3, <1>5, <1>12, <1>14
  <2>3. QED
    BY <1>12, <1>14, <2>1, <2>2
<1>24. WellFormed(b)
  BY <1>15, <1>16, <1>17, <1>18, <1>19, <1>20, <1>21, <1>22, <1>23 DEF WellFormed
<1>25. QED
  BY <1>13, <1>24, ArrayAtLevel, ArrayIs DEF b

\* The places from which entry i of a window of l entries from o on is read.
LEMMA PlacesAround ==
  ASSUME NEW o \in Nat, NEW l \in Nat, NEW i \in 1..l
  PROVE  /\ o + 1 \in (o + 1)..(o + l) \cup {o + l + 1}
         /\ o + i \in (o + 1)..(o + l) \cup {o + l + 1}
         /\ o + i + 1 \in (o + 1)..(o + l) \cup {o + l + 1}
         /\ o + 1 <= o + i /\ o + i <= o + i + 1 /\ o + i + 1 <= o + l + 1
         /\ o + i + 1 = o + (i + 1) /\ i + 1 \in 1..(l + 1) /\ i \in 1..(l + 1)
OBVIOUS

\* ... and its values are those of the array truncated in place, when those of
\* its children are.
LEMMA RebuildValues ==
  ASSUME NEW n \in 0..Depth, NEW a \in Arrays[n], a.type.kind \in Rebuilt,
         NEW u \in Types[n], u.kind = a.type.kind, u.size = a.type.size, DOMAIN u.kids = DOMAIN a.kids,
         NEW below,
         \A c \in DOMAIN a.kids :
           /\ below[Part(a, a.kids[c])] \in Arrays[n - 1]
           /\ below[Part(a, a.kids[c])].type = u.kids[c]
           /\ below[Part(a, a.kids[c])].len = Extent(a, a.kids[c])
           /\ PyValues[n - 1][below[Part(a, a.kids[c])]] = PyValues[n - 1][InPlace[n - 1][Part(a, a.kids[c])]]
  PROVE  PyValues[n][Rebuild(a, u, below)] = PyValues[n][InPlace[n][a]]
<1>1. PICK b : b = Rebuild(a, u, below)
  OBVIOUS
<1>2. PICK z : z = InPlace[n][a]
  OBVIOUS
<1>3. PICK kidB : kidB = [c \in DOMAIN b.kids |-> PyValues[n - 1][b.kids[c]]]
  OBVIOUS
<1>4. PICK kidZ : kidZ = [c \in DOMAIN z.kids |-> PyValues[n - 1][z.kids[c]]]
  OBVIOUS
<1>5. b \in Arrays[n] /\ z \in Arrays[n]
  BY <1>1, <1>2, RebuildIs, InPlaceOf
<1>6. /\ z.type = a.type /\ z.off = a.off /\ z.len = a.len /\ z.valid = a.valid /\ z.data = a.data
      /\ z.pos = a.pos /\ z.kids = [c \in DOMAIN a.kids |-> InPlace[n - 1][a.kids[c]]]
  BY <1>2, InPlaceOf DEF Rebuilt
<1>7. /\ b.type = u /\ b.off = 0 /\ b.len = a.len /\ b.valid = Window(a, a.valid) /\ b.data = OwnData(a)
      /\ b.pos = (IF a.type.kind = "dense" THEN Window(a, a.pos) ELSE <<>>)
      /\ b.kids = [c \in DOMAIN a.kids |-> below[Part(a, a.kids[c])]]
  BY <1>1, ArrayAtLevel DEF Rebuild
<1>8. WellFormed(a) /\ a.off \in Nat /\ a.len \in Nat /\ a.type.size \in Nat /\ a.data \in Seq(Int)
  BY ArrayAtLevel, ArrayFields
<1>9. \A c \in DOMAIN a.kids :
        /\ From(a) \in Nat /\ Extent(a, a.kids[c]) \in Nat
        /\ \A j \in 1..Extent(a, a.kids[c]) : kidB[c][j] = kidZ[c][From(a) + j]
  <2>1. ASSUME NEW c \in DOMAIN a.kids, NEW j \in 1..Extent(a, a.kids[c])
        PROVE  kidB[c][j] = kidZ[c][From(a) + j]
    <3> DEFINE child == a.kids[c]
               part == Slice(child, From(a), Extent(a, child))
    <3>1. /\ From(a) \in Nat /\ Extent(a, child) \in Nat /\ From(a) + Extent(a, child) <= child.len
          /\ Part(a, child) = part
      BY PartOf
    <3>2. child \in Arrays[n - 1] /\ n - 1 \in 0..Depth
      BY ArrayAtLevel
    <3>3. kidB[c] = PyValues[n - 1][InPlace[n - 1][part]]
      BY <1>3, <1>7, <3>1
    <3>4. InPlace[n - 1][part] = Slice(InPlace[n - 1][child], From(a), Extent(a, child))
      BY <3>1, <3>2, InPlaceSlice
    <3>5. InPlace[n - 1][child] \in Arrays[n - 1] /\ InPlace[n - 1][child].len = child.len
      BY <3>2, InPlaceOf
    <3>6. kidZ[c] = PyValues[n - 1][InPlace[n - 1][child]]
      BY <1>4, <1>6
    <3> HIDE DEF part, child
    <3>7. PyValues[n - 1][Slice(InPlace[n - 1][child], From(a), Extent(a, child))][j]
            = PyValues[n - 1][InPlace[n - 1][child]][From(a) + j]
      BY <3>1, <3>2, <3>5, SliceOf DEF child
    <3>8. QED
      BY <3>3, <3>4, <3>6, <3>7
  <2>2. QED
    BY <2>1, PartOf
<1> DEFINE At(x, p, kid) == IF x.valid[p] THEN Entry(x, p, kid) ELSE None
<1>10. /\ PyValues[n][b] = [i \in 1..b.len |-> At(b, b.off + i, kidB)]
       /\ PyValues[n][z] = [i \in 1..z.len |-> At(z, z.off + i, kidZ)]
  <2>1. \A x \in Arrays[n] : PyValues[n][x] = PyValuesOver(x, PyValues[n - 1])
    <3>1. PyValues[n] = [x \in Arrays[n] |-> PyValuesOver(x, PyValues[n - 1])]
      BY PyValuesLevels
    <3>2. QED
      BY <3>1, Zenon
  <2>2. PyValues[n][b] = PyValuesOver(b, PyValues[n - 1]) /\ PyValues[n][z] = PyValuesOver(z, PyValues[n - 1])
    BY <1>5, <2>1, Zenon
  <2>3. QED
    BY <1>3, <1>4, <2>2, Zenon DEF PyValuesOver
<1>11. ASSUME NEW i \in 1..a.len PROVE At(b, 0 + i, kidB) = At(z, a.off + i, kidZ)
  <2>1. 0 + i = i /\ i \in Nat /\ a.off + i \in Places(a)
    BY <1>8 DEF Places
  <2>2. b.valid[i] = a.valid[a.off + i]
    <3>1. a.off + a.len <= Len(a.valid) /\ a.valid \in Seq(BOOLEAN)
      BY <1>8, ArrayFields DEF WellFormed
    <3>2. QED
      BY <1>7, <3>1, WindowOf
  <2>3. SUFFICES ASSUME a.valid[a.off + i] PROVE Entry(b, i, kidB) = Entry(z, a.off + i, kidZ)
    BY <1>6, <2>1, <2>2, Zenon
  <2>4. CASE a.type.kind \in {"list", "map"}
    <3> DEFINE size == a.data[a.off + i + 1] - a.data[a.off + i]
               SpanB(c) == [j \in 1..(b.data[i + 1] - b.data[i]) |-> kidB[c][b.data[i] + j]]
               SpanZ(c) == [j \in 1..(z.data[a.off + i + 1] - z.data[a.off + i]) |-> kidZ[c][z.data[a.off + i] + j]]
    <3>1. /\ a.off + a.len + 1 <= Len(a.data)
          /\ \A p, q \in Places(a) \cup {a.off + a.len + 1} : p <= q => a.data[p] <= a.data[q]
      BY <1>8, <2>4 DEF WellFormed, Spanned
    <3>2. /\ a.off + 1 \in Places(a) \cup {a.off + a.len + 1}
          /\ a.off + i \in Places(a) \cup {a.off + a.len + 1}
          /\ a.off + i + 1 \in Places(a) \cup {a.off + a.len + 1}
          /\ a.off + 1 <= a.off + i /\ a.off + i <= a.off + i + 1 /\ a.off + i + 1 <= a.off + a.len + 1
          /\ a.off + i + 1 = a.off + (i + 1) /\ i + 1 \in 1..(a.len + 1) /\ i \in 1..(a.len + 1)
      <4>1. i \in Nat /\ 1 <= i /\ i <= a.len
        BY <1>8
      <4>2. QED
        BY <1>8, <4>1, PlacesAround DEF Places
    <3>3. /\ a.data[a.off + 1] <= a.data[a.off + i] /\ a.data[a.off + i] <= a.data[a.off + i + 1]
          /\ a.data[a.off + i + 1] <= a.data[a.off + a.len + 1]
      BY <3>1, <3>2
    <3>4. /\ a.data[a.off + 1] \in Int /\ a.data[a.off + i] \in Int
          /\ a.data[a.off + i + 1] \in Int /\ a.data[a.off + a.len + 1] \in Int
      <4>1. \A p \in 1..Len(a.data) : a.data[p] \in Int
        BY <1>8
      <4>2. Len(a.data) \in Nat
        BY <1>8
      <4>3. ASSUME NEW k \in Nat, a.off + a.len + 1 <= k, NEW p \in Places(a) \cup {a.off + a.len + 1}
            PROVE  p \in 1..k
        BY <1>8, <4>3 DEF Places
      <4>4. \A p \in Places(a) \cup {a.off + a.len + 1} : a.data[p] \in Int
        BY <3>1, <4>1, <4>2, <4>3
      <4>5. QED
        BY <3>2, <4>4
    <3>5. Start(a) = a.data[a.off + 1] /\ Stop(a) = a.data[a.off + a.len + 1]
      BY DEF Start, Stop
    <3>6. b.data = [k \in 1..(a.len + 1) |-> a.data[a.off + k] - Start(a)]
      BY <1>7, <2>4 DEF OwnData, Offsets
    <3>7. b.data[i] = a.data[a.off + i] - Start(a) /\ b.data[i + 1] = a.data[a.off + i + 1] - Start(a)
      BY <3>2, <3>6
    <3>8. b.data[i + 1] - b.data[i] = size /\ size \in Nat
      BY <3>3, <3>4, <3>5, <3>7
    <3>9. ASSUME NEW c \in DOMAIN a.kids, NEW j \in 1..size
          PROVE  kidB[c][b.data[i] + j] = kidZ[c][a.data[a.off + i] + j]
      <4>1. From(a) = Start(a) /\ Extent(a, a.kids[c]) = Stop(a) - Start(a)
        BY <2>4 DEF From, Extent
      <4>2. b.data[i] + j \in 1..(Stop(a) - Start(a)) /\ Start(a) + (b.data[i] + j) = a.data[a.off + i] + j
        <5>1. /\ b.data[i] \in Int /\ Start(a) \in Int /\ Stop(a) \in Int
              /\ Start(a) <= a.data[a.off + i]
              /\ a.data[a.off + i] + size <= Stop(a)
          BY <3>3, <3>4, <3>5, <3>7
        <5>2. j \in Int /\ 1 <= j /\ j <= size
          BY <3>8
        <5> HIDE DEF size
        <5>3. QED
          BY <3>4, <3>7, <3>8, <5>1, <5>2
      <4>3. QED
        BY <1>9, <4>1, <4>2
    <3>10. \A c \in DOMAIN a.kids : SpanB(c) = SpanZ(c)
      BY <1>6, <3>8, <3>9
    <3>11. CASE a.type.kind = "list"
      <4>1. DOMAIN a.kids = {1}
        BY <1>8, <3>11 DEF WellFormed
      <4>2. Entry(b, i, kidB) = SpanB(1) /\ Entry(z, a.off + i, kidZ) = SpanZ(1)
        <5> HIDE DEF SpanB, SpanZ
        <5>1. b.type.kind = "list" /\ z.type.kind = "list"
          BY <1>6, <1>7, <3>11
        <5>2. QED
          BY <5>1 DEF Entry, Scalar, SpanB, SpanZ
      <4>3. QED
        BY <3>10, <4>1, <4>2
    <3>12. CASE a.type.kind = "map"
      <4>1. DOMAIN a.kids = {1, 2}
        BY <1>8, <3>12 DEF WellFormed
      <4>2. Entry(b, i, kidB) = <<SpanB(1), SpanB(2)>> /\ Entry(z, a.off + i, kidZ) = <<SpanZ(1), SpanZ(2)>>
        <5> HIDE DEF SpanB, SpanZ
        <5>1. b.type.kind = "map" /\ z.type.kind = "map"
          BY <1>6, <1>7, <3>12
        <5>2. QED
          BY <5>1 DEF Entry, Scalar, SpanB, SpanZ
      <4>3. QED
        BY <3>10, <4>1, <4>2
    <3>13. QED
      BY <2>4, <3>11, <3>12
  <2>5. CASE a.type.kind = "fixed"
    <3> DEFINE size == a.type.size
    <3>0. PICK p : p = a.off + i
      OBVIOUS
    <3>1. DOMAIN a.kids = {1}
      BY <1>8, <2>5 DEF WellFormed
    <3>2. From(a) = a.off * size /\ Extent(a, a.kids[1]) = a.len * size
      BY <2>5 DEF From, Extent
    <3>3. ASSUME NEW j \in 1..size
          PROVE  kidB[1][(i - 1) * size + j] = kidZ[1][(p - 1) * size + j]
      <4>1. i - 1 \in Nat /\ i <= a.len /\ i \in Nat /\ size \in Nat
        BY <1>8
      <4>2. i * size <= a.len * size /\ i * size \in Nat /\ a.len * size \in Nat
        BY <1>8, <4>1, Monotone
      <4>3. (i - 1) * size \in Nat /\ a.off * size \in Nat
        BY <1>8, <4>1
      <4>4. (i - 1) * size + size = i * size
        BY <4>1
      <4>5. (p - 1) * size = a.off * size + (i - 1) * size
        <5>1. p - 1 = a.off + (i - 1)
          BY <1>8, <3>0, <4>1
        <5>2. QED
          BY <1>8, <4>1, <5>1
      <4>6. (i - 1) * size + j \in 1..(a.len * size)
        <5>1. j \in Nat /\ 1 <= j /\ j <= size
          BY <4>1
        <5> HIDE DEF size
        <5>2. QED
          BY <4>1, <4>2, <4>3, <4>4, <5>1
      <4>7. a.off * size + ((i - 1) * size + j) = (p - 1) * size + j
        <5> HIDE DEF size
        <5>1. QED
          BY <4>1, <4>3, <4>5
      <4>8. QED
        BY <1>9, <3>1, <3>2, <4>6, <4>7
    <3>4. /\ Entry(b, i, kidB) = [j \in 1..size |-> kidB[1][(i - 1) * size + j]]
          /\ Entry(z, p, kidZ) = [j \in 1..size |-> kidZ[1][(p - 1) * size + j]]
      <4>1. /\ b.type.kind = "fixed" /\ z.type.kind = "fixed" /\ b.type.size = size /\ z.type.size = size
        BY <1>6, <1>7, <2>5
      <4> HIDE DEF size
      <4>2. Entry(b, i, kidB) = [j \in 1..size |-> kidB[1][(i - 1) * size + j]]
        BY <4>1, Zenon DEF Entry, Scalar
      <4>3. Entry(z, p, kidZ) = [j \in 1..size |-> kidZ[1][(p - 1) * size + j]]
        BY <4>1, Zenon DEF Entry, Scalar
      <4>4. QED
        BY <4>2, <4>3
    <3> HIDE DEF size
    <3>5. QED
      BY <3>0, <3>3, <3>4
  <2>6. CASE a.type.kind \in {"struct", "sparse"}
    <3>1. \A c \in DOMAIN a.kids : kidB[c][i] = kidZ[c][a.off + i]
      <4>1. \A c \in DOMAIN a.kids : From(a) = a.off /\ Extent(a, a.kids[c]) = a.len
        BY <2>6 DEF From, Extent
      <4>2. QED
        BY <1>9, <4>1
    <3>2. CASE a.type.kind = "struct"
      <4>1. b.type.kind = "struct" /\ z.type.kind = "struct" /\ DOMAIN b.kids = DOMAIN a.kids /\ DOMAIN z.kids = DOMAIN a.kids
        BY <1>6, <1>7, <3>2
      <4>2. /\ Entry(b, i, kidB) = [c \in DOMAIN b.kids |-> kidB[c][i]]
            /\ Entry(z, a.off + i, kidZ) = [c \in DOMAIN z.kids |-> kidZ[c][a.off + i]]
        BY <4>1 DEF Entry, Scalar
      <4>3. QED
        BY <3>1, <4>1, <4>2
    <3>3. CASE a.type.kind = "sparse"
      <4>1. b.type.kind = "sparse" /\ z.type.kind = "sparse"
        BY <1>6, <1>7, <3>3
      <4>2. a.data[a.off + i] \in DOMAIN a.kids
        BY <1>8, <2>1, <2>3, <3>3 DEF WellFormed
      <4>3. b.data[i] = a.data[a.off + i]
        <5>1. a.off + a.len <= Len(a.data)
          BY <1>8, <3>3 DEF WellFormed
        <5>2. b.data = Window(a, a.data)
          BY <1>7, <3>3 DEF OwnData
        <5>3. Window(a, a.data)[i] = a.data[a.off + i]
          BY <1>8, <5>1, WindowOf
        <5>4. QED
          BY <5>2, <5>3
      <4>4. Entry(b, i, kidB) = kidB[b.data[i]][i] /\ Entry(z, a.off + i, kidZ) = kidZ[z.data[a.off + i]][a.off + i]
        BY <4>1 DEF Entry, Scalar
      <4>5. QED
        BY <1>6, <3>1, <4>2, <4>3, <4>4
    <3>4. QED
      BY <2>6, <3>2, <3>3
  <2>7. CASE a.type.kind \in {"dictionary", "dense"}
    <3>1. \A c \in DOMAIN a.kids : From(a) = 0 /\ Extent(a, a.kids[c]) = a.kids[c].len
      BY <2>7 DEF From, Extent
    <3>2. a.off + a.len <= Len(a.data)
      BY <1>8, <2>7 DEF WellFormed
    <3>3. b.data[i] = a.data[a.off + i] /\ a.data[a.off + i] \in Int
      <4>1. b.data = Window(a, a.data)
        BY <1>7, <2>7 DEF OwnData
      <4>2. Window(a, a.data) \in Seq(Int) /\ Len(Window(a, a.data)) = a.len /\ Window(a, a.data)[i] = a.data[a.off + i]
        BY <1>8, <3>2, WindowOf
      <4>3. QED
        BY <4>1, <4>2
    <3>4. CASE a.type.kind = "dictionary"
      <4>1. DOMAIN a.kids = {1}
        BY <1>8, <3>4 DEF WellFormed
      <4>2. 0 <= a.data[a.off + i] /\ a.data[a.off + i] < a.kids[1].len
        BY <1>8, <2>1, <2>3, <3>4 DEF WellFormed
      <4>3. 1 \in DOMAIN a.kids /\ a.kids[1].len \in Nat
        <5>1. 1 \in DOMAIN a.kids
          BY <4>1
        <5>2. Extent(a, a.kids[1]) \in Nat
          BY <5>1, PartOf
        <5>3. QED
          BY <3>1, <5>1, <5>2
      <4>4. a.data[a.off + i] + 1 \in 1..a.kids[1].len /\ 0 + (a.data[a.off + i] + 1) = a.data[a.off + i] + 1
        BY <3>3, <4>2, <4>3
      <4>5. kidB[1][a.data[a.off + i] + 1] = kidZ[1][a.data[a.off + i] + 1]
        BY <1>9, <3>1, <4>3, <4>4
      <4>6. Entry(b, i, kidB) = kidB[1][b.data[i] + 1] /\ Entry(z, a.off + i, kidZ) = kidZ[1][z.data[a.off + i] + 1]
        <5>1. b.type.kind = "dictionary" /\ z.type.kind = "dictionary"
          BY <1>6, <1>7, <3>4
        <5>2. QED
          BY <5>1 DEF Entry, Scalar
      <4>7. QED
        BY <1>6, <3>3, <4>5, <4>6
    <3>5. CASE a.type.kind = "dense"
      <4> DEFINE c == a.data[a.off + i]
                 k == a.pos[a.off + i]
      <4>1. c \in DOMAIN a.kids /\ k < a.kids[c].len /\ a.off + a.len <= Len(a.pos)
        BY <1>8, <2>1, <2>3, <3>5 DEF WellFormed
      <4>2. b.pos[i] = k /\ k \in Nat
        <5>1. a.pos \in Seq(Nat)
          BY ArrayFields
        <5>2. Window(a, a.pos) \in Seq(Nat) /\ Len(Window(a, a.pos)) = a.len /\ Window(a, a.pos)[i] = k
          BY <4>1, <5>1, WindowOf
        <5>3. b.pos = Window(a, a.pos)
          BY <1>7, <3>5
        <5>4. QED
          BY <5>2, <5>3
      <4>3. a.kids[c].len \in Nat
        <5>1. Extent(a, a.kids[c]) \in Nat
          BY <4>1, PartOf
        <5>2. QED
          BY <3>1, <4>1, <5>1
      <4>4. k + 1 \in 1..a.kids[c].len /\ 0 + (k + 1) = k + 1
        BY <4>1, <4>2, <4>3
      <4>5. kidB[c][k + 1] = kidZ[c][k + 1]
        <5>1. From(a) = 0 /\ k + 1 \in 1..Extent(a, a.kids[c])
          BY <3>1, <4>1, <4>4
        <5> HIDE DEF c, k
        <5>2. kidB[c][k + 1] = kidZ[c][From(a) + (k + 1)]
          BY <1>9, <4>1, <5>1
        <5>3. QED
          BY <4>4, <5>1, <5>2
      <4>6. Entry(b, i, kidB) = kidB[b.data[i]][b.pos[i] + 1] /\ Entry(z, a.off + i, kidZ) = kidZ[z.data[a.off + i]][z.pos[a.off + i] + 1]
        <5>1. b.type.kind = "dense" /\ z.type.kind = "dense"
          BY <1>6, <1>7, <3>5
        <5>2. QED
          BY <5>1 DEF Entry, Scalar
      <4>7. QED
        BY <1>6, <3>3, <4>2, <4>5, <4>6
    <3>6. QED
      BY <2>7, <3>4, <3>5
  <2>8. QED
    BY <2>4, <2>5, <2>6, <2>7 DEF Rebuilt
<1> HIDE DEF At
<1>12. QED
  BY <1>1, <1>2, <1>6, <1>7, <1>10, <1>11

\* _normalize_temporal_array: what it returns has the new type, the length and
\* the values of the array truncated in place, at every depth of nesting.
LEMMA NormalizeOf ==
  \A n \in 0..Depth : \A a \in Arrays[n] : Normalizable[n][a.type] =>
    /\ Normalize[n][a] \in Arrays[n]
    /\ Normalize[n][a].type = NormalizedType[n][a.type]
    /\ Normalize[n][a].len = a.len
    /\ PyValues[n][Normalize[n][a]] = PyValues[n][InPlace[n][a]]
<1> DEFINE Right(n, a) ==
             /\ Normalize[n][a] \in Arrays[n]
             /\ Normalize[n][a].type = NormalizedType[n][a.type]
             /\ Normalize[n][a].len = a.len
             /\ PyValues[n][Normalize[n][a]] = PyValues[n][InPlace[n][a]]
           right == {n \in 0..Depth : \A a \in Arrays[n] : Normalizable[n][a.type] => Right(n, a)}
<1>1. 0 \in right
  BY NoArrays, ColumnsAssumption DEF ColumnsAssumption
<1>2. ASSUME NEW n \in 1..Depth, n - 1 \in right PROVE n \in right
  <2>1. n \in 0..Depth
    OBVIOUS
  <2>2. ASSUME NEW a \in Arrays[n], Normalizable[n][a.type] PROVE Right(n, a)
    <3> DEFINE t == a.type
               u == NormalizedType[n][t]
    <3>1. /\ t \in Types[n] /\ a.len \in Nat /\ a.off \in Nat
          /\ t.kind \in Rebuilt \cup Scalar \cup {"opaque"}
          /\ t.kids \in Seq(Types[n - 1]) /\ (t.kind \in Scalar => t.kids = <<>>)
      BY <2>1, ArrayFields
    <3>2. u \in Types[n] /\ u = NormalizedOver(t, NormalizedType[n - 1])
      BY <2>1, <3>1, NormalizedNodes, NormalizedTypeLevels
    <3>3. Normalize[n][a] = IF u = t THEN a ELSE Rebuild(a, u, Normalize[n - 1])
      <4>1. Normalize[n] = [x \in Arrays[n] |-> IF NormalizedType[n][x.type] = x.type THEN x
                                                ELSE Rebuild(x, NormalizedType[n][x.type], Normalize[n - 1])]
        BY <2>1, NormalizeLevels
      <4>2. QED
        BY <4>1, Zenon
    <3>4. CASE u = t
      <4>1. \A m \in Nodes[n][t] : m.kind # "ns"
        BY <2>1, <2>2, <3>1, <3>4, NormalizedNodes
      <4>2. InPlace[n][a] = a
        BY <2>1, <4>1, PlainInPlace
      <4>3. QED
        BY <3>3, <3>4, <4>2
    <3>5. CASE u # t /\ t.kind = "ns"
      <4>1. PICK b : b = Rebuild(a, u, Normalize[n - 1])
        OBVIOUS
      <4>2. PICK z : z = InPlace[n][a]
        OBVIOUS
      <4>3. Normalize[n][a] = b
        BY <3>3, <3>5, <4>1
      <4>4. t \in [kind : Rebuilt \cup Scalar \cup {"opaque"}, size : Nat, kids : Seq(Types[n - 1])] /\ t.kids = <<>>
        BY <2>1, <3>1, <3>5, TypeAtLevel DEF TypesOver, Scalar
      <4>5. u.kind = "us" /\ u.kids = <<>>
        BY <3>2, <3>5, <4>4 DEF NormalizedOver
      <4>6. a \in [type : Types[n], off : Nat, len : Nat, valid : Seq(BOOLEAN), data : Seq(Int),
                   pos : Seq(Nat), kids : Seq(Arrays[n - 1])] /\ WellFormed(a)
        BY <2>1, ArrayAtLevel
      <4>7. a.kids = <<>>
        <5>1. DOMAIN a.kids = {} /\ a.kids \in Seq(Arrays[n - 1])
          BY <4>4, <4>6 DEF WellFormed
        <5>2. DOMAIN a.kids = 1..Len(a.kids) /\ Len(a.kids) \in Nat
          BY <2>1, ArrayFields
        <5>3. Len(a.kids) = 0
          <6>1. \A k \in Nat : 1..k = {} => k = 0
            OBVIOUS
          <6>2. QED
            BY <5>1, <5>2, <6>1
        <5>4. QED
          BY <5>1, <5>3, EmptySeq
      <4>8. /\ a.off + a.len <= Len(a.valid) /\ a.valid \in Seq(BOOLEAN)
            /\ a.off + a.len <= Len(a.data) /\ a.data \in Seq(Int)
        BY <3>5, <4>6 DEF WellFormed, Scalar
      <4>9. /\ Window(a, a.valid) \in Seq(BOOLEAN) /\ Len(Window(a, a.valid)) = a.len
            /\ \A i \in 1..a.len : Window(a, a.valid)[i] = a.valid[a.off + i]
        BY <2>1, <4>8, WindowOf
      <4>10. /\ Window(a, a.data) \in Seq(Int) /\ Len(Window(a, a.data)) = a.len
             /\ \A i \in 1..a.len : Window(a, a.data)[i] = a.data[a.off + i]
        BY <2>1, <4>8, WindowOf
      <4>11. \A i \in 1..a.len : a.off + i \in 1..Len(a.data) /\ a.data[a.off + i] \in Int
        <5>1. \A p \in 1..Len(a.data) : a.data[p] \in Int
          BY <4>8
        <5>2. Len(a.data) \in Nat
          BY <4>8
        <5>3. ASSUME NEW i \in 1..a.len, NEW k \in Nat, a.off + a.len <= k PROVE a.off + i \in 1..k
          BY <3>1, <5>3
        <5>4. QED
          BY <4>8, <5>1, <5>2, <5>3
      <4>12. OwnData(a) = [i \in 1..a.len |-> TowardZero(a.data[a.off + i])]
        <5>1. \A i \in 1..a.len : Truncated(Window(a, a.data)[i]) = TowardZero(a.data[a.off + i])
          BY <4>10, <4>11, TowardZeroIs
        <5>2. OwnData(a) = [i \in 1..a.len |-> Truncated(Window(a, a.data)[i])]
          BY <3>5, Zenon DEF OwnData
        <5>3. QED
          BY <5>1, <5>2
      <4>13. OwnData(a) \in Seq(Int) /\ Len(OwnData(a)) = a.len
        <5>1. \A i \in 1..a.len : TowardZero(a.data[a.off + i]) \in Int
          BY <4>11, TowardZeroIs
        <5>2. QED
          BY <3>1, <4>12, <5>1
      <4>14. /\ b.type = u /\ b.off = 0 /\ b.len = a.len /\ b.valid = Window(a, a.valid) /\ b.data = OwnData(a)
             /\ b.pos = <<>> /\ DOMAIN b.kids = {}
             /\ b \in [type : Types[n], off : Nat, len : Nat, valid : Seq(BOOLEAN), data : Seq(Int),
                       pos : Seq(Nat), kids : Seq(Arrays[n - 1])]
        <5>1. b = [a EXCEPT !.type = u, !.off = 0, !.valid = Window(a, a.valid), !.data = OwnData(a),
                            !.pos = <<>>, !.kids = [c \in DOMAIN a.kids |-> Normalize[n - 1][Part(a, a.kids[c])]]]
          BY <3>5, <4>1 DEF Rebuild
        <5>2. [c \in DOMAIN a.kids |-> Normalize[n - 1][Part(a, a.kids[c])]] = <<>>
          BY <4>7
        <5>3. b = [a EXCEPT !.type = u, !.off = 0, !.valid = Window(a, a.valid), !.data = OwnData(a),
                            !.pos = <<>>, !.kids = <<>>]
          BY <5>1, <5>2
        <5>4. <<>> \in Seq(Nat) /\ <<>> \in Seq(Arrays[n - 1])
          OBVIOUS
        <5>5. u \in Types[n] /\ Window(a, a.valid) \in Seq(BOOLEAN) /\ OwnData(a) \in Seq(Int) /\ 0 \in Nat
          BY <3>2, <4>9, <4>13
        <5> HIDE DEF u, t
        <5>6. /\ b.type = u /\ b.off = 0 /\ b.len = a.len /\ b.valid = Window(a, a.valid) /\ b.data = OwnData(a)
              /\ b.pos = <<>> /\ b.kids = <<>>
          BY <4>6, <5>3
        <5>7. b \in [type : Types[n], off : Nat, len : Nat, valid : Seq(BOOLEAN), data : Seq(Int),
                     pos : Seq(Nat), kids : Seq(Arrays[n - 1])]
          BY <4>6, <5>3, <5>4, <5>5
        <5>8. QED
          BY <5>6, <5>7
      <4>15. WellFormed(b)
        <5>1. b.type.kind = "us" /\ b.type.kids = <<>>
          BY <4>5, <4>14
        <5>2. b.off + b.len = a.len /\ Len(b.valid) = a.len /\ Len(b.data) = a.len /\ a.len <= a.len
          BY <3>1, <4>9, <4>13, <4>14
        <5>3. DOMAIN b.kids = {} /\ DOMAIN b.type.kids = {}
          BY <4>14, <5>1
        <5>4. QED
          BY <5>1, <5>2, <5>3 DEF WellFormed, Spanned
      <4>16. b \in Arrays[n]
        BY <4>14, <4>15, ArrayIs
      <4>17. /\ z \in Arrays[n] /\ z.type = t /\ z.off = a.off /\ z.len = a.len /\ z.valid = a.valid
             /\ z.data = [i \in DOMAIN a.data |-> TowardZero(a.data[i])]
        BY <2>1, <3>5, <4>2, InPlaceOf
      <4>18. PyValues[n][b] = [i \in 1..a.len |-> IF b.valid[0 + i] THEN b.data[0 + i] ELSE None]
        <5>1. PyValues[n][b] = PyValuesOver(b, PyValues[n - 1])
          BY <2>1, <4>16, PyValuesLevels
        <5>2. b.type.kind \in Scalar
          BY <4>5, <4>14 DEF Scalar
        <5>3. \A p, kid : Entry(b, p, kid) = b.data[p]
          BY <5>2 DEF Entry, Scalar
        <5>4. QED
          BY <4>14, <5>1, <5>3 DEF PyValuesOver
      <4>19. PyValues[n][z] = [i \in 1..a.len |-> IF a.valid[a.off + i] THEN z.data[a.off + i] ELSE None]
        <5>1. PyValues[n][z] = PyValuesOver(z, PyValues[n - 1])
          BY <2>1, <4>17, PyValuesLevels
        <5>2. z.type.kind \in Scalar
          BY <3>5, <4>17 DEF Scalar
        <5>3. \A p, kid : Entry(z, p, kid) = z.data[p]
          BY <5>2 DEF Entry, Scalar
        <5>4. QED
          <6>1. PyValues[n][z] = [i \in 1..z.len |-> IF z.valid[z.off + i] THEN z.data[z.off + i] ELSE None]
            BY <5>1, <5>3 DEF PyValuesOver
          <6>2. z.len = a.len /\ z.off = a.off /\ z.valid = a.valid
            BY <4>17
          <6>3. QED
            BY <6>1, <6>2
      <4>20. \A i \in 1..a.len : /\ b.valid[0 + i] = a.valid[a.off + i]
                                 /\ b.data[0 + i] = z.data[a.off + i]
        <5>1. \A i \in 1..a.len : 0 + i = i
          BY <3>1
        <5>2. DOMAIN a.data = 1..Len(a.data)
          BY <4>8
        <5>3. QED
          BY <4>9, <4>11, <4>12, <4>14, <4>17, <5>1, <5>2
      <4>21. PyValues[n][b] = PyValues[n][z]
        BY <4>18, <4>19, <4>20
      <4>22. QED
        BY <4>2, <4>3, <4>14, <4>16, <4>21
    <3>6. CASE u # t /\ t.kind \in Rebuilt
      <4>1. u = [t EXCEPT !.kids = [i \in DOMAIN t.kids |-> NormalizedType[n - 1][t.kids[i]]]]
        BY <3>2, <3>6 DEF NormalizedOver, Rebuilt
      <4>2. t \in [kind : Rebuilt \cup Scalar \cup {"opaque"}, size : Nat, kids : Seq(Types[n - 1])]
        BY <2>1, <3>1, TypeAtLevel DEF TypesOver
      <4>3. /\ u.kind = t.kind /\ u.size = t.size
            /\ u.kids = [i \in DOMAIN t.kids |-> NormalizedType[n - 1][t.kids[i]]]
        <5> HIDE DEF t, u
        <5>1. QED
          BY <4>1, <4>2
      <4>4. /\ DOMAIN a.kids = DOMAIN t.kids
            /\ \A c \in DOMAIN a.kids : a.kids[c].type = t.kids[c]
            /\ \A c \in DOMAIN a.kids : a.kids[c] \in Arrays[n - 1]
            /\ n - 1 \in 0..Depth
        BY <2>1, ArrayAtLevel DEF WellFormed
      <4>5. \A c \in DOMAIN a.kids : Normalizable[n - 1][t.kids[c]]
        <5>1. Normalizable[n][t] = NormalizableOver(t, Contains[n], Normalizable[n - 1])
          BY <2>1, <3>1, NormalizableLevels
        <5>2. QED
          BY <2>2, <3>6, <4>4, <5>1 DEF NormalizableOver
      <4>6. ASSUME NEW c \in DOMAIN a.kids
            PROVE  /\ Normalize[n - 1][Part(a, a.kids[c])] \in Arrays[n - 1]
                   /\ Normalize[n - 1][Part(a, a.kids[c])].type = u.kids[c]
                   /\ Normalize[n - 1][Part(a, a.kids[c])].len = Extent(a, a.kids[c])
                   /\ PyValues[n - 1][Normalize[n - 1][Part(a, a.kids[c])]]
                        = PyValues[n - 1][InPlace[n - 1][Part(a, a.kids[c])]]
        <5>1. PICK part : part = Part(a, a.kids[c])
          OBVIOUS
        <5>2. /\ From(a) \in Nat /\ Extent(a, a.kids[c]) \in Nat
              /\ From(a) + Extent(a, a.kids[c]) <= a.kids[c].len
              /\ part = Slice(a.kids[c], From(a), Extent(a, a.kids[c]))
          BY <2>1, <3>6, <5>1, PartOf
        <5>3. part \in Arrays[n - 1] /\ part.type = t.kids[c] /\ part.len = Extent(a, a.kids[c])
          <6>1. a.kids[c] \in Arrays[n - 1] /\ a.kids[c].type = t.kids[c] /\ n - 1 \in 0..Depth
            BY <4>4
          <6>2. /\ Slice(a.kids[c], From(a), Extent(a, a.kids[c])) \in Arrays[n - 1]
                /\ Slice(a.kids[c], From(a), Extent(a, a.kids[c])).type = a.kids[c].type
                /\ Slice(a.kids[c], From(a), Extent(a, a.kids[c])).len = Extent(a, a.kids[c])
            BY <5>2, <6>1, SliceOf
          <6>3. QED
            BY <5>2, <6>1, <6>2
        <5>4. Right(n - 1, part)
          <6> HIDE DEF Right
          <6>1. Normalizable[n - 1][part.type]
            BY <4>5, <5>3
          <6>2. QED
            BY <1>2, <5>3, <6>1
        <5>5. NormalizedType[n - 1][part.type] = u.kids[c]
          BY <4>3, <4>4, <5>3
        <5>6. QED
          BY <5>1, <5>3, <5>4, <5>5
      <4>7. DOMAIN u.kids = DOMAIN a.kids
        BY <4>3, <4>4
      <4> HIDE DEF u
      <4>8. Rebuild(a, u, Normalize[n - 1]) \in Arrays[n]
        BY <2>1, <3>2, <3>6, <4>3, <4>6, <4>7, RebuildIs
      <4>9. PyValues[n][Rebuild(a, u, Normalize[n - 1])] = PyValues[n][InPlace[n][a]]
        <5>1. /\ a.type.kind \in Rebuilt /\ u \in Types[n] /\ u.kind = a.type.kind /\ u.size = a.type.size
              /\ DOMAIN u.kids = DOMAIN a.kids
          BY <3>2, <3>6, <4>3, <4>7
        <5>2. PICK below : below = Normalize[n - 1]
          OBVIOUS
        <5>3. \A c \in DOMAIN a.kids :
                /\ below[Part(a, a.kids[c])] \in Arrays[n - 1]
                /\ below[Part(a, a.kids[c])].type = u.kids[c]
                /\ below[Part(a, a.kids[c])].len = Extent(a, a.kids[c])
                /\ PyValues[n - 1][below[Part(a, a.kids[c])]] = PyValues[n - 1][InPlace[n - 1][Part(a, a.kids[c])]]
          BY <4>6, <5>2
        <5>4. PyValues[n][Rebuild(a, u, below)] = PyValues[n][InPlace[n][a]]
          BY <2>1, <5>1, <5>3, RebuildValues
        <5>5. QED
          BY <5>2, <5>4
      <4>10. Rebuild(a, u, Normalize[n - 1]).type = u /\ Rebuild(a, u, Normalize[n - 1]).len = a.len
        BY <2>1, ArrayAtLevel DEF Rebuild
      <4>11. QED
        BY <3>3, <3>6, <4>8, <4>9, <4>10 DEF u
    <3>7. CASE u # t /\ t.kind \in {"us", "opaque"}
      BY <3>2, <3>7 DEF NormalizedOver, Rebuilt
    <3>8. QED
      BY <3>1, <3>4, <3>5, <3>6, <3>7 DEF Scalar
  <2> HIDE DEF Right
  <2>3. QED
    BY <2>1, <2>2
<1>3. QED
  <2> HIDE DEF right
  <2>1. \A n \in 0..Depth : n \in right
    BY <1>1, <1>2, EveryLevel
  <2>2. QED
    BY <2>1 DEF right

-----------------------------------------------------------------------------
(* A column                                                                 *)

Answer == {"none", "rows", "unsupported", "dataError"}

\* The chunks so far are those of the column, each as it is or normalized.
ChunksInv ==
  /\ chunks # <<>> => Supported
  /\ \/ AsItIs /\ chunks \in {<<>>, column.chunks}
     \/ /\ ~AsItIs
        /\ chunks \in Seq(Arrays[Depth]) /\ Len(chunks) <= Len(column.chunks)
        /\ \A k \in 1..Len(chunks) : chunks[k] = Normalize[Depth][column.chunks[k]]

\* An answer is given of all of them, or of none.
AnswerInv ==
  /\ answer \in Answer
  /\ answer = "unsupported" => ~Supported
  /\ answer \in {"rows", "dataError"} => Supported
  /\ answer = "rows" => /\ Len(chunks) = Len(column.chunks)
                        /\ rows = [k \in DOMAIN chunks |-> PyValues[Depth][chunks[k]]]

ColumnInv == column \in Columns /\ ChunksInv /\ AnswerInv

LEMMA ColumnIs ==
  ASSUME column \in Columns
  PROVE  /\ Depth \in 0..Depth /\ column.type \in Types[Depth]
         /\ column.chunks \in Seq(Arrays[Depth])
         /\ \A k \in 1..Len(column.chunks) : column.chunks[k] \in Arrays[Depth] /\ column.chunks[k].type = column.type
<1>1. Depth \in Nat /\ column \in Column
  BY ColumnsAssumption DEF ColumnsAssumption
<1>2. column.type \in Types[Depth] /\ column.chunks \in Seq(Arrays[Depth])
      /\ \A k \in DOMAIN column.chunks : column.chunks[k].type = column.type
  BY <1>1 DEF Column
<1>3. QED
  BY <1>1, <1>2

LEMMA ColumnInit == InitColumn => ColumnInv
BY ColumnIs DEF InitColumn, ColumnInv, ChunksInv, AnswerInv, Answer

LEMMA ColumnStep == ColumnInv /\ [NextColumn]_columnVars => ColumnInv'
<1> SUFFICES ASSUME ColumnInv, [NextColumn]_columnVars PROVE ColumnInv'
  OBVIOUS
<1>0. /\ column \in Columns /\ Depth \in 0..Depth /\ column.type \in Types[Depth]
      /\ column.chunks \in Seq(Arrays[Depth])
      /\ \A k \in 1..Len(column.chunks) : column.chunks[k] \in Arrays[Depth] /\ column.chunks[k].type = column.type
  BY ColumnIs DEF ColumnInv
<1>1. CASE Refuse
  BY <1>1 DEF Refuse, ColumnInv, ChunksInv, AnswerInv, Answer, Supported, AsItIs
<1>2. CASE NormalizeChunk
  <2>1. /\ answer = "none" /\ Supported /\ Len(chunks) < Len(column.chunks)
        /\ column' = column /\ answer' = answer /\ rows' = rows
        /\ chunks' = IF AsItIs THEN column.chunks
                     ELSE Append(chunks, Normalize[Depth][column.chunks[Len(chunks) + 1]])
    BY <1>2 DEF NormalizeChunk
  <2>2. Supported' = Supported /\ AsItIs' = AsItIs
    BY <2>1 DEF Supported, AsItIs
  <2>3. AnswerInv'
    BY <2>1, <2>2 DEF AnswerInv, ColumnInv, Answer
  <2>4. ASSUME AsItIs PROVE ChunksInv'
    <3>1. chunks' = column'.chunks /\ Supported' /\ AsItIs'
      BY <2>1, <2>2, <2>4
    <3>2. QED
      BY <3>1 DEF ChunksInv
  <2>5. ASSUME ~AsItIs PROVE ChunksInv'
    <3>1. /\ chunks \in Seq(Arrays[Depth]) /\ Len(chunks) <= Len(column.chunks)
          /\ \A k \in 1..Len(chunks) : chunks[k] = Normalize[Depth][column.chunks[k]]
      BY <2>5 DEF ColumnInv, ChunksInv
    <3>2. Len(chunks) + 1 \in 1..Len(column.chunks) /\ Len(chunks) \in Nat
      BY <1>0, <2>1, <3>1
    <3>3. PICK new : new = Normalize[Depth][column.chunks[Len(chunks) + 1]]
      OBVIOUS
    <3>4. new \in Arrays[Depth]
      BY <1>0, <2>1, <3>2, <3>3, NormalizeOf DEF Supported
    <3>5. chunks' = Append(chunks, new)
      BY <2>1, <2>5, <3>3
    <3>6. /\ chunks' \in Seq(Arrays[Depth]) /\ Len(chunks') = Len(chunks) + 1
          /\ \A k \in 1..Len(chunks') : chunks'[k] = IF k = Len(chunks) + 1 THEN new ELSE chunks[k]
      BY <3>1, <3>2, <3>4, <3>5
    <3>7. \A k \in 1..Len(chunks') : chunks'[k] = Normalize[Depth][column.chunks[k]]
      BY <3>1, <3>2, <3>3, <3>6
    <3>8. QED
      <4>1. Supported' /\ ~AsItIs'
        BY <2>1, <2>2, <2>5
      <4>2. chunks' \in Seq(Arrays[Depth]) /\ Len(chunks') <= Len(column'.chunks)
        BY <1>0, <2>1, <3>2, <3>6
      <4>3. \A k \in 1..Len(chunks') : chunks'[k] = Normalize[Depth][column'.chunks[k]]
        BY <2>1, <3>7
      <4>4. QED
        BY <4>1, <4>2, <4>3 DEF ChunksInv
  <2>6. QED
    BY <1>0, <2>1, <2>3, <2>4, <2>5 DEF ColumnInv
<1>3. CASE ToPyList
  BY <1>3 DEF ToPyList, ColumnInv, ChunksInv, AnswerInv, Answer, Supported, AsItIs
<1>4. CASE UNCHANGED columnVars
  BY <1>4 DEF columnVars, ColumnInv, ChunksInv, AnswerInv, Supported, AsItIs
<1>5. QED
  BY <1>1, <1>2, <1>3, <1>4 DEF NextColumn

LEMMA ColumnInvariant == SpecColumn => []ColumnInv
BY ColumnInit, ColumnStep, PTL DEF SpecColumn

\* The chunks that are converted have the normalized type, and the values of
\* those received, truncated in place.
LEMMA ConvertedChunks ==
  ASSUME ColumnInv, answer = "rows"
  PROVE  /\ Len(chunks) = Len(column.chunks) /\ DOMAIN chunks = DOMAIN column.chunks
         /\ \A k \in DOMAIN chunks :
              /\ chunks[k].type = NormalizedType[Depth][column.type]
              /\ PyValues[Depth][chunks[k]] = PyValues[Depth][InPlace[Depth][column.chunks[k]]]
<1>0. /\ Depth \in 0..Depth /\ column.type \in Types[Depth]
      /\ column.chunks \in Seq(Arrays[Depth])
      /\ \A k \in 1..Len(column.chunks) : column.chunks[k] \in Arrays[Depth] /\ column.chunks[k].type = column.type
  BY ColumnIs DEF ColumnInv
<1>1. Supported /\ Len(chunks) = Len(column.chunks)
  BY DEF ColumnInv, AnswerInv
<1>2. CASE AsItIs
  <2>1. chunks = column.chunks
    <3>1. chunks \in {<<>>, column.chunks}
      BY <1>2 DEF ColumnInv, ChunksInv
    <3>2. chunks = <<>> => column.chunks = <<>>
      BY <1>0, <1>1
    <3>3. QED
      BY <3>1, <3>2
  <2>2. \A m \in Nodes[Depth][column.type] : m.kind # "ns"
    BY <1>0, <1>1, <1>2, NormalizedNodes DEF Supported, AsItIs
  <2>3. \A k \in 1..Len(column.chunks) : InPlace[Depth][column.chunks[k]] = column.chunks[k]
    BY <1>0, <2>2, PlainInPlace
  <2>4. DOMAIN column.chunks = 1..Len(column.chunks)
    BY <1>0
  <2>5. QED
    BY <1>0, <1>2, <2>1, <2>3, <2>4 DEF AsItIs
<1>3. CASE ~AsItIs
  <2>1. chunks \in Seq(Arrays[Depth]) /\ \A k \in 1..Len(chunks) : chunks[k] = Normalize[Depth][column.chunks[k]]
    BY <1>3 DEF ColumnInv, ChunksInv
  <2>2. DOMAIN chunks = 1..Len(column.chunks) /\ DOMAIN column.chunks = 1..Len(column.chunks)
    BY <1>0, <1>1, <2>1
  <2>3. ASSUME NEW k \in 1..Len(column.chunks)
        PROVE  /\ chunks[k].type = NormalizedType[Depth][column.type]
               /\ PyValues[Depth][chunks[k]] = PyValues[Depth][InPlace[Depth][column.chunks[k]]]
    <3>1. chunks[k] = Normalize[Depth][column.chunks[k]]
      BY <1>1, <2>1
    <3>2. column.chunks[k] \in Arrays[Depth] /\ column.chunks[k].type = column.type /\ Depth \in 0..Depth
      BY <1>0
    <3>3. Normalizable[Depth][column.chunks[k].type]
      BY <1>1, <3>2 DEF Supported
    <3>4. QED
      BY <3>1, <3>2, <3>3, NormalizeOf
  <2>4. QED
    BY <1>1, <2>2, <2>3
<1>4. QED
  BY <1>2, <1>3

\* RowsAreTruncated: whatever a column holds, at any depth and in any window,
\* its rows are those of the same arrays with the nanosecond buffers divided by
\* 1,000 toward zero.
THEOREM TruncatedRows == SpecColumn => []RowsAreTruncated
<1>1. ColumnInv => RowsAreTruncated
  <2>1. SUFFICES ASSUME ColumnInv, answer = "rows"
                 PROVE  rows = [k \in DOMAIN column.chunks |-> PyValues[Depth][InPlace[Depth][column.chunks[k]]]]
    BY DEF RowsAreTruncated
  <2>2. rows = [k \in DOMAIN chunks |-> PyValues[Depth][chunks[k]]]
    BY <2>1 DEF ColumnInv, AnswerInv
  <2>3. QED
    BY <2>1, <2>2, ConvertedChunks
<1>2. QED
  BY <1>1, ColumnInvariant, PTL

\* MicrosecondsOrRefused: no nanosecond type is left in what is converted, and
\* a column is refused exactly for one within a container that is not rebuilt.
THEOREM NanosecondsConvertedOrRefused == SpecColumn => []MicrosecondsOrRefused
<1>1. ColumnInv => MicrosecondsOrRefused
  <2>1. SUFFICES ASSUME ColumnInv PROVE MicrosecondsOrRefused
    OBVIOUS
  <2>2. Depth \in 0..Depth /\ column.type \in Types[Depth]
    BY <2>1, ColumnIs DEF ColumnInv
  <2>3. ASSUME answer = "rows", NEW k \in DOMAIN chunks, NEW m \in Nodes[Depth][chunks[k].type]
        PROVE  m.kind # "ns"
    <3>1. chunks[k].type = NormalizedType[Depth][column.type]
      BY <2>1, <2>3, ConvertedChunks
    <3>2. Normalizable[Depth][column.type]
      BY <2>1, <2>3 DEF ColumnInv, AnswerInv, Supported
    <3>3. QED
      BY <2>2, <2>3, <3>1, <3>2, NormalizedNodes
  <2>4. ASSUME answer # "none"
        PROVE  answer = "unsupported" <=> \E m \in Nodes[Depth][column.type] : m.kind = "ns" /\ "opaque" \in m.inside
    <3>1. answer = "unsupported" <=> ~Normalizable[Depth][column.type]
      BY <2>1, <2>4 DEF ColumnInv, AnswerInv, Answer, Supported
    <3>2. QED
      BY <2>2, <3>1, NormalizableNodes
  <2>5. QED
    BY <2>3, <2>4 DEF MicrosecondsOrRefused
<1>2. QED
  BY <1>1, ColumnInvariant, PTL
=============================================================================
