------------------------- MODULE TableMetadataProofs -------------------------
(***************************************************************************)
(* Theorems about TableMetadata, for answers of any number of endpoints    *)
(* and any names, schemas and column lists.                                *)
(***************************************************************************)
EXTENDS TableMetadata, TLAPS

LEMMA EndpointFields ==
  ASSUME NEW e \in Endpoint
  PROVE  /\ e.name \in Name \cup {None, Malformed}
         /\ e.schema \in DbSchema \cup {None}
         /\ e.cell \in Cell
         /\ e.type \in RelationType \cup {"absent"}
BY DEF Endpoint

\* The variables keep their types; rows hold endpoints with a proper name.
RowsNamed == \A k \in 1..Len(rows) : rows[k].name \in Name

LEMMA TypeStep == ASSUME TypeOK /\ RowsNamed, [Next]_vars PROVE (TypeOK /\ RowsNamed)'
<1> USE DEF TypeOK
<1>1. CASE Collect
  <2> DEFINE e == endpoints[pos + 1]
  <2>1. pos + 1 \in 1..Len(endpoints) /\ e \in Endpoint
    BY <1>1 DEF Collect
  <2>2. CASE e.name = Malformed
    BY <1>1, <2>2 DEF Collect, Failed, ResultType, RowsNamed
  <2>3. CASE e.name # Malformed /\ e.name # None /\ Accepted(e)
    <3>1. rows' = Append(rows, e) /\ types' = SetDefault(e.name, e.type)
      BY <1>1, <2>3 DEF Collect
    <3>2. e.name \in Name /\ e.type \in RelationType \cup {"absent"}
      BY <2>1, <2>3, EndpointFields
    <3>3. types' \in [Name -> RelationType \cup {"absent", "unset"}]
      BY <3>1, <3>2 DEF SetDefault
    <3>4. rows' \in Seq(Endpoint) /\ RowsNamed'
      BY <3>1, <3>2, <2>1 DEF RowsNamed
    <3>5. QED
      BY <1>1, <2>3, <3>3, <3>4 DEF Collect
  <2>4. CASE e.name # Malformed /\ ~(e.name # None /\ Accepted(e))
    BY <1>1, <2>4 DEF Collect, RowsNamed
  <2>5. QED
    BY <2>2, <2>3, <2>4
<1>2. CASE StartParse
  BY <1>2 DEF StartParse, RowsNamed
<1>3. CASE ParseRow
  <2>1. pos + 1 \in 1..Len(rows) /\ rows[pos + 1] \in Endpoint
    BY <1>3 DEF ParseRow
  <2>2. \A known : Learned(known, rows[pos + 1].cell) \in {"unseen", "invalid"} \cup Columns
    BY <2>1, EndpointFields DEF Learned, Cell
  <2>3. CASE pc' = "done"
    BY <1>3, <2>3 DEF ParseRow, RowsNamed, Failed, ResultType
  <2>4. CASE pc' # "done"
    BY <1>3, <2>1, <2>2, <2>4 DEF ParseRow, RowsNamed
  <2>5. QED
    BY <2>3, <2>4
<1>4. CASE Finish
  <2>1. Names \subseteq Name
    BY DEF Names, RowsNamed
  <2>2. Supported \in BOOLEAN /\ Described \subseteq Name
    BY <2>1 DEF Supported, Described
  <2>3. result' \in ResultType
    BY <1>4, <2>1, <2>2 DEF Finish, Answer, ResultType
  <2>4. QED
    BY <1>4, <2>3 DEF Finish, RowsNamed
<1>5. CASE UNCHANGED vars
  BY <1>5 DEF vars, RowsNamed
<1>6. QED
  BY <1>1, <1>2, <1>3, <1>4, <1>5 DEF Next

LEMMA TypeInit == ASSUME Init PROVE TypeOK /\ RowsNamed
<1>1. endpoints \in Seq(Endpoint)
  <2>1. PICK n \in 0..MaxEndpoints : endpoints \in [1..n -> Reported]
    BY DEF Init
  <2>2. n \in Nat /\ Reported \subseteq Endpoint
    BY ConstantsAssumption DEF ConstantsAssumption
  <2>3. QED
    BY <2>1, <2>2
<1>2. result \in ResultType
  BY DEF Init, NoResult, ResultType
<1>3. types \in [Name -> RelationType \cup {"absent", "unset"}]
  BY DEF Init
<1>4. parsed \in [Name -> {"unseen", "invalid"} \cup Columns]
  BY DEF Init
<1>5. rows \in Seq(Endpoint) /\ RowsNamed
  BY DEF Init, RowsNamed
<1>6. QED
  BY <1>1, <1>2, <1>3, <1>4, <1>5 DEF Init, TypeOK

LEMMA TypeAlways == Spec => [](TypeOK /\ RowsNamed)
BY TypeInit, TypeStep, PTL DEF Spec

\* The types of TableMetadata's variables hold in every reachable state.
THEOREM TypeCorrect == Spec => []TypeOK
BY TypeAlways, PTL

-----------------------------------------------------------------------------
(* The two loops *)

\* The first loop: an endpoint adds its row, if it has one that counts.
LEMMA CollectStep ==
  ASSUME TypeOK, CollectInv, ResultInv, Collect
  PROVE  CollectInv'
<1> DEFINE e == endpoints[pos + 1]
<1>1. /\ pos \in Nat /\ pos + 1 \in 1..Len(endpoints) /\ Len(endpoints) \in Nat
      /\ e \in Endpoint /\ rows \in Seq(Endpoint)
  BY DEF Collect, TypeOK
<1>2. /\ RowSet = Kept(pos) /\ \A j \in 1..pos : endpoints[j].name # Malformed
      /\ endpoints' = endpoints /\ request' = request /\ result = NoResult
  BY DEF Collect, CollectInv, ResultInv
<1>3. CASE e.name = Malformed
  <2>1. pc' = "done" /\ result' = Failed
    BY <1>3 DEF Collect
  <2>2. QED
    BY <2>1 DEF CollectInv, Parsing, Failed
<1>4. CASE e.name # Malformed
  <2>1. pos' = pos + 1 /\ pc' = "collect" /\ result'.status # "parsed"
    BY <1>2, <1>4 DEF Collect, NoResult
  <2>2. \A j \in 1..pos' : endpoints'[j].name # Malformed
    BY <1>1, <1>2, <1>4, <2>1
  <2>3. Kept(pos + 1) = Kept(pos) \cup (IF e.name # None /\ Accepted(e) THEN {e} ELSE {})
    <3>1. 1..(pos + 1) = 1..pos \cup {pos + 1}
      BY <1>1
    <3>2. QED
      BY <3>1 DEF Kept
  <2>4. RowSet' = RowSet \cup (IF e.name # None /\ Accepted(e) THEN {e} ELSE {})
    <3>1. CASE e.name # None /\ Accepted(e)
      <4>1. rows' = Append(rows, e)
        BY <1>4, <3>1 DEF Collect
      <4>2. Len(rows') = Len(rows) + 1 /\ Len(rows) \in Nat
        BY <4>1, <1>1
      <4>3. \A k \in 1..Len(rows) : rows'[k] = rows[k]
        BY <4>1, <1>1
      <4>4. rows'[Len(rows) + 1] = e
        BY <4>1, <1>1
      <4>5. 1..(Len(rows) + 1) = 1..Len(rows) \cup {Len(rows) + 1}
        BY <4>2
      <4>6. QED
        BY <3>1, <4>2, <4>3, <4>4, <4>5 DEF RowSet
    <3>2. CASE ~(e.name # None /\ Accepted(e))
      BY <1>4, <3>2 DEF Collect, RowSet
    <3>3. QED
      BY <3>1, <3>2
  <2>5. RowSet' = Kept(pos)'
    <3>1. Kept(pos)' = Kept(pos + 1)
      BY <1>2, <2>1 DEF Kept, Accepted
    <3>2. QED
      BY <1>2, <2>3, <2>4, <3>1
  <2>6. QED
    BY <1>1, <1>2, <2>1, <2>2, <2>5 DEF CollectInv, Parsing
<1>5. QED
  BY <1>3, <1>4

\* The second loop: what is known of the names follows the rows decoded.
LEMMA DecodeStep ==
  ASSUME TypeOK, RowsNamed, DecodeInv, ResultInv, ParseRow, pc' = pc
  PROVE  DecodeInv'
<1> DEFINE r == rows[pos + 1]
<1>1. /\ pos \in Nat /\ pos + 1 \in 1..Len(rows) /\ Len(rows) \in Nat
      /\ r.name \in Name /\ pos' = pos + 1 /\ rows' = rows
      /\ parsed' = [parsed EXCEPT ![r.name] = Learned(@, r.cell)]
      /\ parsed \in [Name -> {"unseen", "invalid"} \cup Columns]
  BY DEF ParseRow, TypeOK, RowsNamed
<1>2. 1..pos' = 1..pos \cup {pos + 1}
  BY <1>1
<1>3. \A n \in Name : Ambiguous(n)' = Ambiguous(n)
  BY DEF ParseRow, Ambiguous, SchemasOf
<1>4. "invalid" \notin Columns /\ "unseen" \notin Columns
  BY ConstantsAssumption DEF ConstantsAssumption
<1> SUFFICES ASSUME NEW n \in Name
             PROVE  /\ parsed'[n] = "invalid" <=>
                         Ambiguous(n) \/ \E k \in 1..pos' : rows[k].name = n /\ rows[k].cell \notin Columns
                    /\ parsed'[n] \in Columns => \E k \in 1..pos' : rows[k].name = n /\ rows[k].cell = parsed'[n]
                    /\ parsed'[n] = "unseen" => \A k \in 1..pos' : rows[k].name # n
  BY <1>1, <1>3 DEF DecodeInv
<1>5. /\ parsed[n] = "invalid" <=>
           Ambiguous(n) \/ \E k \in 1..pos : rows[k].name = n /\ rows[k].cell \notin Columns
      /\ parsed[n] \in Columns => \E k \in 1..pos : rows[k].name = n /\ rows[k].cell = parsed[n]
      /\ parsed[n] = "unseen" => \A k \in 1..pos : rows[k].name # n
  BY DEF DecodeInv, Parsing, ParseRow
<1>6. CASE r.name # n
  <2>1. parsed'[n] = parsed[n]
    BY <1>1, <1>6
  <2>2. QED
    BY <1>2, <1>5, <1>6, <2>1
<1>7. CASE r.name = n /\ parsed[n] # "invalid" /\ r.cell \in Columns
  <2>1. parsed'[n] = r.cell
    BY <1>1, <1>7 DEF Learned
  <2>2. QED
    BY <1>2, <1>4, <1>5, <1>7, <2>1
<1>8. CASE r.name = n /\ ~(parsed[n] # "invalid" /\ r.cell \in Columns)
  <2>1. parsed'[n] = "invalid"
    BY <1>1, <1>8 DEF Learned
  <2>2. QED
    BY <1>2, <1>4, <1>5, <1>8, <2>1
<1>9. QED
  BY <1>6, <1>7, <1>8

LEMMA ParseStep ==
  ASSUME TypeOK, RowsNamed, ParseInv, [Next]_vars
  PROVE  ParseInv'
<1>1. CASE Collect
  <2>1. result = NoResult
    BY <1>1 DEF ParseInv, ResultInv, Collect
  <2>2. \/ result' = NoResult /\ pc' = "collect"
        \/ result' = Failed /\ pc' = "done"
    BY <1>1, <2>1 DEF Collect
  <2>3. DecodeInv' /\ ResultInv'
    BY <2>2 DEF DecodeInv, ResultInv, Parsing, NoResult, Failed
  <2>4. QED
    BY <1>1, <2>3, CollectStep DEF ParseInv
<1>2. CASE StartParse
  <2>1. /\ pc' = "parse" /\ pos' = 0 /\ rows' = rows /\ endpoints' = endpoints /\ request' = request
        /\ result' = result /\ result = NoResult
        /\ parsed' = [n \in Name |-> IF Ambiguous(n) THEN "invalid" ELSE "unseen"]
    BY <1>2 DEF StartParse, ParseInv, ResultInv
  <2>2. CollectInv'
    <3>1. RowSet' = RowSet /\ Kept(Len(endpoints))' = Kept(Len(endpoints))
      BY <2>1 DEF RowSet, Kept, Accepted
    <3>2. Len(rows) \in Nat
      BY DEF TypeOK
    <3>3. QED
      BY <1>2, <2>1, <3>1, <3>2 DEF StartParse, ParseInv, CollectInv
  <2>3. DecodeInv'
    <3>1. \A n \in Name : Ambiguous(n)' = Ambiguous(n)
      BY <2>1 DEF Ambiguous, SchemasOf
    <3>2. "invalid" \notin Columns /\ "unseen" \notin Columns
      BY ConstantsAssumption DEF ConstantsAssumption
    <3>3. \A k \in 1..pos' : FALSE
      BY <2>1
    <3>4. QED
      BY <2>1, <3>1, <3>2, <3>3 DEF DecodeInv
  <2>4. ResultInv'
    BY <2>1 DEF ResultInv, NoResult
  <2>5. QED
    BY <2>2, <2>3, <2>4 DEF ParseInv
<1>3. CASE ParseRow
  <2>1. CASE pc' = "done"
    <3>1. result' = Failed
      BY <1>3, <2>1 DEF ParseRow
    <3>2. QED
      BY <2>1, <3>1 DEF ParseInv, CollectInv, DecodeInv, ResultInv, Parsing, Failed
  <2>2. CASE pc' # "done"
    <3>1. /\ pos' = pos + 1 /\ pos < Len(rows) /\ rows' = rows /\ endpoints' = endpoints
          /\ request' = request /\ pc' = pc /\ pc = "parse" /\ result' = result /\ result = NoResult
      BY <1>3, <2>2 DEF ParseRow, ParseInv, ResultInv
    <3>2. RowSet' = RowSet /\ Kept(Len(endpoints))' = Kept(Len(endpoints))
      BY <3>1 DEF RowSet, Kept, Accepted
    <3>3. pos \in Nat /\ Len(rows) \in Nat
      BY DEF TypeOK
    <3>4. CollectInv'
      BY <3>1, <3>2, <3>3 DEF ParseInv, CollectInv, Parsing
    <3>5. ResultInv'
      BY <3>1 DEF ResultInv, NoResult
    <3>6. DecodeInv'
      BY <1>3, <3>1, DecodeStep DEF ParseInv
    <3>7. QED
      BY <3>4, <3>5, <3>6 DEF ParseInv
  <2>3. QED
    BY <2>1, <2>2
<1>4. CASE Finish
  <2>1. /\ pc = "parse" /\ pos = Len(rows) /\ pos' = pos /\ rows' = rows /\ parsed' = parsed
        /\ endpoints' = endpoints /\ request' = request /\ pc' = "done"
        /\ result'.names = Names /\ result'.described = Described /\ result'.supported = Supported
    BY <1>4 DEF Finish, Answer
  <2>2. RowSet' = RowSet /\ Kept(Len(endpoints))' = Kept(Len(endpoints))
    BY <2>1 DEF RowSet, Kept, Accepted
  <2>3. Names' = Names /\ Described' = Described /\ Supported' = Supported
    BY <2>1 DEF Names, Described, Supported
  <2>4. \A n \in Name : Ambiguous(n)' = Ambiguous(n)
    BY <2>1 DEF Ambiguous, SchemasOf
  <2>5. CollectInv'
    BY <2>1, <2>2 DEF ParseInv, CollectInv, Parsing
  <2>6. DecodeInv'
    BY <2>1, <2>4 DEF ParseInv, DecodeInv, Parsing
  <2>7. ResultInv'
    BY <2>1, <2>3 DEF ResultInv
  <2>8. QED
    BY <2>5, <2>6, <2>7 DEF ParseInv
<1>5. CASE UNCHANGED vars
  <2>1. RowSet' = RowSet /\ (\A m : Kept(m)' = Kept(m)) /\ (\A n \in Name : Ambiguous(n)' = Ambiguous(n))
    BY <1>5 DEF vars, RowSet, Kept, Accepted, Ambiguous, SchemasOf
  <2>2. Names' = Names /\ Described' = Described /\ Supported' = Supported
    BY <1>5 DEF vars, Names, Described, Supported
  <2>3. CollectInv'
    BY <1>5, <2>1 DEF vars, ParseInv, CollectInv, Parsing
  <2>4. DecodeInv'
    BY <1>5, <2>1 DEF vars, ParseInv, DecodeInv, Parsing
  <2>5. ResultInv'
    BY <1>5, <2>2 DEF vars, ParseInv, ResultInv
  <2>6. QED
    BY <2>3, <2>4, <2>5 DEF ParseInv
<1>6. QED
  BY <1>1, <1>2, <1>3, <1>4, <1>5 DEF Next

LEMMA ParseInit == ASSUME Init PROVE ParseInv
<1>1. pc = "collect" /\ pos = 0 /\ rows = <<>> /\ result = NoResult /\ ~Parsing /\ Len(endpoints) \in Nat
  BY TypeInit DEF Init, NoResult, Parsing, TypeOK
<1>2. RowSet = {} /\ Kept(0) = {}
  BY <1>1 DEF RowSet, Kept
<1>3. QED
  BY <1>1, <1>2 DEF ParseInv, CollectInv, DecodeInv, ResultInv, NoResult

\* The two loops establish what ParseInv says of the rows seen so far.
THEOREM ParseInvariant == Spec => []ParseInv
BY TypeInit, TypeStep, ParseInit, ParseStep, PTL DEF Spec

-----------------------------------------------------------------------------
(* What the result says *)

\* The rows kept for a name are those that count for it.
LEMMA RowsAreCounting ==
  ASSUME TypeOK, ParseInv, result.status = "parsed", NEW n \in Name
  PROVE  /\ \A k \in 1..Len(rows) : rows[k].name = n =>
              \E j \in Counting(n) : endpoints[j] = rows[k]
         /\ \A j \in Counting(n) : \E k \in 1..Len(rows) : rows[k].name = n /\ rows[k] = endpoints[j]
<1>1. RowSet = Kept(Len(endpoints))
  BY DEF ParseInv, CollectInv, Parsing
<1>2. n # None
  BY ConstantsAssumption DEF ConstantsAssumption
<1>3. ASSUME NEW k \in 1..Len(rows), rows[k].name = n
      PROVE  \E j \in Counting(n) : endpoints[j] = rows[k]
  <2>1. rows[k] \in Kept(Len(endpoints))
    BY <1>1 DEF RowSet
  <2>2. PICK j \in 1..Len(endpoints) : Accepted(endpoints[j]) /\ endpoints[j] = rows[k]
    BY <2>1 DEF Kept
  <2>3. QED
    BY <1>3, <2>2 DEF Counting
<1>4. ASSUME NEW j \in Counting(n)
      PROVE  \E k \in 1..Len(rows) : rows[k].name = n /\ rows[k] = endpoints[j]
  <2>1. endpoints[j] \in Kept(Len(endpoints)) /\ endpoints[j].name = n
    BY <1>2 DEF Kept, Counting
  <2>2. endpoints[j] \in RowSet
    BY <1>1, <2>1
  <2>3. PICK k \in 1..Len(rows) : rows[k] = endpoints[j]
    BY <2>2 DEF RowSet
  <2>4. QED
    BY <2>1, <2>3
<1>5. QED
  BY <1>3, <1>4

\* Ambiguity found among the rows kept is contention among the rows that count.
LEMMA AmbiguousIsContested ==
  ASSUME TypeOK, ParseInv, result.status = "parsed", NEW n \in Name
  PROVE  Ambiguous(n) <=> Contested(n)
<1>1. ASSUME Ambiguous(n) PROVE Contested(n)
  <2>1. PICK s, t \in SchemasOf(n) : s # t
    BY <1>1 DEF Ambiguous
  <2>2. PICK k \in 1..Len(rows) : rows[k].name = n /\ rows[k].schema = s
    BY <2>1 DEF SchemasOf
  <2>3. PICK l \in 1..Len(rows) : rows[l].name = n /\ rows[l].schema = t
    BY <2>1 DEF SchemasOf
  <2>4. PICK i \in Counting(n) : endpoints[i] = rows[k]
    BY <2>2, RowsAreCounting
  <2>5. PICK j \in Counting(n) : endpoints[j] = rows[l]
    BY <2>3, RowsAreCounting
  <2>6. QED
    BY <1>1, <2>1, <2>2, <2>3, <2>4, <2>5 DEF Ambiguous, Contested
<1>2. ASSUME Contested(n) PROVE Ambiguous(n)
  <2>1. PICK i, j \in Counting(n) : endpoints[i].schema # endpoints[j].schema
    BY <1>2 DEF Contested
  <2>2. PICK k \in 1..Len(rows) : rows[k].name = n /\ rows[k] = endpoints[i]
    BY <2>1, RowsAreCounting
  <2>3. PICK l \in 1..Len(rows) : rows[l].name = n /\ rows[l] = endpoints[j]
    BY <2>1, RowsAreCounting
  <2>4. rows[k].schema \in SchemasOf(n) /\ rows[l].schema \in SchemasOf(n)
    BY <2>2, <2>3 DEF SchemasOf
  <2>5. QED
    BY <1>2, <2>1, <2>2, <2>3, <2>4 DEF Ambiguous, Contested
<1>3. QED
  BY <1>1, <1>2

LEMMA ParsedExactly ==
  ASSUME TypeOK, ParseInv, result.status = "parsed", NEW n \in Name
  PROVE  /\ n \in Names <=> Counting(n) # {}
         /\ n \in Described <=> Describable(n)
<1>1. n \in Names <=> Counting(n) # {}
  BY RowsAreCounting DEF Names
<1>2. /\ parsed[n] = "invalid" <=>
           Ambiguous(n) \/ \E k \in 1..Len(rows) : rows[k].name = n /\ rows[k].cell \notin Columns
      /\ parsed[n] = "unseen" => \A k \in 1..Len(rows) : rows[k].name # n
  BY DEF ParseInv, DecodeInv, ResultInv, Parsing
<1>3. "invalid" \notin Columns /\ "unseen" \notin Columns
  BY ConstantsAssumption DEF ConstantsAssumption
<1>4. parsed[n] \in {"unseen", "invalid"} \cup Columns
  BY DEF TypeOK
<1>5. (\E k \in 1..Len(rows) : rows[k].name = n /\ rows[k].cell \notin Columns)
        <=> (\E j \in Counting(n) : endpoints[j].cell \notin Columns)
  BY RowsAreCounting
<1>6. n \in Described <=> n \in Names /\ parsed[n] # "invalid"
  <2>1. n \in Names => parsed[n] # "unseen"
    BY <1>2 DEF Names
  <2>2. QED
    BY <1>3, <1>4, <2>1 DEF Described
<1>7. QED
  BY <1>1, <1>2, <1>5, <1>6, AmbiguousIsContested DEF Describable

\* A name has columns exactly if all its rows decode and one schema reports it.
THEOREM ExactlyDescribed == Spec => []DescribedExactly
<1>1. TypeOK /\ RowsNamed /\ ParseInv => DescribedExactly
  <2> SUFFICES ASSUME TypeOK, RowsNamed, ParseInv, result.status = "parsed"
               PROVE  result.described = {n \in Name : Describable(n)}
    BY DEF DescribedExactly
  <2>1. result.described = Described
    BY DEF ParseInv, ResultInv
  <2>2. Described \subseteq Name
    BY DEF Described, Names, RowsNamed
  <2>3. QED
    BY <2>1, <2>2, ParsedExactly
<1>2. QED
  BY <1>1, TypeAlways, ParseInvariant, PTL

\* An answer that claims complete schemas needs no probe, and loses no name.
THEOREM CompleteSupport == Spec => []SupportIsComplete
<1>1. TypeOK /\ RowsNamed /\ ParseInv => SupportIsComplete
  <2> SUFFICES ASSUME TypeOK, RowsNamed, ParseInv, result.status = "parsed"
               PROVE  /\ result.names = {n \in Name : Counting(n) # {}}
                      /\ result.supported <=> \A n \in result.names : Describable(n)
    BY DEF SupportIsComplete
  <2>1. result.names = Names /\ result.supported = (Described = Names)
    BY DEF ParseInv, ResultInv, Supported
  <2>2. Described \subseteq Names /\ Names \subseteq Name
    BY DEF Described, Names, RowsNamed
  <2>3. result.names = {n \in Name : Counting(n) # {}}
    BY <2>1, <2>2, ParsedExactly
  <2>4. \A n \in Names : n \in Described <=> Describable(n)
    BY <2>2, ParsedExactly
  <2>5. (Described = Names) <=> \A n \in Names : n \in Described
    BY <2>2
  <2>6. QED
    BY <2>1, <2>3, <2>4, <2>5
<1>2. QED
  BY <1>1, TypeAlways, ParseInvariant, PTL

\* A described name has the columns of a row of its own name and schema.
THEOREM OwnColumns == Spec => []ColumnsAreItsOwn
<1>1. TypeOK /\ RowsNamed /\ ParseInv => ColumnsAreItsOwn
  <2> SUFFICES ASSUME TypeOK, RowsNamed, ParseInv, result.status = "parsed",
                      NEW n \in result.described
               PROVE  \E k \in 1..Len(endpoints) :
                        /\ endpoints[k].name = n /\ endpoints[k].cell = parsed[n]
                        /\ request # None => endpoints[k].schema \in {None, request}
                        /\ request = None => \A j \in 1..Len(endpoints) :
                             endpoints[j].name = n => endpoints[j].schema = endpoints[k].schema
    BY DEF ColumnsAreItsOwn
  <2>1. n \in Described /\ n \in Name
    BY DEF ParseInv, ResultInv, Described, Names, RowsNamed
  <2>2. PICK k \in 1..Len(rows) : rows[k].name = n /\ rows[k].cell = parsed[n]
    BY <2>1 DEF ParseInv, DecodeInv, ResultInv, Parsing, Described
  <2>3. PICK j \in Counting(n) : endpoints[j] = rows[k]
    BY <2>1, <2>2, RowsAreCounting
  <2>4. ~Contested(n)
    BY <2>1, ParsedExactly DEF Describable
  <2>5. request # None => endpoints[j].schema \in {None, request}
    BY <2>3 DEF Counting, Accepted
  <2>6. ASSUME request = None, NEW i \in 1..Len(endpoints), endpoints[i].name = n
        PROVE  endpoints[i].schema = endpoints[j].schema
    BY <2>3, <2>4, <2>6 DEF Counting, Accepted, Contested
  <2>7. QED
    BY <2>2, <2>3, <2>5, <2>6 DEF Counting
<1>2. QED
  BY <1>1, TypeAlways, ParseInvariant, PTL

-----------------------------------------------------------------------------
(* The types of the tables *)

\* After m endpoints a name has the type of the first of its rows that counts.
TypesUpTo(m) ==
  \A n \in Name :
    IF types[n] = "unset" THEN \A j \in Counting(n) : m < j
    ELSE \E k \in Counting(n) : /\ k <= m /\ types[n] = endpoints[k].type
                                /\ \A j \in Counting(n) : k <= j

TypesInv == /\ pc = "collect" => TypesUpTo(pos)
            /\ Parsing => TypesUpTo(Len(endpoints))

LEMMA TypesStep ==
  ASSUME TypeOK, ParseInv, TypesInv, [Next]_vars
  PROVE  TypesInv'
<1>1. UNCHANGED <<request, endpoints>> /\ \A n \in Name : Counting(n)' = Counting(n)
  <2>1. UNCHANGED <<request, endpoints>>
    BY DEF Next, Collect, StartParse, ParseRow, Finish, vars
  <2>2. QED
    BY <2>1 DEF Counting, Accepted
<1>2. /\ pos \in Nat /\ Len(endpoints) \in Nat
      /\ \A n \in Name : \A j \in Counting(n) : j \in 1..Len(endpoints)
  <2>1. \A n \in Name : Counting(n) \subseteq 1..Len(endpoints)
    BY DEF Counting
  <2>2. QED
    BY <2>1 DEF TypeOK
<1>3. ASSUME NEW m, UNCHANGED types, TypesUpTo(m)
      PROVE  /\ m = pos' => TypesUpTo(pos)'
             /\ m = Len(endpoints) => TypesUpTo(Len(endpoints))'
  BY <1>1, <1>3 DEF TypesUpTo
<1>4. CASE Collect
  <2> DEFINE e == endpoints[pos + 1]
  <2>1. /\ pc = "collect" /\ pos + 1 \in 1..Len(endpoints) /\ e \in Endpoint
        /\ result = NoResult
    BY <1>4 DEF Collect, TypeOK, ParseInv, ResultInv
  <2>2. CASE e.name = Malformed
    BY <1>4, <2>2 DEF Collect, TypesInv, Parsing, Failed
  <2>3. CASE e.name # Malformed
    <3>1. pos' = pos + 1 /\ pc' = "collect" /\ ~Parsing'
      BY <1>4, <2>1, <2>3 DEF Collect, Parsing, NoResult
    <3>2. TypesUpTo(pos)
      BY <2>1 DEF TypesInv
    <3>3. ASSUME NEW n \in Name
          PROVE  IF types'[n] = "unset" THEN \A j \in Counting(n) : pos + 1 < j
                 ELSE \E k \in Counting(n) : /\ k <= pos + 1 /\ types'[n] = endpoints[k].type
                                             /\ \A j \in Counting(n) : k <= j
      <4>1. CASE pos + 1 \in Counting(n)
        <5>1. e.name = n /\ e.name # None /\ Accepted(e)
          BY <4>1, ConstantsAssumption DEF ConstantsAssumption, Counting
        <5>2. types'[n] = IF types[n] = "unset" THEN e.type ELSE types[n]
          BY <1>4, <2>3, <5>1 DEF Collect, SetDefault, TypeOK
        <5>3. e.type # "unset"
          BY <2>1, EndpointFields DEF RelationType
        <5>4. CASE types[n] = "unset"
          <6>1. \A j \in Counting(n) : pos + 1 <= j
            BY <1>2, <3>2, <5>4 DEF TypesUpTo
          <6>2. QED
            BY <1>2, <4>1, <5>2, <5>3, <5>4, <6>1
        <5>5. CASE types[n] # "unset"
          BY <1>2, <3>2, <5>2, <5>5 DEF TypesUpTo
        <5>6. QED
          BY <5>4, <5>5
      <4>2. CASE pos + 1 \notin Counting(n)
        <5>1. ~(e.name = n /\ Accepted(e))
          BY <2>1, <4>2 DEF Counting
        <5>2. types'[n] = types[n]
          BY <1>4, <2>3, <5>1 DEF Collect, SetDefault, TypeOK
        <5>3. \A j \in Counting(n) : pos < j => pos + 1 < j
          BY <1>2, <4>2
        <5>4. QED
          BY <1>2, <3>2, <5>2, <5>3 DEF TypesUpTo
      <4>3. QED
        BY <4>1, <4>2
    <3>4. TypesUpTo(pos)'
      BY <1>1, <3>1, <3>3 DEF TypesUpTo
    <3>5. QED
      BY <3>1, <3>4 DEF TypesInv
  <2>4. QED
    BY <2>2, <2>3
<1>5. CASE StartParse
  <2>1. pc' = "parse" /\ UNCHANGED types /\ TypesUpTo(Len(endpoints))
    BY <1>5 DEF StartParse, TypesInv
  <2>2. QED
    BY <1>3, <2>1 DEF TypesInv
<1>6. CASE ParseRow \/ Finish
  <2>1. pc = "parse" /\ UNCHANGED types /\ pc' # "collect" /\ TypesUpTo(Len(endpoints))
    BY <1>6 DEF ParseRow, Finish, TypesInv, Parsing
  <2>2. QED
    BY <1>3, <2>1 DEF TypesInv
<1>7. CASE UNCHANGED vars
  <2>1. Parsing' = Parsing /\ UNCHANGED <<pc, pos, types>>
    BY <1>7 DEF vars, Parsing
  <2>2. QED
    BY <1>3, <2>1 DEF TypesInv
<1>8. QED
  BY <1>4, <1>5, <1>6, <1>7 DEF Next

\* When every endpoint reports types, a name has the type of its first row.
THEOREM OwnTypes == Spec => []TypesAreItsOwn
<1>1. ASSUME Init PROVE TypesInv
  <2>1. /\ pc = "collect" /\ pos = 0 /\ ~Parsing /\ \A n \in Name : types[n] = "unset"
        /\ endpoints \in Seq(Endpoint)
    BY <1>1, TypeInit DEF Init, Parsing, NoResult, TypeOK
  <2>2. TypesUpTo(0)
    <3>1. ASSUME NEW n \in Name, NEW j \in Counting(n) PROVE 0 < j
      BY <2>1, <3>1 DEF Counting
    <3>2. QED
      BY <2>1, <3>1 DEF TypesUpTo
  <2>3. QED
    BY <2>1, <2>2 DEF TypesInv
<1>2. TypeOK /\ RowsNamed /\ ParseInv /\ TypesInv => TypesAreItsOwn
  <2> SUFFICES ASSUME TypeOK, RowsNamed, ParseInv, TypesInv, result.status = "parsed",
                      NEW n \in result.names
               PROVE  \E k \in Counting(n) : /\ endpoints[k].type = types[n]
                                             /\ \A j \in Counting(n) : k <= j
    BY DEF TypesAreItsOwn
  <2>1. n \in Names /\ n \in Name
    BY DEF ParseInv, ResultInv, Names, RowsNamed
  <2>2. PICK i \in Counting(n) : TRUE
    BY <2>1, ParsedExactly
  <2>3. Len(endpoints) \in Nat /\ i \in 1..Len(endpoints)
    BY <2>2 DEF Counting, TypeOK
  <2>4. TypesUpTo(Len(endpoints))
    BY DEF TypesInv, Parsing
  <2>5. types[n] # "unset"
    BY <2>1, <2>2, <2>3, <2>4 DEF TypesUpTo
  <2>6. QED
    BY <2>1, <2>4, <2>5 DEF TypesUpTo
<1>3. QED
  BY <1>1, <1>2, TypeAlways, ParseInvariant, TypesStep, PTL DEF Spec
=============================================================================
