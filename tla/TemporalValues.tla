--------------------------- MODULE TemporalValues ---------------------------
(***************************************************************************)
(* The values of one result column (flightsql/dbapi.py,                    *)
(* _dbapi_column_values): nanosecond timestamps, times and durations are   *)
(* truncated to microseconds wherever they are nested, by rebuilding the   *)
(* Arrow arrays around them.  A column comes in chunks, each of them a     *)
(* slice of larger buffers; an array is modelled as Arrow lays it out, so  *)
(* that every offset is where the code must account for it.                *)
(***************************************************************************)
EXTENDS Integers, Sequences

CONSTANTS
  None,       \* NULL
  Depth,      \* how deep types may be nested
  Columns     \* the columns a result may have

\* kind "ns": a temporal value in nanoseconds; "us": any other scalar;
\* "opaque": a container the code does not rebuild (views, run-end encoded,
\* extensions); else a container of the types in kids.
Rebuilt == {"list", "fixed", "struct", "map", "dictionary", "dense", "sparse"}
Scalar  == {"ns", "us"}
Spanned == {"list", "map", "opaque"}

TypesOver(below) ==
  {t \in [kind : Rebuilt \cup Scalar \cup {"opaque"}, size : Nat, kids : Seq(below)] :
     t.kind \in Scalar => t.kids = <<>>}
Types[n \in 0..Depth] == IF n = 0 THEN {} ELSE TypesOver(Types[n - 1])

\* An array is a window of len entries from off on of its buffers: valid; data,
\* which holds values, list offsets, dictionary indices or the child of each
\* entry of a union; pos, the places in the children of a dense union; and its
\* children, which have windows of their own.
Places(a) == (a.off + 1) .. (a.off + a.len)
Slice(a, off, len) == [a EXCEPT !.off = @ + off, !.len = len]
Window(a, buffer) == [i \in 1..a.len |-> buffer[a.off + i]]

\* What Arrow asks of an array: its buffers and children reach as far as its
\* window does, and what is not NULL refers to entries of its children.
WellFormed(a) ==
  /\ DOMAIN a.kids = DOMAIN a.type.kids
  /\ \A c \in DOMAIN a.kids : a.kids[c].type = a.type.kids[c]
  /\ a.off + a.len <= Len(a.valid)
  /\ a.type.kind \in Scalar \cup {"dictionary", "dense", "sparse"} => a.off + a.len <= Len(a.data)
  /\ a.type.kind \in {"list", "opaque", "fixed", "dictionary"} => DOMAIN a.kids = {1}
  /\ a.type.kind = "map" => DOMAIN a.kids = {1, 2}
  /\ a.type.kind \in Spanned =>
       /\ a.off + a.len + 1 <= Len(a.data)
       /\ \A p, q \in Places(a) \cup {a.off + a.len + 1} : p <= q => a.data[p] <= a.data[q]
       /\ a.data[a.off + 1] >= 0
       /\ \A c \in DOMAIN a.kids : a.data[a.off + a.len + 1] <= a.kids[c].len
  /\ a.type.kind = "fixed" => (a.off + a.len) * a.type.size <= a.kids[1].len
  /\ a.type.kind \in {"struct", "sparse"} => \A c \in DOMAIN a.kids : a.off + a.len <= a.kids[c].len
  /\ a.type.kind = "dictionary" =>
       \A p \in Places(a) : a.valid[p] => 0 <= a.data[p] /\ a.data[p] < a.kids[1].len
  /\ a.type.kind \in {"dense", "sparse"} =>
       \A p \in Places(a) : a.valid[p] => a.data[p] \in DOMAIN a.kids
  /\ a.type.kind = "dense" =>
       /\ a.off + a.len <= Len(a.pos)
       /\ \A p \in Places(a) : a.valid[p] => a.pos[p] < a.kids[a.data[p]].len

ArraysOver(types, below) ==
  {a \in [type : types, off : Nat, len : Nat, valid : Seq(BOOLEAN), data : Seq(Int),
          pos : Seq(Nat), kids : Seq(below)] : WellFormed(a)}
Arrays[n \in 0..Depth] == IF n = 0 THEN {} ELSE ArraysOver(Types[n], Arrays[n - 1])

Column == {c \in [type : Types[Depth], chunks : Seq(Arrays[Depth])] :
             \A k \in DOMAIN c.chunks : c.chunks[k].type = c.type}

ASSUME ColumnsAssumption == Depth \in Nat /\ Columns \subseteq Column

-----------------------------------------------------------------------------
(* Types *)

\* _contains_nanosecond_temporal
ContainsButDictionary(t, below) ==
  t.kind = "ns" \/ (t.kind # "dictionary" /\ \E i \in DOMAIN t.kids : below[t.kids[i]])
ContainsWithin(t, below) == t.kind = "ns" \/ \E i \in DOMAIN t.kids : below[t.kids[i]]
Contains[n \in 0..Depth] == [t \in Types[n] |-> ContainsWithin(t, Contains[n - 1])]

\* _normalized_temporal_type: no type for an opaque container with nanoseconds.
NormalizableOver(t, contains, below) ==
  IF t.kind \in Rebuilt THEN \A i \in DOMAIN t.kids : below[t.kids[i]]
  ELSE t.kind = "opaque" => ~contains[t]
Normalizable[n \in 0..Depth] ==
  [t \in Types[n] |-> NormalizableOver(t, Contains[n], Normalizable[n - 1])]

NormalizedOver(t, below) ==
  CASE t.kind = "ns"       -> [t EXCEPT !.kind = "us"]
    [] t.kind \in Rebuilt  -> [t EXCEPT !.kids = [i \in DOMAIN @ |-> below[@[i]]]]
    [] t.kind \in {"us", "opaque"} -> t
NormalizedType[n \in 0..Depth] == [t \in Types[n] |-> NormalizedOver(t, NormalizedType[n - 1])]

-----------------------------------------------------------------------------
(* Arrays *)

\* Arrow's unsafe cast of one entry.
Truncated(ns) == IF ns < 0 THEN -((-ns) \div 1000) ELSE ns \div 1000

\* _normalized_list_storage: offsets from 0 on, and the values they span.
Start(a) == a.data[a.off + 1]
Stop(a) == a.data[a.off + a.len + 1]
Offsets(a) == [i \in 1..(a.len + 1) |-> a.data[a.off + i] - Start(a)]

\* The part of each child that the new array is built over.
PartUnsliced(a, child) == child
Part(a, child) ==
  CASE a.type.kind \in {"list", "map"}      -> Slice(child, Start(a), Stop(a) - Start(a))
    [] a.type.kind = "fixed"                -> Slice(child, a.off * a.type.size, a.len * a.type.size)
    [] a.type.kind \in {"struct", "sparse"} -> Slice(child, a.off, a.len)
    [] a.type.kind \in {"dictionary", "dense"} -> child

\* What the new array holds itself.
OwnData(a) ==
  CASE a.type.kind = "ns"                           -> [i \in 1..a.len |-> Truncated(Window(a, a.data)[i])]
    [] a.type.kind \in {"list", "map"}              -> Offsets(a)
    [] a.type.kind \in {"fixed", "struct"}          -> <<>>
    [] a.type.kind \in {"dictionary", "dense", "sparse"} -> Window(a, a.data)

\* _normalize_temporal_array
Rebuild(a, type, below) ==
  [a EXCEPT !.type = type, !.off = 0, !.valid = Window(a, @), !.data = OwnData(a),
            !.pos = IF a.type.kind = "dense" THEN Window(a, @) ELSE <<>>,
            !.kids = [c \in DOMAIN @ |-> below[Part(a, @[c])]]]
Normalize[n \in 0..Depth] ==
  [a \in Arrays[n] |-> IF NormalizedType[n][a.type] = a.type THEN a
                       ELSE Rebuild(a, NormalizedType[n][a.type], Normalize[n - 1])]

\* to_pylist: the value at place p, from those of the children.
Entry(a, p, kid) ==
  LET Span(c) == [j \in 1..(a.data[p + 1] - a.data[p]) |-> kid[c][a.data[p] + j]]
  IN CASE a.type.kind \in Scalar   -> a.data[p]
       [] a.type.kind \in {"list", "opaque"} -> Span(1)
       [] a.type.kind = "map"      -> <<Span(1), Span(2)>>
       [] a.type.kind = "fixed"    -> [j \in 1..a.type.size |-> kid[1][(p - 1) * a.type.size + j]]
       [] a.type.kind = "struct"   -> [c \in DOMAIN a.kids |-> kid[c][p]]
       [] a.type.kind = "dictionary" -> kid[1][a.data[p] + 1]
       [] a.type.kind = "dense"    -> kid[a.data[p]][a.pos[p] + 1]
       [] a.type.kind = "sparse"   -> kid[a.data[p]][p]

PyValuesOver(a, below) ==
  LET kid == [c \in DOMAIN a.kids |-> below[a.kids[c]]]
  IN [i \in 1..a.len |-> IF a.valid[a.off + i] THEN Entry(a, a.off + i, kid) ELSE None]
PyValues[n \in 0..Depth] == [a \in Arrays[n] |-> PyValuesOver(a, PyValues[n - 1])]

-----------------------------------------------------------------------------
(* A column *)

VARIABLES
  column,   \* [type, chunks]
  chunks,   \* the chunks normalized so far
  answer,   \* "none" yet, "rows", "unsupported" or "dataError"
  rows      \* the values of each chunk

columnVars == <<column, chunks, answer, rows>>

InitColumn == column \in Columns /\ chunks = <<>> /\ answer = "none" /\ rows = <<>>

Supported == Normalizable[Depth][column.type]
AsItIs == NormalizedType[Depth][column.type] = column.type

\* _normalized_temporal_type raises NotSupportedError.
Refuse == /\ answer = "none" /\ chunks = <<>> /\ ~Supported
          /\ answer' = "unsupported"
          /\ UNCHANGED <<column, chunks, rows>>

\* One chunk; a type without nanoseconds leaves them all as they are.
NormalizeChunk ==
  /\ answer = "none" /\ Supported /\ Len(chunks) < Len(column.chunks)
  /\ chunks' = IF AsItIs THEN column.chunks
               ELSE Append(chunks, Normalize[Depth][column.chunks[Len(chunks) + 1]])
  /\ UNCHANGED <<column, answer, rows>>

\* Python's types may have no counterpart of a value; dbapi_results then raises
\* DataError.
ToPyList ==
  /\ answer = "none" /\ Supported /\ Len(chunks) = Len(column.chunks)
  /\ \/ answer' = "rows" /\ rows' = [k \in DOMAIN chunks |-> PyValues[Depth][chunks[k]]]
     \/ answer' = "dataError" /\ UNCHANGED rows
  /\ UNCHANGED <<column, chunks>>

NextColumn == Refuse \/ NormalizeChunk \/ ToPyList

SpecColumn == InitColumn /\ [][NextColumn]_columnVars

-----------------------------------------------------------------------------
(* Properties *)

\* The array as if its nanosecond buffers had been truncated where they are.
TowardZero(ns) == IF ns >= 0 THEN ns \div 1000 ELSE -((-ns) \div 1000)
TruncatedBelow(a, below) ==
  [a EXCEPT !.data = IF a.type.kind = "ns" THEN [i \in DOMAIN @ |-> TowardZero(@[i])] ELSE @,
            !.kids = [c \in DOMAIN @ |-> below[@[c]]]]
InPlace[n \in 0..Depth] == [a \in Arrays[n] |-> TruncatedBelow(a, InPlace[n - 1])]

\* "Divided by 1,000 toward zero", at any depth, in any window: the rows are
\* those of the arrays truncated in place; rebuilding the arrays around them
\* moves no value, drops none and leaves every NULL where it was.
RowsAreTruncated ==
  answer = "rows" =>
    rows = [k \in DOMAIN column.chunks |-> PyValues[Depth][InPlace[Depth][column.chunks[k]]]]

\* Every type within a type, with the kinds of the containers it is in.
NodesOver(t, below) ==
  {[kind |-> t.kind, inside |-> {}]} \cup
  UNION {{[kind |-> m.kind, inside |-> m.inside \cup {t.kind}] : m \in below[t.kids[i]]} :
           i \in DOMAIN t.kids}
Nodes[n \in 0..Depth] == [t \in Types[n] |-> NodesOver(t, Nodes[n - 1])]

\* No nanosecond value is left in what is converted; a column is refused exactly
\* when one sits, at any depth, in a container that cannot be rebuilt.
MicrosecondsOrRefused ==
  /\ answer = "rows" => \A k \in DOMAIN chunks : \A m \in Nodes[Depth][chunks[k].type] : m.kind # "ns"
  /\ answer # "none" =>
       (answer = "unsupported"
          <=> \E m \in Nodes[Depth][column.type] : m.kind = "ns" /\ "opaque" \in m.inside)
=============================================================================
