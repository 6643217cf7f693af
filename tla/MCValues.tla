------------------------------ MODULE MCValues ------------------------------
(***************************************************************************)
(* The two conversions of an execute for TLC: parameters into a record,    *)
(* result columns into rows.  They share no state; a behaviour is about    *)
(* one of them, with the other at its simplest input.                      *)
(***************************************************************************)
EXTENDS ParameterBinding, TemporalValues

CONSTANT Unnumbered    \* a name that is no number

Val(kind, num) == [kind |-> kind, num |-> num]
Given == {Val("int", n) : n \in {-6, -4, -2, 0, 2, 4, 6, 8}}
           \cup {Val(k, n) : k \in {"float", "decimal"}, n \in {1, 2, 4}}
           \cup {Val("str", 0), Val("none", 0), Val("object", 0)}
Few == {Val("int", 2), Val("decimal", 1), Val("str", 0), Val("none", 0)}

MCTuples == {<<>>} \cup {<<v>> : v \in Given} \cup {<<v, w>> : v \in Few, w \in Few}
              \cup {<<Val("int", 0), Val("int", 2), Val("none", 0)>>}

Type(kind, bound, unit) == [kind |-> kind, bound |-> bound, unit |-> unit]
Int64 == Type("int", 2, 2)
FieldTypes == {Int64, Type("int", 1, 2), Type("uint", 4, 2), Type("uint", 2, 2),
          Type("decimal", 3, 1), Type("decimal", 7, 2), Type("decimal", 20, 1),
          Type("str", 0, 1), Type("view", 0, 1), Type("union", 0, 1)}
Named(n, t) == [name |-> n, type |-> t]

MCSchemas ==
  {NoSchema, <<>>} \cup {<<Named(n, t)>> : n \in {0, 1, Unnumbered}, t \in FieldTypes}
    \cup {<<Named(m, t), Named(n, u)>> : m \in {0, 1, 2, Unnumbered}, n \in {1, 2, 3, Unnumbered},
                                         t \in {Int64, Type("str", 0, 1)}, u \in FieldTypes}
    \cup {<<Named(l, Int64), Named(m, Int64), Named(n, Int64)>> :
            l \in 1..3, m \in 1..3, n \in {1, 2, 3, Unnumbered}}

-----------------------------------------------------------------------------
(* Columns *)

Leaf(kind) == [kind |-> kind, size |-> 0, kids |-> <<>>]
Of(kind, kids) == [kind |-> kind, size |-> IF kind = "fixed" THEN 2 ELSE 0, kids |-> kids]
Pairs == {"struct", "map", "dense", "sparse"}
Around(kind, t) == Of(kind, IF kind \in Pairs THEN <<Leaf("us"), t>> ELSE <<t>>)

Shallow == {Around(k, Leaf("ns")) : k \in Rebuilt}
Deep == {Around(k, t) : k \in Rebuilt, t \in Shallow}
ColumnTypes ==
  {Leaf("ns"), Leaf("us"), Around("opaque", Leaf("us")), Around("opaque", Leaf("ns")),
   Around("list", Around("opaque", Leaf("ns"))), Around("list", Around("opaque", Leaf("us"))),
   Of("struct", <<Around("list", Leaf("ns")), Around("opaque", Around("struct", Leaf("us")))>>)}
    \cup Shallow \cup Deep \cup {Around("opaque", t) : t \in Shallow}

\* An array of n entries, its children in windows of their own.
RECURSIVE Sample(_, _, _)
Sample(t, n, seed) ==
  LET offset(i) == 1 + ((i - 1) * 3) \div 2
      child(c, m) == Slice(Sample(t.kids[c], m + 1, seed + c), 1, m)
      children(m) == [c \in DOMAIN t.kids |-> child(c, m)]
      spanning == t.kind \in {"list", "map", "opaque"}
  IN [type  |-> t, off |-> 0, len |-> n,
      valid |-> [i \in 1..n |-> t.kind \in {"dense", "sparse"} \/ (i + seed) % 4 # 3],
      data  |-> CASE t.kind \in {"ns", "us"} -> [i \in 1..n |-> i * 1700 + seed * 431 - 5100]
                  [] spanning -> [i \in 1..(n + 1) |-> offset(i)]
                  [] t.kind = "dictionary" -> [i \in 1..n |-> (2 * i + seed) % 3]
                  [] t.kind \in {"dense", "sparse"} -> [i \in 1..n |-> 1 + ((i + seed) % 2)]
                  [] t.kind \in {"fixed", "struct"} -> <<>>,
      pos   |-> IF t.kind = "dense" THEN [i \in 1..n |-> (2 * i) % 3] ELSE <<>>,
      kids  |-> CASE t.kind = "fixed" -> children(2 * n)
                  [] spanning -> children(offset(n + 1))
                  [] t.kind \in {"dictionary", "dense"} -> children(3)
                  [] t.kind \in {"struct", "sparse"} -> children(n)
                  [] t.kind \in {"ns", "us"} -> <<>>]

\* Every window of four entries, as a column of its own, and the four in two
\* chunks, one of which may be empty.
ColumnsOf(t) ==
  LET base == Sample(t, 4, 0) IN
  {[type |-> t, chunks |-> <<Slice(base, w[1], w[2])>>] :
     w \in {v \in (0..4) \X (0..4) : v[1] + v[2] <= 4}}
    \cup {[type |-> t, chunks |-> <<Slice(base, 0, n), Slice(base, n, 4 - n)>>] : n \in 0..4}

Plain == [type |-> Leaf("us"), chunks |-> <<>>]
MCColumns == {Plain} \cup UNION {ColumnsOf(t) : t \in ColumnTypes}

-----------------------------------------------------------------------------
(* Both *)

MCInit == \/ column = Plain /\ InitColumn /\ Init
          \/ values = <<>> /\ schema = NoSchema /\ Init /\ InitColumn

MCNext == \/ Next /\ UNCHANGED columnVars
          \/ NextColumn /\ UNCHANGED vars

MCSpec == MCInit /\ [][MCNext]_<<vars, columnVars>>
=============================================================================
