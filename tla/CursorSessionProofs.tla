------------------------ MODULE CursorSessionProofs ------------------------
(***************************************************************************)
(* Theorems about CursorSession, for any number of cursors and calls,      *)
(* parameter lists and results of any length, and both kinds of server.    *)
(***************************************************************************)
EXTENDS CursorSession, SequenceTheorems, TLAPS

-----------------------------------------------------------------------------
(* Types *)

IterType == [list : Seq(Row), pos : Nat, own : BOOLEAN]
WalkType == [over : Seq(Row), given : Seq(Row), popped : BOOLEAN]

\* The type invariant by the part of the system the variables belong to.
ServerOK ==
  /\ rebinds \in BOOLEAN
  /\ bound \in Seq(Value \cup {NoValue})
  /\ open \subseteq 1..Len(bound)
  /\ ran \in Seq(Value \cup {NoValue})
  /\ handle \in 0..Len(bound)
SessionOK == live \in BOOLEAN /\ made \subseteq Cursor /\ closed \subseteq made
CallOK ==
  /\ cur \in Cursor /\ pc \in PCs /\ many \in BOOLEAN
  /\ params \in Seq(Value \cup {Empty})
  /\ failing \in BOOLEAN
  /\ outcome \in {"none", "returned", "raised"}
  /\ calls \in 0..MaxCalls /\ latest \in [Cursor -> 0..MaxCalls]
  /\ asked \in Seq(Value \cup {Empty, NoValue})
  /\ unclosed \in BOOLEAN
ResultOK ==
  /\ described \in [Cursor -> BOOLEAN]
  /\ rows \in [Cursor -> Seq(Row)] /\ full \in [Cursor -> Seq(Row)]
  /\ taken \in [Cursor -> Seq(Row)]
  /\ iter \in [Cursor -> IterType] /\ walk \in [Cursor -> WalkType]

LEMMA TypeParts == /\ TypeOK <=> ServerOK /\ SessionOK /\ CallOK /\ ResultOK
                   /\ TypeOK' <=> ServerOK' /\ SessionOK' /\ CallOK' /\ ResultOK'
BY DEF TypeOK, ServerOK, SessionOK, CallOK, ResultOK, IterType, WalkType

\* An iterator over the cursor's own list sees that list.
OwnList == \A c \in Cursor : iter[c].own => iter[c].list = rows[c]

\* What each step of a call finds: parameters while there is something to
\* bind, a statement unless the call is a plain one.
CallInv ==
  /\ pc # "idle" => calls \in 1..MaxCalls /\ latest[cur] = calls
  /\ pc = "prepare" => params # <<>> /\ handle = 0
  /\ pc = "bind" => params # <<>> /\ handle # 0
  /\ pc \in {"info", "get"} => (handle = 0 <=> params = <<>>)
  /\ pc \in {"info", "get"} /\ handle = 0 => ~many
  /\ pc = "close" => handle # 0

LEMMA NewResultType ==
  ASSUME CallInv, pc = "get", NEW n \in 0..MaxRows
  PROVE  [k \in 1..n |-> <<calls, k>>] \in Seq(Row)
<1>1. calls \in 1..MaxCalls /\ n \in Nat /\ MaxRows \in Nat
  BY ConstantsAssumption DEF ConstantsAssumption, CallInv
<1>2. \A k \in 1..n : <<calls, k>> \in Row
  BY <1>1 DEF Row
<1> QED
  BY <1>1, <1>2

\* A cursor whose list is replaced keeps its iterator.
LEMMA ReplacedType ==
  ASSUME ResultOK, NEW c \in Cursor, iter' = [iter EXCEPT ![c].own = FALSE]
  PROVE  iter' \in [Cursor -> IterType]
BY DEF ResultOK, IterType

LEMMA OpenGrows ==
  ASSUME NEW n \in Nat, NEW S \in SUBSET (1..n)
  PROVE  S \cup {n + 1} \subseteq 1..(n + 1)
OBVIOUS

LEMMA LeftType ==
  ASSUME NEW s \in Seq(Row), NEW n \in Nat
  PROVE  /\ LeftAfter(s, n) \in Seq(Row)
         /\ SubSeq(s, 1, IF n < Len(s) THEN n ELSE Len(s)) \in Seq(Row)
<1> DEFINE m == IF n < Len(s) THEN n ELSE Len(s)
<1>1. Len(s) \in Nat /\ m \in Nat /\ m <= Len(s)
  OBVIOUS
<1>2. SubSeq(s, n + 1, Len(s)) \in Seq(Row)
  <2>1. \A i \in (n + 1)..Len(s) : s[i] \in Row
    OBVIOUS
  <2>2. n + 1 \in Int /\ Len(s) \in Int
    OBVIOUS
  <2> QED
    BY <2>1, <2>2, SubSeqProperties
<1>3. SubSeq(s, 1, m) \in Seq(Row)
  <2>1. \A i \in 1..m : s[i] \in Row
    BY <1>1
  <2>2. 1 \in Int /\ m \in Int
    BY <1>1
  <2> HIDE DEF m
  <2> QED
    BY <2>1, <2>2, SubSeqProperties
<1> QED
  BY <1>2, <1>3 DEF LeftAfter

LEMMA TypeStep == TypeOK /\ CallInv /\ OwnList /\ [Next]_vars => TypeOK'
<1> SUFFICES ASSUME ServerOK, SessionOK, CallOK, ResultOK, CallInv, OwnList, [Next]_vars
             PROVE  ServerOK' /\ SessionOK' /\ CallOK' /\ ResultOK'
  BY TypeParts
<1> USE DEF server, session, call, result
<1>1. ASSUME NEW c \in Cursor, NewCursor(c) \/ CloseCursor(c) \/ UseClosed(c) PROVE ServerOK' /\ SessionOK' /\ CallOK' /\ ResultOK'
  BY <1>1 DEF NewCursor, CloseCursor, UseClosed, Usable, ServerOK, SessionOK, CallOK, ResultOK
<1>2. ASSUME NEW c \in Cursor, NEW ps \in Seq(Value \cup {Empty}), NEW m \in BOOLEAN,
             Begin(c, ps, m)
      PROVE  ServerOK' /\ SessionOK' /\ CallOK' /\ ResultOK'
  <2>1. calls + 1 \in 0..MaxCalls /\ MaxCalls \in Nat
    BY <1>2, ConstantsAssumption DEF Begin, ServerOK, SessionOK, CallOK, ResultOK, ConstantsAssumption
  <2>2. /\ rows' = [rows EXCEPT ![c] = <<>>] /\ full' = [full EXCEPT ![c] = <<>>]
        /\ taken' = [taken EXCEPT ![c] = <<>>] /\ iter' = [iter EXCEPT ![c].own = FALSE]
        /\ described' = [described EXCEPT ![c] = FALSE] /\ walk' = walk
    BY <1>2 DEF Begin, Cleared, Replaced
  <2>3. asked' \in Seq(Value \cup {Empty, NoValue})
    <3>1. ps \in Seq(Value \cup {Empty, NoValue})
      BY SeqMonotonic
    <3> QED
      <4>1. NoValue \in Value \cup {Empty, NoValue}
        OBVIOUS
      <4>2. <<NoValue>> \in Seq(Value \cup {Empty, NoValue})
        BY <4>1
      <4> QED
        BY <1>2, <3>1, <4>2 DEF Begin
  <2>4. ResultOK'
    <3>1. iter' \in [Cursor -> IterType]
      BY <2>2, ReplacedType
    <3> QED
      BY <2>2, <3>1 DEF ResultOK
  <2>5. CallOK'
    BY <1>2, <2>1, <2>3 DEF Begin, CallOK, PCs
  <2>6. ServerOK' /\ SessionOK'
    BY <1>2 DEF Begin, ServerOK, SessionOK
  <2> QED
    BY <2>4, <2>5, <2>6
<1>3. CASE Prepare
  <2>1. bound' \in Seq(Value \cup {NoValue}) /\ Len(bound') = Len(bound) + 1
    BY <1>3 DEF Prepare, ServerOK
  <2>2. handle' = Len(bound') /\ open' = open \cup {handle'} /\ Len(bound) \in Nat
    BY <1>3 DEF Prepare, ServerOK
  <2>3. ServerOK'
    <3>1. open' = open \cup {Len(bound) + 1} /\ open \in SUBSET (1..Len(bound))
      BY <2>1, <2>2 DEF ServerOK
    <3>2. open' \subseteq 1..(Len(bound) + 1)
      BY <2>2, <3>1, OpenGrows
    <3> QED
      BY <1>3, <2>1, <2>2, <3>2 DEF Prepare, ServerOK
  <2> QED
    BY <1>3, <2>3 DEF Prepare, CallOK, ResultOK, SessionOK, PCs
<1>4. CASE Bind
  <2>1. Head(params) \in Value \cup {Empty} /\ handle \in 1..Len(bound)
    BY <1>4 DEF Bind, CallInv, ServerOK, SessionOK, CallOK, ResultOK
  <2>2. CASE UNCHANGED <<bound, open, handle>>
    BY <1>4, <2>2 DEF Bind, ServerOK, SessionOK, CallOK, ResultOK, PCs
  <2>3. CASE /\ Head(params) # Empty
             /\ bound' = [bound EXCEPT ![handle] = Head(params)]
             /\ handle' = handle /\ UNCHANGED open
    <3>1. bound' \in Seq(Value \cup {NoValue}) /\ Len(bound') = Len(bound)
      BY <2>1, <2>3, ExceptSeq DEF ServerOK, SessionOK, CallOK, ResultOK
    <3> QED
      BY <1>4, <2>1, <2>3, <3>1 DEF Bind, ServerOK, SessionOK, CallOK, ResultOK, PCs
  <2>4. CASE /\ Head(params) # Empty
             /\ bound' = Append(bound, Head(params))
             /\ handle' = Len(bound) + 1
             /\ open' = open \cup {Len(bound) + 1}
    <3>1. bound' \in Seq(Value \cup {NoValue}) /\ Len(bound') = Len(bound) + 1
      BY <2>1, <2>4 DEF ServerOK, SessionOK, CallOK, ResultOK
    <3> QED
      <4>1. Len(bound) \in Nat /\ open' \subseteq 1..Len(bound') /\ handle' \in 0..Len(bound')
        <5>1. Len(bound) \in Nat /\ open \in SUBSET (1..Len(bound))
          BY DEF ServerOK
        <5>2. open \cup {Len(bound) + 1} \subseteq 1..(Len(bound) + 1)
          BY <5>1, OpenGrows
        <5> QED
          BY <2>4, <3>1, <5>1, <5>2
      <4>2. ServerOK'
        BY <1>4, <3>1, <4>1 DEF Bind, ServerOK
      <4> QED
        BY <1>4, <4>2 DEF Bind, CallOK, ResultOK, SessionOK, PCs
  <2> QED
    BY <1>4, <2>2, <2>3, <2>4 DEF Bind, NextHandle
<1>5. CASE Info
  BY <1>5 DEF Info, ServerOK, SessionOK, CallOK, ResultOK, PCs
<1>6. CASE Get
  <2>1. ran' \in Seq(Value \cup {NoValue})
    BY <1>6 DEF Get, ServerOK, SessionOK, CallOK, ResultOK
  <2>2. CASE many /\ params' = Tail(params) /\ UNCHANGED <<result, outcome>>
    <3>1. params # <<>>
      BY <1>6, <2>2 DEF Get, CallInv
    <3>2. params' \in Seq(Value \cup {Empty})
      BY <2>2, <3>1, HeadTailProperties DEF ServerOK, SessionOK, CallOK, ResultOK
    <3> QED
      BY <1>6, <2>1, <2>2, <3>2 DEF Get, ServerOK, SessionOK, CallOK, ResultOK, PCs
  <2>3. ASSUME ~many, NEW n \in 0..MaxRows,
               Replaced(cur, [k \in 1..n |-> <<calls, k>>]),
               full' = [full EXCEPT ![cur] = [k \in 1..n |-> <<calls, k>>]],
               described' = [described EXCEPT ![cur] = TRUE], params' = <<>>,
               UNCHANGED <<taken, walk>>
        PROVE  ServerOK' /\ SessionOK' /\ CallOK' /\ ResultOK'
    <3>1. [k \in 1..n |-> <<calls, k>>] \in Seq(Row)
      BY <1>6, NewResultType DEF Get
    <3> DEFINE new == [k \in 1..n |-> <<calls, k>>]
    <3>2. new \in Seq(Row) /\ rows' = [rows EXCEPT ![cur] = new]
          /\ full' = [full EXCEPT ![cur] = new]
      BY <2>3, <3>1 DEF Replaced
    <3> HIDE DEF new
    <3>3. rows' \in [Cursor -> Seq(Row)] /\ full' \in [Cursor -> Seq(Row)]
      BY <3>2 DEF ServerOK, SessionOK, CallOK, ResultOK
    <3>4. iter' \in [Cursor -> IterType]
      BY <2>3, ReplacedType DEF Replaced, CallOK
    <3>5. pc' \in PCs /\ outcome' \in {"none", "returned", "raised"}
      BY <1>6, <2>3 DEF Get, ServerOK, SessionOK, CallOK, ResultOK, PCs
    <3>6. params' \in Seq(Value \cup {Empty}) /\ described' \in [Cursor -> BOOLEAN]
      BY <2>3 DEF ServerOK, SessionOK, CallOK, ResultOK
    <3> QED
      BY <1>6, <2>1, <2>3, <3>3, <3>4, <3>5, <3>6 DEF Get, ServerOK, SessionOK, CallOK, ResultOK
  <2> QED
    BY <1>6, <2>2, <2>3 DEF Get
<1>7. CASE Fail
  <2>1. /\ bound' \in Seq(Value \cup {NoValue}) /\ Len(bound) <= Len(bound')
        /\ open' \subseteq 1..Len(bound')
        /\ ran' \in Seq(Value \cup {NoValue}) /\ unclosed' \in BOOLEAN
    <3>1. CASE UNCHANGED <<bound, open, ran, unclosed>>
      BY <3>1 DEF ServerOK, SessionOK, CallOK, ResultOK
    <3>2. CASE Unanswered
      <4>1. CASE /\ bound' = Append(bound, NoValue) /\ open' = open \cup {Len(bound')}
                 /\ unclosed' = TRUE /\ UNCHANGED ran
        <5>1. bound' \in Seq(Value \cup {NoValue}) /\ Len(bound') = Len(bound) + 1
          BY <4>1 DEF ServerOK
        <5>2. Len(bound) \in Nat /\ open' \subseteq 1..Len(bound')
          <6>1. Len(bound) \in Nat /\ open' = open \cup {Len(bound) + 1}
                /\ open \in SUBSET (1..Len(bound))
            BY <4>1, <5>1 DEF ServerOK
          <6> QED
            BY <4>1, <5>1, <6>1, OpenGrows
        <5> QED
          BY <4>1, <5>1, <5>2 DEF ServerOK, CallOK
      <4>2. CASE /\ pc = "bind" /\ Head(params) # Empty
                 /\ bound' = Append(bound, Head(params)) /\ open' = open \cup {Len(bound')}
                 /\ UNCHANGED <<ran, unclosed>>
        <5>1. Head(params) \in Value \cup {NoValue}
          BY <4>2, HeadTailProperties DEF CallOK, CallInv
        <5>2. bound' \in Seq(Value \cup {NoValue}) /\ Len(bound') = Len(bound) + 1
          BY <4>2, <5>1 DEF ServerOK
        <5>3. Len(bound) \in Nat /\ open' \subseteq 1..Len(bound')
          <6>1. Len(bound) \in Nat /\ open' = open \cup {Len(bound) + 1}
                /\ open \in SUBSET (1..Len(bound))
            BY <4>2, <5>2 DEF ServerOK
          <6> QED
            BY <4>2, <5>2, <6>1, OpenGrows
        <5> QED
          BY <4>2, <5>2, <5>3 DEF ServerOK, CallOK
      <4>3. CASE /\ pc = "bind" /\ Head(params) # Empty
                 /\ bound' = [bound EXCEPT ![handle] = Head(params)]
                 /\ UNCHANGED <<open, ran, unclosed>>
        <5>1. handle \in 1..Len(bound) /\ Head(params) \in Value \cup {NoValue}
          BY <4>3 DEF ServerOK, SessionOK, CallOK, ResultOK, CallInv
        <5>2. bound' \in Seq(Value \cup {NoValue}) /\ Len(bound') = Len(bound)
          BY <4>3, <5>1, ExceptSeq DEF ServerOK, SessionOK, CallOK, ResultOK
        <5> QED
          BY <4>3, <5>2 DEF ServerOK, SessionOK, CallOK, ResultOK
      <4>4. CASE /\ ran' = Append(ran, IF handle = 0 THEN NoValue ELSE bound[handle])
                 /\ UNCHANGED <<bound, open, unclosed>>
        BY <4>4 DEF ServerOK, SessionOK, CallOK, ResultOK
      <4> QED
        BY <3>2, <4>1, <4>2, <4>3, <4>4 DEF Unanswered
    <3> QED
      BY <1>7, <3>1, <3>2 DEF Fail
  <2> QED
    <3>1. ServerOK'
      BY <1>7, <2>1 DEF Fail, ServerOK
    <3>2. CallOK'
      BY <1>7, <2>1 DEF Fail, AfterFailure, CallOK, PCs
    <3> QED
      BY <1>7, <3>1, <3>2 DEF Fail, ResultOK, SessionOK
<1>8. CASE CloseStatement
  BY <1>8 DEF CloseStatement, ServerOK, SessionOK, CallOK, ResultOK, PCs
<1>9. ASSUME NEW c \in Cursor, FetchOne(c) PROVE ServerOK' /\ SessionOK' /\ CallOK' /\ ResultOK'
  <2>1. CASE rows[c] = <<>>
    BY <1>9, <2>1 DEF FetchOne, ServerOK, SessionOK, CallOK, ResultOK
  <2>2. CASE rows[c] # <<>>
    <3>1. Head(rows[c]) \in Row /\ Tail(rows[c]) \in Seq(Row) /\ taken[c] \in Seq(Row)
      BY <2>2, HeadTailProperties DEF ResultOK
    <3>2. Append(taken[c], Head(rows[c])) \in Seq(Row)
      BY <3>1
    <3> DEFINE t == Append(taken[c], Head(rows[c]))
               r == Tail(rows[c])
               l == IF iter[c].own THEN r ELSE iter[c].list
               b == walk[c].popped \/ iter[c].own
    <3>3. /\ taken' = [taken EXCEPT ![c] = t] /\ rows' = [rows EXCEPT ![c] = r]
          /\ iter' = [iter EXCEPT ![c].list = l] /\ walk' = [walk EXCEPT ![c].popped = b]
          /\ UNCHANGED <<described, full>>
      BY <1>9, <2>2 DEF FetchOne, OwnList
    <3>4. t \in Seq(Row) /\ r \in Seq(Row) /\ l \in Seq(Row) /\ b \in BOOLEAN
      BY <3>1, <3>2 DEF ResultOK, IterType, WalkType
    <3> HIDE DEF t, r, l, b
    <3>5. iter' \in [Cursor -> IterType]
      BY <3>3, <3>4 DEF ResultOK, IterType
    <3>6. walk' \in [Cursor -> WalkType]
      BY <3>3, <3>4 DEF ResultOK, WalkType
    <3>7. rows' \in [Cursor -> Seq(Row)] /\ taken' \in [Cursor -> Seq(Row)]
      BY <3>3, <3>4 DEF ResultOK
    <3> QED
      BY <1>9, <3>3, <3>5, <3>6, <3>7 DEF FetchOne, ServerOK, SessionOK, CallOK, ResultOK
  <2> QED
    BY <2>1, <2>2
<1>10. ASSUME NEW c \in Cursor, NEW n \in 1..MaxRows, FetchMany(c, n) PROVE ServerOK' /\ SessionOK' /\ CallOK' /\ ResultOK'
  <2>1. n \in Nat
    BY ConstantsAssumption DEF ConstantsAssumption
  <2>2. LeftAfter(rows[c], n) \in Seq(Row)
        /\ SubSeq(rows[c], 1, IF n < Len(rows[c]) THEN n ELSE Len(rows[c])) \in Seq(Row)
    BY <2>1, LeftType DEF ServerOK, SessionOK, CallOK, ResultOK
  <2>3. taken' \in [Cursor -> Seq(Row)] /\ rows' \in [Cursor -> Seq(Row)]
    BY <1>10, <2>2, ConcatProperties DEF FetchMany, Replaced, ServerOK, SessionOK, CallOK, ResultOK
  <2>4. iter' \in [Cursor -> IterType]
    BY <1>10, ReplacedType DEF FetchMany, Replaced
  <2> QED
    BY <1>10, <2>3, <2>4 DEF FetchMany, ServerOK, SessionOK, CallOK, ResultOK
<1>11. ASSUME NEW c \in Cursor, Iterate(c) PROVE ServerOK' /\ SessionOK' /\ CallOK' /\ ResultOK'
  <2>1. iter' = [iter EXCEPT ![c] = [list |-> rows[c], pos |-> 0, own |-> TRUE]]
        /\ walk' = [walk EXCEPT ![c] = [over |-> rows[c], given |-> <<>>, popped |-> FALSE]]
        /\ UNCHANGED <<rows, described, full, taken>>
    BY <1>11 DEF Iterate
  <2>2. rows[c] \in Seq(Row) /\ <<>> \in Seq(Row)
    BY DEF ResultOK
  <2>3. ResultOK'
    BY <2>1, <2>2 DEF ResultOK, IterType, WalkType
  <2> QED
    BY <1>11, <2>3 DEF Iterate, ServerOK, SessionOK, CallOK
<1>12. ASSUME NEW c \in Cursor, NextRow(c) PROVE ServerOK' /\ SessionOK' /\ CallOK' /\ ResultOK'
  <2>1. iter[c] \in IterType /\ walk[c] \in WalkType
    BY DEF ResultOK
  <2>2. iter[c].pos + 1 \in 1..Len(iter[c].list) /\ iter[c].list \in Seq(Row)
        /\ walk[c].given \in Seq(Row)
    BY <1>12, <2>1 DEF NextRow, IterType, WalkType
  <2>3. /\ iter[c].pos + 1 \in Nat
        /\ Append(walk[c].given, iter[c].list[iter[c].pos + 1]) \in Seq(Row)
    BY <2>2
  <2> DEFINE p == iter[c].pos + 1
             g == Append(walk[c].given, iter[c].list[iter[c].pos + 1])
  <2>4. iter' = [iter EXCEPT ![c].pos = p] /\ walk' = [walk EXCEPT ![c].given = g]
    BY <1>12 DEF NextRow
  <2> HIDE DEF p, g
  <2>5. p \in Nat /\ g \in Seq(Row)
    BY <2>3 DEF p, g
  <2>6. iter' \in [Cursor -> IterType]
    BY <2>4, <2>5 DEF ResultOK, IterType
  <2>7. walk' \in [Cursor -> WalkType]
    BY <2>4, <2>5 DEF ResultOK, WalkType
  <2> QED
    BY <1>12, <2>6, <2>7 DEF NextRow, ServerOK, SessionOK, CallOK, ResultOK
<1>13. CASE CloseConnection
  BY <1>13 DEF CloseConnection, ClosedWith, ServerOK, SessionOK, CallOK, ResultOK
<1>14. CASE UNCHANGED vars
  BY <1>14 DEF vars, ServerOK, SessionOK, CallOK, ResultOK
<1> QED
  <2>1. <<>> \in Seq(Value \cup {Empty})
        /\ \A v \in Value : <<v>> \in Seq(Value \cup {Empty})
    OBVIOUS
  <2>2. \A ps \in Batches : ps \in Seq(Value \cup {Empty})
    BY ConstantsAssumption DEF ConstantsAssumption
  <2>3. ASSUME NEW c \in Cursor, Execute(c) \/ ExecuteMany(c) PROVE ServerOK' /\ SessionOK' /\ CallOK' /\ ResultOK'
    BY <1>2, <2>1, <2>2, <2>3 DEF Execute, ExecuteMany
  <2> QED
    BY <1>1, <2>3, <1>3, <1>4, <1>5, <1>6, <1>7, <1>8, <1>9, <1>10, <1>11, <1>12,
       <1>13, <1>14 DEF Next

LEMMA CallStep == TypeOK /\ CallInv /\ [Next]_vars => CallInv'
<1> SUFFICES ASSUME CallOK, ServerOK, CallInv, [Next]_vars PROVE CallInv'
  BY TypeParts
<1> USE DEF server, session, call, result
<1>1. ASSUME UNCHANGED <<pc, calls, latest, cur, params, handle, many>> PROVE CallInv'
  BY <1>1 DEF CallInv
<1>2. ASSUME NEW c \in Cursor, NEW ps \in Seq(Value \cup {Empty}), NEW m \in BOOLEAN,
             Begin(c, ps, m)
      PROVE  CallInv'
  <2>1. calls' \in 1..MaxCalls /\ latest'[cur'] = calls'
    BY <1>2, ConstantsAssumption DEF Begin, CallOK, ConstantsAssumption
  <2> QED
    BY <1>2, <2>1 DEF Begin, CallInv
<1>3. CASE Prepare
  BY <1>3 DEF Prepare, CallInv, CallOK, ServerOK
<1>4. CASE Bind
  <2>1. handle' # 0
    <3>1. handle # 0 /\ Len(bound) + 1 # 0
      BY <1>4 DEF Bind, CallInv, ServerOK
    <3> QED
      BY <1>4, <3>1 DEF Bind, NextHandle
  <2>2. params # <<>> /\ pc' = "info"
        /\ UNCHANGED <<calls, latest, cur, params, many>> /\ pc = "bind"
    BY <1>4 DEF Bind, CallInv
  <2> QED
    BY <2>1, <2>2 DEF CallInv
<1>5. CASE Info
  BY <1>5 DEF Info, CallInv
<1>6. CASE Get
  <2>1. /\ pc = "get" /\ UNCHANGED <<calls, latest, cur, many, handle>>
        /\ pc' \in {"idle", "bind", "close"}
        /\ pc' = "bind" => many /\ params' # <<>>
        /\ pc' = "close" => many \/ handle # 0
    BY <1>6 DEF Get
  <2> QED
    BY <2>1 DEF CallInv
<1>7. CASE Fail
  <2>1. /\ pc \in {"prepare", "bind", "info", "get"}
        /\ UNCHANGED <<calls, latest, cur, handle>>
        /\ pc' = IF handle = 0 THEN "idle" ELSE "close"
    BY <1>7 DEF Fail, AfterFailure
  <2> QED
    BY <2>1 DEF CallInv
<1>8. CASE CloseStatement
  BY <1>8 DEF CloseStatement, CallInv
<1> QED
  <2>1. <<>> \in Seq(Value \cup {Empty})
        /\ \A v \in Value : <<v>> \in Seq(Value \cup {Empty})
    OBVIOUS
  <2>2. \A ps \in Batches : ps \in Seq(Value \cup {Empty})
    BY ConstantsAssumption DEF ConstantsAssumption
  <2>3. ASSUME NEW c \in Cursor, Execute(c) \/ ExecuteMany(c) PROVE CallInv'
    BY <1>2, <2>1, <2>2, <2>3 DEF Execute, ExecuteMany
  <2>4. ASSUME NEW c \in Cursor, NEW n \in 1..MaxRows,
               \/ NewCursor(c) \/ CloseCursor(c) \/ UseClosed(c)
               \/ FetchOne(c) \/ FetchMany(c, n) \/ Iterate(c) \/ NextRow(c)
        PROVE  CallInv'
    <3>1. UNCHANGED <<pc, call, calls, latest>>
      BY <2>4 DEF NewCursor, CloseCursor, UseClosed, FetchOne, FetchMany, Iterate, NextRow
    <3> QED
      BY <1>1, <3>1
  <2>5. ASSUME NEW c \in Cursor,
               \/ NewCursor(c) \/ CloseCursor(c) \/ UseClosed(c)
               \/ FetchOne(c) \/ Iterate(c) \/ NextRow(c)
        PROVE  CallInv'
    <3>1. UNCHANGED <<pc, call, calls, latest>>
      BY <2>5 DEF NewCursor, CloseCursor, UseClosed, FetchOne, Iterate, NextRow
    <3> QED
      BY <1>1, <3>1
  <2>6. CASE CloseConnection \/ UNCHANGED vars
    BY <1>1, <2>6 DEF CloseConnection, vars
  <2> QED
    BY <2>3, <2>4, <2>5, <2>6, <1>3, <1>4, <1>5, <1>6, <1>7, <1>8 DEF Next

LEMMA OwnListStep == TypeOK /\ OwnList /\ [Next]_vars => OwnList'
<1> SUFFICES ASSUME ResultOK, CallOK, OwnList, [Next]_vars PROVE OwnList'
  BY TypeParts
<1> USE DEF server, session, call, result
<1>1. ASSUME UNCHANGED <<rows, iter>> PROVE OwnList'
  BY <1>1 DEF OwnList
<1>2. ASSUME NEW c \in Cursor, NEW new, Replaced(c, new) PROVE OwnList'
  <2>1. /\ rows' = [rows EXCEPT ![c] = new] /\ iter' = [iter EXCEPT ![c].own = FALSE]
        /\ rows \in [Cursor -> Seq(Row)] /\ iter \in [Cursor -> IterType]
    BY <1>2 DEF Replaced, ResultOK
  <2>2. ~iter'[c].own
    BY <2>1 DEF IterType
  <2>3. \A d \in Cursor \ {c} : iter'[d] = iter[d] /\ rows'[d] = rows[d]
    BY <2>1
  <2> QED
    BY <2>2, <2>3 DEF OwnList
<1>3. ASSUME NEW c \in Cursor, FetchOne(c) PROVE OwnList'
  <2>1. CASE rows[c] = <<>>
    BY <1>1, <1>3, <2>1 DEF FetchOne
  <2>2. CASE rows[c] # <<>>
    <3> DEFINE l == IF iter[c].own THEN Tail(rows[c]) ELSE iter[c].list
    <3>1. /\ rows' = [rows EXCEPT ![c] = Tail(rows[c])] /\ iter' = [iter EXCEPT ![c].list = l]
          /\ rows \in [Cursor -> Seq(Row)] /\ iter \in [Cursor -> IterType]
      BY <1>3, <2>2 DEF FetchOne, ResultOK, OwnList
    <3>2. iter'[c].own = iter[c].own /\ iter'[c].list = l /\ rows'[c] = Tail(rows[c])
      BY <3>1 DEF IterType
    <3>3. \A d \in Cursor \ {c} : iter'[d] = iter[d] /\ rows'[d] = rows[d]
      BY <3>1
    <3> QED
      BY <3>2, <3>3 DEF OwnList
  <2> QED
    BY <2>1, <2>2
<1>4. ASSUME NEW c \in Cursor, Iterate(c) PROVE OwnList'
  BY <1>4 DEF Iterate, OwnList, ResultOK
<1>5. ASSUME NEW c \in Cursor, NextRow(c) PROVE OwnList'
  <2>1. /\ iter' = [iter EXCEPT ![c].pos = iter[c].pos + 1] /\ rows' = rows
        /\ iter \in [Cursor -> IterType]
    BY <1>5 DEF NextRow, ResultOK
  <2>2. \A d \in Cursor : iter'[d].own = iter[d].own /\ iter'[d].list = iter[d].list
    BY <2>1 DEF IterType
  <2> QED
    BY <2>1, <2>2 DEF OwnList
<1> QED
  <2>1. ASSUME NEW c \in Cursor, Execute(c) \/ ExecuteMany(c) PROVE OwnList'
    <3>1. Replaced(c, <<>>)
      BY <2>1 DEF Execute, ExecuteMany, Begin, Cleared
    <3> QED
      BY <1>2, <3>1
  <2>2. CASE Get
    BY <1>1, <1>2, <2>2 DEF Get, CallOK
  <2>3. ASSUME NEW c \in Cursor, NEW n \in 1..MaxRows, FetchMany(c, n) PROVE OwnList'
    BY <1>2, <2>3 DEF FetchMany
  <2>4. ASSUME NEW c \in Cursor, NewCursor(c) \/ CloseCursor(c) \/ UseClosed(c) PROVE OwnList'
    BY <1>1, <2>4 DEF NewCursor, CloseCursor, UseClosed
  <2>5. CASE \/ CloseConnection \/ Prepare \/ Bind \/ Info \/ Fail \/ CloseStatement
             \/ UNCHANGED vars
    BY <1>1, <2>5 DEF CloseConnection, Prepare, Bind, Info, Fail, CloseStatement, vars
  <2> QED
    BY <1>3, <1>4, <1>5, <2>1, <2>2, <2>3, <2>4, <2>5 DEF Next

\* What is known of every state of a connection.
Base == TypeOK /\ CallInv /\ OwnList

\* Type correctness of the connection.
THEOREM TypeCorrect == Spec => []Base
<1>1. Init => Base
  <2> SUFFICES ASSUME Init PROVE ServerOK /\ SessionOK /\ CallOK /\ ResultOK /\ CallInv /\ OwnList
    BY TypeParts DEF Base
  <2> USE DEF Init
  <2>1. ServerOK /\ SessionOK
    BY DEF ServerOK, SessionOK
  <2>2. CallOK /\ CallInv
    <3>1. <<>> \in Seq(Value \cup {Empty}) /\ <<>> \in Seq(Value \cup {Empty, NoValue})
      OBVIOUS
    <3>2. 0 \in 0..MaxCalls
      BY ConstantsAssumption DEF ConstantsAssumption
    <3> QED
      BY <3>1, <3>2 DEF CallOK, CallInv, PCs
  <2>3. ResultOK /\ OwnList
    BY DEF ResultOK, OwnList, IterType, WalkType
  <2> QED
    BY <2>1, <2>2, <2>3
<1>2. Base /\ [Next]_vars => Base'
  BY TypeStep, CallStep, OwnListStep DEF Base
<1> QED
  BY <1>1, <1>2, PTL DEF Spec

-----------------------------------------------------------------------------
(* What runs *)

\* The parameters not yet run are the rest of those asked for; while a
\* statement waits for its answer its handle carries the first of them.
LoopInv ==
  /\ Len(ran) <= Len(asked)
  /\ \A k \in 1..Len(ran) : ran[k] = asked[k]
  /\ params \in Seq(Value)
  /\ pc \in {"prepare", "bind", "info", "get"} /\ params # <<>> =>
       /\ Len(asked) = Len(ran) + Len(params)
       /\ \A k \in 1..Len(params) : asked[Len(ran) + k] = params[k]
       /\ ~many => Len(params) = 1
  /\ pc \in {"info", "get"} /\ params # <<>> => bound[handle] = params[1]
  /\ pc \in {"info", "get"} /\ params = <<>> => ran = <<>> /\ asked = <<NoValue>>
  /\ pc = "close" /\ ~failing => Len(ran) = Len(asked)

LEMMA PrefixByElements ==
  ASSUME NEW S, NEW s \in Seq(S), NEW t \in Seq(S), Len(s) <= Len(t),
         \A k \in 1..Len(s) : s[k] = t[k]
  PROVE  IsPrefix(s, t)
<1>1. SubSeq(s, 1, Len(s)) = s
  BY SubSeqFull
<1>2. /\ SubSeq(t, 1, Len(s)) \in Seq(S) /\ Len(SubSeq(t, 1, Len(s))) = Len(s)
      /\ \A i \in 1..Len(s) : SubSeq(t, 1, Len(s))[i] = t[i]
  BY SubSeqProperties
<1> QED
  BY <1>1, <1>2, SeqEqual DEF IsPrefix

\* The tuple that runs is the next one asked for.
LEMMA RunsNext ==
  ASSUME Base, LoopInv, pc = "get",
         ran' = Append(ran, IF handle = 0 THEN NoValue ELSE bound[handle]), asked' = asked
  PROVE  /\ Len(ran') = Len(ran) + 1 /\ Len(ran') <= Len(asked)
         /\ \A k \in 1..Len(ran') : ran'[k] = asked[k]
<1>1. ran \in Seq(Value \cup {NoValue}) /\ Len(ran) \in Nat
      /\ bound \in Seq(Value \cup {NoValue}) /\ handle \in 0..Len(bound)
      /\ params \in Seq(Value)
  BY DEF Base, TypeOK, LoopInv
<1> DEFINE v == IF handle = 0 THEN NoValue ELSE bound[handle]
<1>2. v \in Value \cup {NoValue} /\ ran' = Append(ran, v)
  BY <1>1
<1>3. v = asked[Len(ran) + 1] /\ Len(ran) + 1 <= Len(asked)
  <2>1. CASE params = <<>>
    <3>1. handle = 0 /\ ran = <<>> /\ asked = <<NoValue>>
      BY <2>1 DEF Base, CallInv, LoopInv
    <3> QED
      BY <3>1
  <2>2. CASE params # <<>>
    <3>1. handle # 0 /\ bound[handle] = params[1] /\ Len(params) \in Nat \ {0}
          /\ Len(asked) = Len(ran) + Len(params) /\ asked[Len(ran) + 1] = params[1]
      BY <1>1, <2>2 DEF Base, CallInv, LoopInv
    <3> QED
      BY <1>1, <3>1
  <2> QED
    BY <2>1, <2>2
<1> HIDE DEF v
<1>4. /\ Len(ran') = Len(ran) + 1 /\ ran'[Len(ran) + 1] = v
      /\ \A k \in 1..Len(ran) : ran'[k] = ran[k]
  BY <1>1, <1>2, AppendProperties
<1>5. \A k \in 1..Len(ran') : ran'[k] = asked[k]
  BY <1>1, <1>3, <1>4 DEF LoopInv
<1> QED
  BY <1>1, <1>3, <1>4, <1>5

LEMMA LoopStep ==
  ASSUME Batches \subseteq Seq(Value)
  PROVE  Base /\ LoopInv /\ [Next]_vars => LoopInv'
<1> SUFFICES ASSUME Base, LoopInv, [Next]_vars PROVE LoopInv'
  OBVIOUS
<1> USE DEF server, session, call, result
<1>t. ServerOK /\ CallOK /\ CallInv
  BY TypeParts DEF Base
<1>1. ASSUME UNCHANGED <<ran, asked, params, bound, handle, many, failing>>,
             pc' = pc \/ pc' = "idle"
      PROVE  LoopInv'
  BY <1>1 DEF LoopInv
<1>2. ASSUME NEW c \in Cursor, NEW ps \in Seq(Value), NEW m \in BOOLEAN, Begin(c, ps, m),
             ~m => Len(ps) <= 1
      PROVE  LoopInv'
  <2>1. ran' = <<>> /\ params' = ps /\ asked' = (IF ps = <<>> THEN <<NoValue>> ELSE ps)
        /\ pc' = (IF ps = <<>> THEN "info" ELSE "prepare") /\ many' = (m /\ ps # <<>>)
    BY <1>2 DEF Begin
  <2>2. Len(ps) \in Nat /\ (ps # <<>> => Len(ps) # 0) /\ Len(<<NoValue>>) = 1 /\ Len(<<>>) = 0
    BY EmptySeq
  <2> QED
    BY <1>2, <2>1, <2>2 DEF LoopInv
<1>3. CASE Prepare
  BY <1>3 DEF Prepare, LoopInv
<1>4. CASE Bind
  <2>1. /\ params # <<>> /\ params \in Seq(Value) /\ handle \in 1..Len(bound)
        /\ bound \in Seq(Value \cup {NoValue}) /\ pc = "bind" /\ pc' = "info"
        /\ UNCHANGED <<ran, asked, params, many, failing>>
    BY <1>4, <1>t DEF Bind, LoopInv, CallInv, ServerOK
  <2>2. Head(params) = params[1] /\ params[1] \in Value
    BY <2>1
  <2>3. bound'[handle'] = params[1]
    <3>1. params[1] # Empty
      BY <2>2, ConstantsAssumption DEF ConstantsAssumption
    <3>2. \/ bound' = [bound EXCEPT ![handle] = params[1]] /\ handle' = handle
          \/ bound' = Append(bound, params[1]) /\ handle' = Len(bound) + 1
      BY <1>4, <2>1, <2>2, <3>1 DEF Bind, NextHandle
    <3> QED
      BY <2>1, <2>2, <3>2
  <2> QED
    BY <2>1, <2>3 DEF LoopInv
<1>5. CASE Info
  BY <1>5 DEF Info, LoopInv
<1>6. CASE Get
  <2>1. pc = "get" /\ UNCHANGED <<asked, bound, handle, many, failing>>
        /\ ran' = Append(ran, IF handle = 0 THEN NoValue ELSE bound[handle])
    BY <1>6 DEF Get
  <2>2. /\ Len(ran') = Len(ran) + 1 /\ Len(ran') <= Len(asked)
        /\ \A k \in 1..Len(ran') : ran'[k] = asked[k]
    BY <2>1, RunsNext
  <2>3. Len(ran) \in Nat /\ params \in Seq(Value) /\ Len(params) \in Nat
    BY <1>t DEF ServerOK, LoopInv
  <2>4. CASE many /\ params' = Tail(params)
             /\ pc' = (IF params' = <<>> THEN "close" ELSE "bind")
    <3>1. params # <<>> /\ Len(asked) = Len(ran) + Len(params)
          /\ \A k \in 1..Len(params) : asked[Len(ran) + k] = params[k]
      BY <1>t, <2>1, <2>4 DEF CallInv, LoopInv
    <3>2. /\ params' \in Seq(Value) /\ Len(params') = Len(params) - 1
          /\ \A k \in 1..Len(params') : params'[k] = params[k + 1]
      BY <2>3, <2>4, <3>1, HeadTailProperties
    <3>3. Len(asked) = Len(ran') + Len(params')
      BY <2>2, <2>3, <3>1, <3>2
    <3>4. \A k \in 1..Len(params') : asked[Len(ran') + k] = params'[k]
      <4> SUFFICES ASSUME NEW k \in 1..Len(params') PROVE asked[Len(ran') + k] = params'[k]
        OBVIOUS
      <4>1. k + 1 \in 1..Len(params) /\ Len(ran') + k = Len(ran) + (k + 1)
        BY <2>2, <2>3, <3>2
      <4> QED
        BY <3>1, <3>2, <4>1
    <3>5. params' = <<>> => Len(params') = 0
      OBVIOUS
    <3>6. params' = <<>> => Len(ran') = Len(asked)
      BY <2>2, <2>3, <3>3, <3>5
    <3> QED
      BY <2>1, <2>2, <2>4, <3>2, <3>3, <3>4, <3>6 DEF LoopInv
  <2>5. CASE ~many /\ params' = <<>> /\ pc' = (IF handle = 0 THEN "idle" ELSE "close")
    <3>1. handle # 0 => Len(asked) = Len(ran) + 1
      BY <1>t, <2>1, <2>5 DEF CallInv, LoopInv
    <3>2. params' \in Seq(Value)
      BY <2>5
    <3> QED
      BY <2>1, <2>2, <2>5, <3>1, <3>2 DEF LoopInv
  <2> QED
    BY <1>6, <2>4, <2>5 DEF Get
<1>7. CASE Fail
  <2>1. pc' \in {"idle", "close"} /\ failing' /\ UNCHANGED <<asked, params>>
    BY <1>7 DEF Fail, AfterFailure
  <2>2. \/ ran' = ran
        \/ pc = "get" /\ ran' = Append(ran, IF handle = 0 THEN NoValue ELSE bound[handle])
    BY <1>7 DEF Fail, Unanswered
  <2>3. Len(ran') <= Len(asked) /\ \A k \in 1..Len(ran') : ran'[k] = asked[k]
    BY <2>1, <2>2, RunsNext DEF LoopInv
  <2> QED
    BY <2>1, <2>3 DEF LoopInv
<1>8. CASE CloseStatement
  BY <1>1, <1>8 DEF CloseStatement
<1> QED
  <2>1. /\ <<>> \in Seq(Value) /\ Len(<<>>) <= 1
        /\ \A v \in Value : <<v>> \in Seq(Value) /\ Len(<<v>>) <= 1
    OBVIOUS
  <2>2. ASSUME NEW c \in Cursor, Execute(c) PROVE LoopInv'
    BY <1>2, <2>1, <2>2 DEF Execute
  <2>3. ASSUME NEW c \in Cursor, ExecuteMany(c) PROVE LoopInv'
    BY <1>2, <2>3 DEF ExecuteMany
  <2>4. ASSUME NEW c \in Cursor, NEW n \in 1..MaxRows, FetchMany(c, n) PROVE LoopInv'
    BY <1>1, <2>4 DEF FetchMany
  <2>5. ASSUME NEW c \in Cursor,
               \/ NewCursor(c) \/ CloseCursor(c) \/ UseClosed(c)
               \/ FetchOne(c) \/ Iterate(c) \/ NextRow(c)
        PROVE  LoopInv'
    BY <1>1, <2>5 DEF NewCursor, CloseCursor, UseClosed, FetchOne, Iterate, NextRow
  <2>6. CASE CloseConnection \/ UNCHANGED vars
    BY <1>1, <2>6 DEF CloseConnection, vars
  <2> QED
    BY <2>2, <2>3, <2>4, <2>5, <2>6, <1>3, <1>4, <1>5, <1>6, <1>7, <1>8 DEF Next

\* However many tuples a list has, whichever handle each put returns and
\* whichever request fails, the statement runs with the tuples of the list in
\* their order, and with all of them if the call returns; unless a tuple of the
\* list is empty.
THEOREM RunsInOrder ==
  ASSUME Batches \subseteq Seq(Value)
  PROVE  Spec => []RunsWhatWasAsked
<1>1. Init => LoopInv
  BY DEF Init, LoopInv
<1>2. Base /\ LoopInv /\ [Next]_vars => LoopInv'
  BY LoopStep
<1>3. Base /\ LoopInv => RunsWhatWasAsked
  <2> SUFFICES ASSUME Base, LoopInv PROVE RunsWhatWasAsked
    OBVIOUS
  <2>1. ran \in Seq(Value \cup {Empty, NoValue}) /\ asked \in Seq(Value \cup {Empty, NoValue})
    <3>1. ran \in Seq(Value \cup {NoValue}) /\ asked \in Seq(Value \cup {Empty, NoValue})
      BY DEF Base, TypeOK
    <3> QED
      BY <3>1, SeqMonotonic
  <2>2. IsPrefix(ran, asked)
    BY <2>1, PrefixByElements DEF LoopInv
  <2>3. pc = "close" /\ ~failing => ran = asked
    BY <2>1, SeqEqual DEF LoopInv
  <2> QED
    BY <2>2, <2>3 DEF RunsWhatWasAsked
<1> QED
  BY <1>1, <1>2, <1>3, TypeCorrect, PTL DEF Spec

-----------------------------------------------------------------------------
(* What is left open, and what a closed connection does *)

\* On a server that binds in place a call has at most the statement it runs.
OpenInv ==
  ~rebinds /\ ~unclosed =>
     open \subseteq (IF pc = "idle" \/ handle = 0 THEN {} ELSE {handle})

\* Whatever fails, a call closes its statement, unless the close request fails
\* or the answer to prepare is lost.
THEOREM AllClosed == Spec => []StatementsAreClosed
<1>1. Init => OpenInv
  BY DEF Init, OpenInv
<1>2. Base /\ OpenInv /\ [Next]_vars => OpenInv'
  <2> SUFFICES ASSUME CallInv, OpenInv, [Next]_vars PROVE OpenInv'
    BY DEF Base
  <2> USE DEF server, session, call, result
  <2>1. ASSUME UNCHANGED <<rebinds, open, handle, pc, unclosed>> PROVE OpenInv'
    BY <2>1 DEF OpenInv
  <2>2. ASSUME NEW c \in Cursor, Execute(c) \/ ExecuteMany(c) PROVE OpenInv'
    BY <2>2 DEF Execute, ExecuteMany, Begin, Usable, OpenInv
  <2>3. CASE Prepare
    BY <2>3 DEF Prepare, OpenInv, CallInv
  <2>4. CASE Bind
    BY <2>4 DEF Bind, NextHandle, OpenInv
  <2>5. CASE Info
    BY <2>5 DEF Info, OpenInv
  <2>6. CASE Get
    <3>1. /\ pc = "get" /\ UNCHANGED <<rebinds, open, handle, unclosed>>
          /\ pc' = "idle" => handle = 0
      BY <2>6 DEF Get, CallInv
    <3> QED
      BY <3>1 DEF OpenInv
  <2>7. CASE Fail
    <3>1. /\ pc # "idle" /\ UNCHANGED <<rebinds, handle>>
          /\ pc' = IF handle = 0 THEN "idle" ELSE "close"
      BY <2>7 DEF Fail, AfterFailure
    <3>2. UNCHANGED <<open, unclosed>> \/ unclosed' \/ rebinds
      BY <2>7 DEF Fail, Unanswered
    <3> QED
      BY <3>1, <3>2 DEF OpenInv
  <2>8. CASE CloseStatement
    <3>1. /\ pc = "close" /\ pc' = "idle" /\ UNCHANGED <<rebinds, handle>>
          /\ (open' = open \ {handle} /\ UNCHANGED unclosed) \/ unclosed'
      BY <2>8 DEF CloseStatement
    <3> QED
      BY <3>1 DEF OpenInv
  <2>9. ASSUME NEW c \in Cursor,
               \/ NewCursor(c) \/ CloseCursor(c) \/ UseClosed(c)
               \/ FetchOne(c) \/ Iterate(c) \/ NextRow(c)
        PROVE  OpenInv'
    BY <2>1, <2>9 DEF NewCursor, CloseCursor, UseClosed, FetchOne, Iterate, NextRow
  <2>10. ASSUME NEW c \in Cursor, NEW n \in 1..MaxRows, FetchMany(c, n) PROVE OpenInv'
    BY <2>1, <2>10 DEF FetchMany
  <2>11. CASE CloseConnection \/ UNCHANGED vars
    BY <2>1, <2>11 DEF CloseConnection, vars
  <2> QED
    BY <2>2, <2>3, <2>4, <2>5, <2>6, <2>7, <2>8, <2>9, <2>10, <2>11 DEF Next
<1>3. OpenInv => StatementsAreClosed
  BY DEF OpenInv, StatementsAreClosed
<1> QED
  BY <1>1, <1>2, <1>3, TypeCorrect, PTL DEF Spec

\* A closed connection runs nothing and has closed every cursor it made.
LiveInv == ~live => pc = "idle" /\ made \subseteq closed

Inactive == ~live => UNCHANGED <<ran, rows, made>>

\* Once a connection is closed, nothing executes, fetches or makes a cursor,
\* whatever cursors the caller still holds.
THEOREM NothingAfterClose == Spec => NothingRunsAfterClose
<1> USE DEF server, session, call, result
<1>1. Init => LiveInv
  BY DEF Init, LiveInv
<1>2. LiveInv /\ [Next]_vars => LiveInv' /\ [Inactive]_vars
  <2> SUFFICES ASSUME LiveInv, [Next]_vars PROVE LiveInv' /\ Inactive
    OBVIOUS
  <2>1. CASE ~live
    <3>1. \A c \in Cursor : ~Usable(c)
      BY <2>1 DEF Usable, LiveInv
    <3>2. pc = "idle" /\ made \subseteq closed
      BY <2>1 DEF LiveInv
    <3>3. ASSUME NEW c \in Cursor, UseClosed(c) \/ NextRow(c) PROVE LiveInv' /\ Inactive
      BY <3>2, <3>3 DEF UseClosed, NextRow, LiveInv, Inactive
    <3>4. ASSUME NEW c \in Cursor, NEW n \in 1..MaxRows,
                 \/ NewCursor(c) \/ CloseCursor(c) \/ Execute(c) \/ ExecuteMany(c)
                 \/ FetchOne(c) \/ Iterate(c) \/ FetchMany(c, n)
          PROVE  FALSE
      BY <2>1, <3>1, <3>4 DEF NewCursor, CloseCursor, Execute, ExecuteMany, Begin, FetchOne,
         Iterate, FetchMany
    <3>5. ASSUME NEW c \in Cursor,
                 \/ NewCursor(c) \/ CloseCursor(c) \/ Execute(c) \/ ExecuteMany(c)
                 \/ FetchOne(c) \/ Iterate(c)
          PROVE  FALSE
      BY <2>1, <3>1, <3>5 DEF NewCursor, CloseCursor, Execute, ExecuteMany, Begin, FetchOne,
         Iterate
    <3>6. ~(CloseConnection \/ Prepare \/ Bind \/ Info \/ Get \/ Fail \/ CloseStatement)
      BY <2>1, <3>2 DEF CloseConnection, Prepare, Bind, Info, Get, Fail, CloseStatement
    <3>7. CASE UNCHANGED vars
      BY <3>2, <3>7 DEF vars, LiveInv, Inactive
    <3> QED
      BY <3>3, <3>4, <3>5, <3>6, <3>7 DEF Next
  <2>2. CASE live
    <3>1. CASE CloseConnection
      BY <3>1 DEF CloseConnection, ClosedWith, LiveInv, Inactive
    <3>2. CASE live' = live
      BY <2>2, <3>2 DEF LiveInv, Inactive
    <3>3. \A c \in Cursor : NewCursor(c) \/ CloseCursor(c) \/ UseClosed(c) => live' = live
      BY DEF NewCursor, CloseCursor, UseClosed
    <3>4. \A c \in Cursor : Execute(c) \/ ExecuteMany(c) => live' = live
      BY DEF Execute, ExecuteMany, Begin
    <3>5. \A c \in Cursor : FetchOne(c) \/ Iterate(c) \/ NextRow(c) => live' = live
      BY DEF FetchOne, Iterate, NextRow
    <3>6. \A c \in Cursor, n \in 1..MaxRows : FetchMany(c, n) => live' = live
      BY DEF FetchMany
    <3>7. Prepare \/ Bind \/ Info \/ Get \/ Fail \/ CloseStatement \/ UNCHANGED vars
            => live' = live
      BY DEF Prepare, Bind, Info, Get, Fail, CloseStatement, vars
    <3> QED
      BY <3>1, <3>2, <3>3, <3>4, <3>5, <3>6, <3>7 DEF Next
  <2> QED
    BY <2>1, <2>2
<1>3. [Inactive]_vars => [~live => UNCHANGED <<ran, rows, made>>]_vars
  BY DEF Inactive
<1> QED
  BY <1>1, <1>2, <1>3, PTL DEF Spec, NothingRunsAfterClose

-----------------------------------------------------------------------------
(* What is fetched *)

\* What a step does to the rows of one cursor: nothing, a new call, a result, a
\* row taken from the list, or the list cut.
Untouched(c) == UNCHANGED <<rows[c], taken[c], full[c], latest[c]>>
Started(c)   == rows'[c] = <<>> /\ taken'[c] = <<>> /\ full'[c] = <<>>
Arrived(c)   == \E n \in 0..MaxRows :
                  /\ pc = "get" /\ c = cur
                  /\ rows'[c] = [k \in 1..n |-> <<calls, k>>] /\ full'[c] = rows'[c]
                  /\ UNCHANGED <<taken[c], latest[c]>>
Popped(c)    == /\ rows[c] # <<>> /\ rows'[c] = Tail(rows[c])
                /\ taken'[c] = Append(taken[c], Head(rows[c]))
                /\ UNCHANGED <<full[c], latest[c]>>
Cut(c)       == \E n \in Nat :
                  /\ rows'[c] = LeftAfter(rows[c], n)
                  /\ taken'[c] = taken[c] \o SubSeq(rows[c], 1, IF n < Len(rows[c]) THEN n
                                                                 ELSE Len(rows[c]))
                  /\ UNCHANGED <<full[c], latest[c]>>

LEMMA RowSteps ==
  ASSUME Base, [Next]_vars, NEW c \in Cursor
  PROVE  Untouched(c) \/ Started(c) \/ Arrived(c) \/ Popped(c) \/ Cut(c)
<1> USE DEF server, session, call, result
<1>t. ResultOK /\ CallOK
  BY TypeParts DEF Base
<1>1. ASSUME NEW d \in Cursor, Execute(d) \/ ExecuteMany(d)
      PROVE  Started(c) \/ Untouched(c)
  <2>1. /\ rows' = [rows EXCEPT ![d] = <<>>] /\ full' = [full EXCEPT ![d] = <<>>]
        /\ taken' = [taken EXCEPT ![d] = <<>>] /\ latest' = [latest EXCEPT ![d] = calls + 1]
    BY <1>1 DEF Execute, ExecuteMany, Begin, Cleared, Replaced
  <2> QED
    BY <1>t, <2>1 DEF ResultOK, CallOK, Started, Untouched
<1>2. CASE Get
  <2>1. CASE UNCHANGED <<rows, taken, full, latest>>
    BY <2>1 DEF Untouched
  <2>2. ASSUME NEW n \in 0..MaxRows, pc = "get",
               rows' = [rows EXCEPT ![cur] = [k \in 1..n |-> <<calls, k>>]],
               full' = [full EXCEPT ![cur] = [k \in 1..n |-> <<calls, k>>]],
               UNCHANGED <<taken, latest>>
        PROVE  Arrived(c) \/ Untouched(c)
    <3>1. CASE c = cur
      BY <1>t, <2>2, <3>1 DEF ResultOK, CallOK, Arrived
    <3>2. CASE c # cur
      BY <1>t, <2>2, <3>2 DEF ResultOK, CallOK, Untouched
    <3> QED
      BY <3>1, <3>2
  <2> QED
    BY <1>2, <2>1, <2>2 DEF Get, Replaced
<1>3. ASSUME NEW d \in Cursor, FetchOne(d) PROVE Popped(c) \/ Untouched(c)
  <2>1. CASE rows[d] = <<>>
    BY <1>3, <2>1 DEF FetchOne, Untouched
  <2>2. CASE rows[d] # <<>>
    <3>1. /\ rows' = [rows EXCEPT ![d] = Tail(rows[d])]
          /\ taken' = [taken EXCEPT ![d] = Append(taken[d], Head(rows[d]))]
          /\ UNCHANGED <<full, latest>>
      BY <1>3, <2>2 DEF FetchOne
    <3> QED
      BY <1>t, <2>2, <3>1 DEF ResultOK, Popped, Untouched
  <2> QED
    BY <2>1, <2>2
<1>4. ASSUME NEW d \in Cursor, NEW n \in 1..MaxRows, FetchMany(d, n)
      PROVE  Cut(c) \/ Untouched(c)
  <2> DEFINE part == SubSeq(rows[d], 1, IF n < Len(rows[d]) THEN n ELSE Len(rows[d]))
  <2>1. /\ rows' = [rows EXCEPT ![d] = LeftAfter(rows[d], n)]
        /\ taken' = [taken EXCEPT ![d] = taken[d] \o part]
        /\ UNCHANGED <<full, latest>> /\ n \in Nat
    BY <1>4, ConstantsAssumption DEF FetchMany, Replaced, ConstantsAssumption
  <2> HIDE DEF part
  <2>2. CASE c = d
    <3>1. rows'[c] = LeftAfter(rows[c], n) /\ taken'[c] = taken[c] \o part
      BY <1>t, <2>1, <2>2 DEF ResultOK
    <3> QED
      BY <2>1, <2>2, <3>1 DEF Cut, part
  <2>3. CASE c # d
    BY <1>t, <2>1, <2>3 DEF ResultOK, Untouched
  <2> QED
    BY <2>2, <2>3
<1>5. ASSUME NEW d \in Cursor, \/ NewCursor(d) \/ CloseCursor(d) \/ UseClosed(d)
                               \/ Iterate(d) \/ NextRow(d)
      PROVE  Untouched(c)
  BY <1>5 DEF NewCursor, CloseCursor, UseClosed, Iterate, NextRow, Untouched
<1>6. CASE \/ CloseConnection \/ Prepare \/ Bind \/ Info \/ Fail \/ CloseStatement
           \/ UNCHANGED vars
  BY <1>6 DEF CloseConnection, Prepare, Bind, Info, Fail, CloseStatement, vars, Untouched
<1> QED
  BY <1>1, <1>2, <1>3, <1>4, <1>5, <1>6 DEF Next

LEMMA PoppedSame ==
  ASSUME NEW s \in Seq(Row), NEW t \in Seq(Row), s # <<>>
  PROVE  Append(t, Head(s)) \o Tail(s) = t \o s
<1>1. Head(s) \in Row /\ Tail(s) \in Seq(Row) /\ Len(Tail(s)) = Len(s) - 1
      /\ \A i \in 1..Len(Tail(s)) : Tail(s)[i] = s[i + 1]
  BY HeadTailProperties
<1>2. Head(s) = s[1] /\ Len(s) \in Nat \ {0} /\ Len(t) \in Nat
  OBVIOUS
<1> DEFINE u == Append(t, Head(s))
<1>3. /\ u \in Seq(Row) /\ Len(u) = Len(t) + 1 /\ u[Len(t) + 1] = Head(s)
      /\ \A i \in 1..Len(t) : u[i] = t[i]
  BY <1>1, AppendProperties
<1> HIDE DEF u
<1>4. /\ u \o Tail(s) \in Seq(Row) /\ Len(u \o Tail(s)) = Len(u) + Len(Tail(s))
      /\ \A i \in 1..(Len(u) + Len(Tail(s))) :
            (u \o Tail(s))[i] = IF i <= Len(u) THEN u[i] ELSE Tail(s)[i - Len(u)]
  BY <1>1, <1>3, ConcatProperties
<1>5. /\ t \o s \in Seq(Row) /\ Len(t \o s) = Len(t) + Len(s)
      /\ \A i \in 1..(Len(t) + Len(s)) :
            (t \o s)[i] = IF i <= Len(t) THEN t[i] ELSE s[i - Len(t)]
  BY ConcatProperties
<1>6. ASSUME NEW i \in 1..(Len(t) + Len(s)) PROVE (u \o Tail(s))[i] = (t \o s)[i]
  <2>1. CASE i <= Len(t)
    BY <1>1, <1>2, <1>3, <1>4, <1>5, <2>1
  <2>2. CASE i = Len(t) + 1
    BY <1>1, <1>2, <1>3, <1>4, <1>5, <2>2
  <2>3. CASE i > Len(t) + 1
    <3>1. i - Len(u) \in 1..Len(Tail(s)) /\ (i - Len(u)) + 1 = i - Len(t)
      BY <1>1, <1>2, <1>3, <2>3
    <3> QED
      BY <1>1, <1>2, <1>3, <1>4, <1>5, <2>3, <3>1
  <2> QED
    <3>1. i \in Int /\ Len(t) \in Int
      BY <1>2
    <3>2. i <= Len(t) \/ i = Len(t) + 1 \/ i > Len(t) + 1
      BY <3>1
    <3> QED
      BY <3>2, <2>1, <2>2, <2>3
<1>7. Len(u \o Tail(s)) = Len(t \o s)
  BY <1>1, <1>2, <1>3, <1>4, <1>5
<1> QED
  BY <1>4, <1>5, <1>6, <1>7, SeqEqual DEF u

LEMMA CutSame ==
  ASSUME NEW s \in Seq(Row), NEW t \in Seq(Row), NEW n \in Nat
  PROVE  (t \o SubSeq(s, 1, IF n < Len(s) THEN n ELSE Len(s))) \o LeftAfter(s, n) = t \o s
<1> DEFINE m == IF n < Len(s) THEN n ELSE Len(s)
           part == SubSeq(s, 1, m)
<1>1. Len(s) \in Nat /\ m \in 0..Len(s)
  OBVIOUS
<1>2. LeftAfter(s, n) = SubSeq(s, m + 1, Len(s))
  <2>1. CASE n < Len(s)
    BY <2>1 DEF LeftAfter
  <2>2. CASE ~(n < Len(s))
    <3>1. n + 1 \in Int /\ Len(s) \in Int /\ Len(s) < n + 1 /\ m + 1 \in Int /\ Len(s) < m + 1
      BY <1>1, <2>2
    <3> QED
      BY <3>1, SubSeqEmpty DEF LeftAfter
  <2> QED
    BY <2>1, <2>2
<1>3. part \in Seq(Row) /\ LeftAfter(s, n) \in Seq(Row)
  BY LeftType
<1> HIDE DEF m
<1>4. part \o SubSeq(s, m + 1, Len(s)) = s
  <2>1. 1 \in 1..(Len(s) + 1) /\ m \in (1 - 1)..Len(s) /\ Len(s) \in m..Len(s)
    BY <1>1
  <2>2. part \o SubSeq(s, m + 1, Len(s)) = SubSeq(s, 1, Len(s))
    BY <2>1, ConcatAdjacentSubSeq
  <2> QED
    BY <2>2, SubSeqFull
<1> HIDE DEF part
<1>5. (t \o part) \o LeftAfter(s, n) = t \o (part \o LeftAfter(s, n))
  BY <1>3, ConcatAssociative
<1>6. (t \o part) \o LeftAfter(s, n) = t \o s
  BY <1>2, <1>4, <1>5
<1> QED
  BY <1>6 DEF part, m

\* Rows fetched and rows left are the result, and a call in progress has
\* fetched nothing.
FetchInv ==
  /\ \A c \in Cursor : taken[c] \o rows[c] = full[c]
  /\ pc # "idle" => taken[cur] = <<>>

LEMMA InCallNothingTaken ==
  ASSUME Base, FetchInv, [Next]_vars, pc' # "idle"
  PROVE  taken'[cur'] = <<>>
<1> USE DEF server, session, call, result
<1>t. ResultOK /\ CallOK
  BY TypeParts DEF Base
<1>1. CASE pc # "idle" /\ UNCHANGED <<cur, taken>>
  BY <1>1 DEF FetchInv
<1>2. ASSUME NEW d \in Cursor, Execute(d) \/ ExecuteMany(d) PROVE taken'[cur'] = <<>>
  <2>1. taken' = [taken EXCEPT ![d] = <<>>] /\ cur' = d
    BY <1>2 DEF Execute, ExecuteMany, Begin
  <2> QED
    BY <1>t, <2>1 DEF ResultOK
<1>3. CASE Prepare \/ Bind \/ Info \/ Get \/ Fail \/ CloseStatement
  BY <1>1, <1>3 DEF Prepare, Bind, Info, Get, Fail, CloseStatement
<1>4. ASSUME NEW d \in Cursor, NEW n \in 1..MaxRows, FetchMany(d, n) PROVE FALSE
  BY <1>4 DEF FetchMany, Usable
<1>5. ASSUME NEW d \in Cursor, \/ NewCursor(d) \/ CloseCursor(d) \/ UseClosed(d)
                               \/ FetchOne(d) \/ Iterate(d) \/ NextRow(d)
      PROVE  FALSE
  BY <1>5 DEF NewCursor, CloseCursor, UseClosed, FetchOne, Iterate, NextRow, Usable
<1>6. CASE CloseConnection \/ UNCHANGED vars
  BY <1>1, <1>6 DEF CloseConnection, vars
<1> QED
  BY <1>2, <1>3, <1>4, <1>5, <1>6 DEF Next

\* Any mixture of fetchone, fetchmany and fetchall hands out a result of any
\* length once and in order.
THEOREM AllFetchedInOrder == Spec => []FetchedInOrder
<1>1. Init => FetchInv
  <2>1. <<>> \o <<>> = <<>>
    BY ConcatEmptySeq, EmptySeq
  <2> QED
    BY <2>1 DEF Init, FetchInv
<1>2. Base /\ FetchInv /\ [Next]_vars => FetchInv'
  <2> SUFFICES ASSUME Base, FetchInv, [Next]_vars PROVE FetchInv'
    OBVIOUS
  <2>t. CallOK /\ \A c \in Cursor : rows[c] \in Seq(Row) /\ taken[c] \in Seq(Row)
    BY TypeParts DEF Base, ResultOK
  <2>1. ASSUME NEW c \in Cursor PROVE taken'[c] \o rows'[c] = full'[c]
    <3>1. CASE Untouched(c)
      BY <3>1 DEF Untouched, FetchInv
    <3>2. CASE Started(c)
      <4>1. <<>> \o <<>> = <<>>
        BY ConcatEmptySeq, EmptySeq
      <4> QED
        BY <3>2, <4>1 DEF Started
    <3>3. CASE Arrived(c)
      <4>1. taken'[c] = <<>> /\ full'[c] = rows'[c]
        BY <3>3 DEF Arrived, FetchInv
      <4>2. rows'[c] \in Seq(Row)
        BY <3>3, NewResultType DEF Arrived, Base
      <4> QED
        BY <4>1, <4>2, ConcatEmptySeq
    <3>4. CASE Popped(c)
      <4>1. Append(taken[c], Head(rows[c])) \o Tail(rows[c]) = taken[c] \o rows[c]
        BY <2>t, <3>4, PoppedSame DEF Popped
      <4> QED
        BY <3>4, <4>1 DEF Popped, FetchInv
    <3>5. CASE Cut(c)
      <4>1. PICK n \in Nat :
              /\ rows'[c] = LeftAfter(rows[c], n)
              /\ taken'[c] = taken[c] \o SubSeq(rows[c], 1, IF n < Len(rows[c]) THEN n
                                                             ELSE Len(rows[c]))
              /\ UNCHANGED <<full[c], latest[c]>>
        BY <3>5 DEF Cut
      <4>2. taken'[c] \o rows'[c] = taken[c] \o rows[c]
        <5> DEFINE part == SubSeq(rows[c], 1, IF n < Len(rows[c]) THEN n ELSE Len(rows[c]))
        <5>1. (taken[c] \o part) \o LeftAfter(rows[c], n) = taken[c] \o rows[c]
          BY <2>t, CutSame
        <5> HIDE DEF part
        <5>2. taken'[c] = taken[c] \o part
          BY <4>1 DEF part
        <5> QED
          BY <4>1, <5>1, <5>2
      <4> QED
        BY <4>1, <4>2 DEF FetchInv
    <3> QED
      BY <3>1, <3>2, <3>3, <3>4, <3>5, RowSteps
  <2> QED
    BY <2>1, InCallNothingTaken DEF FetchInv
<1>3. FetchInv => FetchedInOrder
  BY DEF FetchInv, FetchedInOrder
<1> QED
  BY <1>1, <1>2, <1>3, TypeCorrect, PTL DEF Spec

\* Rows of an earlier call never survive a later one of the same cursor.
THEOREM RowsAreFresh == Spec => []NoStaleRows
<1>1. Init => NoStaleRows
  BY DEF Init, NoStaleRows
<1>2. Base /\ NoStaleRows /\ [Next]_vars => NoStaleRows'
  <2> SUFFICES ASSUME Base, NoStaleRows, [Next]_vars, NEW c \in Cursor
               PROVE  \A k \in DOMAIN rows'[c] : rows'[c][k][1] = latest'[c]
    BY DEF NoStaleRows
  <2>t. rows[c] \in Seq(Row)
    BY DEF Base, TypeOK
  <2>0. \A k \in 1..Len(rows[c]) : rows[c][k][1] = latest[c]
    BY <2>t DEF NoStaleRows
  <2>1. CASE Untouched(c)
    BY <2>1 DEF Untouched, NoStaleRows
  <2>2. CASE Started(c)
    BY <2>2 DEF Started
  <2>3. CASE Arrived(c)
    <3>1. PICK n \in 0..MaxRows : rows'[c] = [k \in 1..n |-> <<calls, k>>]
      BY <2>3 DEF Arrived
    <3>2. latest'[c] = calls
      BY <2>3 DEF Arrived, Base, CallInv
    <3> QED
      BY <3>1, <3>2
  <2>4. CASE Popped(c)
    <3>1. /\ rows'[c] \in Seq(Row) /\ Len(rows'[c]) = Len(rows[c]) - 1
          /\ \A k \in 1..Len(rows'[c]) : rows'[c][k] = rows[c][k + 1]
          /\ latest'[c] = latest[c]
      BY <2>t, <2>4, HeadTailProperties DEF Popped
    <3> QED
      BY <2>t, <2>0, <3>1
  <2>5. CASE Cut(c)
    <3>1. PICK n \in Nat : rows'[c] = SubSeq(rows[c], n + 1, Len(rows[c]))
                           /\ latest'[c] = latest[c]
      BY <2>5 DEF Cut, LeftAfter
    <3>2. /\ rows'[c] \in Seq(Row)
          /\ Len(rows'[c]) = IF n + 1 <= Len(rows[c]) THEN Len(rows[c]) - (n + 1) + 1 ELSE 0
          /\ \A k \in 1..(Len(rows[c]) - (n + 1) + 1) : rows'[c][k] = rows[c][(n + 1) + k - 1]
      <4>1. \A i \in (n + 1)..Len(rows[c]) : rows[c][i] \in Row
        BY <2>t
      <4>2. n + 1 \in Int /\ Len(rows[c]) \in Int
        BY <2>t
      <4> QED
        BY <3>1, <4>1, <4>2, SubSeqProperties
    <3>3. ASSUME NEW k \in 1..Len(rows'[c]) PROVE rows'[c][k][1] = latest'[c]
      <4>1. Len(rows[c]) \in Nat /\ k \in Nat
        BY <2>t, <3>2
      <4>2. k \in 1..(Len(rows[c]) - (n + 1) + 1) /\ (n + 1) + k - 1 \in 1..Len(rows[c])
        BY <3>2, <4>1
      <4> QED
        BY <2>0, <3>1, <3>2, <4>2
    <3>4. DOMAIN rows'[c] = 1..Len(rows'[c])
      BY <3>2, LenProperties
    <3> QED
      BY <3>3, <3>4
  <2> QED
    BY <2>1, <2>2, <2>3, <2>4, <2>5, RowSteps
<1> QED
  BY <1>1, <1>2, TypeCorrect, PTL DEF Spec

-----------------------------------------------------------------------------
(* What an iterator hands out *)

Sorted(s) == \A i, j \in 1..Len(s) : i < j => s[i][2] < s[j][2]

\* An iterator at pos of list that began with over and has given rows.
Walks(list, pos, over, given, popped) ==
  /\ Sorted(list) /\ Sorted(given)
  /\ \A k \in 1..Len(given), j \in 1..Len(list) : pos < j => given[k][2] < list[j][2]
  /\ \A j \in 1..Len(list) : list[j] \in Range(over)
  /\ \A k \in 1..Len(given) : given[k] \in Range(over)
  /\ ~popped => /\ list = over /\ pos <= Len(over) /\ Len(given) = pos
                /\ \A k \in 1..pos : given[k] = over[k]

LEMMA RowNumbers == ASSUME NEW s \in Seq(Row), NEW k \in 1..Len(s) PROVE s[k][2] \in Nat
<1>1. s[k] \in Row
  OBVIOUS
<1> QED
  BY <1>1, ConstantsAssumption DEF Row, ConstantsAssumption

LEMMA SortedTail ==
  ASSUME NEW s \in Seq(Row), s # <<>>, Sorted(s)
  PROVE  Sorted(Tail(s))
<1>1. /\ Len(Tail(s)) = Len(s) - 1 /\ Len(s) \in Nat
      /\ \A i \in 1..Len(Tail(s)) : Tail(s)[i] = s[i + 1]
  BY HeadTailProperties
<1> SUFFICES ASSUME NEW i \in 1..Len(Tail(s)), NEW j \in 1..Len(Tail(s)), i < j
             PROVE  Tail(s)[i][2] < Tail(s)[j][2]
  BY DEF Sorted
<1>2. i + 1 \in 1..Len(s) /\ j + 1 \in 1..Len(s) /\ i + 1 < j + 1
  BY <1>1
<1> QED
  BY <1>1, <1>2 DEF Sorted

LEMMA SortedCut ==
  ASSUME NEW s \in Seq(Row), NEW n \in Nat, Sorted(s)
  PROVE  Sorted(LeftAfter(s, n))
<1> DEFINE t == SubSeq(s, n + 1, Len(s))
<1>1. /\ Len(t) = IF n + 1 <= Len(s) THEN Len(s) - (n + 1) + 1 ELSE 0
      /\ \A k \in 1..(Len(s) - (n + 1) + 1) : t[k] = s[(n + 1) + k - 1]
  <2>1. \A i \in (n + 1)..Len(s) : s[i] \in Row
    OBVIOUS
  <2>2. n + 1 \in Int /\ Len(s) \in Int
    OBVIOUS
  <2> QED
    BY <2>1, <2>2, SubSeqProperties
<1> HIDE DEF t
<1>2. ASSUME NEW i \in 1..Len(t), NEW j \in 1..Len(t), i < j PROVE t[i][2] < t[j][2]
  <2>1. Len(s) \in Nat
    OBVIOUS
  <2>2. /\ i \in 1..(Len(s) - (n + 1) + 1) /\ (n + 1) + i - 1 \in 1..Len(s)
        /\ j \in 1..(Len(s) - (n + 1) + 1) /\ (n + 1) + j - 1 \in 1..Len(s)
        /\ (n + 1) + i - 1 < (n + 1) + j - 1
    BY <1>1, <1>2, <2>1
  <2>3. s[(n + 1) + i - 1][2] < s[(n + 1) + j - 1][2]
    BY <2>2 DEF Sorted
  <2> QED
    BY <1>1, <2>2, <2>3
<1> QED
  BY <1>2 DEF t, Sorted, LeftAfter

LEMMA WalkBegins ==
  ASSUME NEW s \in Seq(Row), Sorted(s)
  PROVE  Walks(s, 0, s, <<>>, FALSE)
<1>1. Len(<<>>) = 0 /\ Len(s) \in Nat /\ DOMAIN s = 1..Len(s)
  BY LenProperties
<1>2. \A j \in 1..Len(s) : s[j] \in Range(s)
  BY <1>1 DEF Range
<1> QED
  BY <1>1, <1>2 DEF Walks, Sorted

LEMMA WalkAdvances ==
  ASSUME NEW list \in Seq(Row), NEW pos \in Nat, NEW over \in Seq(Row), NEW given \in Seq(Row),
         NEW popped \in BOOLEAN, Walks(list, pos, over, given, popped), pos < Len(list)
  PROVE  Walks(list, pos + 1, over, Append(given, list[pos + 1]), popped)
<1> DEFINE e == list[pos + 1]
           g == Append(given, e)
<1>1. pos + 1 \in 1..Len(list) /\ Len(given) \in Nat /\ Len(list) \in Nat
  OBVIOUS
<1>2. e \in Row
  BY <1>1
<1>3. /\ Len(g) = Len(given) + 1 /\ g[Len(given) + 1] = e
      /\ \A k \in 1..Len(given) : g[k] = given[k]
  BY <1>2, AppendProperties
<1>4. \A j \in 1..Len(list) : pos + 1 < j => e[2] < list[j][2]
  BY <1>1 DEF Walks, Sorted
<1>5. \A k \in 1..Len(given) : given[k][2] < e[2]
  BY <1>1 DEF Walks
<1> HIDE DEF e, g
<1>6. Sorted(g)
  BY <1>1, <1>3, <1>5 DEF Walks, Sorted
<1>7. \A k \in 1..Len(g), j \in 1..Len(list) : pos + 1 < j => g[k][2] < list[j][2]
  <2> SUFFICES ASSUME NEW k \in 1..Len(g), NEW j \in 1..Len(list), pos + 1 < j
               PROVE  g[k][2] < list[j][2]
    OBVIOUS
  <2>1. CASE k = Len(given) + 1
    BY <1>3, <1>4, <2>1
  <2>2. CASE k \in 1..Len(given)
    BY <1>3, <2>2 DEF Walks
  <2> QED
    BY <1>1, <1>3, <2>1, <2>2
<1>8. e \in Range(over)
  BY <1>1 DEF Walks, e
<1>9. \A k \in 1..Len(g) : g[k] \in Range(over)
  BY <1>1, <1>3, <1>8 DEF Walks
<1>10. ~popped => /\ list = over /\ pos + 1 <= Len(over) /\ Len(g) = pos + 1
                  /\ \A k \in 1..(pos + 1) : g[k] = over[k]
  <2> SUFFICES ASSUME ~popped
               PROVE  /\ list = over /\ pos + 1 <= Len(over) /\ Len(g) = pos + 1
                      /\ \A k \in 1..(pos + 1) : g[k] = over[k]
    OBVIOUS
  <2>1. list = over /\ Len(given) = pos /\ \A k \in 1..pos : given[k] = over[k]
    BY DEF Walks
  <2>2. e = over[pos + 1]
    BY <2>1 DEF e
  <2> QED
    BY <1>1, <1>3, <2>1, <2>2
<1> QED
  BY <1>6, <1>7, <1>9, <1>10 DEF Walks, g, e

LEMMA WalkPopped ==
  ASSUME NEW list \in Seq(Row), NEW pos \in Nat, NEW over \in Seq(Row), NEW given \in Seq(Row),
         NEW popped \in BOOLEAN, Walks(list, pos, over, given, popped), list # <<>>
  PROVE  Walks(Tail(list), pos, over, given, TRUE)
<1> DEFINE t == Tail(list)
<1>1. /\ Len(t) = Len(list) - 1 /\ Len(list) \in Nat
      /\ \A i \in 1..Len(t) : t[i] = list[i + 1]
  BY HeadTailProperties
<1>2. Sorted(t)
  BY SortedTail DEF Walks
<1> HIDE DEF t
<1>3. \A j \in 1..Len(t) : j + 1 \in 1..Len(list) /\ (pos < j => pos < j + 1)
  BY <1>1
<1>4. \A k \in 1..Len(given), j \in 1..Len(t) : pos < j => given[k][2] < t[j][2]
  BY <1>1, <1>3 DEF Walks
<1>5. \A j \in 1..Len(t) : t[j] \in Range(over)
  BY <1>1, <1>3 DEF Walks
<1> QED
  BY <1>2, <1>4, <1>5 DEF Walks, t

IterInv ==
  \A c \in Cursor :
     /\ Sorted(rows[c])
     /\ Walks(iter[c].list, iter[c].pos, walk[c].over, walk[c].given, walk[c].popped)

\* A step that leaves an iterator where it is, and what it has given.
Rests(c) == /\ iter'[c].list = iter[c].list /\ iter'[c].pos = iter[c].pos
            /\ walk'[c] = walk[c]

LEMMA RowsStaySorted ==
  ASSUME Base, IterInv, [Next]_vars, NEW c \in Cursor
  PROVE  Sorted(rows'[c])
<1>0. rows[c] \in Seq(Row) /\ Sorted(rows[c])
  BY DEF Base, TypeOK, IterInv
<1>1. CASE Untouched(c)
  BY <1>0, <1>1 DEF Untouched
<1>2. CASE Started(c)
  BY <1>2 DEF Started, Sorted
<1>3. CASE Arrived(c)
  <2>1. PICK n \in 0..MaxRows : rows'[c] = [k \in 1..n |-> <<calls, k>>]
    BY <1>3 DEF Arrived
  <2>2. n \in Nat
    BY ConstantsAssumption DEF ConstantsAssumption
  <2> DEFINE new == [k \in 1..n |-> <<calls, k>>]
  <2>3. Len(new) = n /\ \A k \in 1..n : new[k][2] = k
    BY <2>2
  <2> HIDE DEF new
  <2>4. Sorted(new)
    BY <2>2, <2>3 DEF Sorted
  <2> QED
    BY <2>1, <2>4 DEF new
<1>4. CASE Popped(c)
  BY <1>0, <1>4, SortedTail DEF Popped
<1>5. CASE Cut(c)
  BY <1>0, <1>5, SortedCut DEF Cut
<1> QED
  BY <1>1, <1>2, <1>3, <1>4, <1>5, RowSteps

LEMMA WalkStep ==
  ASSUME Base, IterInv, [Next]_vars, NEW c \in Cursor
  PROVE  Walks(iter'[c].list, iter'[c].pos, walk'[c].over, walk'[c].given, walk'[c].popped)
<1> USE DEF server, session, call, result
<1>t. /\ iter \in [Cursor -> IterType] /\ walk \in [Cursor -> WalkType] /\ cur \in Cursor
      /\ rows \in [Cursor -> Seq(Row)]
  BY TypeParts DEF Base, ResultOK, CallOK
<1>0. /\ Sorted(rows[c])
      /\ Walks(iter[c].list, iter[c].pos, walk[c].over, walk[c].given, walk[c].popped)
  BY DEF IterInv
<1>f. /\ iter[c].list \in Seq(Row) /\ iter[c].pos \in Nat /\ iter[c].own \in BOOLEAN
      /\ walk[c].over \in Seq(Row) /\ walk[c].given \in Seq(Row) /\ walk[c].popped \in BOOLEAN
  BY <1>t DEF IterType, WalkType
<1>1. CASE Rests(c)
  BY <1>0, <1>1 DEF Rests
<1>2. ASSUME NEW d \in Cursor, iter' = [iter EXCEPT ![d].own = FALSE], walk' = walk PROVE Rests(c)
  BY <1>t, <1>2 DEF Rests, IterType
<1>3. ASSUME NEW d \in Cursor, Execute(d) \/ ExecuteMany(d) PROVE Rests(c)
  <2>1. iter' = [iter EXCEPT ![d].own = FALSE] /\ walk' = walk
    BY <1>3 DEF Execute, ExecuteMany, Begin, Cleared, Replaced
  <2> QED
    BY <1>2, <2>1
<1>4. CASE Get
  <2>1. walk' = walk /\ (iter' = iter \/ iter' = [iter EXCEPT ![cur].own = FALSE])
    BY <1>4 DEF Get, Replaced
  <2> QED
    BY <1>1, <1>2, <1>t, <2>1 DEF Rests
<1>5. ASSUME NEW d \in Cursor, NEW n \in 1..MaxRows, FetchMany(d, n) PROVE Rests(c)
  BY <1>2, <1>5 DEF FetchMany, Replaced
<1>6. ASSUME NEW d \in Cursor, NewCursor(d) \/ CloseCursor(d) \/ UseClosed(d) PROVE Rests(c)
  BY <1>6 DEF NewCursor, CloseCursor, UseClosed, Rests
<1>7. CASE \/ CloseConnection \/ Prepare \/ Bind \/ Info \/ Fail \/ CloseStatement
           \/ UNCHANGED vars
  BY <1>1, <1>7 DEF CloseConnection, Prepare, Bind, Info, Fail, CloseStatement, vars, Rests
<1>8. ASSUME NEW d \in Cursor, FetchOne(d)
      PROVE  Walks(iter'[c].list, iter'[c].pos, walk'[c].over, walk'[c].given, walk'[c].popped)
  <2>1. CASE rows[d] = <<>>
    BY <1>1, <1>8, <2>1 DEF FetchOne, Rests
  <2>2. CASE rows[d] # <<>>
    <3> DEFINE l == IF iter[d].own THEN Tail(rows[d]) ELSE iter[d].list
               b == walk[d].popped \/ iter[d].own
    <3>1. iter' = [iter EXCEPT ![d].list = l] /\ walk' = [walk EXCEPT ![d].popped = b]
      BY <1>8, <2>2 DEF FetchOne, Base, OwnList
    <3> HIDE DEF l, b
    <3>2. CASE d # c
      BY <1>1, <1>t, <3>1, <3>2 DEF Rests
    <3>3. CASE d = c
      <4>1. /\ iter'[c].list = l /\ iter'[c].pos = iter[c].pos
            /\ walk'[c].over = walk[c].over /\ walk'[c].given = walk[c].given
            /\ walk'[c].popped = b
        BY <1>t, <3>1, <3>3 DEF IterType, WalkType
      <4>2. CASE iter[c].own
        <5>1. l = Tail(iter[c].list) /\ b = TRUE /\ iter[c].list # <<>>
          BY <2>2, <3>3, <4>2, <1>f DEF l, b, Base, OwnList
        <5> QED
          BY <1>0, <1>f, <4>1, <5>1, WalkPopped
      <4>3. CASE ~iter[c].own
        <5>1. l = iter[c].list /\ b = walk[c].popped
          BY <3>3, <4>3, <1>f DEF l, b
        <5> QED
          BY <1>0, <4>1, <5>1
      <4> QED
        BY <4>2, <4>3
    <3> QED
      BY <3>2, <3>3
  <2> QED
    BY <2>1, <2>2
<1>9. ASSUME NEW d \in Cursor, Iterate(d)
      PROVE  Walks(iter'[c].list, iter'[c].pos, walk'[c].over, walk'[c].given, walk'[c].popped)
  <2>1. /\ iter' = [iter EXCEPT ![d] = [list |-> rows[d], pos |-> 0, own |-> TRUE]]
        /\ walk' = [walk EXCEPT ![d] = [over |-> rows[d], given |-> <<>>, popped |-> FALSE]]
    BY <1>9 DEF Iterate
  <2>2. CASE d # c
    BY <1>1, <1>t, <2>1, <2>2 DEF Rests
  <2>3. CASE d = c
    <3>1. Walks(rows[c], 0, rows[c], <<>>, FALSE)
      BY <1>0, <1>t, WalkBegins
    <3>2. /\ iter'[c].list = rows[c] /\ iter'[c].pos = 0 /\ walk'[c].over = rows[c]
          /\ walk'[c].given = <<>> /\ walk'[c].popped = FALSE
      BY <1>t, <2>1, <2>3
    <3> QED
      BY <3>1, <3>2
  <2> QED
    BY <2>2, <2>3
<1>10. ASSUME NEW d \in Cursor, NextRow(d)
       PROVE  Walks(iter'[c].list, iter'[c].pos, walk'[c].over, walk'[c].given, walk'[c].popped)
  <2> DEFINE p == iter[d].pos + 1
             g == Append(walk[d].given, iter[d].list[iter[d].pos + 1])
  <2>1. /\ iter' = [iter EXCEPT ![d].pos = p] /\ walk' = [walk EXCEPT ![d].given = g]
        /\ iter[d].pos < Len(iter[d].list)
    BY <1>10 DEF NextRow
  <2> HIDE DEF p, g
  <2>2. CASE d # c
    BY <1>1, <1>t, <2>1, <2>2 DEF Rests
  <2>3. CASE d = c
    <3>1. /\ iter'[c].list = iter[c].list /\ iter'[c].pos = p /\ walk'[c].over = walk[c].over
          /\ walk'[c].given = g /\ walk'[c].popped = walk[c].popped
      BY <1>t, <2>1, <2>3 DEF IterType, WalkType
    <3>2. Walks(iter[c].list, p, walk[c].over, g, walk[c].popped)
      BY <1>0, <1>f, <2>1, <2>3, WalkAdvances DEF p, g
    <3> QED
      BY <3>1, <3>2
  <2> QED
    BY <2>2, <2>3
<1> QED
  BY <1>1, <1>3, <1>4, <1>5, <1>6, <1>7, <1>8, <1>9, <1>10 DEF Next

\* Whatever is fetched, executed or closed while an iterator is in use, it hands
\* out rows of the result it began with, in order and none twice, and all of
\* them unless fetchone shortened its list.
THEOREM IterationInOrder == Spec => []IteratesInOrder
<1>1. Init => IterInv
  <2>1. Sorted(<<>>) /\ Walks(<<>>, 0, <<>>, <<>>, FALSE)
    <3>1. <<>> \in Seq(Row) /\ Sorted(<<>>)
      BY EmptySeq DEF Sorted
    <3> QED
      BY <3>1, WalkBegins
  <2>2. ASSUME Init, NEW c \in Cursor
        PROVE  /\ rows[c] = <<>> /\ iter[c].list = <<>> /\ iter[c].pos = 0
               /\ walk[c].over = <<>> /\ walk[c].given = <<>> /\ walk[c].popped = FALSE
    BY <2>2 DEF Init
  <2> QED
    BY <2>1, <2>2 DEF IterInv
<1>2. Base /\ IterInv /\ [Next]_vars => IterInv'
  BY RowsStaySorted, WalkStep DEF IterInv
<1>3. Base /\ IterInv => IteratesInOrder
  <2> SUFFICES ASSUME Base, IterInv, NEW c \in Cursor
      PROVE  /\ \A k \in DOMAIN walk[c].given : walk[c].given[k] \in Range(walk[c].over)
             /\ \A j, k \in DOMAIN walk[c].given :
                   j < k => walk[c].given[j][2] < walk[c].given[k][2]
             /\ ~walk[c].popped =>
                   walk[c].given \o SubSeq(iter[c].list, iter[c].pos + 1, Len(iter[c].list))
                     = walk[c].over
    BY DEF IteratesInOrder
  <2> DEFINE list == iter[c].list
             pos == iter[c].pos
             over == walk[c].over
             given == walk[c].given
  <2>1. /\ list \in Seq(Row) /\ pos \in Nat /\ over \in Seq(Row) /\ given \in Seq(Row)
        /\ Walks(list, pos, over, given, walk[c].popped)
    BY DEF Base, TypeOK, IterInv
  <2> HIDE DEF list, pos, over, given
  <2>2. DOMAIN given = 1..Len(given)
    BY <2>1
  <2>3. ASSUME ~walk[c].popped PROVE given \o SubSeq(list, pos + 1, Len(list)) = over
    <3>1. list = over /\ pos <= Len(over) /\ Len(given) = pos
          /\ \A k \in 1..pos : given[k] = over[k]
      BY <2>1, <2>3 DEF Walks
    <3>2. /\ SubSeq(over, 1, pos) \in Seq(Row) /\ Len(SubSeq(over, 1, pos)) = pos
          /\ \A k \in 1..pos : SubSeq(over, 1, pos)[k] = over[k]
      BY <2>1, <3>1, SubSeqProperties
    <3>3. given = SubSeq(over, 1, pos)
      BY <2>1, <3>1, <3>2, SeqEqual
    <3>4. SubSeq(over, 1, pos) \o SubSeq(over, pos + 1, Len(over)) = SubSeq(over, 1, Len(over))
      <4>1. 1 \in 1..(Len(over) + 1) /\ pos \in (1 - 1)..Len(over) /\ Len(over) \in pos..Len(over)
        BY <2>1, <3>1
      <4> QED
        BY <2>1, <4>1, ConcatAdjacentSubSeq
    <3> QED
      BY <2>1, <3>1, <3>3, <3>4, SubSeqFull
  <2>4. \A k \in DOMAIN given : given[k] \in Range(over)
    BY <2>1, <2>2 DEF Walks
  <2>5. \A j, k \in DOMAIN given : j < k => given[j][2] < given[k][2]
    BY <2>1, <2>2 DEF Walks, Sorted
  <2> QED
    BY <2>3, <2>4, <2>5 DEF list, pos, over, given
<1> QED
  BY <1>1, <1>2, <1>3, TypeCorrect, PTL DEF Spec
=============================================================================
