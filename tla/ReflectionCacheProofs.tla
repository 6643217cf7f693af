------------------------ MODULE ReflectionCacheProofs ------------------------
(***************************************************************************)
(* Theorems about ReflectionCache, for any schemas, tables and versions    *)
(* and any number of changes.                                              *)
(***************************************************************************)
EXTENDS ReflectionCache, TLAPS

\* A stored column entry is the given one under its own key and the old one
\* elsewhere.
LEMMA StoreValue ==
  ASSUME NEW D \in SUBSET Id, NEW f, DOMAIN f = D, NEW j \in Id
  PROVE  Store(f)[j] = IF j \in D THEN f[j] ELSE columns[j]
<1>1. (\E i \in DOMAIN f : j \in Keys(i)) <=> j \in D
  BY DEF Keys
<1>2. ASSUME j \in D PROVE (CHOOSE i \in DOMAIN f : j \in Keys(i)) = j
  BY <1>2 DEF Keys
<1>3. QED
  BY <1>1, <1>2 DEF Store

LEMMA StoreDomain ==
  ASSUME NEW f
  PROVE  Store(f) = [j \in Id |-> Store(f)[j]]
BY DEF Store

LEMMA ProbeAnswerType ==
  ASSUME TypeOK, NEW i \in Id
  PROVE  ProbeAnswer(i) \in {"missing", "unreflectable"} \cup Version
<1>1. CASE world[i] = "absent"
  BY <1>1, VersionAssumption DEF VersionAssumption, ProbeAnswer
<1>2. CASE world[i] = "hidden"
  BY <1>2, VersionAssumption DEF VersionAssumption, ProbeAnswer
<1>3. CASE world[i] \in Version
  BY <1>3, VersionAssumption DEF VersionAssumption, ProbeAnswer
<1>4. QED
  BY <1>1, <1>2, <1>3 DEF TypeOK, Reported

LEMMA ColumnsType ==
  ASSUME TypeOK, NEW D \in SUBSET Id, NEW f \in [D -> Entry]
  PROVE  Store(f) \in [Id -> Entry]
<1>0. DOMAIN f = D /\ \A j \in D : f[j] \in Entry
  OBVIOUS
<1>1. ASSUME NEW j \in Id PROVE Store(f)[j] \in Entry
  <2>1. Store(f)[j] = IF j \in D THEN f[j] ELSE columns[j]
    BY <1>0, StoreValue
  <2>2. columns[j] \in Entry
    BY DEF TypeOK
  <2>3. QED
    BY <1>0, <2>1, <2>2
<1>2. QED
  BY <1>1, StoreDomain

\* Answering from the names keeps the types.
LEMMA AnswerNamesType ==
  ASSUME TypeOK, NEW n \in NamesType, n.known, AnswerNames(n)
  PROVE  /\ pc' = "idle" /\ todo' = {} /\ found' = NoNames /\ op' = op /\ at' = at
         /\ reply' \in Result
         /\ gotHas' \in [Id -> {"none", "yes", "no"}]
         /\ gotTables' \in [Schema -> NamesType] /\ gotViews' \in [Schema -> NamesType]
         /\ gotColumns' = gotColumns
BY DEF AnswerNames, Reply, TypeOK, NamesType, Names, Result, Id

LEMMA FinishNamesType ==
  ASSUME TypeOK, NEW n \in NamesType, n.known, FinishNames(n)
  PROVE  /\ pc' = "idle" /\ todo' = {} /\ found' = NoNames /\ op' = op /\ at' = at
         /\ reply' \in Result
         /\ gotHas' \in [Id -> {"none", "yes", "no"}]
         /\ gotTables' \in [Schema -> NamesType] /\ gotViews' \in [Schema -> NamesType]
         /\ gotColumns' = gotColumns
         /\ relations' \in [Schema -> NamesType]
<1>1. relations' \in [Schema -> NamesType]
  BY DEF FinishNames, Remember, TypeOK, Id
<1>2. QED
  BY <1>1, AnswerNamesType DEF FinishNames

LEMMA AnswerColumnsType ==
  ASSUME TypeOK, NEW e \in {"missing", "unreflectable"} \cup Version, AnswerColumns(e)
  PROVE  /\ pc' = "idle" /\ todo' = {} /\ found' = NoNames /\ op' = op /\ at' = at
         /\ reply' \in Result
         /\ gotColumns' \in [Id -> {"none"} \cup Version]
         /\ UNCHANGED <<gotHas, gotTables, gotViews>>
BY DEF AnswerColumns, Reply, TypeOK, Result

LEMMA NoNamesType == NoNames \in NamesType
BY DEF NoNames, NamesType

\* The inspector's caches and locals keep their types.
THEOREM TypeCorrect == Spec => []TypeOK
<1>1. Init => TypeOK
  <2> SUFFICES ASSUME Init PROVE TypeOK
    OBVIOUS
  <2>1. changes \in 0..MaxChanges
    BY BoundAssumption DEF BoundAssumption, Init
  <2>2. ever \in [Id -> SUBSET Reported]
    BY DEF Init
  <2>3. QED
    BY <2>1, <2>2, NoNamesType, AdaptersAssumption
       DEF AdaptersAssumption, Init, TypeOK, Entry, Op, Result
<1>2. TypeOK /\ [Next]_vars => TypeOK'
  <2> SUFFICES ASSUME TypeOK, [Next]_vars PROVE TypeOK'
    OBVIOUS
  <2>1. CASE ColumnsFromCache
    <3>1. columns[at] \in {"missing", "unreflectable"} \cup Version
      BY <2>1 DEF ColumnsFromCache, TypeOK, Entry
    <3>2. QED
      BY <2>1, <3>1, AnswerColumnsType, NoNamesType DEF ColumnsFromCache, TypeOK, env, cache
  <2>2. CASE ColumnsProbe
    <3>1. ProbeAnswer(at) \in {"missing", "unreflectable"} \cup Version
      BY ProbeAnswerType DEF TypeOK
    <3>2. columns' \in [Id -> Entry]
      <4>1. [i \in {at} |-> ProbeAnswer(i)] \in [{at} -> Entry] /\ {at} \in SUBSET Id
        BY <3>1 DEF Entry, TypeOK
      <4>2. QED
        BY <2>2, <4>1, ColumnsType DEF ColumnsProbe
    <3>3. QED
      BY <2>2, <3>1, <3>2, AnswerColumnsType, NoNamesType DEF ColumnsProbe, TypeOK, env
  <2>3. CASE NamesFromCache
    <3>1. relations[at[1]] \in NamesType /\ relations[at[1]].known
      BY <2>3 DEF NamesFromCache, TypeOK, Id
    <3>2. QED
      BY <2>3, <3>1, AnswerNamesType, NoNamesType DEF NamesFromCache, TypeOK, env, cache
  <2>4. CASE Bulk
    <3> DEFINE s == at[1]
               Is(R) == {t \in Table : world[<<s, t>>] \in R}
               unresolved(d, st) == (Is({"hidden"} \cup Version) \ d) \cup st
    <3>1. PICK stale \in SUBSET Is({"absent"}), described \in SUBSET Is(Version), v \in SUBSET Table :
            /\ columns' = Store([i \in {s} \X described |-> world[i]])
            /\ \/ FinishNames(Names(described, v))
               \/ /\ pc' = "probes" /\ todo' = unresolved(described, stale) /\ found' = Names(described, v)
                  /\ UNCHANGED <<relations, got, op, at, reply>>
      BY <2>4 DEF Bulk
    <3>2. s \in Schema /\ {s} \X described \in SUBSET Id
      BY DEF TypeOK, Id
    <3>3. columns' \in [Id -> Entry]
      <4>1. [i \in {s} \X described |-> world[i]] \in [{s} \X described -> Entry]
        BY DEF Entry
      <4>2. QED
        BY <3>1, <3>2, <4>1, ColumnsType
    <3>4. Names(described, v) \in NamesType /\ Names(described, v).known
      BY DEF Names, NamesType
    <3>5. UNCHANGED env
      BY <2>4 DEF Bulk
    <3>6. CASE FinishNames(Names(described, v))
      BY <3>3, <3>4, <3>5, <3>6, FinishNamesType, NoNamesType DEF TypeOK, env
    <3>7. CASE /\ pc' = "probes" /\ todo' = unresolved(described, stale) /\ found' = Names(described, v)
               /\ UNCHANGED <<relations, got, op, at, reply>>
      BY <3>3, <3>4, <3>5, <3>7 DEF TypeOK, env, got
    <3>8. QED
      BY <3>1, <3>6, <3>7
  <2>5. CASE ProbeNext
    <3>1. PICK t \in todo :
            LET i == <<at[1], t>>
                n == IF Visible(ProbeAnswer(i))
                     THEN Names(found.names \cup {t}, found.views) ELSE found
            IN /\ StoreProbed(i)
               /\ \/ /\ todo = {t}
                     /\ FinishNames(n)
                  \/ /\ todo # {t}
                     /\ todo' = todo \ {t} /\ found' = n
                     /\ UNCHANGED <<relations, got, op, at, pc, reply>>
      BY <2>5 DEF ProbeNext
    <3> DEFINE i == <<at[1], t>>
               n == IF Visible(ProbeAnswer(i))
                    THEN Names(found.names \cup {t}, found.views) ELSE found
    <3>2. i \in Id /\ t \in Table
      BY DEF TypeOK, Id
    <3>3. columns' \in [Id -> Entry]
      <4>1. [j \in {i} |-> ProbeAnswer(j)] \in [{i} -> Entry] /\ {i} \in SUBSET Id
        BY <3>2, ProbeAnswerType DEF Entry
      <4>2. QED
        BY <3>1, <4>1, ColumnsType DEF StoreProbed
    <3>4. n \in NamesType
      BY <3>2 DEF TypeOK, NamesType, Names
    <3>5. UNCHANGED env
      BY <2>5 DEF ProbeNext
    <3>6. CASE FinishNames(n)
      <4>1. relations' \in [Schema -> NamesType]
        BY <3>4, <3>6 DEF FinishNames, Remember, TypeOK, Id
      <4>2. /\ pc' = "idle" /\ todo' = {} /\ found' = NoNames /\ op' = op /\ at' = at
            /\ reply' \in Result
            /\ gotHas' \in [Id -> {"none", "yes", "no"}]
            /\ gotTables' \in [Schema -> NamesType] /\ gotViews' \in [Schema -> NamesType]
            /\ gotColumns' = gotColumns
        BY <3>4, <3>6 DEF FinishNames, AnswerNames, Reply, TypeOK, NamesType, Names, Result, Id
      <4>3. QED
        BY <3>3, <3>5, <4>1, <4>2, NoNamesType DEF TypeOK, env
    <3>7. CASE /\ todo' = todo \ {t} /\ found' = n
               /\ UNCHANGED <<relations, got, op, at, pc, reply>>
      BY <3>3, <3>4, <3>5, <3>7 DEF TypeOK, env, got
    <3>8. QED
      BY <3>1, <3>6, <3>7
  <2>6. CASE RequestFails
    BY <2>6, NoNamesType DEF RequestFails, Reply, TypeOK, env, cache, got, Result
  <2>7. CASE \E o \in Op, i \in Id : Begin(o, i)
    <3>1. PICK o \in Op, i \in Id : Begin(o, i)
      BY <2>7
    <3>2. Answered(o, i) => CachedReply(o, i) \in Result
      BY DEF CachedReply, Answered, TypeOK, Result, Op
    <3>3. QED
      BY <3>1, <3>2 DEF Begin, TypeOK, env, cache, got, Result
  <2>8. CASE \E i \in Id, r \in Reported : Change(i, r)
    <3>1. PICK i \in Id, r \in Reported : Change(i, r)
      BY <2>8
    <3>2. changes' \in 0..MaxChanges
      BY <3>1, BoundAssumption DEF BoundAssumption, Change, TypeOK
    <3>3. world' \in [Id -> Reported] /\ ever' \in [Id -> SUBSET Reported]
      BY <3>1 DEF Change, TypeOK
    <3>4. QED
      BY <3>1, <3>2, <3>3 DEF Change, TypeOK, cache, got, local
  <2>9. CASE UNCHANGED vars
    BY <2>9 DEF vars, TypeOK
  <2>10. QED
    BY <2>1, <2>2, <2>3, <2>4, <2>5, <2>6, <2>7, <2>8, <2>9 DEF Next, Step
<1>3. QED
  BY <1>1, <1>2, PTL DEF Spec

-----------------------------------------------------------------------------
(* The invariant of the caches *)

\* The answers of a schema still follow its relations entry n after one of
\* them was given from n.
LEMMA AnswersStillFollow ==
  ASSUME TypeOK, AnswersFollow, NEW n \in NamesType, n.known, AnswerNames(n),
         relations' = [relations EXCEPT ![at[1]] = n],
         relations[at[1]].known => relations[at[1]] = n
  PROVE  AnswersFollow'
<1> SUFFICES ASSUME NEW s \in Schema
             PROVE /\ \A t \in Table : gotHas'[<<s, t>>] # "none" =>
                        /\ relations'[s].known
                        /\ gotHas'[<<s, t>>] = "yes" <=> t \in relations'[s].names
                   /\ gotTables'[s].known =>
                        /\ relations'[s].known
                        /\ gotTables'[s].names = relations'[s].names \ relations'[s].views
                   /\ gotViews'[s].known =>
                        /\ relations'[s].known
                        /\ gotViews'[s].names = relations'[s].names \cap relations'[s].views
  BY DEF AnswersFollow
<1>0. at[1] \in Schema /\ at[2] \in Table /\ at = <<at[1], at[2]>>
  BY DEF TypeOK, Id
<1>1. \/ s = at[1] /\ relations'[s] = n
      \/ s # at[1] /\ relations'[s] = relations[s]
  BY <1>0 DEF TypeOK
<1>2. ASSUME NEW t \in Table, gotHas'[<<s, t>>] # "none"
      PROVE  relations'[s].known /\ (gotHas'[<<s, t>>] = "yes" <=> t \in relations'[s].names)
  <2>1. CASE op = "hasTable" /\ <<s, t>> = at
    <3>1. s = at[1] /\ t = at[2]
      BY <2>1
    <3>2. gotHas'[<<s, t>>] = IF at[2] \in n.names THEN "yes" ELSE "no"
      BY <2>1, <1>0 DEF AnswerNames, TypeOK
    <3>3. QED
      BY <1>1, <3>1, <3>2
  <2>2. CASE ~(op = "hasTable" /\ <<s, t>> = at)
    <3>1. gotHas'[<<s, t>>] = gotHas[<<s, t>>]
      BY <2>2 DEF AnswerNames, TypeOK, Id
    <3>2. QED
      BY <1>1, <1>2, <3>1 DEF AnswersFollow
  <2>3. QED
    BY <2>1, <2>2
<1>3. ASSUME gotTables'[s].known
      PROVE  relations'[s].known /\ gotTables'[s].names = relations'[s].names \ relations'[s].views
  <2>1. CASE op = "tableNames" /\ s = at[1]
    <3>1. gotTables'[s] = Names(n.names \ n.views, {})
      BY <2>1, <1>0 DEF AnswerNames, TypeOK
    <3>2. QED
      BY <1>1, <2>1, <3>1 DEF Names
  <2>2. CASE ~(op = "tableNames" /\ s = at[1])
    <3>1. gotTables'[s] = gotTables[s]
      BY <2>2, <1>0 DEF AnswerNames, TypeOK
    <3>2. QED
      BY <1>1, <1>3, <3>1 DEF AnswersFollow
  <2>3. QED
    BY <2>1, <2>2
<1>4. ASSUME gotViews'[s].known
      PROVE  relations'[s].known /\ gotViews'[s].names = relations'[s].names \cap relations'[s].views
  <2>1. CASE op = "viewNames" /\ s = at[1]
    <3>1. gotViews'[s] = Names(n.names \cap n.views, {})
      BY <2>1, <1>0 DEF AnswerNames, TypeOK
    <3>2. QED
      BY <1>1, <2>1, <3>1 DEF Names
  <2>2. CASE ~(op = "viewNames" /\ s = at[1])
    <3>1. gotViews'[s] = gotViews[s]
      BY <2>2, <1>0 DEF AnswerNames, TypeOK
    <3>2. QED
      BY <1>1, <1>4, <3>1 DEF AnswersFollow
  <2>3. QED
    BY <2>1, <2>2
<1>5. QED
  BY <1>2, <1>3, <1>4

\* Ending a names call with names that all have entries keeps the invariant.
LEMMA FinishKeepsInv ==
  ASSUME TypeOK, CacheInv, NEW n \in NamesType, n.known, FinishNames(n),
         ~relations[at[1]].known,
         \A j \in Id : Seen(j) => Seen(j)' \/ (j[1] = at[1]),
         \A t \in n.names : Seen(<<at[1], t>>)'
  PROVE  CacheInv'
<1>0. at[1] \in Schema /\ at' = at /\ pc' = "idle" /\ relations' = [relations EXCEPT ![at[1]] = n]
  BY DEF TypeOK, Id, FinishNames, AnswerNames, Reply, Remember
<1>1. AnswersFollow'
  BY <1>0, AnswersStillFollow DEF CacheInv, FinishNames
<1>2. VisibleIsReflectable'
  <2> SUFFICES ASSUME NEW s \in Schema, NEW t \in Table, t \in relations'[s].names
               PROVE  Seen(<<s, t>>)'
    BY DEF VisibleIsReflectable
  <2>1. CASE s = at[1]
    BY <1>0, <2>1 DEF TypeOK
  <2>2. CASE s # at[1]
    <3>1. t \in relations[s].names /\ <<s, t>> \in Id /\ <<s, t>>[1] # at[1]
      BY <1>0, <2>2 DEF TypeOK, Id
    <3>2. Seen(<<s, t>>)
      BY <3>1 DEF CacheInv, VisibleIsReflectable
    <3>3. QED
      BY <3>1, <3>2
  <2>3. QED
    BY <2>1, <2>2
<1>3. Phases' /\ GatheredIsReflectable'
  <2>1. \A s \in Schema : ~relations'[s].known => relations'[s].names = {}
    BY <1>0 DEF CacheInv, Phases, TypeOK
  <2>2. QED
    BY <1>0, <2>1 DEF Phases, GatheredIsReflectable
<1>4. QED
  BY <1>1, <1>2, <1>3 DEF CacheInv

\* Steps that leave the answers and the relations alone and forget no entry.
LEMMA QuietKeepsInv ==
  ASSUME TypeOK, CacheInv, UNCHANGED <<relations, gotHas, gotTables, gotViews>>,
         \A j \in Id : Seen(j) => Seen(j)', pc' # "probes",
         pc' = "columns" => op' = "columns", pc' = "names" => op' # "columns"
  PROVE  CacheInv'
<1>1. VisibleIsReflectable'
  BY DEF CacheInv, VisibleIsReflectable, Id
<1>2. QED
  BY <1>1 DEF CacheInv, GatheredIsReflectable, AnswersFollow, Phases

LEMMA CacheStep ==
  ASSUME TypeOK, CacheInv, [Next]_vars
  PROVE  CacheInv'
<1>1. CASE ColumnsFromCache
  BY <1>1, QuietKeepsInv DEF ColumnsFromCache, AnswerColumns, Reply, env, cache, Seen
<1>2. CASE ColumnsProbe
  <2>1. \A j \in Id : Seen(j) => Seen(j)'
    <3> SUFFICES ASSUME NEW j \in Id, Seen(j) PROVE Seen(j)'
      OBVIOUS
    <3>1. j \notin {at} /\ {at} \in SUBSET Id
      BY <1>2 DEF ColumnsProbe, Seen, TypeOK
    <3>2. columns'[j] = columns[j]
      BY <1>2, <3>1, StoreValue DEF ColumnsProbe
    <3>3. QED
      BY <3>2 DEF Seen
  <2>2. QED
    BY <1>2, <2>1, QuietKeepsInv DEF ColumnsProbe, AnswerColumns, Reply
<1>3. CASE NamesFromCache
  <2>1. relations[at[1]] \in NamesType /\ relations[at[1]].known
    BY <1>3 DEF NamesFromCache, TypeOK, Id
  <2>2. relations' = [relations EXCEPT ![at[1]] = relations[at[1]]] /\ columns' = columns /\ relations' = relations
    BY <1>3 DEF NamesFromCache, cache, TypeOK
  <2>3. AnswersFollow'
    BY <1>3, <2>1, <2>2, AnswersStillFollow DEF NamesFromCache, CacheInv
  <2>4. pc' = "idle"
    BY <1>3 DEF NamesFromCache, AnswerNames, Reply
  <2>5. QED
    BY <2>2, <2>3, <2>4 DEF CacheInv, VisibleIsReflectable, GatheredIsReflectable, Phases, Seen
<1>4. CASE Bulk
  <2> DEFINE s == at[1]
             Is(R) == {t \in Table : world[<<s, t>>] \in R}
             unresolved(d, st) == (Is({"hidden"} \cup Version) \ d) \cup st
  <2>1. PICK stale \in SUBSET Is({"absent"}), described \in SUBSET Is(Version), v \in SUBSET Table :
          /\ columns' = Store([i \in {s} \X described |-> world[i]])
          /\ \/ FinishNames(Names(described, v))
             \/ /\ pc' = "probes" /\ todo' = unresolved(described, stale) /\ found' = Names(described, v)
                /\ UNCHANGED <<relations, got, op, at, reply>>
    BY <1>4 DEF Bulk
  <2>2. /\ s \in Schema /\ {s} \X described \in SUBSET Id
        /\ pc = "names" /\ ~relations[s].known /\ at' = at
    BY <1>4, <2>1 DEF TypeOK, Id, Bulk, FinishNames, AnswerNames, Reply
  <2>3. \A j \in Id : columns'[j] = IF j \in {s} \X described THEN world[j] ELSE columns[j]
    <3> DEFINE D == {s} \X described
               f == [i \in D |-> world[i]]
    <3>1. columns' = Store(f) /\ D \in SUBSET Id /\ DOMAIN f = D
      BY <2>1, <2>2
    <3>2. \A j \in D : f[j] = world[j]
      OBVIOUS
    <3> HIDE DEF D, f
    <3>3. \A j \in Id : Store(f)[j] = IF j \in D THEN f[j] ELSE columns[j]
      BY <3>1, StoreValue
    <3>4. QED
      BY <3>1, <3>2, <3>3 DEF D
  <2>4. \A j \in {s} \X described : j \in Id /\ world[j] \in Version
    BY <2>2
  <2>5. \A j \in Id : Seen(j) => Seen(j)'
    BY <2>3, <2>4, VersionAssumption DEF VersionAssumption, Seen
  <2>6. \A t \in described : Seen(<<s, t>>)'
    <3> SUFFICES ASSUME NEW t \in described PROVE Seen(<<s, t>>)'
      OBVIOUS
    <3>1. <<s, t>> \in {s} \X described
      OBVIOUS
    <3>2. columns'[<<s, t>>] \in Version
      BY <2>3, <2>4, <3>1
    <3>3. s' = s
      BY <2>2
    <3>4. QED
      BY <3>2, <3>3, VersionAssumption DEF VersionAssumption, Seen
  <2>7. Names(described, v) \in NamesType /\ Names(described, v).known /\ Names(described, v).names = described
    BY DEF Names, NamesType
  <2>8. CASE FinishNames(Names(described, v))
    BY <2>2, <2>5, <2>6, <2>7, <2>8, FinishKeepsInv
  <2>9. CASE /\ pc' = "probes" /\ todo' = unresolved(described, stale) /\ found' = Names(described, v)
             /\ UNCHANGED <<relations, got, op, at, reply>>
    <3>1. unresolved(described, stale) \cap described = {}
      BY VersionAssumption DEF VersionAssumption
    <3>2. VisibleIsReflectable'
      BY <2>5, <2>9 DEF CacheInv, VisibleIsReflectable, Id
    <3>3. GatheredIsReflectable'
      BY <2>6, <2>7, <2>9 DEF GatheredIsReflectable
    <3>4. Phases'
      BY <2>2, <2>7, <2>9, <3>1 DEF Phases, CacheInv
    <3>5. AnswersFollow'
      BY <2>9 DEF AnswersFollow, CacheInv, got
    <3>6. QED
      BY <3>2, <3>3, <3>4, <3>5 DEF CacheInv
  <2>10. QED
    BY <2>1, <2>8, <2>9
<1>5. CASE ProbeNext
  <2>1. PICK t \in todo :
          LET i == <<at[1], t>>
              n == IF Visible(ProbeAnswer(i))
                   THEN Names(found.names \cup {t}, found.views) ELSE found
          IN /\ StoreProbed(i)
             /\ \/ /\ todo = {t}
                   /\ FinishNames(n)
                \/ /\ todo # {t}
                   /\ todo' = todo \ {t} /\ found' = n
                   /\ UNCHANGED <<relations, got, op, at, pc, reply>>
    BY <1>5 DEF ProbeNext
  <2> DEFINE i == <<at[1], t>>
             n == IF Visible(ProbeAnswer(i))
                  THEN Names(found.names \cup {t}, found.views) ELSE found
  <2>2. /\ i \in Id /\ t \in Table /\ pc = "probes" /\ t \notin found.names
        /\ ~relations[at[1]].known /\ found.known /\ at' = at
    BY <1>5, <2>1 DEF TypeOK, Id, ProbeNext, CacheInv, Phases, FinishNames, AnswerNames, Reply
  <2>3. \A j \in Id : columns'[j] = IF j = i THEN ProbeAnswer(i) ELSE columns[j]
    <3> DEFINE f == [k \in {i} |-> ProbeAnswer(k)]
    <3>1. columns' = Store(f) /\ {i} \in SUBSET Id /\ DOMAIN f = {i} /\ f[i] = ProbeAnswer(i)
      BY <2>1, <2>2 DEF StoreProbed
    <3> HIDE DEF f
    <3>2. \A j \in Id : Store(f)[j] = IF j \in {i} THEN f[j] ELSE columns[j]
      BY <3>1, StoreValue
    <3>3. QED
      BY <3>1, <3>2
  <2>4. n \in NamesType /\ n.known
    BY <2>2 DEF TypeOK, NamesType, Names
  <2>5. ProbeAnswer(i) \in {"missing", "unreflectable"} \cup Version
    BY <2>2, ProbeAnswerType
  <2>6. \A u \in n.names : Seen(<<at[1], u>>)'
    <3> SUFFICES ASSUME NEW u \in n.names PROVE Seen(<<at[1], u>>)'
      OBVIOUS
    <3>0. <<at[1], u>> \in Id
      BY <2>4 DEF TypeOK, NamesType, Id
    <3>1. CASE u = t
      <4>1. Visible(ProbeAnswer(i))
        BY <2>2, <3>1
      <4>2. columns'[<<at[1], u>>] = ProbeAnswer(i)
        BY <2>3, <3>0, <3>1
      <4>3. QED
        BY <2>2, <2>5, <4>1, <4>2, VersionAssumption DEF VersionAssumption, Visible, Seen
    <3>2. CASE u # t
      <4>1. u \in found.names
        BY <3>2 DEF Names
      <4>2. Seen(<<at[1], u>>)
        BY <2>2, <4>1 DEF CacheInv, GatheredIsReflectable
      <4>3. columns'[<<at[1], u>>] = columns[<<at[1], u>>]
        BY <2>3, <3>0, <3>2
      <4>4. QED
        BY <2>2, <4>2, <4>3 DEF Seen
    <3>3. QED
      BY <3>1, <3>2
  <2>7. \A j \in Id : Seen(j) => Seen(j)' \/ j[1] = at[1]
    BY <2>3 DEF Seen
  <2>8. CASE FinishNames(n)
    BY <2>2, <2>4, <2>6, <2>7, <2>8, FinishKeepsInv
  <2>9. CASE /\ todo' = todo \ {t} /\ found' = n
             /\ UNCHANGED <<relations, got, op, at, pc, reply>>
    <3>1. VisibleIsReflectable'
      <4> SUFFICES ASSUME NEW s \in Schema, NEW u \in Table, u \in relations'[s].names
                   PROVE  Seen(<<s, u>>)'
        BY DEF VisibleIsReflectable
      <4>1. Seen(<<s, u>>) /\ s # at[1] /\ <<s, u>> \in Id
        BY <2>2, <2>9 DEF CacheInv, VisibleIsReflectable, Phases, Id
      <4>2. columns'[<<s, u>>] = columns[<<s, u>>]
        BY <2>3, <4>1
      <4>3. QED
        BY <4>1, <4>2 DEF Seen
    <3>2. GatheredIsReflectable'
      BY <2>6, <2>9 DEF GatheredIsReflectable
    <3>3. Phases'
      BY <2>2, <2>4, <2>9 DEF Phases, CacheInv, Names
    <3>4. AnswersFollow'
      BY <2>9 DEF AnswersFollow, CacheInv, got
    <3>5. QED
      BY <3>1, <3>2, <3>3, <3>4 DEF CacheInv
  <2>10. QED
    BY <2>1, <2>8, <2>9
<1>6. CASE RequestFails
  BY <1>6, QuietKeepsInv DEF RequestFails, Reply, env, cache, got, Seen
<1>7. CASE \E o \in Op, i \in Id : Begin(o, i)
  BY <1>7, QuietKeepsInv DEF Begin, env, cache, got, Seen
<1>8. CASE \/ \E i \in Id, r \in Reported : Change(i, r)
           \/ UNCHANGED vars
  <2>1. UNCHANGED <<cache, got, local>>
    BY <1>8 DEF Change, vars, cache, got, local
  <2>2. QED
    BY <2>1 DEF cache, got, local, CacheInv, VisibleIsReflectable, GatheredIsReflectable,
                AnswersFollow, Phases, Seen
<1>9. QED
  BY <1>1, <1>2, <1>3, <1>4, <1>5, <1>6, <1>7, <1>8 DEF Next, Step

\* Every visible name has a column entry that is not "missing", and every
\* cached answer follows the one relations entry of its schema.
THEOREM CacheInvariant == Spec => []CacheInv
<1>1. Init => CacheInv
  BY DEF Init, CacheInv, VisibleIsReflectable, GatheredIsReflectable, AnswersFollow,
         Phases, NoNames, Id
<1>2. TypeOK /\ CacheInv /\ [Next]_vars => CacheInv'
  BY CacheStep
<1>3. QED
  BY <1>1, <1>2, TypeCorrect, PTL DEF Spec

\* Tables, views and has_table of a schema agree, whichever was asked first.
THEOREM ReadsAlwaysAgree == Spec => []ReadsAgree
<1>1. CacheInv /\ TypeOK => ReadsAgree
  BY DEF CacheInv, AnswersFollow, ReadsAgree, TypeOK, NamesType
<1>2. QED
  BY <1>1, CacheInvariant, TypeCorrect, PTL

\* A table has_table said yes to never raises NoSuchTableError afterwards.
THEOREM ShownNeverMissing == Spec => ShownIsNeverMissing
<1> DEFINE Step0 == (reply' = "noSuchTable" /\ reply # reply') => gotHas[at'] # "yes"
<1>1. TypeOK /\ CacheInv /\ [Next]_vars => [Step0]_vars
  <2> SUFFICES ASSUME TypeOK, CacheInv, Next, reply' = "noSuchTable", reply # reply', gotHas[at'] = "yes"
               PROVE  FALSE
    OBVIOUS
  <2> USE VersionAssumption DEF VersionAssumption
  <2>1. CASE ColumnsFromCache \/ ColumnsProbe
    <3>1. at' = at /\ at \in Id /\ at = <<at[1], at[2]>> /\ at[1] \in Schema /\ at[2] \in Table
      BY <2>1 DEF ColumnsFromCache, ColumnsProbe, AnswerColumns, Reply, TypeOK, Id
    <3>2. Seen(at)
      BY <3>1 DEF CacheInv, AnswersFollow, VisibleIsReflectable
    <3>3. ColumnsFromCache
      BY <2>1, <3>2 DEF ColumnsProbe, Seen
    <3>4. columns[at] # "missing" /\ columns[at] \in Entry
      BY <3>1, <3>2 DEF Seen, TypeOK
    <3>5. reply' = columns[at]
      BY <3>3, <3>4 DEF ColumnsFromCache, AnswerColumns, Reply
    <3>6. QED
      BY <3>4, <3>5 DEF Entry
  <2>2. ~NamesFromCache
    BY DEF NamesFromCache, AnswerNames, Reply
  <2>3. ~Bulk
    BY DEF Bulk, FinishNames, AnswerNames, Reply
  <2>4. ~ProbeNext
    BY DEF ProbeNext, FinishNames, AnswerNames, Reply
  <2>5. ~RequestFails
    BY DEF RequestFails, Reply
  <2>6. CASE \E o \in Op, i \in Id : Begin(o, i)
    <3>1. PICK o \in Op, i \in Id : Begin(o, i)
      BY <2>6
    <3>2. Answered(o, i) /\ reply' = CachedReply(o, i)
      BY <3>1 DEF Begin
    <3>3. CachedReply(o, i) \in {"yes", "no", "listed"} \cup Version
      BY <3>2 DEF Answered, CachedReply, TypeOK, Op
    <3>4. QED
      BY <3>2, <3>3
  <2>7. CASE \E i \in Id, r \in Reported : Change(i, r)
    BY <2>7 DEF Change, local
  <2>8. QED
    BY <2>1, <2>2, <2>3, <2>4, <2>5, <2>6, <2>7 DEF Next, Step
<1>2. QED
  BY <1>1, TypeCorrect, CacheInvariant, PTL DEF Spec, ShownIsNeverMissing

-----------------------------------------------------------------------------
(* What the caches say was once true *)

\* Steps that leave what was ever reported alone and store only what is
\* reported now keep every entry true.
LEMMA EntriesStayTrue ==
  ASSUME TypeOK, HistoryInv, UNCHANGED env,
         \A j \in Id : \/ columns'[j] = columns[j]
                       \/ columns'[j] = ProbeAnswer(j)
                       \/ columns'[j] = world[j] /\ world[j] \in Version
  PROVE  EntriesWereTrue'
<1> SUFFICES ASSUME NEW i \in Id
             PROVE /\ columns'[i] = "missing" => \/ "absent" \in ever[i]
                                                 \/ ~adapter.probes /\ "hidden" \in ever[i]
                   /\ columns'[i] = "unreflectable" => "hidden" \in ever[i]
                   /\ columns'[i] \in Version => columns'[i] \in ever[i]
  BY DEF EntriesWereTrue, env
<1> USE VersionAssumption DEF VersionAssumption
<1>1. CASE columns'[i] = columns[i]
  BY <1>1 DEF HistoryInv, EntriesWereTrue
<1>2. CASE columns'[i] = ProbeAnswer(i)
  <2>0. world[i] \in ever[i] /\ world[i] \in {"absent", "hidden"} \cup Version
    BY DEF HistoryInv, TypeOK, Reported
  <2>1. CASE world[i] = "absent"
    BY <1>2, <2>0, <2>1 DEF ProbeAnswer
  <2>2. CASE world[i] = "hidden"
    BY <1>2, <2>0, <2>2 DEF ProbeAnswer
  <2>3. CASE world[i] \in Version
    BY <1>2, <2>0, <2>3 DEF ProbeAnswer
  <2>4. QED
    BY <2>0, <2>1, <2>2, <2>3
<1>3. CASE columns'[i] = world[i] /\ world[i] \in Version
  BY <1>3 DEF HistoryInv
<1>4. QED
  BY <1>1, <1>2, <1>3

\* A names call that ends with names that existed.
LEMMA FinishKeepsHistory ==
  ASSUME TypeOK, HistoryInv, UNCHANGED env, EntriesWereTrue',
         NEW n \in NamesType, FinishNames(n), \A t \in n.names : Existed(<<at[1], t>>)
  PROVE  HistoryInv'
<1>1. at[1] \in Schema /\ pc' = "idle" /\ relations' = [relations EXCEPT ![at[1]] = n]
  BY DEF TypeOK, Id, FinishNames, AnswerNames, Reply, Remember
<1>2. ASSUME NEW s \in Schema, NEW t \in relations'[s].names PROVE Existed(<<s, t>>)'
  BY <1>1 DEF TypeOK, HistoryInv, Existed, env
<1>3. QED
  BY <1>1, <1>2 DEF HistoryInv, env

LEMMA HistoryStep ==
  ASSUME TypeOK, HistoryInv, [Next]_vars
  PROVE  HistoryInv'
<1>1. CASE ColumnsFromCache \/ NamesFromCache \/ RequestFails
  <2>1. UNCHANGED env /\ UNCHANGED cache /\ pc' = "idle"
    BY <1>1 DEF ColumnsFromCache, NamesFromCache, RequestFails, AnswerColumns, AnswerNames, Reply
  <2>2. QED
    BY <2>1 DEF HistoryInv, EntriesWereTrue, Existed, env, cache
<1>2. CASE ColumnsProbe
  <2>1. UNCHANGED env /\ relations' = relations /\ pc' = "idle"
    BY <1>2 DEF ColumnsProbe, AnswerColumns, Reply
  <2>2. \A j \in Id : columns'[j] = columns[j] \/ columns'[j] = ProbeAnswer(j)
    <3> DEFINE f == [k \in {at} |-> ProbeAnswer(k)]
    <3>1. columns' = Store(f) /\ {at} \in SUBSET Id /\ DOMAIN f = {at} /\ f[at] = ProbeAnswer(at)
      BY <1>2 DEF ColumnsProbe, TypeOK
    <3> HIDE DEF f
    <3>2. \A j \in Id : Store(f)[j] = IF j \in {at} THEN f[j] ELSE columns[j]
      BY <3>1, StoreValue
    <3>3. QED
      BY <3>1, <3>2
  <2>3. EntriesWereTrue'
    BY <2>1, <2>2, EntriesStayTrue
  <2>4. QED
    BY <2>1, <2>3 DEF HistoryInv, Existed, env
<1>3. CASE Bulk
  <2> DEFINE s == at[1]
             Is(R) == {t \in Table : world[<<s, t>>] \in R}
  <2>1. PICK described \in SUBSET Is(Version), v \in SUBSET Table :
          /\ columns' = Store([i \in {s} \X described |-> world[i]])
          /\ \/ FinishNames(Names(described, v))
             \/ /\ found' = Names(described, v)
                /\ UNCHANGED <<relations, got, op, at, reply>>
    BY <1>3 DEF Bulk
  <2>2. UNCHANGED env /\ at[1] \in Schema /\ {s} \X described \in SUBSET Id
    BY <1>3 DEF Bulk, TypeOK, Id
  <2>3. \A j \in Id : columns'[j] = columns[j] \/ (columns'[j] = world[j] /\ world[j] \in Version)
    <3> DEFINE D == {s} \X described
               f == [i \in D |-> world[i]]
    <3>1. columns' = Store(f) /\ D \in SUBSET Id /\ DOMAIN f = D
      BY <2>1, <2>2
    <3>2. \A j \in D : f[j] = world[j] /\ world[j] \in Version
      OBVIOUS
    <3> HIDE DEF D, f
    <3>3. \A j \in Id : Store(f)[j] = IF j \in D THEN f[j] ELSE columns[j]
      BY <3>1, StoreValue
    <3>4. QED
      BY <3>1, <3>2, <3>3
  <2>4. EntriesWereTrue'
    BY <2>2, <2>3, EntriesStayTrue
  <2>5. \A t \in described : Existed(<<at[1], t>>)
    <3> SUFFICES ASSUME NEW t \in described PROVE Existed(<<at[1], t>>)
      OBVIOUS
    <3>1. <<at[1], t>> \in Id /\ world[<<at[1], t>>] \in Version
      BY <2>2 DEF Id
    <3>2. QED
      BY <3>1, VersionAssumption DEF VersionAssumption, HistoryInv, Existed
  <2>6. Names(described, v) \in NamesType /\ Names(described, v).names = described
    BY DEF Names, NamesType
  <2>7. CASE FinishNames(Names(described, v))
    BY <2>2, <2>4, <2>5, <2>6, <2>7, FinishKeepsHistory
  <2>8. CASE /\ found' = Names(described, v)
             /\ UNCHANGED <<relations, got, op, at, reply>>
    BY <2>2, <2>4, <2>5, <2>6, <2>8 DEF HistoryInv, Existed, env
  <2>9. QED
    BY <2>1, <2>7, <2>8
<1>4. CASE ProbeNext
  <2>1. PICK t \in todo :
          LET i == <<at[1], t>>
              n == IF Visible(ProbeAnswer(i))
                   THEN Names(found.names \cup {t}, found.views) ELSE found
          IN /\ StoreProbed(i)
             /\ \/ FinishNames(n)
                \/ /\ found' = n
                   /\ UNCHANGED <<relations, got, op, at, pc, reply>>
    BY <1>4 DEF ProbeNext
  <2> DEFINE i == <<at[1], t>>
             n == IF Visible(ProbeAnswer(i))
                  THEN Names(found.names \cup {t}, found.views) ELSE found
  <2>2. i \in Id /\ t \in Table /\ pc = "probes" /\ UNCHANGED env
    BY <1>4, <2>1 DEF ProbeNext, TypeOK, Id
  <2>3. \A j \in Id : columns'[j] = columns[j] \/ columns'[j] = ProbeAnswer(j)
    <3> DEFINE f == [k \in {i} |-> ProbeAnswer(k)]
    <3>1. columns' = Store(f) /\ {i} \in SUBSET Id /\ DOMAIN f = {i} /\ f[i] = ProbeAnswer(i)
      BY <2>1, <2>2 DEF StoreProbed
    <3> HIDE DEF f
    <3>2. \A j \in Id : Store(f)[j] = IF j \in {i} THEN f[j] ELSE columns[j]
      BY <3>1, StoreValue
    <3>3. QED
      BY <3>1, <3>2
  <2>4. EntriesWereTrue'
    BY <2>2, <2>3, EntriesStayTrue
  <2>5. n \in NamesType
    BY <2>2 DEF TypeOK, NamesType, Names
  <2>6. \A u \in n.names : Existed(<<at[1], u>>)
    <3>1. \A u \in found.names : Existed(<<at[1], u>>)
      BY <2>2 DEF HistoryInv
    <3>2. Visible(ProbeAnswer(i)) => Existed(i)
      BY <2>2, VersionAssumption DEF VersionAssumption, Visible, ProbeAnswer, HistoryInv, Existed
    <3>3. QED
      BY <3>1, <3>2 DEF Names
  <2>7. CASE FinishNames(n)
    BY <2>2, <2>4, <2>5, <2>6, <2>7, FinishKeepsHistory
  <2>8. CASE /\ found' = n
             /\ UNCHANGED <<relations, got, op, at, pc, reply>>
    <3>1. at' = at /\ relations' = relations /\ ever' = ever /\ world' = world
      BY <2>2, <2>8 DEF env
    <3>2. \A u \in found'.names : \E r \in ever[<<at[1], u>>] : r # "absent"
      BY <2>6, <2>8 DEF Existed
    <3>3. QED
      BY <2>4, <3>1, <3>2 DEF HistoryInv, Existed
  <2>9. QED
    BY <2>1, <2>7, <2>8
<1>5. CASE \E o \in Op, i \in Id : Begin(o, i)
  <2>1. UNCHANGED env /\ UNCHANGED cache /\ pc' # "probes"
    BY <1>5 DEF Begin
  <2>2. QED
    BY <2>1 DEF HistoryInv, EntriesWereTrue, Existed, env, cache
<1>6. CASE \E i \in Id, r \in Reported : Change(i, r)
  <2>1. PICK k \in Id, r \in Reported : Change(k, r)
    BY <1>6
  <2>2. \A i \in Id : ever[i] \subseteq ever'[i] /\ world'[i] \in ever'[i]
    BY <2>1 DEF Change, TypeOK, HistoryInv
  <2>3. \A i : i \in Id /\ Existed(i) => Existed(i)'
    BY <2>2 DEF Existed
  <2>4. UNCHANGED <<adapter, columns, relations, pc, at, found>>
    BY <2>1 DEF Change, cache, local
  <2>5. EntriesWereTrue'
    BY <2>2, <2>4 DEF EntriesWereTrue, HistoryInv
  <2>6. \A s \in Schema : \A t \in relations[s].names : <<s, t>> \in Id
    BY DEF TypeOK, NamesType, Id
  <2>7. \A t \in found.names : <<at[1], t>> \in Id
    BY DEF TypeOK, NamesType, Id
  <2>8. QED
    BY <2>2, <2>3, <2>4, <2>5, <2>6, <2>7 DEF HistoryInv
<1>7. CASE UNCHANGED vars
  BY <1>7 DEF vars, HistoryInv, EntriesWereTrue, Existed
<1>8. QED
  BY <1>1, <1>2, <1>3, <1>4, <1>5, <1>6, <1>7 DEF Next, Step

LEMMA HistoryCorrect == Spec => []HistoryInv
<1>1. Init => HistoryInv
  BY VersionAssumption DEF VersionAssumption, Init, HistoryInv, EntriesWereTrue, Existed, NoNames
<1>2. TypeOK /\ HistoryInv /\ [Next]_vars => HistoryInv'
  BY HistoryStep
<1>3. QED
  BY <1>1, <1>2, TypeCorrect, PTL DEF Spec

\* No column entry was ever untrue of its own table in its own schema, for any
\* number of schemas with tables of the same name.
THEOREM EntriesOnceTrue == Spec => []EntriesWereTrue
<1>1. HistoryInv => EntriesWereTrue
  BY DEF HistoryInv
<1>2. QED
  BY <1>1, HistoryCorrect, PTL

\* No name is shown of a table that never existed.
THEOREM ShownOnceExisted == Spec => []ShownExisted
<1>1. HistoryInv => ShownExisted
  BY DEF HistoryInv, ShownExisted, Existed
<1>2. QED
  BY <1>1, HistoryCorrect, PTL
=============================================================================
