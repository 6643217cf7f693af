----------------------- MODULE CatalogDiscoveryProofs -----------------------
(***************************************************************************)
(* Theorems about CatalogDiscovery, for every set of catalogs and servers, *)
(* whatever failures those produce and however often they change.          *)
(***************************************************************************)
EXTENDS CatalogDiscovery, TLAPS

LEMMA SettleType ==
  ASSUME TypeOK, NEW rows \in SUBSET (Catalog \X Object), Settle(rows)
  PROVE  /\ op' \in Op /\ pc' \in PC /\ include' \in BOOLEAN
         /\ catalogs' \subseteq Catalog
         /\ reply' \in [status : {"none", "raised", "answered"},
                        rows : SUBSET (Catalog \X Object), described : BOOLEAN]
<1>1. CASE include /\ rows = {} /\ NamesRequest
  BY <1>1 DEF NamesRequest, TypeOK, PC
<1>2. CASE include /\ rows # {} /\ Return(Answer(rows, TRUE))
  BY <1>2 DEF TypeOK, PC, Return, Answer
<1>3. CASE ~include /\ Return(Answer(IF op = "table" THEN {r \in rows : r[2] = "exact"} ELSE rows, FALSE))
  <2>1. (IF op = "table" THEN {r \in rows : r[2] = "exact"} ELSE rows) \in SUBSET (Catalog \X Object)
    OBVIOUS
  <2>2. QED
    BY <1>3, <2>1 DEF TypeOK, PC, Return, Answer
<1>4. QED
  BY <1>1, <1>2, <1>3 DEF Settle

LEMMA DecideType ==
  ASSUME TypeOK, NEW c \in Catalog \cup {None}, Decide(c)
  PROVE  /\ catalog' = catalog /\ resolved' = c
         /\ op' \in Op /\ pc' \in PC /\ include' \in BOOLEAN
         /\ catalogs' \subseteq Catalog
         /\ reply' \in [status : {"none", "raised", "answered"},
                        rows : SUBSET (Catalog \X Object), described : BOOLEAN]
<1>1. CASE c # None /\ pc' = "retry" /\ catalogs' = {} /\ UNCHANGED <<op, include, reply>>
  BY <1>1 DEF Decide, TypeOK, PC
<1>2. CASE c = None /\ Settle({})
  BY <1>2, SettleType DEF Decide
<1>3. QED
  BY <1>1, <1>2 DEF Decide

LEMMA ScopeType ==
  ASSUME TypeOK
  PROVE  MetadataCatalog \in Catalog \cup {None}
BY DEF TypeOK, MetadataCatalog

LEMMA RowsType ==
  ASSUME NEW scope
  PROVE  Rows(scope) \in SUBSET (Catalog \X Object)
BY DEF Rows, Holding

LEMMA DefaultCatalogType ==
  ASSUME TypeOK, NEW values
  PROVE  DefaultCatalog(values) \in Catalog \cup {None}
<1>1. CASE \E v \in values : values = {v} /\ v \in catalogs
  <2>1. PICK v \in values : values = {v} /\ v \in catalogs
    BY <1>1
  <2>2. (CHOOSE w \in values : TRUE) = v
    BY <2>1
  <2>3. QED
    BY <1>1, <2>1, <2>2 DEF DefaultCatalog, TypeOK
<1>2. CASE ~\E v \in values : values = {v} /\ v \in catalogs
  BY <1>2 DEF DefaultCatalog
<1>3. QED
  BY <1>1, <1>2

\* The types of CatalogDiscovery's variables hold in every reachable state.
THEOREM TypeCorrect == Spec => []TypeOK
<1>1. Init => TypeOK
  <2> SUFFICES ASSUME Init PROVE TypeOK
    OBVIOUS
  <2>1. changes \in 0..MaxChanges /\ transients \in 0..MaxTransients
    BY ConstantsAssumption DEF ConstantsAssumption, Init
  <2>2. reply \in [status : {"none", "raised", "answered"},
                   rows : SUBSET (Catalog \X Object), described : BOOLEAN]
    BY DEF Init, NoReply
  <2>3. sent \in 0..SentCap
    BY DEF Init, SentCap
  <2>4. QED
    BY <2>1, <2>2, <2>3 DEF Init, TypeOK, Op, PC
<1>2. TypeOK /\ [Next]_vars => TypeOK'
  <2> SUFFICES ASSUME TypeOK, [Next]_vars PROVE TypeOK'
    OBVIOUS
  <2> USE ConstantsAssumption DEF ConstantsAssumption
  <2>0. MetadataCatalog \in Catalog \cup {None} /\ \A s : Rows(s) \in SUBSET (Catalog \X Object)
    BY ScopeType, RowsType
  <2>1. CASE Ask
    <3>1. CASE Settle(Rows(MetadataCatalog))
      BY <2>1, <2>0, <3>1, SettleType DEF Ask, Send, SentCap, TypeOK, env, conn
    <3>2. CASE /\ pc' = FirstProbe
               /\ UNCHANGED <<call, reply>>
      BY <2>1, <2>0, <3>2 DEF Ask, Send, SentCap, TypeOK, env, conn, call, FirstProbe, PC, Probing
    <3>3. QED
      BY <2>1, <3>1, <3>2 DEF Ask
  <2>2. CASE AskFails
    BY <2>2, <2>0 DEF AskFails, Send, SentCap, Return, Raised, TypeOK, env, conn, PC
  <2>3. CASE AskKeys
    BY <2>3 DEF AskKeys, Send, SentCap, Return, Answer, TypeOK, env, conn, PC
  <2>4. CASE ProbeSchemas
    <3>1. CASE Decide(None)
      BY <2>4, <3>1, DecideType DEF ProbeSchemas, Send, SentCap, TypeOK, env
    <3>2. CASE pc' = "probeCatalogs" /\ UNCHANGED <<conn, call, reply>>
      BY <2>4, <3>2 DEF ProbeSchemas, Send, SentCap, TypeOK, env, conn, call, PC, Probing
    <3>3. QED
      BY <2>4, <3>1, <3>2 DEF ProbeSchemas
  <2>5. CASE ProbeCatalogs
    <3>0. server.listed \subseteq Catalog
      BY ServersAssumption DEF ServersAssumption, TypeOK, ServerType
    <3>1. CASE \E c \in server.listed : Decide(c)
      BY <2>5, <3>0, <3>1, DecideType DEF ProbeCatalogs, Send, SentCap, TypeOK, env
    <3>2. CASE Decide(None)
      BY <2>5, <3>2, DecideType DEF ProbeCatalogs, Send, SentCap, TypeOK, env
    <3>3. CASE pc' = "probeDefault" /\ catalogs' = server.listed /\ UNCHANGED <<conn, op, include, reply>>
      BY <2>5, <3>0, <3>3 DEF ProbeCatalogs, Send, SentCap, TypeOK, env, conn, PC, Probing
    <3>4. QED
      BY <2>5, <3>1, <3>2, <3>3 DEF ProbeCatalogs
  <2>6. CASE ProbeDefault
    BY <2>6, DefaultCatalogType, DecideType DEF ProbeDefault, Send, SentCap, TypeOK, env
  <2>7. CASE ProbeFailsTransiently
    BY <2>7, SettleType DEF ProbeFailsTransiently, Send, SentCap, TypeOK, env, conn
  <2>8. CASE ProbeFailsForGood
    BY <2>8, DecideType DEF ProbeFailsForGood, Send, SentCap, TypeOK, env
  <2>9. CASE ProbeRaises
    BY <2>9 DEF ProbeRaises, Send, SentCap, Return, Raised, TypeOK, env, conn, PC
  <2>10. CASE ServerChange
    BY <2>10 DEF ServerChange, TypeOK
  <2>11. CASE \E o \in Op : Begin(o)
    BY <2>11 DEF Begin, SentCap, TypeOK, env, conn, PC, NoReply
  <2>12. CASE UNCHANGED vars
    BY <2>12 DEF vars, TypeOK
  <2>13. QED
    BY <2>1, <2>2, <2>3, <2>4, <2>5, <2>6, <2>7, <2>8, <2>9, <2>10, <2>11, <2>12 DEF Next, Step
<1>3. QED
  BY <1>1, <1>2, PTL DEF Spec

-----------------------------------------------------------------------------
(* The invariant of discovery *)

LEMMA SettleEffect ==
  ASSUME NEW rows \in SUBSET (Catalog \X Object), Settle(rows), reply = NoReply
  PROVE  /\ pc' \in {"idle", "request"}
         /\ pc' = "request" => reply' = NoReply
         /\ Origins' \subseteq {r[1] : r \in rows}
<1>1. CASE include /\ rows = {} /\ NamesRequest
  BY <1>1 DEF NamesRequest, Origins, NoReply
<1>2. CASE include /\ rows # {} /\ Return(Answer(rows, TRUE))
  BY <1>2 DEF Return, Answer, Origins
<1>3. CASE ~include /\ Return(Answer(IF op = "table" THEN {r \in rows : r[2] = "exact"} ELSE rows, FALSE))
  BY <1>3 DEF Return, Answer, Origins
<1>4. QED
  BY <1>1, <1>2, <1>3 DEF Settle

LEMMA DecideEffect ==
  ASSUME NEW c \in Catalog \cup {None}, Decide(c), reply = NoReply
  PROVE  /\ catalog' = catalog /\ resolved' = c
         /\ pc' \in {"idle", "request", "retry"}
         /\ pc' = "retry" => c # None
         /\ pc' # "idle" => reply' = NoReply
         /\ Origins' = {}
<1>1. CASE c # None /\ pc' = "retry" /\ catalogs' = {} /\ UNCHANGED <<op, include, reply>>
  BY <1>1 DEF Decide, Origins, NoReply
<1>2. CASE c = None /\ Settle({})
  BY <1>2, SettleEffect DEF Decide
<1>3. QED
  BY <1>1, <1>2 DEF Decide

\* The rows found under a scope that is a catalog are of that catalog.
LEMMA RowsWithinScope ==
  ASSUME TypeOK, Scope \in Catalog
  PROVE  /\ MetadataCatalog = Scope
         /\ {r[1] : r \in Rows(MetadataCatalog)} \subseteq {Scope}
<1>1. MetadataCatalog = Scope /\ MetadataCatalog # None
  BY ConstantsAssumption DEF ConstantsAssumption, TypeOK, Scope, MetadataCatalog
<1>2. Visible(MetadataCatalog) = {Scope}
  BY <1>1 DEF Visible
<1>3. QED
  BY <1>1, <1>2 DEF Rows, Holding

LEMMA DiscoveryStep ==
  ASSUME TypeOK, DiscoveryInv, [Next]_vars
  PROVE  DiscoveryInv'
<1> USE ConstantsAssumption DEF ConstantsAssumption
<1>0. MetadataCatalog \in Catalog \cup {None} /\ \A s : Rows(s) \in SUBSET (Catalog \X Object)
  BY ScopeType, RowsType
<1> DEFINE Kept == /\ pc' \in {"idle", "request"}
                   /\ pc' = "request" => reply' = NoReply
                   /\ AnswersWithinScope'
<1>1. ASSUME Kept, UNCHANGED conn PROVE DiscoveryInv'
  BY <1>1 DEF DiscoveryInv, conn, Probing
<1>2. ASSUME NEW c \in Catalog \cup {None}, Decide(c), pc \in Probing PROVE DiscoveryInv'
  <2>1. pc # "idle" /\ reply = NoReply /\ catalog = None
    BY <1>2 DEF DiscoveryInv, Probing
  <2>2. /\ catalog' = None /\ resolved' = c
        /\ pc' \in {"idle", "request", "retry"}
        /\ pc' = "retry" => c # None
        /\ pc' # "idle" => reply' = NoReply
        /\ Origins' = {}
    BY <1>2, <2>1, DecideEffect
  <2>3. QED
    BY <2>2 DEF DiscoveryInv, Probing, AnswersWithinScope
<1>3. ASSUME NEW r, Return(r), r.rows = {}, UNCHANGED conn PROVE DiscoveryInv'
  BY <1>1, <1>3 DEF Return, AnswersWithinScope, Origins
<1>4. CASE Ask
  <2>1. pc # "idle" /\ reply = NoReply /\ UNCHANGED conn
    BY <1>4 DEF Ask, DiscoveryInv
  <2>2. CASE Settle(Rows(MetadataCatalog))
    <3>1. /\ pc' \in {"idle", "request"}
          /\ pc' = "request" => reply' = NoReply
          /\ Origins' \subseteq {r[1] : r \in Rows(MetadataCatalog)}
      BY <1>0, <2>1, <2>2, SettleEffect
    <3>2. Scope' = Scope
      BY <2>1 DEF Scope, conn
    <3>3. AnswersWithinScope'
      BY <3>1, <3>2, RowsWithinScope DEF AnswersWithinScope
    <3>4. QED
      BY <1>1, <2>1, <3>1, <3>3
  <2>3. CASE /\ CanFallBack
             /\ pc' = FirstProbe
             /\ UNCHANGED <<call, reply>>
    BY <2>1, <2>3 DEF CanFallBack, FirstProbe, DiscoveryInv, conn, Probing, AnswersWithinScope, Scope, Origins, NoReply
  <2>4. QED
    BY <1>4, <2>2, <2>3 DEF Ask
<1>5. CASE AskFails
  BY <1>3, <1>5 DEF AskFails, Raised
<1>6. CASE AskKeys
  BY <1>3, <1>6 DEF AskKeys, Answer
<1>7. CASE ProbeSchemas
  <2>1. CASE Decide(None)
    BY <1>2, <1>7, <2>1 DEF ProbeSchemas, Probing
  <2>2. CASE pc' = "probeCatalogs" /\ UNCHANGED <<conn, call, reply>>
    BY <1>7, <2>2 DEF ProbeSchemas, DiscoveryInv, conn, Probing, AnswersWithinScope, Scope, Origins
  <2>3. QED
    BY <1>7, <2>1, <2>2 DEF ProbeSchemas
<1>8. CASE ProbeCatalogs
  <2>1. server.listed \subseteq Catalog
    BY ServersAssumption DEF ServersAssumption, TypeOK, ServerType
  <2>2. CASE \E c \in server.listed : Decide(c)
    BY <1>2, <1>8, <2>1, <2>2 DEF ProbeCatalogs, Probing
  <2>3. CASE Decide(None)
    BY <1>2, <1>8, <2>3 DEF ProbeCatalogs, Probing
  <2>4. CASE pc' = "probeDefault" /\ UNCHANGED <<conn, op, include, reply>>
    BY <1>8, <2>4 DEF ProbeCatalogs, DiscoveryInv, conn, Probing, AnswersWithinScope, Scope, Origins
  <2>5. QED
    BY <1>8, <2>2, <2>3, <2>4 DEF ProbeCatalogs
<1>9. CASE ProbeDefault
  BY <1>2, <1>9, DefaultCatalogType DEF ProbeDefault, Probing
<1>10. CASE ProbeFailsTransiently
  <2>1. reply = NoReply /\ UNCHANGED conn /\ Settle({})
    BY <1>10 DEF ProbeFailsTransiently, DiscoveryInv, Probing
  <2>2. Kept
    BY <2>1, SettleEffect DEF AnswersWithinScope
  <2>3. QED
    BY <1>1, <2>1, <2>2
<1>11. CASE ProbeFailsForGood
  BY <1>2, <1>11 DEF ProbeFailsForGood
<1>12. CASE ProbeRaises
  BY <1>3, <1>12 DEF ProbeRaises, Raised
<1>13. CASE ServerChange
  BY <1>13 DEF ServerChange, DiscoveryInv, AnswersWithinScope, Scope, Origins
<1>14. CASE \E o \in Op : Begin(o)
  BY <1>14 DEF Begin, DiscoveryInv, conn, Probing, AnswersWithinScope, Origins, NoReply
<1>15. CASE UNCHANGED vars
  BY <1>15 DEF vars, DiscoveryInv, AnswersWithinScope, Scope, Origins
<1>16. QED
  BY <1>4, <1>5, <1>6, <1>7, <1>8, <1>9, <1>10, <1>11, <1>12, <1>13, <1>14, <1>15 DEF Next, Step

\* Only an undecided connection probes, and an answer holds rows of the
\* connection's catalog only, in every reachable state.
THEOREM DiscoveryInvariant == Spec => []DiscoveryInv
<1>1. Init => DiscoveryInv
  BY DEF Init, DiscoveryInv, Probing, AnswersWithinScope, Origins, NoReply
<1>2. TypeOK /\ DiscoveryInv /\ [Next]_vars => DiscoveryInv'
  BY DiscoveryStep
<1>3. QED
  BY <1>1, <1>2, TypeCorrect, PTL DEF Spec

-----------------------------------------------------------------------------
(* Consequences *)

\* A catalog is chosen only at a moment when unqualified SQL runs in it.
THEOREM ChoiceIsDefault == Spec => ChoosesExecutionDefault
<1> DEFINE Chosen == (resolved' # resolved /\ resolved' \in Catalog) => resolved' = server.default
<1>1. TypeOK /\ [Next]_vars => [Chosen]_vars
  <2> SUFFICES ASSUME TypeOK, Next, resolved' # resolved, resolved' \in Catalog
               PROVE  resolved' = server.default
    OBVIOUS
  <2> USE ConstantsAssumption DEF ConstantsAssumption
  <2>1. ProbeSchemas \/ ProbeCatalogs \/ ProbeDefault \/ ProbeFailsForGood
    BY DEF Next, Step, Ask, AskFails, AskKeys, ProbeFailsTransiently, ProbeRaises,
           ServerChange, Begin, conn
  <2>2. ~ProbeSchemas /\ ~ProbeFailsForGood
    BY DEF ProbeSchemas, ProbeFailsForGood, Decide, conn
  <2>3. CASE ProbeCatalogs
    <3>1. PICK c \in server.listed : server.listed = {c} /\ resolved' = c
      BY <2>3 DEF ProbeCatalogs, Decide, conn
    <3>2. QED
      BY <3>1, ServersAssumption DEF ServersAssumption, TypeOK
  <2>4. CASE ProbeDefault
    <3> DEFINE values == IF server.reports THEN {server.default} ELSE {}
    <3>1. resolved' = DefaultCatalog(values) /\ resolved' # None
      BY <2>4 DEF ProbeDefault, Decide
    <3>2. PICK v \in values : values = {v}
      BY <3>1 DEF DefaultCatalog
    <3>3. v = server.default /\ DefaultCatalog(values) = v
      BY <3>1, <3>2 DEF DefaultCatalog
    <3>4. QED
      BY <3>1, <3>3
  <2>5. QED
    BY <2>1, <2>2, <2>3, <2>4
<1>2. QED
  BY <1>1, TypeCorrect, PTL DEF Spec, ChoosesExecutionDefault

-----------------------------------------------------------------------------
(* Refinement of MetadataScope *)

\* A settled call returns rows of its scope, or goes on without a word.
LEMMA SettleImplements ==
  ASSUME TypeOK, NEW rows \in SUBSET (Catalog \X Object), Settle(rows),
         pc # "idle", reply = NoReply, Promise!KeepOrDecide,
         Scope' \in Catalog => {r[1] : r \in rows} \subseteq {Scope'}
  PROVE  Promise!Look \/ Promise!Return
<1>1. /\ pc' \in {"idle", "request"}
      /\ pc' = "request" => reply' = NoReply
      /\ Origins' \subseteq {r[1] : r \in rows}
  BY SettleEffect
<1>2. CASE pc' = "request"
  BY <1>1, <1>2 DEF Promise!Look, Origins
<1>3. CASE pc' = "idle"
  <2>1. Origins' \subseteq Catalog
    BY <1>1
  <2>2. Origins' \in SUBSET Promise!Within(Scope')
    BY <1>1, <2>1 DEF Promise!Within
  <2>3. QED
    BY <1>3, <2>2 DEF Promise!Return
<1>4. QED
  BY <1>1, <1>2, <1>3

LEMMA DecideImplements ==
  ASSUME TypeOK, DiscoveryInv, pc \in Probing,
         NEW c \in Catalog \cup {None}, Decide(c)
  PROVE  Promise!Look \/ Promise!Return
<1>1. pc # "idle" /\ reply = NoReply /\ catalog = None /\ resolved = Undecided
  BY DEF DiscoveryInv, Probing
<1>2. Promise!KeepOrDecide
  BY <1>1, DecideEffect, ConstantsAssumption DEF ConstantsAssumption, Promise!KeepOrDecide, Scope
<1>3. CASE pc' = "retry" /\ UNCHANGED reply
  BY <1>1, <1>2, <1>3 DEF Promise!Look, Origins
<1>4. CASE Settle({})
  BY <1>1, <1>2, <1>4, SettleImplements
<1>5. QED
  BY <1>3, <1>4 DEF Decide

LEMMA StepImplements ==
  ASSUME TypeOK, DiscoveryInv, [Next]_vars
  PROVE  [Promise!Next]_(Promise!vars)
<1> USE ConstantsAssumption DEF ConstantsAssumption
<1>0. MetadataCatalog \in Catalog \cup {None} /\ \A s : Rows(s) \in SUBSET (Catalog \X Object)
  BY ScopeType, RowsType
<1>1. ASSUME pc # "idle", reply = NoReply, UNCHANGED <<conn, reply>>, pc' # "idle"
      PROVE  UNCHANGED Promise!vars
  BY <1>1 DEF conn, Promise!vars, Scope, Origins
<1>2. ASSUME NEW r, r.rows = {}, Return(r), UNCHANGED conn, pc # "idle"
      PROVE  Promise!Return
  <2>1. Origins' = {} /\ Scope' = Scope /\ pc' = "idle"
    BY <1>2 DEF Return, Origins, Scope, conn
  <2>2. QED
    BY <1>2, <2>1 DEF Promise!Return, Promise!KeepOrDecide, Promise!Within
<1>3. CASE Ask
  <2>1. pc # "idle" /\ reply = NoReply /\ UNCHANGED conn
    BY <1>3 DEF Ask, DiscoveryInv
  <2>2. CASE Settle(Rows(MetadataCatalog))
    <3>1. Scope' = Scope
      BY <2>1 DEF Scope, conn
    <3>2. Scope' \in Catalog => {r[1] : r \in Rows(MetadataCatalog)} \subseteq {Scope'}
      BY <3>1, RowsWithinScope
    <3>3. Promise!KeepOrDecide
      BY <3>1 DEF Promise!KeepOrDecide
    <3>4. QED
      BY <1>0, <2>1, <2>2, <3>2, <3>3, SettleImplements DEF Promise!Next
  <2>3. CASE /\ pc' = FirstProbe
             /\ UNCHANGED <<call, reply>>
    BY <1>1, <2>1, <2>3 DEF FirstProbe
  <2>4. QED
    BY <1>3, <2>2, <2>3 DEF Ask
<1>4. CASE AskFails
  BY <1>2, <1>4 DEF AskFails, Raised, Promise!Next
<1>5. CASE AskKeys
  BY <1>2, <1>5 DEF AskKeys, Answer, Promise!Next
<1>6. CASE ProbeSchemas
  <2>1. CASE Decide(None)
    BY <1>6, <2>1, DecideImplements DEF ProbeSchemas, Probing, Promise!Next
  <2>2. CASE pc' = "probeCatalogs" /\ UNCHANGED <<conn, call, reply>>
    BY <1>1, <1>6, <2>2 DEF ProbeSchemas, DiscoveryInv
  <2>3. QED
    BY <1>6, <2>1, <2>2 DEF ProbeSchemas
<1>7. CASE ProbeCatalogs
  <2>1. server.listed \subseteq Catalog
    BY ServersAssumption DEF ServersAssumption, TypeOK, ServerType
  <2>2. CASE \E c \in server.listed \cup {None} : Decide(c)
    BY <1>7, <2>1, <2>2, DecideImplements DEF ProbeCatalogs, Probing, Promise!Next
  <2>3. CASE pc' = "probeDefault" /\ UNCHANGED <<conn, op, include, reply>>
    BY <1>1, <1>7, <2>3 DEF ProbeCatalogs, DiscoveryInv
  <2>4. QED
    BY <1>7, <2>2, <2>3 DEF ProbeCatalogs
<1>8. CASE ProbeDefault
  BY <1>8, DefaultCatalogType, DecideImplements DEF ProbeDefault, Probing, Promise!Next
<1>9. CASE ProbeFailsTransiently
  <2>1. pc # "idle" /\ reply = NoReply /\ UNCHANGED conn /\ Settle({})
    BY <1>9 DEF ProbeFailsTransiently, DiscoveryInv, Probing
  <2>2. Promise!KeepOrDecide
    BY <2>1 DEF Promise!KeepOrDecide, Scope, conn
  <2>3. QED
    BY <2>1, <2>2, SettleImplements DEF Promise!Next
<1>10. CASE ProbeFailsForGood
  BY <1>10, DecideImplements DEF ProbeFailsForGood, Promise!Next
<1>11. CASE ProbeRaises
  BY <1>2, <1>11 DEF ProbeRaises, Raised, Probing, Promise!Next
<1>12. CASE ServerChange
  BY <1>12 DEF ServerChange, Promise!vars, Scope, Origins
<1>13. CASE \E o \in Op : Begin(o)
  <2>1. pc = "idle" /\ pc' # "idle" /\ Origins' = {} /\ Scope' = Scope
    BY <1>13 DEF Begin, NoReply, Origins, Scope, conn
  <2>2. QED
    BY <2>1 DEF Promise!Call, Promise!Next
<1>14. CASE UNCHANGED vars
  BY <1>14 DEF vars, Promise!vars, Scope, Origins
<1>15. QED
  BY <1>3, <1>4, <1>5, <1>6, <1>7, <1>8, <1>9, <1>10, <1>11, <1>12, <1>13, <1>14 DEF Next, Step

\* The connection implements MetadataScope: whatever the server does and
\* whichever RPCs fail, its scope is decided at most once and within a call,
\* and every answer stays within it.
THEOREM ImplementsPromise == Spec => KeepsPromise
<1>1. Init => Promise!Init
  BY DEF Init, Promise!Init, Scope, Origins, NoReply
<1>2. TypeOK /\ DiscoveryInv /\ [Next]_vars => [Promise!Next]_(Promise!vars)
  BY StepImplements
<1>3. QED
  BY <1>1, <1>2, TypeCorrect, DiscoveryInvariant, PTL DEF Spec, KeepsPromise, Promise!Spec

-----------------------------------------------------------------------------
(* The RPCs of a call *)

\* The names request of bulk and table, and the RPCs made before it.
Second == op \in {"bulk", "table"} /\ ~include
Spent == IF Second THEN IF knew THEN 1 ELSE 4 ELSE 0

\* What a call has sent when it is about to take each step.  A names request
\* is preceded by at most four RPCs when the connection is still undecided,
\* and by five when the scope was decided: then it stands alone.
BudgetInv ==
  /\ include => op \in {"bulk", "table"}
  /\ knew => catalog # None \/ resolved # Undecided
  /\ pc \in Probing \cup {"retry"} => ~knew
  /\ pc = "request" => sent <= IF Second /\ ~knew /\ resolved # Undecided THEN 5 ELSE Spent
  /\ pc = "probeSchemas" => sent <= Spent + 1
  /\ pc = "probeCatalogs" => sent <= Spent + 2
  /\ pc = "probeDefault" => sent <= Spent + 3
  /\ pc = "retry" => sent <= Spent + 4
  /\ pc = "keys" => sent = 0
  /\ RpcBudget

\* A call settles by returning or with the names request.
LEMMA SettleControl ==
  ASSUME NEW rows, Settle(rows)
  PROVE  /\ op' = op
         /\ \/ pc' = "idle" /\ include' = include
            \/ pc' = "request" /\ include /\ ~include'
BY DEF Settle, NamesRequest, Return

LEMMA SendCounts ==
  ASSUME TypeOK, Send
  PROVE  sent \in Nat /\ sent' \in Nat /\ sent' <= sent + 1
BY DEF TypeOK, Send, SentCap

LEMMA BudgetStep ==
  ASSUME TypeOK, DiscoveryInv, BudgetInv, [Next]_vars
  PROVE  BudgetInv'
<1> USE ConstantsAssumption DEF ConstantsAssumption
<1>0. include \in BOOLEAN /\ knew \in BOOLEAN /\ op \in Op
  BY DEF TypeOK
<1>1. ASSUME NEW r, Return(r), Send, UNCHANGED knew, UNCHANGED catalog,
             resolved' = resolved, pc # "idle"
      PROVE  BudgetInv'
  <2>1. pc' = "idle" /\ UNCHANGED <<op, include>>
    BY <1>1 DEF Return
  <2>2. sent \in Nat /\ sent' \in Nat /\ sent' <= sent + 1
    BY <1>1, SendCounts
  <2>3. pc \in PC
    BY DEF TypeOK
  <2>4. RpcBudget'
    BY <1>0, <1>1, <2>1, <2>2, <2>3 DEF BudgetInv, RpcBudget, OwnRpcs, Spent, Second, PC, Probing
  <2>5. QED
    BY <1>1, <2>1, <2>4 DEF BudgetInv, Probing
<1>2. ASSUME NEW rows, Settle(rows), Send, UNCHANGED <<knew, catalog>>,
             resolved' # Undecided \/ resolved' = resolved,
             pc \in Probing \/ pc = "request" \/ (pc = "retry" /\ UNCHANGED resolved),
             pc \in Probing => ~knew
      PROVE  BudgetInv'
  <2>1. /\ op' = op
        /\ \/ pc' = "idle" /\ include' = include
           \/ pc' = "request" /\ include /\ ~include'
    BY <1>2, SettleControl
  <2>2. sent \in Nat /\ sent' \in Nat /\ sent' <= sent + 1
    BY <1>2, SendCounts
  <2>3. pc = "retry" => resolved # Undecided
    BY DEF DiscoveryInv
  <2>4. CASE pc' = "idle"
    <3>1. RpcBudget'
      BY <1>0, <1>2, <2>1, <2>2, <2>4 DEF BudgetInv, RpcBudget, OwnRpcs, Spent, Second, Probing
    <3>2. QED
      BY <1>2, <2>1, <2>4, <3>1 DEF BudgetInv, Probing
  <2>5. CASE pc' = "request" /\ include /\ ~include'
    <3>1. sent' <= IF Second' /\ ~knew' /\ resolved' # Undecided THEN 5 ELSE Spent'
      BY <1>0, <1>2, <2>1, <2>2, <2>3, <2>5 DEF BudgetInv, Spent, Second, Probing
    <3>2. RpcBudget'
      BY <1>0, <1>2, <2>1, <2>2, <2>5, <3>1 DEF BudgetInv, RpcBudget, OwnRpcs, Spent, Second
    <3>3. QED
      BY <1>2, <2>1, <2>5, <3>1, <3>2 DEF BudgetInv, Probing
  <2>6. QED
    BY <2>1, <2>4, <2>5
<1>3. ASSUME Send, UNCHANGED <<knew, catalog, op, include>>, pc' \in Probing \cup {"retry"}, ~knew,
             /\ pc' = "probeSchemas" => sent <= Spent
             /\ pc' = "probeCatalogs" => sent <= Spent + 1
             /\ pc' = "probeDefault" => sent <= Spent + 2
             /\ pc' = "retry" => sent <= Spent + 3
      PROVE  BudgetInv'
  <2>1. sent \in Nat /\ sent' \in Nat /\ sent' <= sent + 1
    BY <1>3, SendCounts
  <2>2. Spent' = Spent /\ Spent \in {0, 4} /\ (op \notin {"bulk", "table"} => Spent = 0)
    BY <1>0, <1>3 DEF Spent, Second
  <2>3. RpcBudget'
    BY <1>0, <1>3, <2>1, <2>2 DEF RpcBudget, OwnRpcs, Probing
  <2>4. QED
    BY <1>3, <2>1, <2>2, <2>3 DEF BudgetInv, Probing
<1>4. ASSUME NEW c \in Catalog \cup {None}, Decide(c), Send, UNCHANGED knew, pc \in Probing
      PROVE  BudgetInv'
  <2>1. UNCHANGED catalog /\ resolved' # Undecided /\ ~knew
    BY <1>0, <1>4 DEF Decide, BudgetInv
  <2>2. sent <= Spent + 3
    <3>1. sent \in Nat /\ Spent \in Nat
      BY <1>4, SendCounts DEF Spent
    <3>2. QED
      BY <1>4, <3>1 DEF BudgetInv, Probing
  <2>3. CASE c # None /\ pc' = "retry" /\ catalogs' = {} /\ UNCHANGED <<op, include, reply>>
    BY <1>3, <1>4, <2>1, <2>2, <2>3
  <2>4. CASE c = None /\ Settle({})
    BY <1>2, <1>4, <2>1, <2>4
  <2>5. QED
    BY <1>4, <2>3, <2>4 DEF Decide
<1>5. CASE Ask
  <2>1. CASE Settle(Rows(MetadataCatalog))
    BY <1>2, <1>5, <2>1 DEF Ask, conn, Probing
  <2>2. CASE pc = "request" /\ CanFallBack /\ pc' = FirstProbe /\ UNCHANGED <<call, reply>>
    <3>1. ~knew
      BY <1>0, <2>2 DEF BudgetInv, CanFallBack
    <3>2. sent <= Spent /\ (op = "schemas" => Spent = 0)
      BY <1>0, <2>2 DEF BudgetInv, CanFallBack, Spent, Second
    <3>3. sent \in Nat /\ Spent \in Nat
      BY <1>5, SendCounts DEF Ask, Spent
    <3>4. QED
      BY <1>3, <1>5, <2>2, <3>1, <3>2, <3>3 DEF Ask, conn, call, FirstProbe, Probing
  <2>3. QED
    BY <1>5, <2>1, <2>2 DEF Ask
<1>6. CASE AskFails
  BY <1>1, <1>6 DEF AskFails, conn
<1>7. CASE AskKeys
  BY <1>1, <1>7 DEF AskKeys, conn
<1>8. CASE ProbeSchemas
  <2>1. CASE Decide(None)
    BY <1>4, <1>8, <2>1 DEF ProbeSchemas, Probing
  <2>2. CASE pc' = "probeCatalogs" /\ UNCHANGED <<conn, call, reply>>
    BY <1>3, <1>8, <2>2 DEF ProbeSchemas, BudgetInv, conn, call, Probing
  <2>3. QED
    BY <1>8, <2>1, <2>2 DEF ProbeSchemas
<1>9. CASE ProbeCatalogs
  <2>1. server.listed \subseteq Catalog
    BY ServersAssumption DEF ServersAssumption, TypeOK, ServerType
  <2>2. CASE \E c \in server.listed \cup {None} : Decide(c)
    BY <1>4, <1>9, <2>1, <2>2 DEF ProbeCatalogs, Probing
  <2>3. CASE pc' = "probeDefault" /\ UNCHANGED <<conn, op, include, reply>>
    BY <1>3, <1>9, <2>3 DEF ProbeCatalogs, BudgetInv, conn, Probing
  <2>4. QED
    BY <1>9, <2>2, <2>3 DEF ProbeCatalogs
<1>10. CASE ProbeDefault
  BY <1>4, <1>10, DefaultCatalogType DEF ProbeDefault, Probing
<1>11. CASE ProbeFailsTransiently
  BY <1>0, <1>2, <1>11 DEF ProbeFailsTransiently, BudgetInv, conn
<1>12. CASE ProbeFailsForGood
  BY <1>4, <1>12 DEF ProbeFailsForGood
<1>13. CASE ProbeRaises
  BY <1>1, <1>13 DEF ProbeRaises, Probing, conn
<1>14. CASE ServerChange
  BY <1>14 DEF ServerChange, BudgetInv, RpcBudget, Second, Spent
<1>15. CASE \E o \in Op : Begin(o)
  <2>1. /\ pc' \in {"request", "keys"} /\ sent' = 0 /\ ~Second'
        /\ include' => op' \in {"bulk", "table"}
        /\ knew' => catalog' # None \/ resolved' # Undecided
    BY <1>15 DEF Begin, conn, Second
  <2>2. Spent' = 0 /\ RpcBudget'
    BY <2>1 DEF Spent, RpcBudget, OwnRpcs
  <2>3. QED
    BY <2>1, <2>2 DEF BudgetInv, Probing
<1>16. CASE UNCHANGED vars
  BY <1>16 DEF vars, BudgetInv, RpcBudget, Second, Spent
<1>17. QED
  BY <1>5, <1>6, <1>7, <1>8, <1>9, <1>10, <1>11, <1>12, <1>13, <1>14, <1>15, <1>16 DEF Next, Step

\* No call sends more RPCs than its budget, whatever the server answers and
\* however its probes fail.
THEOREM BudgetKept == Spec => []RpcBudget
<1>1. Init => BudgetInv
  <2> SUFFICES ASSUME Init PROVE BudgetInv
    OBVIOUS
  <2>1. RpcBudget
    BY DEF Init, RpcBudget, OwnRpcs
  <2>2. QED
    BY <2>1 DEF Init, BudgetInv, Probing
<1>2. TypeOK /\ DiscoveryInv /\ BudgetInv /\ [Next]_vars => BudgetInv'
  BY BudgetStep
<1>3. BudgetInv => RpcBudget
  BY DEF BudgetInv
<1>4. QED
  BY <1>1, <1>2, <1>3, TypeCorrect, DiscoveryInvariant, PTL DEF Spec

-----------------------------------------------------------------------------
(* What discovery finds while nothing disturbs it *)

\* A disturbance is for ever: the step before an undisturbed state leaves one.
LEMMA StaysUndisturbed ==
  ASSUME TypeOK, [Next]_vars, Undisturbed'
  PROVE  Undisturbed /\ ~ServerChange /\ ~ProbeFailsTransiently
<1>1. changes \in Nat /\ transients \in Nat
  BY ConstantsAssumption DEF ConstantsAssumption, TypeOK
<1>2. ~ServerChange /\ ~ProbeFailsTransiently
  BY <1>1 DEF Undisturbed, ServerChange, ProbeFailsTransiently
<1>3. UNCHANGED <<changes, transients>>
  BY <1>2 DEF Next, Step, Ask, AskFails, AskKeys, ProbeSchemas, ProbeCatalogs, ProbeDefault,
              ProbeFailsForGood, ProbeRaises, Begin, env, vars
<1>4. QED
  BY <1>2, <1>3 DEF Undisturbed

\* Where a call looks and finds tables without looking for their schemas.
Tables(scope) == Holding(scope, {"exact", "alike"})

\* A names request that follows an empty answer with schemas looks where that
\* request looked, and discovery is over by then.
NamesInv ==
  /\ include => op \in {"bulk", "table"}
  /\ pc \in Probing => Rows(None) = {}
  /\ Second /\ pc # "idle" => /\ ~CanFallBack
                              /\ server.includes => Tables(MetadataCatalog) = {}
  /\ NamesOnlyTruthful

LEMMA SettleReply ==
  ASSUME NEW rows, Settle(rows), include \in BOOLEAN
  PROVE  \/ include /\ rows = {} /\ NamesRequest
         \/ /\ pc' = "idle" /\ UNCHANGED <<op, include>>
            /\ include => rows # {} /\ reply' = Answer(rows, TRUE)
            /\ ~include => reply' = Answer(IF op = "table" THEN {r \in rows : r[2] = "exact"}
                                           ELSE rows, FALSE)
<1>1. CASE include
  BY <1>1 DEF Settle, Return
<1>2. CASE ~include
  BY <1>2 DEF Settle, Return
<1>3. QED
  BY <1>1, <1>2

LEMMA DecideReply ==
  ASSUME NEW c, Decide(c)
  PROVE  /\ resolved' = c /\ catalog' = catalog
         /\ \/ c # None /\ pc' = "retry" /\ UNCHANGED <<op, include, reply>>
            \/ c = None /\ Settle({})
BY DEF Decide

\* What the primary request of a call may find, by the kind of call.
LEMMA RowsByCall ==
  ASSUME include \in BOOLEAN, include => op \in {"bulk", "table"}, NEW scope
  PROVE  /\ include /\ server.includes => Rows(scope) = Tables(scope)
         /\ include /\ ~server.includes => Rows(scope) = {}
         /\ ~include /\ op # "schemas" => Rows(scope) = Tables(scope)
         /\ op = "schemas" => Rows(scope) = Holding(scope, {"schema"})
BY DEF Rows, Tables

LEMMA NamesStep ==
  ASSUME Undisturbed', TypeOK, DiscoveryInv, NamesInv, [Next]_vars
  PROVE  NamesInv'
<1> USE ConstantsAssumption DEF ConstantsAssumption
<1>0. include \in BOOLEAN /\ op \in Op /\ pc \in PC /\ server.includes \in BOOLEAN
  BY ServersAssumption DEF TypeOK, ServersAssumption, ServerType
<1>1. ASSUME NEW r, Return(r), r.rows = {}, UNCHANGED server
      PROVE  NamesInv'
  BY <1>1 DEF Return, NamesInv, NamesOnlyTruthful, Probing
<1>2. ASSUME NEW rows, Settle(rows), UNCHANGED <<server, catalog>>, reply = NoReply,
             ~CanFallBack' \/ ~include \/ rows # {},
             include /\ rows # {} => server.includes,
             include /\ rows = {} /\ server.includes => Tables(MetadataCatalog)' = {},
             Second /\ server.includes => rows = {}
      PROVE  NamesInv'
  <2>1. CASE include /\ rows = {} /\ NamesRequest
    <3>1. pc' = "request" /\ ~include' /\ op' = op /\ reply' = NoReply
      BY <1>2, <2>1 DEF NamesRequest
    <3>2. ~CanFallBack' /\ (server'.includes => Tables(MetadataCatalog)' = {})
      BY <1>2, <2>1
    <3>3. QED
      BY <3>1, <3>2 DEF NamesInv, NamesOnlyTruthful, NoReply, Probing
  <2>2. CASE /\ pc' = "idle" /\ UNCHANGED <<op, include>>
             /\ include => rows # {} /\ reply' = Answer(rows, TRUE)
             /\ ~include => reply' = Answer(IF op = "table" THEN {r \in rows : r[2] = "exact"}
                                            ELSE rows, FALSE)
    <3>1. CASE include
      <4>1. server'.includes /\ reply'.described = TRUE
        BY <1>2, <2>2, <3>1 DEF Answer
      <4>2. QED
        BY <2>2, <4>1, <3>1 DEF NamesInv, NamesOnlyTruthful, Probing
    <3>2. CASE ~include
      <4>1. reply'.described = FALSE
        BY <2>2, <3>2 DEF Answer
      <4>2. Second /\ server.includes => reply'.rows = {}
        BY <1>2, <2>2, <3>2 DEF Answer
      <4>3. op \in {"bulk", "table"} => Second
        BY <3>2 DEF Second
      <4>4. NamesOnlyTruthful'
        BY <1>2, <2>2, <4>1, <4>2, <4>3 DEF NamesOnlyTruthful
      <4>5. QED
        BY <2>2, <4>4, <3>2 DEF NamesInv, Probing
    <3>3. QED
      BY <1>0, <3>1, <3>2
  <2>3. QED
    BY <1>0, <1>2, <2>1, <2>2, SettleReply
<1>3. ASSUME NEW c \in Catalog \cup {None}, Decide(c), pc \in Probing, UNCHANGED server
      PROVE  NamesInv'
  <2>1. catalog = None /\ resolved = Undecided /\ reply = NoReply /\ pc # "idle" /\ ~Second
    BY <1>3 DEF DiscoveryInv, Probing, NamesInv, CanFallBack
  <2>2. CASE c # None /\ pc' = "retry" /\ UNCHANGED <<op, include, reply>>
    <3>1. ~Second' /\ reply' = NoReply
      BY <2>1, <2>2 DEF Second
    <3>2. QED
      BY <2>2, <3>1 DEF NamesInv, NamesOnlyTruthful, NoReply, Probing
  <2>3. CASE c = None /\ Settle({})
    <3>1. resolved' = None /\ catalog' = None /\ MetadataCatalog' = None
      BY <1>3, <2>1, <2>3, DecideReply DEF MetadataCatalog
    <3>2. ~CanFallBack'
      BY <3>1 DEF CanFallBack
    <3>3. include /\ server.includes => Tables(None) = {}
      BY <1>0, <1>3, RowsByCall DEF NamesInv
    <3>4. Tables(MetadataCatalog)' = Tables(None)
      BY <1>3, <3>1 DEF Tables, Holding, Visible
    <3>5. QED
      BY <1>2, <1>3, <2>1, <2>3, <3>1, <3>2, <3>3, <3>4
  <2>4. QED
    BY <1>3, <2>2, <2>3, DecideReply
<1>4. CASE Ask
  <2>1. pc # "idle" /\ reply = NoReply /\ UNCHANGED <<server, conn, catalog, resolved>>
    BY <1>4 DEF Ask, DiscoveryInv, env, conn
  <2> DEFINE rows == Rows(MetadataCatalog)
  <2>2. CASE Settle(rows) /\ (rows # {} \/ pc = "retry" \/ ~CanFallBack)
    <3>1. pc = "retry" => ~CanFallBack
      BY DEF DiscoveryInv, CanFallBack
    <3>2. ~CanFallBack' \/ ~include \/ rows # {}
      BY <2>1, <2>2, <3>1 DEF CanFallBack
    <3>3. Tables(MetadataCatalog)' = Tables(MetadataCatalog)
      BY <2>1 DEF Tables, Holding, Visible, MetadataCatalog
    <3>4. /\ include /\ rows # {} => server.includes
          /\ include /\ rows = {} /\ server.includes => Tables(MetadataCatalog) = {}
      BY <1>0, RowsByCall DEF NamesInv
    <3>5. Second /\ server.includes => rows = {}
      BY <1>0, <2>1, RowsByCall DEF NamesInv, Second
    <3> HIDE DEF rows
    <3>6. QED
      BY <1>2, <2>1, <2>2, <3>2, <3>3, <3>4, <3>5
  <2>3. CASE rows = {} /\ CanFallBack /\ pc' = FirstProbe /\ UNCHANGED <<call, reply>>
    <3>1. MetadataCatalog = None /\ ~Second
      BY <2>1, <2>3 DEF CanFallBack, MetadataCatalog, NamesInv
    <3>2. Rows(None)' = Rows(None) /\ ~Second'
      BY <2>1, <2>3, <3>1 DEF Rows, Holding, Visible, call, Second
    <3>3. QED
      BY <2>1, <2>3, <3>1, <3>2 DEF NamesInv, NamesOnlyTruthful, NoReply, call
  <2>4. QED
    BY <1>4, <2>2, <2>3 DEF Ask
<1>5. CASE AskFails
  BY <1>1, <1>5 DEF AskFails, Raised, env
<1>6. CASE AskKeys
  BY <1>1, <1>6 DEF AskKeys, Answer, env
<1>7. ASSUME UNCHANGED <<server, conn, op, include, reply>>, pc \in Probing
      PROVE  NamesInv'
  <2>1. ~Second' /\ reply' = NoReply
    BY <1>7 DEF NamesInv, Second, DiscoveryInv, CanFallBack, Probing, conn
  <2>2. Rows(None)' = Rows(None)
    BY <1>7 DEF Rows, Holding, Visible
  <2>3. QED
    BY <1>7, <2>1, <2>2 DEF NamesInv, NamesOnlyTruthful, NoReply
<1>8. CASE ProbeSchemas
  BY <1>3, <1>7, <1>8 DEF ProbeSchemas, env, call, Probing
<1>9. CASE ProbeCatalogs
  <2>1. server.listed \subseteq Catalog
    BY ServersAssumption DEF ServersAssumption, TypeOK, ServerType
  <2>2. QED
    BY <1>3, <1>7, <1>9, <2>1 DEF ProbeCatalogs, env, Probing
<1>10. CASE ProbeDefault
  BY <1>3, <1>10, DefaultCatalogType DEF ProbeDefault, env, Probing
<1>11. ~ProbeFailsTransiently /\ ~ServerChange
  BY StaysUndisturbed
<1>12. CASE ProbeFailsForGood
  BY <1>3, <1>12 DEF ProbeFailsForGood, env
<1>13. CASE ProbeRaises
  BY <1>1, <1>13 DEF ProbeRaises, Raised, env
<1>14. CASE \E o \in Op : Begin(o)
  <2>1. /\ pc' \in {"request", "keys"} /\ reply' = NoReply /\ ~Second'
        /\ include' => op' \in {"bulk", "table"}
    BY <1>14 DEF Begin, Second
  <2>2. QED
    BY <2>1 DEF NamesInv, NamesOnlyTruthful, NoReply, Probing
<1>15. CASE UNCHANGED vars
  BY <1>15 DEF vars, NamesInv, NamesOnlyTruthful, Second, Rows, Tables, Holding, Visible, MetadataCatalog, CanFallBack
<1>16. QED
  BY <1>4, <1>5, <1>6, <1>8, <1>9, <1>10, <1>11, <1>12, <1>13, <1>14, <1>15 DEF Next, Step

\* As long as the server is as it was and no probe has failed transiently, a
\* table is reported without its schema only by a server that does not answer the
\* requests that ask for schemas.
THEOREM NamesOnlyWhenTrue == Spec => []NamesTruthfulUndisturbed
<1>1. Init => NamesInv
  BY DEF Init, NamesInv, NamesOnlyTruthful, NoReply, Second, Probing
<1>2. /\ TypeOK /\ DiscoveryInv /\ (Undisturbed => NamesInv) /\ [Next]_vars
      => (Undisturbed => NamesInv)'
  BY NamesStep, StaysUndisturbed
<1>3. (Undisturbed => NamesInv) => NamesTruthfulUndisturbed
  BY DEF NamesInv, NamesTruthfulUndisturbed
<1>4. QED
  BY <1>1, <1>2, <1>3, TypeCorrect, DiscoveryInvariant, PTL DEF Spec

-----------------------------------------------------------------------------
(* A server that answers unscoped requests *)

HasSchema == \E c \in Catalog : "schema" \in server.holds[c]

\* Such a server, if it has a schema, is not even asked for its catalogs.
CompliantInv ==
  changes = 0 /\ "unimplemented" \notin server.fails /\ ~server.scopedOnly /\ HasSchema
    => resolved \notin Catalog /\ pc \notin {"probeCatalogs", "probeDefault"}

LEMMA NoChange ==
  ASSUME TypeOK, [Next]_vars, changes' = 0
  PROVE  changes = 0 /\ ~ServerChange
<1>1. changes \in Nat
  BY ConstantsAssumption DEF ConstantsAssumption, TypeOK
<1>2. ~ServerChange
  BY <1>1 DEF ServerChange
<1>3. UNCHANGED changes
  BY <1>2 DEF Next, Step, Ask, AskFails, AskKeys, ProbeSchemas, ProbeCatalogs, ProbeDefault,
              ProbeFailsTransiently, ProbeFailsForGood, ProbeRaises, Begin, env, vars
<1>4. QED
  BY <1>2, <1>3

LEMMA SchemasFound ==
  ASSUME ~server.scopedOnly, HasSchema
  PROVE  Holding(None, {"schema"}) # {}
<1>1. PICK c \in Catalog : "schema" \in server.holds[c]
  BY DEF HasSchema
<1>2. <<c, "schema">> \in Holding(None, {"schema"})
  BY <1>1 DEF Holding, Visible, Object
<1>3. QED
  BY <1>2

LEMMA CompliantStep ==
  ASSUME TypeOK, DiscoveryInv, CompliantInv, [Next]_vars
  PROVE  CompliantInv'
<1> USE ConstantsAssumption DEF ConstantsAssumption
<1> SUFFICES ASSUME changes' = 0, "unimplemented" \notin server'.fails,
                    ~server'.scopedOnly, HasSchema'
             PROVE  resolved' \notin Catalog /\ pc' \notin {"probeCatalogs", "probeDefault"}
  BY DEF CompliantInv
<1>1. changes = 0 /\ ~ServerChange
  BY NoChange
<1>2. UNCHANGED server
  BY <1>1 DEF Next, Step, Ask, AskFails, AskKeys, ProbeSchemas, ProbeCatalogs, ProbeDefault,
              ProbeFailsTransiently, ProbeFailsForGood, ProbeRaises, Begin, env, vars
<1>3. /\ ~server.scopedOnly /\ HasSchema
      /\ resolved \notin Catalog /\ pc \notin {"probeCatalogs", "probeDefault"}
      /\ "unimplemented" \notin server.fails
  BY <1>1, <1>2 DEF CompliantInv, HasSchema
<1>4. ASSUME NEW rows, Settle(rows), UNCHANGED resolved \/ resolved' = None
      PROVE  resolved' \notin Catalog /\ pc' \notin {"probeCatalogs", "probeDefault"}
  BY <1>3, <1>4, SettleControl
<1>5. ASSUME Decide(None)
      PROVE  resolved' \notin Catalog /\ pc' \notin {"probeCatalogs", "probeDefault"}
  BY <1>4, <1>5, DecideReply
<1>6. CASE Ask
  <2>1. CASE Settle(Rows(MetadataCatalog))
    BY <1>4, <1>6, <2>1 DEF Ask, conn
  <2>2. CASE Rows(MetadataCatalog) = {} /\ CanFallBack /\ pc' = FirstProbe
    <3>1. MetadataCatalog = None
      BY <2>2 DEF CanFallBack, MetadataCatalog
    <3>2. op # "schemas"
      BY <1>3, <2>2, <3>1, SchemasFound DEF Rows
    <3>3. QED
      BY <1>3, <1>6, <2>2, <3>2 DEF Ask, conn, FirstProbe
  <2>3. QED
    BY <1>6, <2>1, <2>2 DEF Ask
<1>7. CASE ProbeSchemas
  BY <1>3, <1>5, <1>7, SchemasFound DEF ProbeSchemas
<1>8. CASE ProbeFailsTransiently
  BY <1>4, <1>8 DEF ProbeFailsTransiently, conn
<1>9. CASE ProbeFailsForGood
  BY <1>5, <1>9 DEF ProbeFailsForGood
<1>10. CASE AskFails \/ AskKeys \/ ProbeRaises
  BY <1>3, <1>10 DEF AskFails, AskKeys, ProbeRaises, Return, conn
<1>11. CASE \E o \in Op : Begin(o)
  BY <1>3, <1>11 DEF Begin, conn
<1>12. CASE UNCHANGED vars
  BY <1>3, <1>12 DEF vars
<1>13. ~ProbeCatalogs /\ ~ProbeDefault
  BY <1>3 DEF ProbeCatalogs, ProbeDefault
<1>14. QED
  BY <1>1, <1>6, <1>7, <1>8, <1>9, <1>10, <1>11, <1>12, <1>13 DEF Next, Step

\* As long as it does not change, a server that implements GetDbSchemas, answers
\* unscoped requests and has a schema is never scoped to one of its catalogs,
\* whatever else fails.
THEOREM CompliantNeverScoped == Spec => []NeverScopesCompliant
<1>1. Init => CompliantInv
  BY ConstantsAssumption DEF ConstantsAssumption, Init, CompliantInv
<1>2. TypeOK /\ DiscoveryInv /\ CompliantInv /\ [Next]_vars => CompliantInv'
  BY CompliantStep
<1>3. CompliantInv => NeverScopesCompliant
  BY DEF CompliantInv, NeverScopesCompliant, HasSchema
<1>4. QED
  BY <1>1, <1>2, <1>3, TypeCorrect, DiscoveryInvariant, PTL DEF Spec

-----------------------------------------------------------------------------
(* Complete answers *)

\* The rows a call ought to answer with, names that only match included.
Found == {r \in Sought \X (IF op = "schemas" THEN {"schema"} ELSE {"exact", "alike"}) :
            r[2] \in server.holds[r[1]]}

\* On a server without failures or changes: discovery has passed the schemas
\* of a server that answers unscoped requests only if there are none, it
\* compares the reported default with all the catalogs listed, and the scope
\* it has decided is where a call ought to look.
AnswerInv ==
  server.fails = {} =>
    /\ pc = "keys" => op = "keys"
    /\ pc \notin {"keys", "idle"} => op # "keys"
    /\ pc = "probeDefault" => /\ catalogs = server.listed
                              /\ \E c, d \in server.listed : c # d
    /\ ~server.scopedOnly /\ HasSchema
         => resolved \notin Catalog /\ pc \notin {"probeCatalogs", "probeDefault"}
    /\ server.scopedOnly /\ catalog = None
         => /\ resolved \in Catalog => Sought = {resolved}
            /\ resolved = None => Sought = {}
    /\ AnswersComplete

LEMMA SoughtIs ==
  /\ catalog # None => Sought = {catalog}
  /\ catalog = None /\ ~server.scopedOnly => Sought = Catalog
  /\ catalog = None /\ server.scopedOnly
       => Sought = {c \in server.listed : \/ server.listed = {c}
                                          \/ server.reports /\ server.default = c}
BY DEF Sought

\* What discovery decides at each of its ends is where a call ought to look.
LEMMA SoughtByProbe ==
  ASSUME TypeOK, catalog = None, server.scopedOnly
  PROVE  /\ \A c \in server.listed : server.listed = {c} => Sought = {c}
         /\ server.listed = {} => Sought = {}
         /\ catalogs = server.listed /\ (\E c, d \in server.listed : c # d)
              => LET c == DefaultCatalog(IF server.reports THEN {server.default} ELSE {})
                 IN  Sought = IF c = None THEN {} ELSE {c}
<1> USE ConstantsAssumption, SoughtIs DEF ConstantsAssumption
<1>1. server.listed \subseteq Catalog /\ server.default \in Catalog /\ server.reports \in BOOLEAN
  BY ServersAssumption DEF ServersAssumption, ServerType, TypeOK
<1>2. \A c \in server.listed : server.listed = {c} => Sought = {c}
  OBVIOUS
<1>3. server.listed = {} => Sought = {}
  OBVIOUS
<1>4. ASSUME catalogs = server.listed, NEW c \in server.listed, NEW d \in server.listed, c # d
      PROVE  LET g == DefaultCatalog(IF server.reports THEN {server.default} ELSE {})
             IN  Sought = IF g = None THEN {} ELSE {g}
  <2> DEFINE values == IF server.reports THEN {server.default} ELSE {}
             g == DefaultCatalog(values)
  <2>1. Sought = {e \in server.listed : server.reports /\ server.default = e}
    BY <1>4
  <2>2. CASE server.reports /\ server.default \in server.listed
    <3>1. values = {server.default}
      BY <2>2
    <3>2. g = server.default
      BY <1>4, <2>2, <3>1 DEF DefaultCatalog
    <3>3. g # None
      BY <1>1, <3>2
    <3>4. Sought = {server.default}
      BY <2>1, <2>2
    <3>5. QED
      BY <3>2, <3>3, <3>4
  <2>3. CASE ~(server.reports /\ server.default \in server.listed)
    <3>1. g = None
      BY <1>4, <2>3 DEF DefaultCatalog
    <3>2. Sought = {}
      BY <2>1, <2>3
    <3>3. QED
      BY <3>1, <3>2
  <2>4. QED
    BY <2>2, <2>3
<1>5. QED
  BY <1>2, <1>3, <1>4

\* A scope that is where a call ought to look finds what it ought to find.
LEMMA HoldingFound ==
  ASSUME TypeOK, NEW scope, Visible(scope) = Sought
  PROVE  Holding(scope, IF op = "schemas" THEN {"schema"} ELSE {"exact", "alike"}) = Found
<1>1. Sought \subseteq Catalog
  <2>1. server.listed \subseteq Catalog /\ catalog \in Catalog \cup {None}
    BY ServersAssumption DEF ServersAssumption, ServerType, TypeOK
  <2>2. QED
    BY <2>1, SoughtIs
<1>2. QED
  BY <1>1 DEF Holding, Found, Object

\* A call that settles with what it ought to find answers completely.
LEMMA SettleComplete ==
  ASSUME NEW rows, Settle(rows), UNCHANGED <<server, catalog>>,
         include \in BOOLEAN, server.includes \in BOOLEAN, reply = NoReply,
         include /\ rows # {} => server.includes,
         ~include \/ rows # {} => rows = Found,
         op = "table" /\ ~include /\ server.includes => rows = {}
  PROVE  AnswersComplete'
<1>1. Sought' = Sought
  BY DEF Sought
<1>2. CASE include /\ rows = {} /\ NamesRequest
  BY <1>2 DEF NamesRequest, AnswersComplete, NoReply
<1>3. CASE /\ pc' = "idle" /\ UNCHANGED <<op, include>>
           /\ include => rows # {} /\ reply' = Answer(rows, TRUE)
           /\ ~include => reply' = Answer(IF op = "table" THEN {r \in rows : r[2] = "exact"}
                                          ELSE rows, FALSE)
  <2>1. rows = Found
    BY <1>3
  <2>2. CASE op = "schemas" \/ op # "table" \/ include
    <3>1. reply'.rows = Found /\ (op = "table" => server.includes)
      BY <1>3, <2>1, <2>2 DEF Answer
    <3>2. QED
      BY <1>1, <1>3, <3>1 DEF AnswersComplete, Found
  <2>3. CASE op = "table" /\ ~include
    <3>1. reply'.rows = {r \in Found : r[2] = "exact"}
      BY <1>3, <2>1, <2>3 DEF Answer
    <3>2. CASE server.includes
      <4>1. Found = {} /\ reply'.rows = {}
        BY <2>1, <2>3, <3>1, <3>2
      <4>2. {r \in Sought \X {"exact", "alike"} : r[2] \in server.holds[r[1]]} = {}
        BY <4>1, <2>3 DEF Found
      <4>3. QED
        BY <1>1, <1>3, <2>3, <3>2, <4>1, <4>2 DEF AnswersComplete
    <3>3. CASE ~server.includes
      <4>1. {r \in Found : r[2] = "exact"}
              = {r \in Sought \X {"exact"} : r[2] \in server.holds[r[1]]}
        BY <2>3 DEF Found
      <4>2. QED
        BY <1>1, <1>3, <2>3, <3>1, <3>3, <4>1 DEF AnswersComplete
    <3>4. QED
      BY <3>2, <3>3
  <2>4. QED
    BY <2>2, <2>3
<1>4. QED
  BY <1>2, <1>3, SettleReply
\* The tables a server holds are in its schemas.
TablesInSchemas == \A s \in Servers, c \in Catalog : s.holds[c] # {} => "schema" \in s.holds[c]

LEMMA AnswerStep ==
  ASSUME Undisturbed', TablesInSchemas,
         TypeOK, DiscoveryInv, NamesInv, AnswerInv, [Next]_vars
  PROVE  AnswerInv'
<1> USE ConstantsAssumption DEF ConstantsAssumption
<1>1. ~ServerChange
  BY StaysUndisturbed
<1>2. UNCHANGED <<server, catalog>>
  BY <1>1 DEF Next, Step, Ask, AskFails, AskKeys, ProbeSchemas, ProbeCatalogs, ProbeDefault,
              ProbeFailsTransiently, ProbeFailsForGood, ProbeRaises, Decide, Begin, env, conn, vars
<1> SUFFICES ASSUME server.fails = {} PROVE AnswerInv'
  BY <1>2 DEF AnswerInv
<1>3. /\ server.includes \in BOOLEAN /\ include \in BOOLEAN /\ op \in Op
      /\ server.listed \subseteq Catalog
      /\ server.scopedOnly \in BOOLEAN
      /\ server.holds \in [Catalog -> SUBSET Object]
  BY ServersAssumption DEF ServersAssumption, ServerType, TypeOK
<1>4. Sought' = Sought /\ HasSchema' = HasSchema
  BY <1>2 DEF Sought, HasSchema
<1> DEFINE Decided(c) ==
      /\ ~server.scopedOnly /\ HasSchema => c \notin Catalog
      /\ server.scopedOnly /\ catalog = None
           => /\ c \in Catalog => Sought = {c}
              /\ c = None => Sought = {}
<1>5. Decided(resolved)
  BY DEF AnswerInv
<1>6. ASSUME ~HasSchema
      PROVE  \A c \in Catalog : server.holds[c] = {}
  BY <1>6 DEF HasSchema, TablesInSchemas, TypeOK
<1>7. ASSUME Decided(resolved'), AnswersComplete',
             pc' \in {"idle", "request", "retry"}, pc' # "idle" => op' # "keys"
      PROVE  AnswerInv'
  BY <1>2, <1>4, <1>7 DEF AnswerInv
<1>8. ASSUME NEW r, Return(r), r.status # "answered" \/ op = "keys", UNCHANGED resolved
      PROVE  AnswerInv'
  <2>1. AnswersComplete' /\ pc' = "idle"
    BY <1>8 DEF Return, AnswersComplete
  <2>2. QED
    BY <1>5, <1>7, <1>8, <2>1
\* A decision for the scope where the call ought to look.
<1>9. ASSUME NEW c \in Catalog \cup {None}, Decide(c), pc \in Probing, Decided(c)
      PROVE  AnswerInv'
  <2>1. catalog = None /\ resolved = Undecided /\ reply = NoReply /\ op # "keys" /\ resolved' = c
    BY <1>9, DecideReply DEF DiscoveryInv, Probing, AnswerInv
  <2>2. CASE c # None /\ pc' = "retry" /\ UNCHANGED <<op, include, reply>>
    <3>1. AnswersComplete'
      BY <2>1, <2>2 DEF AnswersComplete, NoReply
    <3>2. QED
      BY <1>7, <1>9, <2>1, <2>2, <3>1
  <2>3. CASE c = None /\ Settle({})
    <3>1. ~include => Found = {}
      <4>1. CASE server.scopedOnly
        <5>1. Sought = {}
          BY <1>9, <2>1, <2>3, <4>1
        <5>2. QED
          BY <5>1 DEF Found
      <4>2. CASE ~server.scopedOnly
        <5>1. Visible(None) = Sought
          BY <2>1, <4>2, SoughtIs DEF Visible
        <5>2. Holding(None, IF op = "schemas" THEN {"schema"} ELSE {"exact", "alike"}) = Found
          BY <5>1, HoldingFound
        <5>3. Rows(None) = {}
          BY <1>9 DEF NamesInv
        <5>4. QED
          BY <1>3, <5>2, <5>3 DEF Rows
      <4>3. QED
        BY <1>3, <4>1, <4>2
    <3>2. AnswersComplete'
      BY <1>2, <1>3, <2>1, <2>3, <3>1, SettleComplete
    <3>3. pc' \in {"idle", "request"} /\ op' = op
      BY <2>3, SettleControl
    <3>4. QED
      BY <1>7, <1>9, <2>1, <2>3, <3>2, <3>3
  <2>4. QED
    BY <1>9, <2>2, <2>3, DecideReply
\* Discovery goes on.
<1>10. ASSUME pc' \in Probing, op' # "keys", UNCHANGED <<resolved, reply>>, reply = NoReply,
              pc' \in {"probeCatalogs", "probeDefault"} => server.scopedOnly \/ ~HasSchema,
              pc' = "probeDefault" => /\ catalogs' = server.listed
                                      /\ \E c, d \in server.listed : c # d
       PROVE  AnswerInv'
  <2>1. AnswersComplete'
    BY <1>10 DEF AnswersComplete, NoReply
  <2>2. QED
    BY <1>2, <1>4, <1>5, <1>10, <2>1 DEF AnswerInv, Probing
<1> HIDE DEF Decided
<1>11. CASE Ask
  <2>1. /\ pc # "idle" /\ reply = NoReply /\ UNCHANGED resolved /\ op # "keys"
        /\ pc \in {"request", "retry"}
    BY <1>11 DEF Ask, DiscoveryInv, conn, AnswerInv
  <2> DEFINE W == IF op = "schemas" THEN {"schema"} ELSE {"exact", "alike"}
             rows == Rows(MetadataCatalog)
  <2>2. /\ include /\ rows # {} => server.includes
        /\ ~include \/ rows # {} => rows = Holding(MetadataCatalog, W)
    BY <1>3, RowsByCall DEF NamesInv, Tables, Op
  <2>3. CASE Settle(rows) /\ (rows # {} \/ pc = "retry" \/ ~CanFallBack)
    <3>1. pc = "retry" => ~CanFallBack
      BY DEF DiscoveryInv, CanFallBack
    <3>2. catalog \in Catalog \cup {None} /\ resolved \in Catalog \cup {None, Undecided}
      BY DEF TypeOK
    <3>3. Visible(MetadataCatalog) = Sought \/ ~HasSchema \/ (rows = {} /\ CanFallBack)
      <4>1. CASE catalog # None
        BY <4>1, SoughtIs DEF Visible, MetadataCatalog
      <4>2. CASE catalog = None /\ ~server.scopedOnly
        BY <1>5, <3>2, <4>2, SoughtIs DEF Decided, Visible, MetadataCatalog
      <4>3. CASE catalog = None /\ server.scopedOnly
        <5>1. CASE resolved = Undecided
          <6>1. Visible(MetadataCatalog) = {}
            BY <4>3, <5>1 DEF Visible, MetadataCatalog
          <6>2. rows = {}
            BY <6>1 DEF Rows, Holding
          <6>3. QED
            BY <4>3, <5>1, <6>2 DEF CanFallBack
        <5>2. CASE resolved \in Catalog
          BY <1>5, <4>3, <5>2 DEF Decided, Visible, MetadataCatalog
        <5>3. CASE resolved = None
          BY <1>5, <4>3, <5>3 DEF Decided, Visible, MetadataCatalog
        <5>4. QED
          BY <3>2, <5>1, <5>2, <5>3
      <4>4. QED
        BY <1>3, <4>1, <4>2, <4>3
    <3>4. ~include \/ rows # {} => rows = Found
      <4>1. CASE Visible(MetadataCatalog) = Sought
        BY <2>2, <4>1, HoldingFound
      <4>2. CASE ~HasSchema
        <5>1. \A c \in Catalog : server.holds[c] = {}
          BY <1>6, <4>2
        <5>2. Sought \subseteq Catalog
          BY <1>3, <3>2, SoughtIs
        <5>3. Found = {} /\ Holding(MetadataCatalog, W) = {}
          BY <5>1, <5>2 DEF Found, Holding
        <5>4. QED
          BY <2>2, <5>3
      <4>3. CASE rows = {} /\ CanFallBack
        BY <2>3, <3>1, <4>3
      <4>4. QED
        BY <3>3, <4>1, <4>2, <4>3
    <3>5. op = "table" /\ ~include /\ server.includes => rows = {}
      BY <1>3, <2>1, RowsByCall DEF NamesInv, Second
    <3> HIDE DEF rows
    <3>6. AnswersComplete'
      BY <1>2, <1>3, <2>1, <2>2, <2>3, <3>4, <3>5, SettleComplete
    <3>7. pc' \in {"idle", "request"} /\ op' = op
      BY <2>3, SettleControl
    <3>8. QED
      BY <1>5, <1>7, <2>1, <3>6, <3>7
  <2>4. CASE rows = {} /\ CanFallBack /\ pc' = FirstProbe /\ UNCHANGED <<call, reply>>
    <3>1. MetadataCatalog = None
      BY <2>4 DEF CanFallBack, MetadataCatalog
    <3>2. pc' = "probeCatalogs" => server.scopedOnly \/ ~HasSchema
      BY <2>4, <3>1, SchemasFound DEF Rows, FirstProbe
    <3>3. QED
      BY <1>10, <2>1, <2>4, <3>2 DEF call, FirstProbe, Probing
  <2>5. QED
    BY <1>11, <2>3, <2>4 DEF Ask
<1>12. CASE AskFails
  BY <1>8, <1>12 DEF AskFails, Raised, conn
<1>13. CASE AskKeys
  BY <1>8, <1>13 DEF AskKeys, AnswerInv, conn
<1>14. ASSUME pc \in Probing
       PROVE  /\ catalog = None /\ resolved = Undecided /\ reply = NoReply /\ op # "keys"
              /\ pc \in {"probeCatalogs", "probeDefault"} => server.scopedOnly \/ ~HasSchema
  BY <1>14 DEF DiscoveryInv, Probing, AnswerInv
<1>15. CASE ProbeSchemas
  <2>1. CASE Holding(None, {"schema"}) # {} /\ Decide(None)
    <3>1. ~server.scopedOnly
      BY <2>1 DEF Holding, Visible
    <3>2. QED
      BY <1>9, <1>15, <2>1, <3>1 DEF Decided, ProbeSchemas, Probing
  <2>2. CASE Holding(None, {"schema"}) = {} /\ pc' = "probeCatalogs" /\ UNCHANGED <<conn, call, reply>>
    BY <1>10, <1>14, <1>15, <2>2, SchemasFound DEF ProbeSchemas, Probing, conn, call
  <2>3. QED
    BY <1>15, <2>1, <2>2 DEF ProbeSchemas
<1>16. CASE ProbeCatalogs
  <2>1. /\ catalog = None /\ op # "keys" /\ (server.scopedOnly \/ ~HasSchema)
        /\ reply = NoReply
    BY <1>14, <1>16 DEF ProbeCatalogs, Probing
  <2>2. ASSUME NEW c \in server.listed, server.listed = {c}, Decide(c)
        PROVE  AnswerInv'
    <3>1. Decided(c)
      BY <1>3, <2>1, <2>2, SoughtByProbe DEF Decided
    <3>2. QED
      BY <1>3, <1>9, <1>16, <2>2, <3>1 DEF ProbeCatalogs, Probing
  <2>3. CASE server.listed = {} /\ Decide(None)
    <3>1. Decided(None)
      BY <1>3, <2>1, <2>3, SoughtByProbe DEF Decided
    <3>2. QED
      BY <1>9, <1>16, <2>3, <3>1 DEF ProbeCatalogs, Probing
  <2>4. CASE /\ \E c, d \in server.listed : c # d
             /\ pc' = "probeDefault" /\ catalogs' = server.listed
             /\ UNCHANGED <<conn, op, include, reply>>
    BY <1>10, <2>1, <2>4 DEF Probing, conn
  <2>5. QED
    BY <1>16, <2>2, <2>3, <2>4 DEF ProbeCatalogs
<1>17. CASE ProbeDefault
  <2> DEFINE c == DefaultCatalog(IF server.reports THEN {server.default} ELSE {})
  <2>1. /\ catalog = None /\ (server.scopedOnly \/ ~HasSchema)
        /\ catalogs = server.listed /\ \E d, e \in server.listed : d # e
    BY <1>14, <1>17 DEF ProbeDefault, Probing, AnswerInv
  <2>2. c \in Catalog \cup {None}
    BY DefaultCatalogType
  <2>3. server.scopedOnly => Sought = IF c = None THEN {} ELSE {c}
    BY <2>1, SoughtByProbe
  <2>4. Decide(c) /\ pc \in Probing
    BY <1>17 DEF ProbeDefault, Probing
  <2> HIDE DEF c
  <2>5. Decided(c)
    BY <1>3, <2>1, <2>2, <2>3 DEF Decided
  <2>6. QED
    BY <1>9, <2>2, <2>4, <2>5
<1>18. ~ProbeFailsTransiently /\ ~ProbeFailsForGood /\ ~ProbeRaises
  BY DEF ProbeFailsTransiently, ProbeFailsForGood, ProbeRaises
<1>19. CASE \E o \in Op : Begin(o)
  <2>1. /\ pc' \in {"request", "keys"} /\ reply' = NoReply /\ UNCHANGED resolved
        /\ (pc' = "keys") <=> (op' = "keys")
    BY <1>19 DEF Begin, conn
  <2>2. AnswersComplete'
    BY <2>1 DEF AnswersComplete, NoReply
  <2>3. QED
    BY <1>2, <1>4, <1>5, <2>1, <2>2 DEF AnswerInv, Decided
<1>20. CASE UNCHANGED vars
  <2>1. Undisturbed /\ AnswersComplete
    BY StaysUndisturbed DEF AnswerInv
  <2>2. AnswersComplete'
    BY <1>2, <1>4, <1>20, <2>1 DEF vars, AnswersComplete
  <2>3. QED
    BY <1>2, <1>4, <1>20, <2>2 DEF vars, AnswerInv
<1>21. QED
  BY <1>1, <1>11, <1>12, <1>13, <1>15, <1>16, <1>17, <1>18, <1>19, <1>20 DEF Next, Step

\* As long as a server has neither changed nor failed, a call answers with exactly the
\* rows of the catalogs where it ought to look: discovery hides none, adds none.
THEOREM CompleteAnswers ==
  ASSUME TablesInSchemas
  PROVE  Spec => []AnswersComplete
<1>1. Init => NamesInv
  BY DEF Init, NamesInv, NamesOnlyTruthful, NoReply, Second, Probing
<1>2. Init => AnswerInv
  BY ConstantsAssumption DEF ConstantsAssumption, Init, AnswerInv, AnswersComplete, NoReply
<1> DEFINE Inv == Undisturbed => NamesInv /\ AnswerInv
<1>3. TypeOK /\ DiscoveryInv /\ Inv /\ [Next]_vars => Inv'
  BY NamesStep, AnswerStep, StaysUndisturbed
<1>4. Inv => AnswersComplete
  BY DEF AnswerInv, AnswersComplete
<1> HIDE DEF Inv
<1>5. Init => Inv
  BY <1>1, <1>2 DEF Inv
<1>6. QED
  BY <1>3, <1>4, <1>5, TypeCorrect, DiscoveryInvariant, PTL DEF Spec
=============================================================================
