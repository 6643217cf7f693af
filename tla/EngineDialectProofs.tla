------------------------- MODULE EngineDialectProofs -------------------------
(***************************************************************************)
(* Theorems about EngineDialect, for any number of threads, schemas and    *)
(* servers.                                                                *)
(***************************************************************************)
EXTENDS EngineDialect, FiniteSetTheorems, FunctionTheorems, TLAPS

LEMMA AnySchemaType == AnySchema \in Schema
BY ConstantsAssumption DEF ConstantsAssumption, AnySchema

LEMMA TypeInit == ASSUME Init PROVE TypeOK
<1>1. MaxChanges \in Nat /\ MaxWaits \in Nat /\ MaxReflects \in Nat /\ DefaultQuote \in Quote
  BY ConstantsAssumption DEF ConstantsAssumption
<1>2. /\ [s \in Schema |-> 0] \in [Schema -> Nat]
      /\ [t \in Thread |-> 0] \in [Thread -> 0..MaxReflects]
      /\ [t \in Thread |-> AnySchema] \in [Thread -> Schema]
      /\ [t \in Thread |-> NoSet] \in [Thread -> Thread \cup {NoSet}]
      /\ [t \in Thread |-> {}] \in [Thread -> SUBSET Schema]
      /\ 0 \in 0..MaxChanges /\ 0 \in 0..MaxWaits
  BY <1>1, AnySchemaType
<1>3. pc \in [Thread -> PC]
  BY DEF Init, PC
<1>4. QED
  BY <1>1, <1>2, <1>3 DEF Init, TypeOK

\* What SqlInfo writes has its type.
LEMMA ProfileType ==
  ASSUME TypeOK, NEW t \in Thread, SqlInfo(t)
  PROVE  /\ quote' \in Quote /\ writable' \in BOOLEAN
         /\ compiler' \in {"prepared", "literal"} /\ told' \in Quote \cup {NoQuote}
<1>1. server \in ServerType /\ DefaultQuote \in Quote
  BY ConstantsAssumption DEF ConstantsAssumption, TypeOK
<1>2. server.quote \in Quote \cup {NoQuote}
  BY <1>1 DEF ServerType
<1>3. quote' \in Quote /\ told' \in Quote \cup {NoQuote}
  BY <1>1, <1>2 DEF SqlInfo, QuoteOf
<1>4. writable' \in BOOLEAN /\ compiler' \in {"prepared", "literal"}
  BY DEF SqlInfo, TypeOK
<1>5. QED
  BY <1>3, <1>4

LEMMA TypeStep == ASSUME TypeOK, LatchInv, [Next]_vars PROVE TypeOK'
<1> USE DEF TypeOK, PC, Goto
<1>1. CASE ServerChange
  BY <1>1, ConstantsAssumption DEF ServerChange, url, profile, warning, ConstantsAssumption
<1>2. ASSUME NEW t \in Thread, Connect(t) PROVE TypeOK'
  BY <1>2, ConstantsAssumption DEF ConstantsAssumption, Connect, env, url, profile, warning
<1>3. ASSUME NEW t \in Thread, Enter(t) PROVE TypeOK'
  BY <1>3 DEF Enter, env, url, profile, warning
<1>4. ASSUME NEW t \in Thread, SqlInfo(t) PROVE TypeOK'
  <2>1. /\ quote' \in Quote /\ writable' \in BOOLEAN
        /\ compiler' \in {"prepared", "literal"} /\ told' \in Quote \cup {NoQuote}
    BY <1>4, ProfileType
  <2>2. /\ initialised' \in BOOLEAN /\ mutex' \in Thread \cup {Nobody}
        /\ conn' \subseteq Thread /\ pc' \in [Thread -> PC]
    BY <1>4 DEF SqlInfo, Finish
  <2>3. QED
    BY <1>4, <2>1, <2>2 DEF SqlInfo, env, url, warning
<1>5. ASSUME NEW t \in Thread, CheckCatalog(t) PROVE TypeOK'
  <2>1. matched' \in Catalog \cup {None}
    BY <1>5 DEF CheckCatalog, Accepts
  <2>2. QED
    BY <1>5, <2>1 DEF CheckCatalog, Finish, Abandon, env, url, profile, warning
<1>6. ASSUME NEW t \in Thread, InitializeFails(t) PROVE TypeOK'
  BY <1>6 DEF InitializeFails, Abandon, env, url, profile, warning
<1>7. ASSUME NEW t \in Thread, Disconnect(t) PROVE TypeOK'
  BY <1>7 DEF Disconnect, env, url, profile, warning
<1>8. ASSUME NEW t \in Thread, NEW s \in Schema, Degraded(t, s) PROVE TypeOK'
  <2>1. reflects[t] + 1 \in 0..MaxReflects
    BY <1>8, ConstantsAssumption DEF Degraded, ConstantsAssumption
  <2>2. QED
    BY <1>8, <2>1 DEF Degraded, Rest, env, url, profile
<1>9. ASSUME NEW t \in Thread, ReadLatch(t) PROVE TypeOK'
  BY <1>9 DEF ReadLatch, Rest, env, url, profile
<1>10. ASSUME NEW t \in Thread, CreateLatch(t) PROVE TypeOK'
  BY <1>10 DEF CreateLatch, Rest, env, url, profile
<1>11. ASSUME NEW t \in Thread, TestLatch(t) PROVE TypeOK'
  BY <1>11, AnySchemaType DEF TestLatch, Leave, Rest, env, url, profile
<1>12. ASSUME NEW t \in Thread, AddToLatch(t) PROVE TypeOK'
  <2>1. held[t] \in Thread
    BY <1>12 DEF AddToLatch, LatchInv
  <2>2. Added(t) \in SUBSET Schema
    BY <2>1 DEF Added
  <2>3. QED
    BY <1>12, <2>1, <2>2 DEF AddToLatch, Rest, env, url, profile
<1>13. ASSUME NEW t \in Thread, Warn(t) PROVE TypeOK'
  BY <1>13, AnySchemaType DEF Warn, Leave, Rest, env, url, profile
<1>14. CASE UNCHANGED vars
  BY <1>14 DEF vars
<1>15. QED
  BY <1>1, <1>2, <1>3, <1>4, <1>5, <1>6, <1>7, <1>8, <1>9, <1>10, <1>11, <1>12, <1>13, <1>14
  DEF Next, Step

-----------------------------------------------------------------------------
(* The warning steps touch nothing of the initialisation, and conversely *)

Warns(t) == ReadLatch(t) \/ CreateLatch(t) \/ TestLatch(t) \/ AddToLatch(t) \/ Warn(t)

LEMMA InitialisationInit == ASSUME Init PROVE InitialisationInv
BY DEF Init, InitialisationInv

LEMMA InitialisationStep ==
  ASSUME TypeOK, InitialisationInv, [Next]_vars PROVE InitialisationInv'
<1> USE DEF TypeOK, InitialisationInv, Goto, Profile
<1>1. CASE ServerChange
  BY <1>1 DEF ServerChange, url, profile
<1>2. ASSUME NEW t \in Thread, Connect(t) PROVE InitialisationInv'
  BY <1>2 DEF Connect, url, profile
<1>3. ASSUME NEW t \in Thread, Enter(t) PROVE InitialisationInv'
  BY <1>3, ConstantsAssumption DEF Enter, url, profile, ConstantsAssumption
<1>4. ASSUME NEW t \in Thread, SqlInfo(t) PROVE InitialisationInv'
  <2>1. mutex = t /\ ~initialised /\ \A u \in Thread \ {t} : pc[u] \notin {"info", "check"}
    BY <1>4, ConstantsAssumption DEF SqlInfo, ConstantsAssumption
  <2>2. Profile'
    <3>1. quote' = (IF told' = NoQuote THEN DefaultQuote ELSE told')
      BY <1>4 DEF SqlInfo, QuoteOf
    <3>2. compiler' = (IF prepared THEN "prepared" ELSE "literal") /\ prepared' = prepared
      BY <1>4 DEF SqlInfo, url
    <3>3. (compiler' = "literal") <=> ~prepared'
      BY <3>2
    <3>4. QED
      BY <3>1, <3>3
  <2>3. CASE catalog = None
    BY <1>4, <2>1, <2>2, <2>3, ConstantsAssumption DEF SqlInfo, Finish, url, ConstantsAssumption
  <2>4. CASE catalog # None
    BY <1>4, <2>1, <2>2, <2>4 DEF SqlInfo, url
  <2>5. QED
    BY <2>3, <2>4
<1>5. ASSUME NEW t \in Thread, CheckCatalog(t) PROVE InitialisationInv'
  BY <1>5, ConstantsAssumption DEF CheckCatalog, Accepts, Finish, Abandon, url, profile, ConstantsAssumption
<1>6. ASSUME NEW t \in Thread, InitializeFails(t) PROVE InitialisationInv'
  BY <1>6, ConstantsAssumption DEF InitializeFails, Abandon, url, profile, ConstantsAssumption
<1>7. ASSUME NEW t \in Thread, Disconnect(t) PROVE InitialisationInv'
  BY <1>7 DEF Disconnect, url, profile
<1>8. ASSUME NEW t \in Thread, NEW s \in Schema, Degraded(t, s) PROVE InitialisationInv'
  BY <1>8 DEF Degraded, Rest, url, profile
<1>9. ASSUME NEW t \in Thread, Warns(t) PROVE InitialisationInv'
  BY <1>9 DEF Warns, ReadLatch, CreateLatch, TestLatch, AddToLatch, Warn, Leave, Rest, url, profile
<1>10. CASE UNCHANGED vars
  BY <1>10 DEF vars
<1>11. QED
  BY <1>1, <1>2, <1>3, <1>4, <1>5, <1>6, <1>7, <1>8, <1>9, <1>10 DEF Next, Step, Warns

LEMMA LatchInit == ASSUME Init PROVE LatchInv
BY DEF Init, LatchInv

LEMMA LatchStep == ASSUME TypeOK, LatchInv, [Next]_vars PROVE LatchInv'
<1> USE DEF TypeOK, LatchInv, Goto, Given
<1>1. CASE ServerChange
  BY <1>1 DEF ServerChange, warning
<1>2. ASSUME NEW t \in Thread, Connect(t) \/ Enter(t) \/ Disconnect(t) \/ InitializeFails(t)
      PROVE  LatchInv'
  BY <1>2 DEF Connect, Enter, Disconnect, InitializeFails, Abandon, warning
<1>3. ASSUME NEW t \in Thread, SqlInfo(t) PROVE LatchInv'
  BY <1>3 DEF SqlInfo, Finish, warning
<1>4. ASSUME NEW t \in Thread, CheckCatalog(t) PROVE LatchInv'
  BY <1>4 DEF CheckCatalog, Finish, Abandon, warning
<1>5. ASSUME NEW t \in Thread, NEW s \in Schema, Degraded(t, s) PROVE LatchInv'
  BY <1>5 DEF Degraded
<1>6. ASSUME NEW t \in Thread, ReadLatch(t) PROVE LatchInv'
  BY <1>6 DEF ReadLatch
<1>7. ASSUME NEW t \in Thread, CreateLatch(t) PROVE LatchInv'
  BY <1>7 DEF CreateLatch
<1>8. ASSUME NEW t \in Thread, TestLatch(t) PROVE LatchInv'
  BY <1>8 DEF TestLatch, Leave
<1>9. ASSUME NEW t \in Thread, AddToLatch(t) PROVE LatchInv'
  <2>1. held[t] \in Thread /\ pc'[t] = "warn" /\ about' = about
    BY <1>9 DEF AddToLatch
  <2>2. \A s \in Schema : Given(s) => Given(s)'
    BY <1>9 DEF AddToLatch
  <2>3. Given(about[t])'
    BY <2>1
  <2>4. \A x \in Thread : warned'[x] \subseteq warned[x] \cup {about[t]}
    BY <1>9, <2>1 DEF AddToLatch, Added
  <2>5. QED
    BY <1>9, <2>1, <2>2, <2>3, <2>4 DEF AddToLatch
<1>10. ASSUME NEW t \in Thread, Warn(t) PROVE LatchInv'
  <2>1. \A s \in Schema : Given(s) => Given(s)'
    BY <1>10 DEF Warn, Leave
  <2>2. QED
    BY <1>10, <2>1 DEF Warn, Leave
<1>11. CASE UNCHANGED vars
  BY <1>11 DEF vars
<1>12. QED
  BY <1>1, <1>2, <1>3, <1>4, <1>5, <1>6, <1>7, <1>8, <1>9, <1>10, <1>11 DEF Next, Step

THEOREM EngineInvariant == Spec => [](TypeOK /\ InitialisationInv /\ LatchInv)
<1>1. Init => TypeOK /\ InitialisationInv /\ LatchInv
  BY TypeInit, InitialisationInit, LatchInit
<1>2. TypeOK /\ InitialisationInv /\ LatchInv /\ [Next]_vars
        => (TypeOK /\ InitialisationInv /\ LatchInv)'
  BY TypeStep, InitialisationStep, LatchStep
<1>3. QED
  BY <1>1, <1>2, PTL DEF Spec

-----------------------------------------------------------------------------

\* Every variable keeps its type, for any threads, servers and bounds.
THEOREM TypeCorrect == Spec => []TypeOK
BY EngineInvariant, PTL

\* A URL's catalog fails closed (FlightSQLDialect.initialize under SQLAlchemy's
\* mutex): whoever holds a connection, the server's default was equal to it.
THEOREM FailsClosed == Spec => []ServedOnlyVerified
<1>1. TypeOK /\ InitialisationInv => ServedOnlyVerified
  BY DEF TypeOK, InitialisationInv, ServedOnlyVerified
<1>2. QED
  BY <1>1, EngineInvariant, PTL

\* Every way out of initialize releases the mutex: the part of ConnectReturns
\* that is about states.  A waiting thread can enter, or the holder can go on.
THEOREM MutexIsReleased == Spec => []NobodyIsStuck
<1>1. TypeOK /\ InitialisationInv => NobodyIsStuck
  BY DEF TypeOK, InitialisationInv, NobodyIsStuck
<1>2. QED
  BY <1>1, EngineInvariant, PTL

\* The dialect's quote character and compiler are those of the initialisation
\* that succeeded.
THEOREM ProfileIsCurrent == Spec => []ProfileOfLastAttempt
<1>1. TypeOK /\ InitialisationInv => ProfileOfLastAttempt
  BY DEF TypeOK, InitialisationInv, ProfileOfLastAttempt, Profile
<1>2. QED
  BY <1>1, EngineInvariant, PTL

\* _warn_degraded_reflection passes no schema over in silence, however its
\* threads interleave.
THEOREM NeverSilent == Spec => NoSilentSchema
<1>1. TypeOK /\ LatchInv /\ [Next]_vars => [PassedOverAfterWarning]_vars
  <2> SUFFICES ASSUME TypeOK, LatchInv, Next, NEW t \in Thread, pc[t] = "test", pc'[t] = "idle"
               PROVE  \/ warnings[about[t]] > 0
                      \/ \E u \in Thread : pc[u] = "warn" /\ about[u] = about[t]
    BY DEF PassedOverAfterWarning
  <2>1. TestLatch(t)
    <3>1. PICK u \in Thread : \/ ServerChange
                              \/ Step(u) \/ Connect(u) \/ Disconnect(u) \/ \E s \in Schema : Degraded(u, s)
      BY DEF Next
    <3>2. u = t /\ Step(t)
      BY <3>1 DEF ServerChange, Connect, Disconnect, Degraded, Step, Enter, SqlInfo, CheckCatalog,
                  InitializeFails, Finish, Abandon, ReadLatch, CreateLatch, TestLatch, AddToLatch,
                  Warn, Leave, Goto, TypeOK
    <3>3. QED
      BY <3>2 DEF Step, Enter, SqlInfo, CheckCatalog, InitializeFails, ReadLatch, CreateLatch,
                  AddToLatch, Warn
  <2>2. held[t] \in Thread
    BY DEF LatchInv
  <2>3. about[t] \in warned[held[t]]
    BY <2>1, <2>2 DEF TestLatch, Silenced, Goto, TypeOK
  <2>4. Given(about[t])
    BY <2>2, <2>3 DEF LatchInv
  <2>5. QED
    BY <2>4 DEF Given
<1>2. QED
  BY <1>1, EngineInvariant, PTL DEF NoSilentSchema, Spec

-----------------------------------------------------------------------------
(* How often a schema is warned about.  The state does not say which thread *)
(* has used which set; the invariant says that there is such a relation     *)
(* (uses), and that every warning of a schema has a pair of its own in it   *)
(* (spent).  Two threads cannot have used each other's set: whoever creates *)
(* a set after another thread had no set in hand when that thread read its  *)
(* own.                                                                     *)

UsesInv(uses) ==
  /\ uses # {} => latch # NoSet
  /\ latch # NoSet => pc[latch] # "create"
  /\ \A t \in Thread : pc[t] = "create" =>
       \A u \in Thread : <<t, u>> \notin uses /\ <<u, t>> \notin uses
  /\ \A t, u \in Thread : <<t, u>> \in uses /\ <<u, t>> \in uses => t = u
  /\ \A u \in Thread : <<latch, u>> \in uses => u = latch
  /\ \A t \in Thread : pc[t] \in {"test", "add", "warn"} => <<t, held[t]>> \in uses

SpentInv(uses, spent) ==
  /\ \A s \in Schema : spent[s] \subseteq uses /\ Cardinality(spent[s]) = warnings[s]
  /\ \A s \in Schema : \A t, x \in Thread : <<t, x>> \in spent[s] => s \in warned[x]
  /\ \A t \in Thread : pc[t] \in {"add", "warn"} => <<t, held[t]>> \notin spent[about[t]]
  /\ \A t \in Thread : pc[t] = "warn" => about[t] \in warned[held[t]]

Pairs == Thread \X Thread
BoundInv == \E uses \in SUBSET Pairs, spent \in [Schema -> SUBSET Pairs] :
              UsesInv(uses) /\ SpentInv(uses, spent)

LEMMA BoundInit == ASSUME Init PROVE BoundInv
<1> DEFINE spent == [s \in Schema |-> {}]
<1>1. {} \in SUBSET Pairs /\ spent \in [Schema -> SUBSET Pairs]
  OBVIOUS
<1>2. UsesInv({})
  BY ConstantsAssumption DEF Init, UsesInv, ConstantsAssumption
<1>3. SpentInv({}, spent)
  BY FS_EmptySet DEF Init, SpentInv
<1>4. QED
  BY <1>1, <1>2, <1>3 DEF BoundInv

\* Steps that leave the sets, the calls and the count of warnings alone.
Untouched == /\ latch' = latch /\ warned' = warned /\ held' = held
             /\ about' = about /\ warnings' = warnings

LEMMA BoundUntouched ==
  ASSUME TypeOK, BoundInv, Untouched,
         \A t \in Thread : pc'[t] \in {"create", "test", "add", "warn"} => pc'[t] = pc[t]
  PROVE  BoundInv'
<1>1. PICK uses \in SUBSET Pairs, spent \in [Schema -> SUBSET Pairs] :
        UsesInv(uses) /\ SpentInv(uses, spent)
  BY DEF BoundInv
<1>2. UsesInv(uses)'
  BY <1>1 DEF UsesInv, Untouched, TypeOK
<1>3. SpentInv(uses, spent)'
  BY <1>1 DEF SpentInv, Untouched, TypeOK
<1>4. QED
  BY <1>1, <1>2, <1>3 DEF BoundInv

\* A thread that reads a set will use it, unless there is none yet.
LEMMA BoundRead ==
  ASSUME TypeOK, BoundInv, NEW t \in Thread, ReadLatch(t) PROVE BoundInv'
<1>1. PICK uses \in SUBSET Pairs, spent \in [Schema -> SUBSET Pairs] :
        UsesInv(uses) /\ SpentInv(uses, spent)
  BY DEF BoundInv
<1>2. /\ latch' = latch /\ warned' = warned /\ about' = about /\ warnings' = warnings
      /\ held' = [held EXCEPT ![t] = latch]
      /\ pc' = [pc EXCEPT ![t] = IF latch = NoSet THEN "create" ELSE "test"]
      /\ pc[t] = "read"
  BY DEF ReadLatch, Rest, Goto
<1>3. CASE latch = NoSet
  <2>1. uses = {}
    BY <1>1, <1>3 DEF UsesInv
  <2>2. UsesInv(uses)'
    BY <1>1, <1>2, <1>3, <2>1 DEF UsesInv, TypeOK
  <2>3. SpentInv(uses, spent)'
    BY <1>1, <1>2, <1>3 DEF SpentInv, TypeOK
  <2>4. QED
    BY <1>1, <2>2, <2>3 DEF BoundInv
<1>4. CASE latch # NoSet
  <2>1. latch \in Thread /\ uses \cup {<<t, latch>>} \in SUBSET Pairs
    BY <1>4 DEF TypeOK, Pairs
  <2>2. PICK more \in SUBSET Pairs : more = uses \cup {<<t, latch>>}
    BY <2>1
  <2>3. UsesInv(more)'
    BY <1>1, <1>2, <1>4, <2>1, <2>2 DEF UsesInv, TypeOK
  <2>4. SpentInv(more, spent)'
    BY <1>1, <1>2, <1>4, <2>2 DEF SpentInv, TypeOK
  <2>5. QED
    BY <1>1, <2>3, <2>4 DEF BoundInv
<1>5. QED
  BY <1>3, <1>4

\* A thread that creates a set has used none and has had none to be used.
LEMMA BoundCreate ==
  ASSUME TypeOK, BoundInv, NEW t \in Thread, CreateLatch(t) PROVE BoundInv'
<1>1. PICK uses \in SUBSET Pairs, spent \in [Schema -> SUBSET Pairs] :
        UsesInv(uses) /\ SpentInv(uses, spent)
  BY DEF BoundInv
<1>2. /\ latch' = t /\ warned' = [warned EXCEPT ![t] = {}] /\ about' = about
      /\ warnings' = warnings /\ held' = [held EXCEPT ![t] = t]
      /\ pc' = [pc EXCEPT ![t] = "test"] /\ pc[t] = "create"
  BY DEF CreateLatch, Rest, Goto
<1> DEFINE more == uses \cup {<<t, t>>}
<1>3. more \in SUBSET Pairs
  BY DEF Pairs
<1>4. \A u \in Thread : <<t, u>> \notin uses /\ <<u, t>> \notin uses
  BY <1>1, <1>2 DEF UsesInv
<1>5. UsesInv(more)'
  <2>1. t # NoSet
    BY ConstantsAssumption DEF ConstantsAssumption
  <2>2. \A u \in Thread : pc'[u] = "create" => u # t /\ pc[u] = "create"
    BY <1>2 DEF TypeOK
  <2>3. \A u \in Thread : pc'[u] = "create" =>
          \A v \in Thread : <<u, v>> \notin more /\ <<v, u>> \notin more
    BY <1>1, <2>2 DEF UsesInv
  <2>4. \A u, v \in Thread : <<u, v>> \in more /\ <<v, u>> \in more => u = v
    BY <1>1 DEF UsesInv
  <2>5. \A u \in Thread : pc'[u] \in {"test", "add", "warn"} => <<u, held'[u]>> \in more
    BY <1>1, <1>2 DEF UsesInv, TypeOK
  <2>6. latch' # NoSet /\ pc'[latch'] # "create" /\ \A u \in Thread : <<latch', u>> \in more => u = latch'
    BY <1>2, <1>4, <2>1 DEF TypeOK
  <2>7. QED
    BY <2>3, <2>4, <2>5, <2>6 DEF UsesInv
<1>6. SpentInv(more, spent)'
  <2>1. \A s \in Schema : spent[s] \subseteq more /\ Cardinality(spent[s]) = warnings'[s]
    BY <1>1, <1>2 DEF SpentInv
  <2>2. \A s \in Schema : \A u, x \in Thread : <<u, x>> \in spent[s] => x # t /\ s \in warned'[x]
    BY <1>1, <1>2, <1>4 DEF SpentInv, TypeOK
  <2>3. \A u \in Thread : pc'[u] \in {"add", "warn"} => u # t /\ pc[u] = pc'[u] /\ held'[u] = held[u]
    BY <1>2 DEF TypeOK
  <2>4. \A u \in Thread : pc'[u] = "warn" => held[u] # t
    BY <1>1, <1>4, <2>3 DEF UsesInv
  <2>5. \A u \in Thread : pc'[u] \in {"add", "warn"} => <<u, held'[u]>> \notin spent[about'[u]]
    BY <1>1, <1>2, <2>3 DEF SpentInv
  <2>6. \A u \in Thread : pc'[u] = "warn" => about'[u] \in warned'[held'[u]]
    BY <1>1, <1>2, <2>3, <2>4 DEF SpentInv, UsesInv, Pairs, TypeOK
  <2>7. QED
    BY <2>1, <2>2, <2>5, <2>6 DEF SpentInv
<1>7. QED
  BY <1>1, <1>3, <1>5, <1>6 DEF BoundInv

\* A set that does not hold the schema has given no warning of it.
LEMMA BoundTest ==
  ASSUME TypeOK, LatchInv, BoundInv, NEW t \in Thread, TestLatch(t) PROVE BoundInv'
<1>1. PICK uses \in SUBSET Pairs, spent \in [Schema -> SUBSET Pairs] :
        UsesInv(uses) /\ SpentInv(uses, spent)
  BY DEF BoundInv
<1>2. /\ latch' = latch /\ warned' = warned /\ warnings' = warnings /\ pc[t] = "test"
  BY DEF TestLatch, Rest
<1>3. held[t] \in Thread
  BY <1>2 DEF LatchInv
<1>4. CASE Silenced(t) /\ Leave(t)
  <2>1. /\ pc' = [pc EXCEPT ![t] = "idle"] /\ held' = [held EXCEPT ![t] = NoSet]
        /\ about' = [about EXCEPT ![t] = AnySchema]
    BY <1>4 DEF Leave, Goto
  <2>2. UsesInv(uses)'
    BY <1>1, <1>2, <2>1 DEF UsesInv, TypeOK
  <2>3. SpentInv(uses, spent)'
    BY <1>1, <1>2, <2>1 DEF SpentInv, TypeOK
  <2>4. QED
    BY <1>1, <2>2, <2>3 DEF BoundInv
<1>5. CASE ~Silenced(t) /\ Goto(t, "add") /\ UNCHANGED <<held, about>>
  <2>1. pc' = [pc EXCEPT ![t] = "add"] /\ held' = held /\ about' = about
    BY <1>5 DEF Goto
  <2>2. <<t, held[t]>> \notin spent[about[t]]
    BY <1>1, <1>3, <1>5 DEF SpentInv, Silenced, TypeOK
  <2>3. UsesInv(uses)'
    BY <1>1, <1>2, <2>1 DEF UsesInv, TypeOK
  <2>4. SpentInv(uses, spent)'
    BY <1>1, <1>2, <2>1, <2>2 DEF SpentInv, TypeOK
  <2>5. QED
    BY <1>1, <2>3, <2>4 DEF BoundInv
<1>6. QED
  BY <1>4, <1>5 DEF TestLatch

LEMMA BoundAdd ==
  ASSUME TypeOK, LatchInv, BoundInv, NEW t \in Thread, AddToLatch(t) PROVE BoundInv'
<1>1. PICK uses \in SUBSET Pairs, spent \in [Schema -> SUBSET Pairs] :
        UsesInv(uses) /\ SpentInv(uses, spent)
  BY DEF BoundInv
<1>2. /\ latch' = latch /\ held' = held /\ about' = about /\ warnings' = warnings
      /\ warned' = [warned EXCEPT ![held[t]] = @ \cup {about[t]}]
      /\ pc' = [pc EXCEPT ![t] = "warn"] /\ pc[t] = "add" /\ held[t] \in Thread
  BY DEF AddToLatch, Added, Rest, Goto, LatchInv
<1>3. \A x \in Thread : warned[x] \subseteq warned'[x]
  BY <1>2 DEF TypeOK
<1>4. about[t] \in warned'[held[t]]
  BY <1>2 DEF TypeOK
<1>5. UsesInv(uses)'
  BY <1>1, <1>2 DEF UsesInv, TypeOK
<1>6. SpentInv(uses, spent)'
  <2>1. \A u \in Thread : pc'[u] = "warn" => about'[u] \in warned'[held'[u]]
    <3> SUFFICES ASSUME NEW u \in Thread, pc'[u] = "warn" PROVE about[u] \in warned'[held[u]]
      BY <1>2
    <3>1. CASE u = t
      BY <3>1, <1>4
    <3>2. CASE u # t
      <4>1. pc[u] = "warn"
        BY <3>2, <1>2 DEF TypeOK
      <4>2. held[u] \in Thread
        BY <4>1, <1>1 DEF UsesInv, Pairs
      <4>3. QED
        BY <4>1, <4>2, <1>1, <1>3 DEF SpentInv
    <3>3. QED
      BY <3>1, <3>2
  <2>2. \A s \in Schema : \A u, x \in Thread : <<u, x>> \in spent[s] => s \in warned'[x]
    BY <1>1, <1>3 DEF SpentInv
  <2>3. QED
    BY <1>1, <1>2, <2>1, <2>2 DEF SpentInv, TypeOK
<1>7. QED
  BY <1>1, <1>5, <1>6 DEF BoundInv

\* The pair of a warning is new, and the count grows with it.
LEMMA BoundWarn ==
  ASSUME TypeOK, BoundInv, NEW t \in Thread, Warn(t) PROVE BoundInv'
<1>1. PICK uses \in SUBSET Pairs, spent \in [Schema -> SUBSET Pairs] :
        UsesInv(uses) /\ SpentInv(uses, spent)
  BY DEF BoundInv
<1>2. /\ latch' = latch /\ warned' = warned /\ pc[t] = "warn"
      /\ warnings' = [warnings EXCEPT ![about[t]] = @ + 1]
      /\ pc' = [pc EXCEPT ![t] = "idle"] /\ held' = [held EXCEPT ![t] = NoSet]
      /\ about' = [about EXCEPT ![t] = AnySchema]
  BY DEF Warn, Leave, Goto, Rest
<1>3. <<t, held[t]>> \in uses /\ about[t] \in Schema /\ held[t] \in Thread
  BY <1>1, <1>2 DEF UsesInv, TypeOK, Pairs
<1> DEFINE pair == <<t, held[t]>>
<1>4. PICK more : more = [spent EXCEPT ![about[t]] = @ \cup {pair}]
  OBVIOUS
<1>5. more \in [Schema -> SUBSET Pairs] /\ \A s \in Schema : more[s] \subseteq uses
  BY <1>1, <1>3, <1>4 DEF SpentInv
<1>6. \A s \in Schema : Cardinality(more[s]) = warnings'[s]
  <2>1. IsFiniteSet(spent[about[t]])
    <3>1. IsFiniteSet(Pairs)
      BY FS_Product, ConstantsAssumption DEF Pairs, ConstantsAssumption
    <3>2. QED
      BY <3>1, <1>3, FS_Subset
  <2>2. pair \notin spent[about[t]]
    BY <1>1, <1>2 DEF SpentInv
  <2>3. Cardinality(spent[about[t]] \cup {pair}) = Cardinality(spent[about[t]]) + 1
    BY <2>1, <2>2, FS_AddElement
  <2>4. QED
    BY <2>3, <1>1, <1>2, <1>3, <1>4 DEF SpentInv, TypeOK
<1>7. UsesInv(uses)'
  BY <1>1, <1>2 DEF UsesInv, TypeOK
<1>8. \A s \in Schema : \A u, x \in Thread : <<u, x>> \in more[s] => s \in warned[x]
  BY <1>1, <1>2, <1>3, <1>4 DEF SpentInv
<1>9. \A u \in Thread : pc'[u] \in {"add", "warn"} => <<u, held'[u]>> \notin more[about'[u]]
  BY <1>1, <1>2, <1>4 DEF SpentInv, TypeOK
<1>10. \A u \in Thread : pc'[u] = "warn" => about'[u] \in warned[held'[u]]
  BY <1>1, <1>2 DEF SpentInv, TypeOK
<1>11. SpentInv(uses, more)'
  BY <1>2, <1>5, <1>6, <1>8, <1>9, <1>10 DEF SpentInv
<1>12. QED
  BY <1>5, <1>7, <1>11 DEF BoundInv

LEMMA BoundStep == ASSUME TypeOK, LatchInv, BoundInv, [Next]_vars PROVE BoundInv'
<1>1. CASE ServerChange
  BY <1>1, BoundUntouched DEF ServerChange, warning, Untouched
<1>2. ASSUME NEW t \in Thread, Connect(t) \/ Enter(t) \/ Disconnect(t) \/ InitializeFails(t)
      PROVE  BoundInv'
  <2>1. Untouched
    BY <1>2 DEF Connect, Enter, Disconnect, InitializeFails, warning, Untouched
  <2>2. \A u \in Thread : pc'[u] \in {"create", "test", "add", "warn"} => pc'[u] = pc[u]
    BY <1>2 DEF Connect, Enter, Disconnect, InitializeFails, Abandon, Goto, TypeOK
  <2>3. QED
    BY <2>1, <2>2, BoundUntouched
<1>3. ASSUME NEW t \in Thread, SqlInfo(t) \/ CheckCatalog(t) PROVE BoundInv'
  <2>1. Untouched
    BY <1>3 DEF SqlInfo, CheckCatalog, warning, Untouched
  <2>2. \A u \in Thread : pc'[u] \in {"create", "test", "add", "warn"} => pc'[u] = pc[u]
    BY <1>3 DEF SqlInfo, CheckCatalog, Finish, Abandon, Goto, TypeOK
  <2>3. QED
    BY <2>1, <2>2, BoundUntouched
<1>4. ASSUME NEW t \in Thread, NEW s \in Schema, Degraded(t, s) PROVE BoundInv'
  <2>1. PICK uses \in SUBSET Pairs, spent \in [Schema -> SUBSET Pairs] :
          UsesInv(uses) /\ SpentInv(uses, spent)
    BY DEF BoundInv
  <2>2. UsesInv(uses)'
    BY <1>4, <2>1 DEF Degraded, Goto, UsesInv, TypeOK
  <2>3. SpentInv(uses, spent)'
    BY <1>4, <2>1 DEF Degraded, Goto, SpentInv, TypeOK
  <2>4. QED
    BY <2>1, <2>2, <2>3 DEF BoundInv
<1>5. CASE UNCHANGED vars
  BY <1>5, BoundUntouched DEF vars, Untouched
<1>6. QED
  BY <1>1, <1>2, <1>3, <1>4, <1>5, BoundRead, BoundCreate, BoundTest, BoundAdd, BoundWarn
  DEF Next, Step

\* A relation in which no two elements are related both ways has at most
\* n(n+1)/2 pairs on n elements: it shares with its converse only pairs of an
\* element with itself.
LEMMA OneWayBound ==
  ASSUME NEW R \in SUBSET Pairs,
         \A t, u \in Thread : <<t, u>> \in R /\ <<u, t>> \in R => t = u
  PROVE  LET n == Cardinality(Thread) IN
         IsFiniteSet(R) /\ n \in Nat /\ 2 * Cardinality(R) <= n * (n + 1)
<1> DEFINE n == Cardinality(Thread)
           Turn == [p \in R |-> <<p[2], p[1]>>]
           Back == {p \in Pairs : <<p[2], p[1]>> \in R}
           Same == {p \in Pairs : p[1] = p[2]}
           Twice == [t \in Thread |-> <<t, t>>]
<1>1. IsFiniteSet(Thread) /\ n \in Nat
  BY FS_CardinalityType, ConstantsAssumption DEF ConstantsAssumption
<1>2. IsFiniteSet(Pairs) /\ Cardinality(Pairs) = n * n
  BY <1>1, FS_Product DEF Pairs
<1>3. IsFiniteSet(R) /\ Cardinality(R) \in Nat
  BY <1>2, FS_Subset, FS_CardinalityType
<1>4. Turn \in Bijection(R, Back)
  <2>1. Turn \in [R -> Back]
    BY DEF Pairs
  <2>2. \A p, q \in R : Turn[p] = Turn[q] => p = q
    BY DEF Pairs
  <2>3. \A b \in Back : \E p \in R : Turn[p] = b
    <3> SUFFICES ASSUME NEW b \in Back PROVE \E p \in R : Turn[p] = b
      OBVIOUS
    <3>1. <<b[2], b[1]>> \in R /\ b = <<b[1], b[2]>>
      BY DEF Pairs
    <3>2. QED
      BY <3>1
  <2>4. QED
    BY <2>1, <2>2, <2>3, Fun_IsBij
<1>5. IsFiniteSet(Back) /\ Cardinality(Back) = Cardinality(R)
  BY <1>3, <1>4, FS_Bijection DEF ExistsBijection
<1>6. IsFiniteSet(Same) /\ Cardinality(Same) = n
  <2>1. Twice \in Bijection(Thread, Same)
    <3>1. Twice \in [Thread -> Same]
      BY DEF Pairs
    <3>2. \A t, u \in Thread : Twice[t] = Twice[u] => t = u
      OBVIOUS
    <3>3. \A p \in Same : \E t \in Thread : Twice[t] = p
      BY DEF Pairs
    <3>4. QED
      BY <3>1, <3>2, <3>3, Fun_IsBij
  <2>2. QED
    BY <2>1, <1>1, FS_Bijection DEF ExistsBijection
<1>7. R \cap Back \in SUBSET Same
  BY DEF Pairs
<1>8. Cardinality(R \cap Back) <= n /\ Cardinality(R \cap Back) \in Nat
  BY <1>6, <1>7, FS_Subset, FS_CardinalityType
<1>9. R \cup Back \in SUBSET Pairs
  OBVIOUS
<1>10. Cardinality(R \cup Back) <= n * n /\ Cardinality(R \cup Back) \in Nat
  BY <1>2, <1>9, FS_Subset, FS_CardinalityType
<1>11. Cardinality(R \cup Back) = Cardinality(R) + Cardinality(Back) - Cardinality(R \cap Back)
  BY <1>3, <1>5, FS_Union
<1>12. n * (n + 1) = n * n + n
  BY <1>1
<1>13. 2 * Cardinality(R) <= n * n + n
  <2>1. n * n \in Nat
    BY <1>1
  <2> DEFINE square == n * n
             r == Cardinality(R)
             both == Cardinality(R \cap Back)
             all == Cardinality(R \cup Back)
  <2>2. /\ square \in Nat /\ r \in Nat /\ both \in Nat /\ all \in Nat /\ n \in Nat
        /\ all = r + r - both /\ all <= square /\ both <= n
    BY <2>1, <1>1, <1>3, <1>5, <1>8, <1>10, <1>11
  <2> HIDE DEF square, r, both, all, n
  <2>3. 2 * r <= square + n
    BY <2>2
  <2>4. QED
    BY <2>3 DEF square, r, n
<1>14. QED
  BY <1>1, <1>3, <1>12, <1>13

\* However many threads race on the set of warned schemas
\* (_warn_degraded_reflection), n of them warn about a schema at most n(n+1)/2
\* times, for any number of reflections.
THEOREM FewWarnings == Spec => []WarningsBounded
<1>1. TypeOK /\ LatchInv /\ BoundInv /\ [Next]_vars => BoundInv'
  BY BoundStep
<1>2. Init => BoundInv
  BY BoundInit
<1>3. TypeOK /\ BoundInv => WarningsBounded
  <2> SUFFICES ASSUME TypeOK, BoundInv, NEW s \in Schema
               PROVE  2 * warnings[s] <= Cardinality(Thread) * (Cardinality(Thread) + 1)
    BY DEF WarningsBounded
  <2>1. PICK uses \in SUBSET Pairs, spent \in [Schema -> SUBSET Pairs] :
          UsesInv(uses) /\ SpentInv(uses, spent)
    BY DEF BoundInv
  <2>2. spent[s] \in SUBSET Pairs /\ Cardinality(spent[s]) = warnings[s]
    BY <2>1 DEF SpentInv
  <2>3. \A t, u \in Thread : <<t, u>> \in spent[s] /\ <<u, t>> \in spent[s] => t = u
    BY <2>1 DEF SpentInv, UsesInv
  <2>4. QED
    BY <2>2, <2>3, OneWayBound
<1>4. QED
  BY <1>1, <1>2, <1>3, EngineInvariant, PTL DEF Spec
=============================================================================
