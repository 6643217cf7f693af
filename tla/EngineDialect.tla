---------------------------- MODULE EngineDialect ----------------------------
(***************************************************************************)
(* The one dialect object of an engine (flightsql/sqlalchemy.py) and the   *)
(* threads that share it, each with a connection of its own                *)
(* (SingletonThreadPool).  initialize writes the dialect's attributes and  *)
(* checks the URL's catalog; SQLAlchemy runs it within the first connect,  *)
(* under a mutex, until it has succeeded once.  Afterwards the threads     *)
(* share the set of schemas that have been warned about, without a lock:   *)
(* each access to it is a step.                                            *)
(***************************************************************************)
EXTENDS Naturals, FiniteSets

CONSTANTS
  Thread, Nobody,
  Catalog, None,        \* catalog names, and no catalog in the URL
  Quote, NoQuote,       \* quote characters, and none reported
  DefaultQuote,         \* default_identifier_quote
  Schema,
  NoSet,                \* _degraded_reflection_warned_schemas is not set
  Servers,              \* the servers an engine may meet
  MaxChanges,           \* bound: changes of the server
  MaxWaits,             \* bound: connects before initialize has succeeded
  MaxReflects           \* bound: degraded reflections of a thread

ServerType ==
  [info     : BOOLEAN,                       \* GetSqlInfo is implemented
   quote    : Quote \cup {NoQuote},          \* SQL_IDENTIFIER_QUOTE_CHAR
   readOnly : {"yes", "no", "unreported"},   \* FLIGHT_SQL_SERVER_READ_ONLY
   default  : Catalog \cup {None}]           \* df_settings; None is no row

ASSUME ConstantsAssumption ==
  /\ Nobody \notin Thread /\ NoSet \notin Thread /\ None \notin Catalog
  /\ IsFiniteSet(Thread)
  /\ NoQuote \notin Quote /\ DefaultQuote \in Quote
  /\ Servers \subseteq ServerType /\ Schema # {}
  /\ MaxChanges \in Nat /\ MaxWaits \in Nat /\ MaxReflects \in Nat

VARIABLES
  server, changes, waits,
  catalog,      \* the catalog of the URL, handed to every connection
  prepared,     \* the prepared-statements feature is on
  quote,        \* identifier_preparer.initial_quote
  writable,     \* supports_delete and supports_alter
  compiler,     \* statement_compiler
  initialised,  \* initialize has succeeded once
  mutex,        \* the thread that runs initialize
  conn,         \* threads that hold a connection
  pc,           \* what each thread does next
  latch,        \* the shared set of warned schemas: whose, or NoSet
  warned,       \* the set each thread has created
  held,         \* the set a thread's warning call has in hand
  about,        \* the schema of that call
  warnings,     \* history: warnings given of each schema
  reflects,     \* history: degraded reflections of each thread
  matched,      \* history: the default catalog initialize has found equal
  told          \* history: the quote character the server last told

env     == <<server, changes>>
url     == <<catalog, prepared>>
profile == <<quote, writable, compiler, told>>
warning == <<latch, warned, held, about, warnings, reflects>>
vars == <<server, changes, waits, catalog, prepared, quote, writable, compiler,
          initialised, mutex, conn, pc, latch, warned, held, about, warnings,
          reflects, matched, told>>

\* The schema of a thread that is not warning.
AnySchema == CHOOSE s \in Schema : TRUE

\* create_connect_args runs once, when the engine is created.
Init ==
  /\ server \in Servers /\ changes = 0 /\ waits = 0
  /\ catalog \in Catalog \cup {None} /\ prepared \in BOOLEAN
  /\ quote = DefaultQuote /\ writable = TRUE /\ compiler = "prepared"
  /\ initialised = FALSE /\ mutex = Nobody /\ conn = {}
  /\ pc = [t \in Thread |-> "idle"]
  /\ latch = NoSet /\ warned = [t \in Thread |-> {}]
  /\ held = [t \in Thread |-> NoSet] /\ about = [t \in Thread |-> AnySchema]
  /\ warnings = [s \in Schema |-> 0] /\ reflects = [t \in Thread |-> 0]
  /\ matched = None /\ told = NoQuote

\* The server is upgraded, reconfigured or replaced.
ServerChange ==
  /\ changes < MaxChanges
  /\ server' \in Servers \ {server}
  /\ changes' = changes + 1
  /\ UNCHANGED <<waits, url, profile, initialised, mutex, conn, pc, warning, matched>>

Goto(t, label) == pc' = [pc EXCEPT ![t] = label]

-----------------------------------------------------------------------------
(* The first connect *)

\* A new Connection sends nothing.  Until initialize has succeeded the thread
\* must take the mutex.
Connect(t) ==
  /\ pc[t] = "idle" /\ t \notin conn
  /\ \/ initialised /\ conn' = conn \cup {t} /\ UNCHANGED <<pc, waits>>
     \/ /\ ~initialised /\ waits < MaxWaits
        /\ waits' = waits + 1 /\ Goto(t, "wait") /\ UNCHANGED conn
  /\ UNCHANGED <<env, url, profile, initialised, mutex, warning, matched>>

\* A thread that has waited while another initialised has nothing left to do.
Enter(t) ==
  /\ pc[t] = "wait" /\ mutex = Nobody
  /\ IF initialised THEN Goto(t, "idle") /\ conn' = conn \cup {t} /\ UNCHANGED mutex
                    ELSE Goto(t, "info") /\ mutex' = t /\ UNCHANGED conn
  /\ UNCHANGED <<env, waits, url, profile, initialised, warning, matched>>

\* initialize returns: the thread has its connection.
Finish(t) == /\ initialised' = TRUE /\ mutex' = Nobody
             /\ conn' = conn \cup {t} /\ Goto(t, "idle")

\* initialize raises: the thread has none, and the next to connect starts anew.
AbandonForGood(t) == /\ mutex' = Nobody /\ initialised' = TRUE
                     /\ Goto(t, "idle") /\ UNCHANGED conn
AbandonHolding(t) == Goto(t, "idle") /\ UNCHANGED <<mutex, initialised, conn>>
Abandon(t) == /\ mutex' = Nobody /\ Goto(t, "idle")
              /\ UNCHANGED <<initialised, conn>>

\* The quote character of an answer, or the default.
QuoteKept(answer) == IF answer = NoQuote THEN quote ELSE answer
QuoteOf(answer) == IF answer = NoQuote THEN DefaultQuote ELSE answer

\* FlightSQLDialect.initialize and the choice of the compiler: GetSqlInfo
\* answers or is not implemented.
SqlInfo(t) ==
  /\ pc[t] = "info"
  /\ LET answer == IF server.info THEN server.quote ELSE NoQuote
         readOnly == IF server.info THEN server.readOnly ELSE "unreported"
     IN /\ quote' = QuoteOf(answer)
        /\ told' = answer
        /\ writable' = IF readOnly = "unreported" THEN writable ELSE readOnly = "no"
  /\ compiler' = IF prepared THEN "prepared" ELSE "literal"
  /\ IF catalog = None THEN Finish(t)
     ELSE Goto(t, "check") /\ UNCHANGED <<initialised, mutex, conn>>
  /\ UNCHANGED <<env, waits, url, warning, matched>>

\* What the settings query must say of the URL's catalog.
AcceptsUnreported(default) == default \in {catalog, None}
Accepts(default) == default = catalog

CheckCatalog(t) ==
  /\ pc[t] = "check"
  /\ \/ /\ Accepts(server.default)
        /\ matched' = server.default
        /\ Finish(t)
     \/ ~Accepts(server.default) /\ Abandon(t) /\ UNCHANGED matched
  /\ UNCHANGED <<env, waits, url, profile, warning>>

\* Any other failure of GetSqlInfo, or any failure of the settings query.
InitializeFails(t) ==
  /\ pc[t] \in {"info", "check"}
  /\ Abandon(t)
  /\ UNCHANGED <<env, waits, url, profile, warning, matched>>

\* is_disconnect: a statement has found the server unavailable; the pool drops
\* the connection.  Other errors leave it as it is.
Disconnect(t) ==
  /\ pc[t] = "idle" /\ t \in conn
  /\ conn' = conn \ {t}
  /\ UNCHANGED <<env, waits, url, profile, initialised, mutex, pc, warning, matched>>

-----------------------------------------------------------------------------
(* _warn_degraded_reflection *)

Rest == <<env, waits, url, profile, initialised, mutex, conn, matched>>

\* A reflection of the schema has found incomplete metadata.
Degraded(t, s) ==
  /\ pc[t] = "idle" /\ t \in conn /\ reflects[t] < MaxReflects
  /\ reflects' = [reflects EXCEPT ![t] = @ + 1]
  /\ about' = [about EXCEPT ![t] = s]
  /\ Goto(t, "read")
  /\ UNCHANGED <<Rest, latch, warned, held, warnings>>

ReadLatch(t) ==
  /\ pc[t] = "read"
  /\ held' = [held EXCEPT ![t] = latch]
  /\ Goto(t, IF latch = NoSet THEN "create" ELSE "test")
  /\ UNCHANGED <<Rest, latch, warned, about, warnings, reflects>>

CreateLatch(t) ==
  /\ pc[t] = "create"
  /\ warned' = [warned EXCEPT ![t] = {}]
  /\ latch' = t /\ held' = [held EXCEPT ![t] = t]
  /\ Goto(t, "test")
  /\ UNCHANGED <<Rest, about, warnings, reflects>>

\* The call returns and its locals are gone.
Leave(t) == /\ Goto(t, "idle")
            /\ held' = [held EXCEPT ![t] = NoSet]
            /\ about' = [about EXCEPT ![t] = AnySchema]

\* Whether the set in hand says that the schema has been warned about.
SilencedAny(t) == warned[held[t]] # {}
Silenced(t) == about[t] \in warned[held[t]]

TestLatch(t) ==
  /\ pc[t] = "test"
  /\ \/ Silenced(t) /\ Leave(t)
     \/ ~Silenced(t) /\ Goto(t, "add") /\ UNCHANGED <<held, about>>
  /\ UNCHANGED <<Rest, latch, warned, warnings, reflects>>

\* What the set holds once the schema is added.
AddedNot(t) == warned[held[t]]
Added(t) == warned[held[t]] \cup {about[t]}

AddToLatch(t) ==
  /\ pc[t] = "add"
  /\ warned' = [warned EXCEPT ![held[t]] = Added(t)]
  /\ Goto(t, "warn")
  /\ UNCHANGED <<Rest, latch, held, about, warnings, reflects>>

Warn(t) ==
  /\ pc[t] = "warn"
  /\ warnings' = [warnings EXCEPT ![about[t]] = @ + 1]
  /\ Leave(t)
  /\ UNCHANGED <<Rest, latch, warned, reflects>>

Step(t) == \/ Enter(t) \/ SqlInfo(t) \/ CheckCatalog(t) \/ InitializeFails(t)
           \/ ReadLatch(t) \/ CreateLatch(t) \/ TestLatch(t) \/ AddToLatch(t) \/ Warn(t)

Next ==
  \/ ServerChange
  \/ \E t \in Thread : Step(t) \/ Connect(t) \/ Disconnect(t) \/ \E s \in Schema : Degraded(t, s)

Spec == Init /\ [][Next]_vars

\* A thread that has called goes on.
FairSpec == Spec /\ \A t \in Thread : WF_vars(Step(t))

-----------------------------------------------------------------------------
(* Properties *)

PC == {"idle", "wait", "info", "check", "read", "create", "test", "add", "warn"}

TypeOK ==
  /\ server \in Servers /\ changes \in 0..MaxChanges /\ waits \in 0..MaxWaits
  /\ catalog \in Catalog \cup {None} /\ prepared \in BOOLEAN
  /\ quote \in Quote /\ writable \in BOOLEAN /\ compiler \in {"prepared", "literal"}
  /\ initialised \in BOOLEAN /\ mutex \in Thread \cup {Nobody} /\ conn \subseteq Thread
  /\ pc \in [Thread -> PC]
  /\ latch \in Thread \cup {NoSet} /\ warned \in [Thread -> SUBSET Schema]
  /\ held \in [Thread -> Thread \cup {NoSet}] /\ about \in [Thread -> Schema]
  /\ warnings \in [Schema -> Nat] /\ reflects \in [Thread -> 0..MaxReflects]
  /\ matched \in Catalog \cup {None} /\ told \in Quote \cup {NoQuote}

\* The dialect agrees with the last answer of GetSqlInfo and the feature.
Profile == /\ quote = (IF told = NoQuote THEN DefaultQuote ELSE told)
           /\ compiler = "literal" <=> ~prepared

\* Only the holder of the mutex initialises, and only until one has succeeded.
InitialisationInv ==
  /\ \A t \in Thread : /\ pc[t] \in {"info", "check"} => mutex = t
                       /\ pc[t] = "check" => Profile /\ catalog # None
  /\ mutex # Nobody => ~initialised /\ pc[mutex] \in {"info", "check"}
  /\ conn # {} => initialised
  /\ initialised => Profile /\ (catalog # None => matched = catalog)

\* Who waits for the mutex waits for nobody, or for a thread that is within
\* initialize, where InitializeFails or the step it is at can take it out.
NobodyIsStuck ==
  \A t \in Thread : pc[t] = "wait" =>
    mutex = Nobody \/ (mutex \in Thread \ {t} /\ pc[mutex] \in {"info", "check"})

\* A warning about the schema has been given or is just being given.
Given(s) == warnings[s] > 0 \/ \E u \in Thread : pc[u] = "warn" /\ about[u] = s

\* Every set holds only such schemas, also one that is no longer the shared one.
LatchInv ==
  /\ \A x \in Thread : \A s \in warned[x] : Given(s)
  /\ \A t \in Thread : pc[t] \in {"test", "add"} => held[t] \in Thread

\* "Fail closed": no thread ever gets a connection of an engine whose URL names
\* a catalog before the server's default has been found equal to it, whichever
\* thread's attempts failed before and however the server changed.
ServedOnlyVerified == conn # {} /\ catalog # None => matched = catalog

\* A connection handed out goes with the profile of the attempt that
\* succeeded, not with what an attempt before it had left: the quote character
\* the server told then, or the default, and the compiler of the feature.
ProfileOfLastAttempt ==
  conn # {} => /\ quote = (IF told = NoQuote THEN DefaultQuote ELSE told)
               /\ compiler = "literal" <=> ~prepared

\* No schema is passed over in silence: when a thread returns without a
\* warning, one about that schema has been given or is just being given.
PassedOverAfterWarning ==
  \A t \in Thread : pc[t] = "test" /\ pc'[t] = "idle" =>
    \/ warnings[about[t]] > 0
    \/ \E u \in Thread : pc[u] = "warn" /\ about[u] = about[t]
NoSilentSchema == [][PassedOverAfterWarning]_vars

\* However the threads race on the set, a schema is warned about a bounded
\* number of times: n threads may create n sets one after the other, and the
\* k-th one serves at most k of those that created one.
WarningsBounded ==
  LET n == Cardinality(Thread) IN \A s \in Schema : 2 * warnings[s] <= n * (n + 1)

\* A thread that waits for another's initialisation is served or gets its own
\* chance, also when that one fails.
ConnectReturns == \A t \in Thread : pc[t] = "wait" ~> pc[t] = "idle"

\* "A warning is bounded to once per requested schema" (MAINTENANCE.md:211).
WarnedOnce == \A s \in Schema : warnings[s] <= 1
=============================================================================
