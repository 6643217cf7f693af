-------------------------- MODULE CatalogDiscovery --------------------------
(***************************************************************************)
(* One DB API Connection and its metadata calls (flightsql/dbapi.py): the  *)
(* request, the advisory probes that find the catalog to ask about when an *)
(* unscoped request comes back empty, the cached outcome and the scoped    *)
(* retry.  Every RPC is one step, so the server may change and any RPC may *)
(* fail between two of them.                                               *)
(*                                                                         *)
(* A connection has one caller at a time, as the DB API's users (a         *)
(* SQLAlchemy connection) arrange.  An RPC is its FlightInfo call together *)
(* with the streams of its endpoints.                                      *)
(***************************************************************************)
EXTENDS Naturals

CONSTANTS
  Catalog,          \* catalog names
  None,             \* no catalog (Python's None)
  Undecided,        \* _resolved_catalog is None: nothing decided yet
  Servers,          \* the servers a connection may meet
  MaxChanges,       \* bound: changes of the server's contents
  MaxTransients     \* bound: transient failures of the probes

\* What a catalog holds for the calls' arguments: a schema, the exact table,
\* a table whose name only matches the argument read as a filter pattern.
Object == {"schema", "exact", "alike"}

\* The exceptions of an RPC as the handlers tell them apart: NotImplemented;
\* unavailable, timed out, cancelled; internal or unknown; any other
\* FlightError or ArrowInvalid; and what no handler catches (ArrowKeyError,
\* ArrowTypeError, DataError).
Failure == {"unimplemented", "unavailable", "internal", "denied", "uncaught"}

ServerType ==
  [listed     : SUBSET Catalog,             \* what GetCatalogs names
   default    : Catalog,                    \* where unqualified SQL runs
   reports    : BOOLEAN,                    \* df_settings can be read
   scopedOnly : BOOLEAN,                    \* an unscoped request finds nothing
   includes   : BOOLEAN,                    \* answers include_schema requests
   fails      : SUBSET Failure,             \* what its RPCs may end in
   holds      : [Catalog -> SUBSET Object]]

ASSUME ConstantsAssumption ==
  /\ None \notin Catalog /\ Undecided \notin Catalog /\ None # Undecided
  /\ MaxChanges \in Nat /\ MaxTransients \in Nat

\* A server that lists one catalog runs unqualified SQL in that catalog.
ASSUME ServersAssumption ==
  /\ Servers \subseteq ServerType
  /\ \A s \in Servers, c \in Catalog : s.listed = {c} => s.default = c

Op == {"schemas", "tables", "bulk", "table", "keys"}
Probing == {"probeSchemas", "probeCatalogs", "probeDefault"}
PC == {"idle", "request", "retry", "keys"} \cup Probing

VARIABLES
  server,       \* the server as it is now
  changes,      \* how often it has changed
  transients,   \* how many transient failures probes have met
  catalog,      \* Connection.catalog, the configured one
  resolved,     \* Connection._resolved_catalog
  op,           \* the current or last metadata call
  pc,           \* what the call is about to do
  include,      \* the pending GetTables asks for schemas
  catalogs,     \* _catalog_fallback's local list, for the settings query
  reply,        \* the result of the call
  sent,         \* RPCs of this call so far
  knew          \* the scope was already fixed when the call began

env  == <<server, changes>>
conn == <<catalog, resolved>>
call == <<op, include, catalogs>>
vars == <<server, changes, transients, catalog, resolved, op, pc, include,
          catalogs, reply, sent, knew>>

NoReply      == [status |-> "none", rows |-> {}, described |-> FALSE]
Raised       == [status |-> "raised", rows |-> {}, described |-> FALSE]
Answer(r, d) == [status |-> "answered", rows |-> r, described |-> d]

Init ==
  /\ server \in Servers
  /\ changes = 0 /\ transients = 0
  /\ catalog \in Catalog \cup {None}
  /\ resolved = Undecided
  /\ op = "schemas" /\ pc = "idle" /\ include = FALSE /\ catalogs = {}
  /\ reply = NoReply
  /\ sent = 0 /\ knew = FALSE

-----------------------------------------------------------------------------
(* The server *)

Visible(scope) == IF scope # None THEN {scope}
                  ELSE IF server.scopedOnly THEN {} ELSE Catalog

Holding(scope, wanted) ==
  {r \in Catalog \X Object :
     /\ r[1] \in Visible(scope)
     /\ r[2] \in server.holds[r[1]] \cap wanted}

\* The rows the primary request of the call finds under a scope.
Rows(scope) ==
  IF op = "schemas" THEN Holding(scope, {"schema"})
  ELSE IF include /\ ~server.includes THEN {}
  ELSE Holding(scope, {"exact", "alike"})

\* Catalogs, schemas and tables come and go; what the server can do stays.
ServerChange ==
  /\ changes < MaxChanges
  /\ server' \in {s \in Servers : /\ s.fails = server.fails
                                  /\ s.reports = server.reports
                                  /\ s.scopedOnly = server.scopedOnly
                                  /\ s.includes = server.includes
                                  /\ s # server}
  /\ changes' = changes + 1
  /\ UNCHANGED <<transients, catalog, resolved, op, pc, include, catalogs,
                 reply, sent, knew>>

-----------------------------------------------------------------------------
(* The connection *)

MetadataCatalogUnused == catalog
MetadataCatalog == IF catalog # None THEN catalog
                   ELSE IF resolved # Undecided THEN resolved
                   ELSE None

\* The first test of _catalog_fallback.
CanFallBackAgain == catalog = None
CanFallBack == catalog = None /\ resolved = Undecided

\* The failures after which a probe leaves the outcome undecided.
Transient(probe) == IF probe = "probeDefault" THEN {"unavailable"}
                    ELSE {"unavailable", "internal"}

\* The failures a probe's handler catches.
Caught(probe) == Failure \ {"uncaught"}

\* The value of the df_settings query, if the catalogs read before list it.
DefaultCatalogGuess(values) == CHOOSE c \in catalogs : TRUE
DefaultCatalog(values) ==
  IF \E v \in values : values = {v} /\ v \in catalogs
  THEN CHOOSE v \in values : TRUE ELSE None

\* The count of a call's RPCs stops at SentCap, above every budget.
SentCap == 10
Send == sent' = IF sent < SentCap THEN sent + 1 ELSE sent

Begin(o) ==
  /\ pc = "idle"
  /\ op' = o
  /\ pc' = IF o = "keys" THEN "keys" ELSE "request"
  /\ include' = (o \in {"bulk", "table"})
  /\ reply' = NoReply
  /\ sent' = 0
  /\ knew' = (catalog # None \/ resolved # Undecided)
  /\ UNCHANGED <<env, transients, conn, catalogs>>

Return(r) == pc' = "idle" /\ reply' = r /\ UNCHANGED <<op, include>> /\ catalogs' = {}

\* The request and its fallback have ended with these rows.  An empty answer
\* with schemas is followed by a request for names only, of which the probe
\* of one table keeps the exact name.
NamesRequestAgain == /\ include' = (op = "table") /\ pc' = "request" /\ catalogs' = {}
                     /\ UNCHANGED <<op, reply>>
NamesRequest == /\ include' = FALSE /\ pc' = "request" /\ catalogs' = {}
                /\ UNCHANGED <<op, reply>>
SettleAtOnce(rows) == Return(Answer(rows, include))
Settle(rows) ==
  \/ include /\ rows = {} /\ NamesRequest
  \/ /\ include /\ rows # {}
     /\ Return(Answer(rows, TRUE))
  \/ /\ ~include
     /\ Return(Answer(IF op = "table" THEN {r \in rows : r[2] = "exact"} ELSE rows, FALSE))

\* An empty unscoped GetDbSchemas is evidence already; an empty answer to a
\* filtered request is not.
FirstProbeShort == "probeCatalogs"
FirstProbe == IF op = "schemas" THEN "probeCatalogs" ELSE "probeSchemas"

\* The primary request of a call, unscoped or scoped, and the scoped retry.
Ask ==
  LET rows == Rows(MetadataCatalog) IN
  /\ pc \in {"request", "retry"}
  /\ Send
  /\ \/ /\ rows = {} /\ pc = "request" /\ CanFallBack
        /\ pc' = FirstProbe
        /\ UNCHANGED <<call, reply>>
     \/ /\ rows # {} \/ pc = "retry" \/ ~CanFallBack
        /\ Settle(rows)
  /\ UNCHANGED <<env, transients, conn, knew>>

AskFails ==
  /\ pc \in {"request", "retry", "keys"}
  /\ server.fails # {}
  /\ Send
  /\ Return(Raised)
  /\ UNCHANGED <<env, transients, conn, knew>>

\* _resolved_catalog = (c,): retry scoped, or keep the empty answer.
DecideNoRetry(c) == resolved' = c /\ UNCHANGED catalog /\ Settle({})
DecideForget(c) ==
  /\ resolved' = IF c = None THEN resolved ELSE c
  /\ UNCHANGED catalog
  /\ \/ c # None /\ pc' = "retry" /\ catalogs' = {} /\ UNCHANGED <<op, include, reply>>
     \/ c = None /\ Settle({})
Decide(c) ==
  /\ resolved' = c
  /\ UNCHANGED catalog
  /\ \/ c # None /\ pc' = "retry" /\ catalogs' = {} /\ UNCHANGED <<op, include, reply>>
     \/ c = None /\ Settle({})

ProbeSchemas ==
  /\ pc = "probeSchemas"
  /\ Send
  /\ \/ Holding(None, {"schema"}) # {} /\ Decide(None)
     \/ /\ Holding(None, {"schema"}) = {} \/ "unimplemented" \in server.fails
        /\ pc' = "probeCatalogs"
        /\ UNCHANGED <<conn, call, reply>>
  /\ UNCHANGED <<env, transients, knew>>

ProbeCatalogs ==
  /\ pc = "probeCatalogs"
  /\ Send
  /\ \/ \E c \in server.listed : server.listed = {c} /\ Decide(c)
     \/ server.listed = {} /\ Decide(None)
     \/ /\ \E c, d \in server.listed : c # d
        /\ pc' = "probeDefault" /\ catalogs' = server.listed
        /\ UNCHANGED <<conn, op, include, reply>>
  /\ UNCHANGED <<env, transients, knew>>

ProbeDefault ==
  /\ pc = "probeDefault"
  /\ Send
  /\ Decide(DefaultCatalog(IF server.reports THEN {server.default} ELSE {}))
  /\ UNCHANGED <<env, transients, knew>>

\* _catalog_probe_failed: the empty answer is kept; the outcome is cached
\* unless the failure is transient.
ProbeFailsTransiently ==
  /\ pc \in Probing
  /\ server.fails \cap Transient(pc) \cap Caught(pc) # {}
  /\ transients < MaxTransients
  /\ transients' = transients + 1
  /\ Send
  /\ Settle({})
  /\ UNCHANGED <<env, conn, knew>>

ProbeFailsForGood ==
  /\ pc \in Probing
  /\ \E kind \in (server.fails \cap Caught(pc)) \ Transient(pc) :
       ~(pc = "probeSchemas" /\ kind = "unimplemented")
  /\ Send
  /\ Decide(None)
  /\ UNCHANGED <<env, transients, knew>>

ProbeRaises ==
  /\ pc \in Probing
  /\ server.fails \ Caught(pc) # {}
  /\ Send
  /\ Return(Raised)
  /\ UNCHANGED <<env, transients, conn, knew>>

\* flightsql_get_primary_keys and flightsql_get_foreign_keys: a TableRef of
\* table and schema, no catalog.
AskKeys ==
  /\ pc = "keys"
  /\ Send
  /\ Return(Answer({}, FALSE))
  /\ UNCHANGED <<env, transients, conn, knew>>

Step == \/ Ask \/ AskFails \/ AskKeys
        \/ ProbeSchemas \/ ProbeCatalogs \/ ProbeDefault
        \/ ProbeFailsTransiently \/ ProbeFailsForGood \/ ProbeRaises

Next == Step \/ ServerChange \/ \E o \in Op : Begin(o)

Spec == Init /\ [][Next]_vars

\* A call runs to its end: every RPC returns or raises.
FairSpec == Spec /\ WF_vars(Step)

-----------------------------------------------------------------------------
(* Properties *)

\* Every variable keeps its type: in particular an RPC carries a catalog or
\* none, never the mark of an undecided connection.
TypeOK ==
  /\ server \in Servers
  /\ changes \in 0..MaxChanges
  /\ transients \in 0..MaxTransients
  /\ catalog \in Catalog \cup {None}
  /\ resolved \in Catalog \cup {None, Undecided}
  /\ op \in Op /\ pc \in PC /\ include \in BOOLEAN
  /\ catalogs \subseteq Catalog
  /\ reply \in [status : {"none", "raised", "answered"},
                rows : SUBSET (Catalog \X Object), described : BOOLEAN]
  /\ sent \in 0..SentCap
  /\ knew \in BOOLEAN

Origins == {r[1] : r \in reply.rows}
Scope == IF catalog # None THEN catalog ELSE resolved

\* A connection with a scope, configured or decided, answers with rows of that
\* catalog only, however the server changes and whichever RPCs fail.
AnswersWithinScope == Scope \in Catalog => Origins \subseteq {Scope}

\* Discovery runs only on a connection that has neither a configured nor a
\* decided catalog, and a scoped retry follows a decision for a catalog.
DiscoveryInv ==
  /\ pc \in Probing => catalog = None /\ resolved = Undecided
  /\ pc = "retry" => catalog = None /\ resolved \in Catalog
  /\ pc # "idle" => reply = NoReply
  /\ resolved # Undecided => catalog = None
  /\ AnswersWithinScope

\* The connection keeps the promise of MetadataScope: its scope is decided at
\* most once, within a call, and its answers stay within the scope.
Promise == INSTANCE MetadataScope
             WITH scope <- Scope, calling <- pc # "idle", origins <- Origins
KeepsPromise == Promise!Spec

\* ... and every call returns, also when every RPC fails.
KeepsLivePromise == Promise!LiveSpec

\* A catalog is chosen only if unqualified SQL runs in it at that moment, even
\* when the server has changed between the probes: never a guess among several.
ChoosesExecutionDefault ==
  [][(resolved' # resolved /\ resolved' \in Catalog) => resolved' = server.default]_vars

\* "Failures in the advisory fallback probes (including their streams) preserve
\* the successful empty response" (MAINTENANCE.md): no probe turns the empty
\* answer of the request into an exception.  ProbeRaises is the step that does, so
\* this fails for a server with failures the handlers do not name.
ProbeFailureIsSilent == [][(pc \in Probing) => reply' # Raised]_vars

\* RPCs a call makes of its own, and at most with discovery, which the names
\* request of bulk and table may repeat after a transient failure.
OwnRpcs(o) == IF o \in {"bulk", "table"} THEN 2 ELSE 1
RpcBudget == sent <= IF knew THEN OwnRpcs(op) ELSE 4 * OwnRpcs(op) + 1

\* As long as the server is as it was, one that implements GetDbSchemas, answers
\* unscoped requests and has a schema is never scoped, however often a filtered
\* request finds nothing and whatever else fails.
NeverScopesCompliant ==
  changes = 0 /\ "unimplemented" \notin server.fails /\ ~server.scopedOnly
    /\ (\E c \in Catalog : "schema" \in server.holds[c])
    => resolved \notin Catalog

\* The server has not changed and no probe has failed transiently so far.
Undisturbed == changes = 0 /\ transients = 0

\* Where a call ought to look: the configured catalog; every catalog of a
\* server that answers unscoped; else the one listed or the reported default.
Sought ==
  CASE catalog # None -> {catalog}
    [] catalog = None /\ ~server.scopedOnly -> Catalog
    [] OTHER -> {c \in server.listed : \/ server.listed = {c}
                                       \/ server.reports /\ server.default = c}

\* Without failures and changes a call answers with exactly the rows of the
\* catalogs it ought to look in: discovery hides nothing and adds nothing.
AnswersComplete ==
  LET wanted == IF op = "schemas" THEN {"schema"}
                ELSE IF op = "table" /\ ~server.includes THEN {"exact"}
                ELSE {"exact", "alike"}
  IN Undisturbed /\ server.fails = {} /\ reply.status = "answered" /\ op # "keys"
       => reply.rows = {r \in Sought \X wanted : r[2] \in server.holds[r[1]]}

\* "a names-only request distinguishes a stale bulk row from a server that
\* returns zero rows whenever include_schema is requested" (dbapi.py): a table is
\* reported without its schema only by a server that does not answer
\* include_schema requests ...
NamesOnlyTruthful ==
  reply.status = "answered" /\ op \in {"bulk", "table"} /\ reply.rows # {}
    => (reply.described <=> server.includes)

\* ... which holds as long as the server is as it was and no probe has failed
\* transiently, whatever fails for good.
NamesTruthfulUndisturbed == Undisturbed => NamesOnlyTruthful

\* When transient failures cease, discovery is tried finitely often: its
\* outcome, the unresolved one included, is remembered.  (An exception that no
\* handler names leaves it undecided for ever, and raises each time.)
DiscoverySettles ==
  []("uncaught" \notin server.fails) => <>[](pc \notin Probing)

=============================================================================
