--------------------------- MODULE ReflectionCache ---------------------------
(***************************************************************************)
(* One SQLAlchemy Inspector over a Flight SQL dialect                      *)
(* (flightsql/sqlalchemy.py): the answers of has_table, get_table_names,   *)
(* get_view_names and get_columns, and the entries the dialect keeps in    *)
(* the inspector's info_cache while it reads them.  One bulk request fills *)
(* the columns of many tables; the names it does not describe are probed   *)
(* one by one.  Tables may be created, altered and dropped between any two *)
(* requests, and any request may fail.                                     *)
(*                                                                         *)
(* The metadata calls are those of CatalogDiscovery, here reduced to what  *)
(* they report of a table.  An inspector is used by one thread.            *)
(***************************************************************************)
EXTENDS Naturals

CONSTANTS Schema, Table,
          Version,      \* the column lists a table may have
          Adapters,     \* the DB API connections the dialect may be given
          MaxChanges    \* bound: changes of the tables

Id == Schema \X Table

Reported == {"absent", "hidden"} \cup Version

\* What a column cache entry says; "none" is the lack of an entry.
Entry == {"none", "missing", "unreflectable"} \cup Version

ASSUME VersionAssumption ==
  /\ Version \cap {"absent", "hidden", "none", "missing", "unreflectable"} = {}
  /\ Version \cap {"failed", "noSuchTable", "yes", "no", "listed"} = {}
\* A DB API connection answers a bulk request with a TableMetadataResult, with
\* the earlier dictionary of described tables, or with None, and may lack the
\* richer probe of one table.
Adapter == [bulk : {"result", "dictionary", "nothing"}, probes : BOOLEAN]
ASSUME AdaptersAssumption == Adapters \subseteq Adapter
ASSUME BoundAssumption == MaxChanges \in Nat

NoNames == [known |-> FALSE, names |-> {}, views |-> {}]
Names(n, v) == [known |-> TRUE, names |-> n, views |-> v]
NamesType == [known : BOOLEAN, names : SUBSET Table, views : SUBSET Table]

Op == {"hasTable", "tableNames", "viewNames", "columns"}
Result == {"none", "failed", "noSuchTable", "unreflectable", "yes", "no", "listed"} \cup Version

VARIABLES
  adapter,      \* the DB API connection
  world,        \* what the metadata calls report of each table
  changes,      \* how often that has changed
  columns,      \* info_cache: the dialect's column entries
  relations,    \* info_cache: the dialect's (names, table types) per schema
  gotColumns,   \* info_cache: the cached answers of get_columns
  gotHas,       \*             of has_table
  gotTables,    \*             of get_table_names
  gotViews,     \*             of get_view_names
  op, at, pc,   \* the call, its schema and table, its next request
  todo,         \* unresolved names still to probe
  found,        \* names and views gathered so far
  reply,        \* the result of the call
  ever          \* history: what was reported of each table so far

cache == <<columns, relations>>
got   == <<gotColumns, gotHas, gotTables, gotViews>>
env   == <<adapter, world, changes, ever>>
local == <<op, at, pc, todo, found, reply>>
vars  == <<adapter, world, changes, columns, relations, gotColumns, gotHas,
           gotTables, gotViews, op, at, pc, todo, found, reply, ever>>

Init ==
  /\ adapter \in Adapters
  /\ world \in [Id -> Reported]
  /\ changes = 0
  /\ columns = [i \in Id |-> "none"]
  /\ relations = [s \in Schema |-> NoNames]
  /\ gotColumns = [i \in Id |-> "none"]
  /\ gotHas = [i \in Id |-> "none"]
  /\ gotTables = [s \in Schema |-> NoNames]
  /\ gotViews = [s \in Schema |-> NoNames]
  /\ op = "columns" /\ at \in Id /\ pc = "idle" /\ reply = "none"
  /\ todo = {} /\ found = NoNames
  /\ ever = [i \in Id |-> {world[i]}]

\* Somebody creates, alters, drops or hides a table.
Change(i, r) ==
  /\ changes < MaxChanges
  /\ r # world[i]
  /\ world' = [world EXCEPT ![i] = r]
  /\ changes' = changes + 1
  /\ ever' = [ever EXCEPT ![i] = @ \cup {r}]
  /\ UNCHANGED <<adapter, cache, got, local>>

-----------------------------------------------------------------------------
(* Column entries *)

\* _column_cache_key: schema and table.
Keys(i) == {i}

Store(entries) ==
  [j \in Id |-> IF \E i \in DOMAIN entries : j \in Keys(i)
                THEN entries[CHOOSE i \in DOMAIN entries : j \in Keys(i)]
                ELSE columns[j]]

ProbeAnswerBare(i) == IF world[i] \in Version THEN world[i] ELSE "missing"
\* _probe_table_columns: what the filtered request says of a table.  Without
\* the richer probe, no columns are the sign of a missing table.
ProbeAnswer(i) == CASE world[i] = "absent"   -> "missing"
                    [] world[i] = "hidden"   -> IF adapter.probes THEN "unreflectable" ELSE "missing"
                    [] world[i] \in Version  -> world[i]

Reply(r) == pc' = "idle" /\ reply' = r /\ todo' = {} /\ found' = NoNames /\ UNCHANGED <<op, at>>

\* _columns_from_cache_entry; a success is cached by @reflection.cache.
AnswerColumns(entry) ==
  /\ Reply(IF entry = "missing" THEN "noSuchTable" ELSE entry)
  /\ gotColumns' = IF entry \in Version THEN [gotColumns EXCEPT ![at] = entry] ELSE gotColumns
  /\ UNCHANGED <<gotHas, gotTables, gotViews>>

-----------------------------------------------------------------------------
(* Relation names *)

\* has_table, get_table_names and get_view_names over (names, views).
AnswerNames(n) ==
  /\ Reply(IF op = "hasTable" THEN (IF at[2] \in n.names THEN "yes" ELSE "no") ELSE "listed")
  /\ gotHas' = IF op = "hasTable"
               THEN [gotHas EXCEPT ![at] = IF at[2] \in n.names THEN "yes" ELSE "no"] ELSE gotHas
  /\ gotTables' = IF op = "tableNames"
                  THEN [gotTables EXCEPT ![at[1]] = Names(n.names \ n.views, {})] ELSE gotTables
  /\ gotViews' = IF op = "viewNames"
                 THEN [gotViews EXCEPT ![at[1]] = Names(n.names \cap n.views, {})] ELSE gotViews
  /\ UNCHANGED gotColumns

\* _relation_names: the first result is kept for the schema.
RememberNot(n) == UNCHANGED relations
Remember(n) == relations' = [relations EXCEPT ![at[1]] = n]

FinishNames(n) == Remember(n) /\ AnswerNames(n)

-----------------------------------------------------------------------------
(* Calls *)

\* @reflection.cache has an answer of this method for these arguments.
Answered(o, i) ==
  CASE o = "columns"    -> gotColumns[i] # "none"
    [] o = "hasTable"   -> gotHas[i] # "none"
    [] o = "tableNames" -> gotTables[i[1]].known
    [] o = "viewNames"  -> gotViews[i[1]].known

CachedReply(o, i) == CASE o = "columns"  -> gotColumns[i]
                       [] o = "hasTable" -> gotHas[i]
                       [] o \in {"tableNames", "viewNames"} -> "listed"

Begin(o, i) ==
  /\ pc = "idle"
  /\ op' = o /\ at' = i
  /\ \/ /\ Answered(o, i)
        /\ reply' = CachedReply(o, i)
        /\ pc' = "idle"
     \/ /\ ~Answered(o, i)
        /\ reply' = "none"
        /\ pc' = IF o = "columns" THEN "columns" ELSE "names"
  /\ UNCHANGED <<env, cache, got, todo, found>>

ColumnsFromCache ==
  /\ pc = "columns" /\ columns[at] # "none"
  /\ AnswerColumns(columns[at])
  /\ UNCHANGED <<env, cache>>

ColumnsProbe ==
  /\ pc = "columns" /\ columns[at] = "none"
  /\ columns' = Store([i \in {at} |-> ProbeAnswer(i)])
  /\ AnswerColumns(ProbeAnswer(at))
  /\ UNCHANGED <<env, relations>>

NamesFromCache ==
  /\ pc = "names" /\ relations[at[1]].known
  /\ AnswerNames(relations[at[1]])
  /\ UNCHANGED <<env, cache>>

\* flightsql_get_table_metadata: the names, with columns for some of those
\* reported; a name that is gone may still be listed, without columns.  Views
\* are told from tables when the server reports table types.  A dictionary
\* names what it describes; after None the names are asked for alone.
Bulk ==
  /\ pc = "names" /\ ~relations[at[1]].known
  /\ LET s == at[1]
         Is(R) == {t \in Table : world[<<s, t>>] \in R}
     IN \E stale \in SUBSET Is({"absent"}), described \in SUBSET Is(Version), v \in SUBSET Table :
          LET unresolved == IF adapter.bulk = "dictionary" THEN {}
                            ELSE (Is({"hidden"} \cup Version) \ described) \cup stale IN
          /\ adapter.bulk = "nothing" => described = {}
          /\ adapter.bulk # "result" => v = {}
          /\ columns' = Store([i \in {s} \X described |-> world[i]])
          /\ \/ /\ unresolved = {}
                /\ FinishNames(Names(described, v))
             \/ /\ unresolved # {}
                /\ pc' = "probes" /\ todo' = unresolved /\ found' = Names(described, v)
                /\ UNCHANGED <<relations, got, op, at, reply>>
  /\ UNCHANGED env

\* One unresolved name: a missing table is a stale row and left out.
VisibleAll(entry) == TRUE
Visible(entry) == entry # "missing"

\* What the loop stores of a probed name.
StoreProbedNot(i) == UNCHANGED columns
StoreProbed(i) == columns' = Store([j \in {i} |-> ProbeAnswer(j)])

ProbeNext ==
  /\ pc = "probes"
  /\ \E t \in todo :
       LET i == <<at[1], t>>
           n == IF Visible(ProbeAnswer(i))
                THEN Names(found.names \cup {t}, found.views) ELSE found
       IN /\ StoreProbed(i)
          /\ \/ /\ todo = {t}
                /\ FinishNames(n)
             \/ /\ todo # {t}
                /\ todo' = todo \ {t} /\ found' = n
                /\ UNCHANGED <<relations, got, op, at, pc, reply>>
  /\ UNCHANGED env

\* A request raises; what was stored on the way stays.
RequestFails ==
  /\ \/ pc = "columns" /\ columns[at] = "none"
     \/ pc = "names" /\ ~relations[at[1]].known
     \/ pc = "probes"
  /\ Reply("failed")
  /\ UNCHANGED <<env, cache, got>>

Step == ColumnsFromCache \/ ColumnsProbe \/ NamesFromCache \/ Bulk \/ ProbeNext \/ RequestFails

Next == \/ Step
        \/ \E o \in Op, i \in Id : Begin(o, i)
        \/ \E i \in Id, r \in Reported : Change(i, r)

Spec == Init /\ [][Next]_vars

-----------------------------------------------------------------------------
(* Properties *)

TypeOK ==
  /\ adapter \in Adapter
  /\ world \in [Id -> Reported]
  /\ changes \in 0..MaxChanges
  /\ columns \in [Id -> Entry]
  /\ relations \in [Schema -> NamesType]
  /\ gotColumns \in [Id -> {"none"} \cup Version]
  /\ gotHas \in [Id -> {"none", "yes", "no"}]
  /\ gotTables \in [Schema -> NamesType] /\ gotViews \in [Schema -> NamesType]
  /\ op \in Op /\ at \in Id /\ pc \in {"idle", "columns", "names", "probes"}
  /\ todo \subseteq Table /\ found \in NamesType
  /\ reply \in Result
  /\ ever \in [Id -> SUBSET Reported]

Seen(i) == columns[i] \notin {"none", "missing"}

\* A name the inspector shows has a column entry that is not "missing", also
\* when an earlier get_columns found the table missing, when it is dropped
\* between the bulk request and a probe, or when a request fails on the way.
VisibleIsReflectable ==
  \A s \in Schema, t \in Table :
    t \in relations[s].names => Seen(<<s, t>>)

\* The loop keeps that of the names it has gathered.
GatheredIsReflectable ==
  pc = "probes" => \A t \in found.names : Seen(<<at[1], t>>)

\* The answers kept for a schema come from its one relations entry.
AnswersFollow ==
  \A s \in Schema :
    /\ \A t \in Table : gotHas[<<s, t>>] # "none" =>
         /\ relations[s].known
         /\ gotHas[<<s, t>>] = "yes" <=> t \in relations[s].names
    /\ gotTables[s].known =>
         relations[s].known /\ gotTables[s].names = relations[s].names \ relations[s].views
    /\ gotViews[s].known =>
         relations[s].known /\ gotViews[s].names = relations[s].names \cap relations[s].views

\* The loop runs only for a schema without a relations entry, over names it has
\* not gathered.
Phases ==
  /\ pc = "columns" => op = "columns"
  /\ pc \in {"names", "probes"} => op # "columns"
  /\ pc = "probes" => ~relations[at[1]].known /\ todo \cap found.names = {} /\ found.known
  /\ \A s \in Schema : ~relations[s].known => relations[s].names = {}

CacheInv == VisibleIsReflectable /\ GatheredIsReflectable /\ AnswersFollow /\ Phases

\* After has_table said yes, get_columns of the table never raises
\* NoSuchTableError in the same inspector: it has columns or says that the
\* table is not reflectable.
ShownIsNeverMissing ==
  [][(reply' = "noSuchTable" /\ reply # reply') => gotHas[at'] # "yes"]_vars

\* Tables and views of a schema are disjoint, and together they are what
\* has_table answers yes to, whichever was asked first and whatever changed
\* in between.
ReadsAgree ==
  \A s \in Schema : LET tables == gotTables[s].names  views == gotViews[s].names IN
    gotTables[s].known /\ gotViews[s].known =>
      /\ tables \cap views = {}
      /\ \A t \in Table : gotHas[<<s, t>>] # "none" =>
           (gotHas[<<s, t>>] = "yes" <=> t \in tables \cup views)

\* Every entry was true of its own table, in its own schema, at some moment;
\* only where no richer probe exists may a table without columns count as missing.
EntriesWereTrue ==
  \A i \in Id :
    /\ columns[i] = "missing" => \/ "absent" \in ever[i]
                                 \/ ~adapter.probes /\ "hidden" \in ever[i]
    /\ columns[i] = "unreflectable" => "hidden" \in ever[i]
    /\ columns[i] \in Version => columns[i] \in ever[i]

\* A name is shown only if the table existed at some moment: stale rows of
\* the bulk answer are left out.
ShownExisted ==
  \A s \in Schema, t \in Table : t \in relations[s].names => ever[<<s, t>>] # {"absent"}

\* What the caches say was once reported: entries, names shown, names gathered.
Existed(i) == \E r \in ever[i] : r # "absent"
HistoryInv ==
  /\ \A i \in Id : world[i] \in ever[i]
  /\ EntriesWereTrue
  /\ \A s \in Schema : \A t \in relations[s].names : Existed(<<s, t>>)
  /\ pc = "probes" => \A t \in found.names : Existed(<<at[1], t>>)
=============================================================================
