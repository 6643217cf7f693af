# Verification of flightsql-dbapi

TLA+ models of the Flight SQL DB API driver, of its SQLAlchemy dialects and of
the pipeline that releases them, model checked with TLC and, where section 5
says so, proved with TLAPS for every value of the constants. Paths and line
numbers refer to the repository; `dbapi.py`, `sqlalchemy.py`, `client.py` and
`provenance.py` are the files under `flightsql/`.

## 1. Inventory

The program is a library in three layers. SQLAlchemy calls the **dialect**,
which asks the **connection** for metadata and hands statements to **cursors**;
both send RPCs through the **client** to a Flight SQL server that other clients
change at the same time. Nothing is persisted by the library. Beside it stand
the **release pipeline**, whose builds share one bucket, and the **provenance
verifier**, which reads an installation.

| Component | State | Operations | Modelled by |
|---|---|---|---|
| Catalog discovery and metadata calls (`dbapi.py` 21-47, 154-162, 201-397) | configured catalog, cached resolved catalog, the catalogs listed during a probe | schema names, table names, bulk metadata, metadata of one table, primary and foreign keys | `CatalogDiscovery`, promising `MetadataScope` |
| Table metadata parsing (`dbapi.py` 33-47, 399-533) | none outside one call: rows, decoded schemas, invalid names | endpoints to rows, rows to columns and types, the support claim | `TableMetadata` |
| SQLAlchemy reflection (`sqlalchemy.py` 248-420) | the inspector's `info_cache`: column entries, relations entries, answers | `has_table`, `get_table_names`, `get_view_names`, `get_columns`, over the driver or an earlier adapter | `ReflectionCache` |
| Cursors, connection, prepared statements (`dbapi.py` 50-199, `client.py` 51-107, 249-427) | closed flags, rows, description, statement handle; on the server handles and bound parameters | `execute`, `executemany`, `fetch*`, iteration, `close`, `cursor` | `CursorSession` |
| Release pipeline (`Jenkinsfile`, `scripts/verify-stored-wheel`) | per build: stage, name, wheel, record; shared: the bucket | every stage; head, conditional put, read back, archive | `PublishPipeline`, promising `WriteOnceIndex` |
| Provenance verifier (`provenance.py`, `scripts/verify-installed-provenance`) | per run: files checked, what is read of `direct_url.json`, the verdict | request, selection, RECORD, walk of two trees, identity, source | `InstalledProvenance` |
| Dialect initialisation (`sqlalchemy.py` 216-246, 533-614) | capabilities, compiler, quote character: one object for all connections of an engine | `initialize`, `create_connect_args`, `is_disconnect` | `EngineDialect` |
| Degraded-reflection warning (`sqlalchemy.py` 374-391) | the set of schemas warned about, shared by threads | warn once per schema | `EngineDialect` |
| Parameter records (`dbapi.py` 888-984) | none outside one call: the record so far | binding by the reported schema or as legacy unions, `$n` names | `ParameterBinding` |
| Arrow values (`dbapi.py` 549-700) | none outside one call: the chunks so far | truncation of nanosecond values in nested arrays | `TemporalValues` |
| Client options, envelopes (`client.py` 110-248, 272-410) | options | protobuf and Arrow calls | not modelled: encodings |
| Loader hook, compilers (`sqlalchemy.py` 186-214, 422-526) | none after class creation | rebinding, text generation | not modelled: no state, properties about text |
| Linters, generated protocol, sample server, tests | none | - | not modelled |

What makes each of them correct, and what makes that hard:

* **Discovery.** An unscoped request that comes back empty may mean "nothing
  there" or "this server answers only for a named catalog". Up to three
  advisory RPCs decide, the outcome is cached for the life of the connection
  and the request is repeated. Between any two RPCs the server may change and
  any RPC may fail, with five kinds of failure that three handlers treat
  differently. The scope must be decided once; answers must stay within it; a
  catalog must never be guessed; an advisory failure must never replace a good
  answer; and every call must return.
* **Parsing.** One table may be reported by several rows, from several
  endpoints and schemas, some without or with broken columns. No order of rows
  may change which names are described, nobody's columns may end up under
  another name, and the claim "complete" decides whether probes are sent.
* **Reflection.** Four methods of one inspector fill and read one cache while
  tables come and go and a loop of probes may be cut short. What is shown must
  have a column entry, and the methods must not contradict each other.
* **Cursors.** A prepared statement's handle may change with each put; any
  request may fail or lose its answer in the middle of `executemany`. An
  iterator shares the cursor's list of rows until a fetch replaces it.
* **The engine.** One dialect object serves all threads. The first connect
  initialises it and may fail half way; the next attempt, of another thread,
  may meet another server. Later the threads test and extend a shared set
  without a lock.
* **Parameters and values.** A server may report the fields of a statement in
  any order and with any names and types; a number must arrive exactly or not
  at all. A column is a window into shared buffers at every level of nesting,
  and each level has its own rule for where its children begin.
* **Releases.** Builds overlap; the check before the write is not atomic; an
  object may be stored and its answer lost.
* **Provenance.** A chain of checks over two trees that are listed in no
  particular order. A verdict must rest on all of them, no claim of the
  installer may be read before it is covered by RECORD, and a failure of the
  environment must not look like a mismatch.

`PROJECT.json` lists the hazards line by line with the properties aimed at
them.

## 2. The modules

### MetadataScope and CatalogDiscovery

`MetadataScope` is the promise: a scope that is fixed at the start or decided
at most once, during a call, and answers with rows of the scope only.
`CatalogDiscovery` is the code. A step is one RPC with the code up to the next
one; `pc` names the RPC that comes next.

| Code | Model |
|---|---|
| `Connection.catalog`, `_resolved_catalog` (`None`, `(None,)`, `(name,)`) | `catalog`; `resolved` = `Undecided`, `None`, a catalog |
| `_metadata_catalog` | `MetadataCatalog` |
| a call of `flightsql_get_*` | `Begin(op)`; `Ask` is its request, scoped or not, and the retry |
| `_catalog_fallback`: its first test, its three probes, its assignment | `CanFallBack`; `ProbeSchemas`, `ProbeCatalogs`, `ProbeDefault`; `Decide` |
| `_catalog_probe_failed` with and without a transient error | `ProbeFailsTransiently`, `ProbeFailsForGood` |
| an exception no handler names | `ProbeRaises` |
| the names-only request after an empty include-schema answer | `Settle`, `NamesRequest` |
| `flightsql_get_primary_keys`, `_foreign_keys` | `AskKeys`: it carries no catalog |

The server is external: the catalogs it lists, its execution default, whether
it reports that default, whether it answers unscoped requests and include-schema
requests, and what each catalog holds. Rows are pairs of catalog and object, of
which a model tells three apart: a schema, the exact table, a table that
matches the argument only as a pattern.

### TableMetadata

From the endpoints of one `GetTables` answer to a `TableMetadataResult`:
`Collect` is the loop that keeps rows of the requested schema and sets table
types, `StartParse` computes the names that several schemas report, `ParseRow`
decodes one `table_schema`, `Finish` builds the three results. A cell is what
decoding it does: absent column, null, corrupt, an exception the handler does
not name, or a column list. An endpoint carries at most one row, because the
code concatenates the rows of all endpoints; so the model reaches every
sequence of rows up to its bound.

### ReflectionCache

One inspector. `columns` and `relations` are the entries the dialect itself
puts in `info_cache`; `gotColumns`, `gotHas`, `gotTables`, `gotViews` are the
answers that SQLAlchemy's `reflection.cache` keeps. `Bulk` is
`flightsql_get_table_metadata`: any subset of the existing tables may come
described, hidden tables come without columns, dropped ones may still be
listed. `ProbeNext` is one turn of the loop of `_relation_names_uncached`;
`RequestFails` ends a call and keeps what was stored. `adapter` is the DB API
connection: the driver, or an earlier adapter that answers a bulk request with
a dictionary or with `None`, or that lacks the richer probe. `Change` is somebody else
creating, altering, hiding or dropping a table between two requests. What the
metadata calls report of one table is the abstraction of `CatalogDiscovery` and
`TableMetadata` that the dialect sees.

### CursorSession

The cursors of one connection. `Begin` clears the cursor; `Prepare`, `Bind`,
`Info`, `Get`, `CloseStatement` are the RPCs of a call in the order of
`client.py` 51-107; `Fail` ends any of them, with the server having done its
part or not (`Unanswered`). A server binds parameters to the handle or answers
a put with a new handle (`rebinds`). Rows carry the number of the call they
come from. `FetchOne` takes a row from the cursor's list in place, `FetchMany`
gives the cursor a new list; `Iterate` makes an iterator over the list of that
moment and `NextRow` advances it, so `iter` says which list it walks and
whether a `fetchone` still shortens it.

### EngineDialect

The dialect object of an engine and its threads. `create_connect_args` has run
when the engine is created, so it is the initial state (`catalog`, `prepared`).
`Connect` and `Enter` are SQLAlchemy's first connect under its mutex, `SqlInfo`
and `CheckCatalog` the two requests of `initialize`, each with what the code
does after it; `InitializeFails` is an exception from either, `Disconnect` a
connection the pool drops after `is_disconnect`. `Degraded`, `ReadLatch`,
`CreateLatch`, `TestLatch`, `AddToLatch` and `Warn` are the accesses of
`_warn_degraded_reflection` to the shared set; a set is named after the thread
that created it, as a thread can hold one that is no longer shared.

### ParameterBinding and TemporalValues

The two conversions of an `execute`. `ParameterBinding` is
`build_parameter_record`: `Choose` takes the reported schema or the legacy
union, `BindField` converts and casts the value of one field, `PackValue` puts
one into its union. Numbers are counted in halves, so that a fraction is odd,
and `Half` stands for 2^63. The casts are pyarrow's, external; the choice of
the type a value is given first is the code's (`Source`), and it decides which
cast happens.

`TemporalValues` is `_dbapi_column_values`: an array is modelled as Arrow lays
it out, a window (`off`, `len`) on validity, data, union positions and children
that have windows of their own. `Normalize` rebuilds it as the code does, kind
by kind, `PyValues` is `to_pylist`. What recurses over types in the code is a
function of the depth of nesting here: `Types[n]` are the types at most `n`
deep, and `Normalize[n]` is defined on `Arrays[n]` by what one call does with an
array (`Rebuild`) and by `Normalize[n - 1]` for its children. Every type has
some depth, and the module is about any. `WellFormed` is what Arrow's full
validation asks of an array; `Columns` are of arrays that pass it.
`MCValues` runs both modules.

### WriteOnceIndex and PublishPipeline

`WriteOnceIndex` is what consumers of the package index rely on: one artifact
per version, ever, and announced digests that are digests of it.
`PublishPipeline` is the Jenkinsfile: every stage of every build a step, with
`RejectExisting`, `Put`, `ReadBack` and `Archive` apart, and `Break` a failing
command, an abort or a lost agent anywhere. A build's branch, release flag and
version are its inputs. The conditional put (`MayStore`) is atomic, nothing
else is; a put may store damaged bytes or lose its answer.

### InstalledProvenance

One run of the verifier. An installation (`inst`) is what importlib.metadata,
the directory and the files say, a request what the command line says; both are
inputs. `CheckRequest`, `Select`, `ReadRecord`, `VisitFile` (a file a step, in
any order), `PackageDone`, `MetadataDone`, `CheckIdentity`, `ReadSource` and
`JudgeSource` are the code's checks in its order. `Reject` is a
`ProvenanceError` (exit code 1), `Crash` any other exception (exit code 2).
Contents are bytes or one of missing, link, unreadable; a RECORD row is bytes
(hash and size of them), a wrong size, no hash or no row. Of the texts that are
parsed a model knows the outcome: a value, a refusal, or an exception that no
`except` clause names and `main` ends with code 2:

| Text | The parser raises | Model |
|---|---|---|
| expected version, METADATA's version, `__version__` | a number with more digits than `int` accepts; METADATA without a version is a `TypeError` (451) | `Unforeseen` |
| `__init__.py` | NUL bytes where `ast.parse` answers them with `ValueError`, nesting too deep (422-423) | `literal = Unforeseen` |
| METADATA | no UTF-8 (446) | `metadata = "unforeseen"` |
| RECORD | a size `int` refuses (288) | `record = "unforeseen"` |
| `direct_url.json` | nesting too deep, a number `int` refuses (485) | `url = Unforeseen` |
| source URL, expected repository | `urlparse` raises, as on `https://[` (145, 622) | `"broken"` |

Which fault comes first decides the code: `IdentityBreaks` and `SourceBreaks` say
when an exception does. A RECORD that cannot be opened is refused, as the code
reports it (`provenance.py` 301-302).

`MC*` modules hold the values TLC needs; `*Proofs` modules hold theorems.

## 3. The runs

"Distinct states" shows the size of what was explored.

| Run | Question | Bounds | States |
|---|---|---|---|
| `Discovery` | do safety, refinement and liveness of discovery hold while the server changes and fails; does discovery hide or invent rows of a quiet one? | 2 catalogs; troubled servers that list one or both; a change at any point; quiet servers and servers that fail for good, with 3 contents of one catalog and 2 of the other; every failure, the uncaught ones among them; 2 transient ones | 216,492 |
| `MetadataRows` | which names are described, whose columns are they? | 2 names, 2 schemas, 2 column lists, up to 3 endpoints, every order | 2,244,537 |
| `Reflection` | do shown names have columns, do methods agree, was everything cached once true? | 2 tables, 1 schema, 2 changes, 6 kinds of adapter | 2,772,930 |
| `Engine` | who is served, with which profile, who is warned? | 2 threads, 2 catalogs, 2 schemas, 1 change of the server, 3 first connects, 2 degraded reflections a thread | 1,121,068 |
| `Sessions` | what runs, what is fetched or iterated over, what stays open? | 2 interchangeable cursors, 2 calls, lists of up to 3 tuples, 2 rows | 2,902,346 |
| `Values` | do values keep their place and their digits? | 64-bit integers as 2-bit ones, tuples of up to 3, every window of 4 entries of containers nested 2 deep, and one 3 deep (`Depth = 4`), 2 chunks | 163,932 |
| `Releases` | who publishes, what, how often? | 3 builds, 2 versions, 2 wheels, symmetric builds and wheels | 667,876 |
| `Provenance` | what is verified, on which evidence, how are failures reported? | every installation that differs from a sound one in up to two respects, 3 + 2 files, 3 kinds of source, 9 requests, every order of visits | 472,926 |

Why the bounds are enough. Discovery tells apart no catalog, one and several,
so two catalogs show every case; one change can fall between any two RPCs, and
as the connection keeps only one decision a second change meets a decided
connection, which the first already shows. Two transient failures let the first
discovery of a call fail and the second succeed or fail. In `MetadataRows`
three rows give a good, a bad and a good row of one name, or two of one name
and one of another, in every order; `request` runs through both schemas and
none. In `Reflection` two changes drop and recreate a table within one call of
the other; one schema is enough there, because the theorems hold for any
number. In `Engine` one thread fails and the other retries against a changed
server, and two degraded reflections each let both threads create a set and
meet again afterwards. In `Sessions` the second call shows what the first left
behind, the list `<<v2, v1, v1>>` tells a repeated tuple from a skipped one,
and two rows let an iterator and a `fetchone` take the first one each; the
theorems hold for results of any length. In `Values` the integer range is
scaled down: `Half = 2` leaves numbers below, at and above each limit, and a
window of an array of four entries may begin and end inside each container. In `Releases` three builds allow two of one version and a third that
interferes. In `Provenance` two deviations show every pair of faults that could
mask each other, from an unrecorded, a cached and a required file of the
package and two required files of the metadata. `CHECK_DEADLOCK FALSE` is set where the system ends: a parse
returns, calls are used up, builds end, a verifier exits.

Counters are bounded by `MaxChanges`, `MaxTransients`, `MaxCalls`, `MaxRows`,
`MaxEndpoints`, `MaxWaits`, `MaxReflects`; the count of RPCs stops at `SentCap`, above every budget it is
compared with.

What the properties say, in the order of the runs:

* `KeepsPromise`: the scope of a connection is decided once, and within a call;
  answers hold rows of the scope only. `ChoosesExecutionDefault`: a chosen catalog is the one unqualified
  SQL runs in at that moment. `RpcBudget`: a connection with a scope sends only
  the call's own requests; any other at most `4 * own + 1`.
* `AnswersComplete`: as long as a server has neither failed nor changed an answer
  holds exactly the rows of the catalogs to look in. `NamesTruthfulUndisturbed`: as
  long as it has not changed and no probe has failed transiently, a table is
  reported without schema only by a server that does not answer include-schema
  requests, whatever fails for good. `NeverScopesCompliant`: as long as it has not
  changed, a server that answers unscoped and has a schema is never scoped.
* `KeepsLivePromise`, `DiscoverySettles`: calls return; discovery is not
  repeated for ever, unless probes fail in ways no handler names.
* `DescribedExactly`, `ColumnsAreItsOwn`, `SupportIsComplete`, `TypesAreItsOwn`:
  the parser's two loops compute a definition that does not mention order.
* `ReadsAgree`, `ShownIsNeverMissing`, `ShownExisted`, `EntriesWereTrue`: a
  shown name never turns out to be missing; the answers of a schema agree;
  entries were true of their own table once, except that a hidden table counts
  as missing where the adapter cannot tell (`sqlalchemy.py` 354-356).
* `ServedOnlyVerified`, `ProfileOfLastAttempt`, `ConnectReturns`: no connection
  before the URL catalog was found equal to the server's default; the dialect
  is that of the attempt that succeeded; a waiting thread is served or tries
  itself. `NoSilentSchema`, `WarningsBounded`: no schema is passed over without
  a warning, and n threads warn about one at most n(n+1)/2 times.
* `RunsWhatWasAsked`, `FetchedInOrder`, `IteratesInOrder`, `NoStaleRows`,
  `StatementsAreClosed`, `NothingRunsAfterClose`: parameters run in order and
  unmixed; rows come once and in order, also from an iterator that lives
  through fetches and calls; nothing of an earlier call shows; statements are
  closed.
* `EveryValueOnce`, `BindsExactly`, `RefusesOnlyMisfits`: every parameter is
  bound once, to its own placeholder; numbers arrive exactly; none is refused
  that its field can hold. `RowsAreTruncated`, `MicrosecondsOrRefused`: the
  rebuilt arrays have the values of the original ones truncated in place; a
  column is refused exactly when nanoseconds sit where they cannot be rebuilt.
* `OnlyReleasesPublish`, `OneRelease`, `KeepsIndex`: only explicit main builds
  touch the bucket; at most one build announces a version; the bucket is a
  write-once index.
* `VerifiesExactlySound`, `ClaimsAreSupported`, `EvidenceFirst`, `EndsForAReason`:
  the verdict is that of a definition that knows no order; a claim has its
  evidence, read after everything was checked; a run that ends with code 1 has a
  fault that would remain if every file but RECORD could be opened and every unforeseen input
  were replaced by the right one, and a run that ends with code 2 has a file that
  cannot be opened, no dependency, or such an input. Where both kinds meet, either
  code may end the run: the order of the directory decides.

The type invariants and the inductive ones (`DiscoveryInv`, `CacheInv`,
`WalkInv` and the like) are proved and therefore in no run.

### Runs that find the code and its documents at odds

| Run | The statement | What the code does |
|---|---|---|
| `TransientMisreport` | the names-only request "distinguishes a stale bulk row from a server that returns zero rows whenever include_schema is requested" (`dbapi.py` 218-220) | after a transient probe failure the names-only request may resolve the catalog, and a describable table is reported without columns |
| `ProbeFailureEscapes` | "Failures in the advisory fallback probes (including their streams) preserve the successful empty response" (`MAINTENANCE.md` 125-126) | `ArrowKeyError` (pyarrow's for NOT_FOUND) and `DataError` (a malformed response, `dbapi.py` 403-418) pass through the probes' handlers (318, 332, 344): the call raises, and as the outcome stays undecided so does the next empty one |
| `WarnedOnce` | "A warning is bounded to once per requested schema" (`MAINTENANCE.md` 211) | two threads that test or create the shared set at the same time both warn |
| `EmptyTuple` | "one single-row parameter record/RPC per tuple" (`README.md` 112-113) | an empty tuple repeats the tuple before it |

More disagreements and corners were met and have no run. "An explicit catalog
scopes every metadata RPC" (`dbapi.py` 159), but the requests for primary and
foreign keys carry none (377); `AskKeys` models them so. `main` says of the
exceptions it ends with code 2 that this "does not relabel them as provenance
mismatches" (`provenance.py` 706-708), but an `OSError` while reading RECORD has been
made a `ProvenanceError` by then (301-302); in the other direction, inputs that
plainly are mismatches, such as a source URL `https://[` or METADATA without a
version, end with code 2. `EndsForAReason` names both. Two catalogs may report the same table and
schema with different columns: the last row's columns win, and the support
claim is true, although it "is true only when every reported name has a
parseable, unambiguous schema" (`dbapi.py` 37-38). A fetch before the first
`execute` returns no rows, although `check_result` means to raise "called before
execute" (`dbapi.py` 50-56): `_results` is never `None`. And a server that
answers unscoped requests but has no schema at all, with one catalog listed, is
scoped to that catalog for the life of the connection; `MAINTENANCE.md` 122-124
says that a legitimately empty answer "never scopes the connection", with a
schema without tables as its example. `NeverScopesCompliant` therefore assumes
a schema. `supports_delete` and `supports_alter` are set only if a server
reports whether it is read-only (`sqlalchemy.py` 232-235): after a failed first
attempt against a read-only server, one that reports nothing keeps them off,
although `MAINTENANCE.md` 89-92 describes the default flags. The default
catalog is compared once per engine, so after a reconnect to a server whose
default has moved reflection and statements are about different catalogs. If
closing a statement fails, `execute` raises although the statement has run
(`client.py` 106). Without a reported schema NULL and Decimal have no child in
the union, and an int beyond 64 bits ends in an `OverflowError` that no handler
maps (`dbapi.py` 971). An iterator that was made before the cursor was closed
still hands out rows.

## 4. Fairness

Two questions need any. `Discovery` (and `ProbeFailureEscapes`, of the same
specification): `WF_vars(Step)`, the next RPC of a call
returns or raises. `Engine`: `WF_vars(Step(t))` for each thread, a thread that
has called goes on: the operating system schedules every runnable thread, and a
mutex that is free is taken by one of those that wait; with each thread
connecting finitely often before the first success, weak fairness is enough for
every one of them. In `Discovery` the caller's thread runs it synchronously and the driver has
neither queue nor lock of its own; the assumption is that the transport reports
an answer or an error. Nothing is assumed of `Begin` (nobody need call) or of
`ServerChange`, in either run. Transient failures are bounded by `MaxTransients`, because a
server that fails for ever may be probed for ever, and the code means it to be.
All other properties are safety properties of unfair specifications.

## 5. What is proved

The theorems hold for every value of the constants under the assumptions named
in the modules: `ConstantsAssumption` (marks such as `None` are no catalogs,
names or wheels; an engine has finitely many threads), `ColumnsAssumption` (the
columns consist of well-formed arrays), `AdaptersAssumption`, `ParameterAssumption`, `ServersAssumption` (a server that lists one catalog runs
unqualified SQL in it: the code takes a sole catalog without asking for the
default), `VersionAssumption` and `BoundAssumption`. TLC evaluates them in each
run.

| Module | Theorem | Argument |
|---|---|---|
| `CatalogDiscoveryProofs` | `TypeCorrect` | `TypeOK` is inductive |
| | `DiscoveryInvariant` | `DiscoveryInv` is inductive with `TypeOK`. That answers stay in scope is not inductive alone: a retry must know that its catalog was decided, and a probe that the connection is undecided, or it could decide twice |
| | `ChoiceIsDefault` | a decision for a catalog comes from a sole listed catalog or from the settings answer |
| | `ImplementsPromise` | steps map to `Call`, `Look`, `Return` of `MetadataScope` or to stuttering, using `DiscoveryInv` |
| | `BudgetKept` | `BudgetInv`: what a call has sent when it is about to take each step; a names request after a decision stands alone, so discovery can be repeated only when a transient failure left it undecided |
| | `CompliantNeverScoped` | `CompliantInv`: a server with schemas that has not changed is not even asked for its catalogs, if it implements `GetDbSchemas` |
| | `NamesOnlyWhenTrue`, `CompleteAnswers` | `StaysUndisturbed` (no step makes up for a change or a transient failure), `NamesInv` (a names request looks where the request before it looked) and `AnswerInv` (what discovery has decided is where a call ought to look). `CompleteAnswers` assumes that tables are in schemas |
| `TableMetadataProofs` | `TypeCorrect`, `ParseInvariant` | `ParseInv` says what each loop has established after `pos` steps: `CollectInv` for the rows kept, `DecodeInv` for what is known of each name, `ResultInv` for the result |
| | `ExactlyDescribed`, `CompleteSupport`, `OwnColumns` | from `ParseInv` at the end of the second loop; the rows kept and the rows that count are the same set |
| | `OwnTypes` | `TypesInv`: after m endpoints a name has the type of the first of its rows that counts |
| `ReflectionCacheProofs` | `TypeCorrect`, `CacheInvariant` | a relations entry is written only after the loop, so the names it has gathered must already have entries (`GatheredIsReflectable`), and the answers kept must come from a relations entry that never changes (`AnswersFollow`, `Phases`) |
| | `ReadsAlwaysAgree`, `ShownNeverMissing` | from `CacheInv` |
| | `EntriesOnceTrue`, `ShownOnceExisted` | `HistoryInv`: entries, names shown and names gathered were all once reported |
| `EngineDialectProofs` | `TypeCorrect`, `EngineInvariant` | `InitialisationInv` (only the holder of the mutex initialises, and success implies the check) and `LatchInv` (every set, lost or shared, holds only schemas that are warned about) |
| | `FailsClosed`, `ProfileIsCurrent`, `NeverSilent`, `MutexIsReleased` | from the two. `MutexIsReleased` is the part of `ConnectReturns` that is about states: while a thread waits, the mutex is free or its holder is within `initialize` |
| | `FewWarnings` | `BoundInv`: the state does not record which thread has used which set of warned schemas, so the invariant says that such a relation exists; every warning of a schema has a pair of its own in it, and no two threads have used each other's set, because whoever creates a set after another thread had none in hand when that one read its own. So n threads have at most n(n+1)/2 pairs |
| `CursorSessionProofs` | `TypeCorrect` | types together with `CallInv`, what each RPC finds, and `OwnList`, that an iterator on the cursor's own list walks that list |
| | `RunsInOrder` | what ran, what is bound and what is left make up the list that was asked for; it assumes that no tuple is empty, and `EmptyTuple` shows why |
| | `AllClosed`, `NothingAfterClose`, `RowsAreFresh` | an open handle is the one in hand or a failure is on record; cursors of a closed connection are closed; rows carry the latest call |
| | `AllFetchedInOrder`, `IterationInOrder` | what was taken, followed by what is left, is the result; the list of an iterator is a suffix of the one it began with |
| `ValueProofs` | `BindingInvariant` | types and `LoopInv`: a cell is of the value its field is to take and one of those it may become |
| | `ValuesBoundOnce` | a pigeonhole argument: n names that are the numbers 1 to n are distinct |
| | `BindingIsExact`, `OnlyMisfitsRefused` | by kind of value and field, for every width: `Source` never chooses a type whose cast refuses what the field can hold |
| | `TruncatedRows` | induction over the levels of nesting. `SliceOf`: a window within a well-formed array is one, with that part of its values. `PartOf`: for each kind, the part of a child that the code takes is such a window. `RebuildIs`, `RebuildValues`: an array rebuilt over children with the right types, lengths and values is well-formed and has the values of the array truncated in place; `NormalizeOf` closes the induction, and `ColumnInv` carries it through the chunks |
| | `NanosecondsConvertedOrRefused` | induction over the same levels: `Contains`, `Normalizable` and `NormalizedType` against `Nodes`, all the types within a type (`ContainsNodes`, `NormalizableNodes`, `NormalizedNodes`) |
| `PublishPipelineProofs` | `TypeCorrect`, `PipelineInvariant` | `StageInv` (what earlier stages have prepared) and `HolderInv`: a build past its write is the only one of its version, because the conditional write needs the name free and every holder's name is taken |
| | `ReleasesOnly`, `AtMostOneRelease`, `ImplementsIndex` | from `HolderInv`; `Put` maps to `Publish`, `Archive` to `Announce`, all else stutters |
| `InstalledProvenanceProofs` | `TypeCorrect`, `WalkInvariant` | `WalkInv`: everything no longer on the list is good, so a tree with nothing left is covered (`WalkedIsCovered`); a visited file is good because RECORD rows and file contents have only bytes in common (`VisitedIsGood`) |
| | `EvidencePrecedesClaims` | only `ReadSource` reads, and both trees are covered by then |
| | `VerdictIsExact`, `ClaimsSupported`, `EveryEndHasAReason` | one invariant, `VerdictInv`: `StageInv` says what each stage has established, so a run that is rejected has a mismatch, one that crashes an obstacle or a surprise, and one that accepts none of them |

Every invariant, every action property and both refinements that passing
runs check are theorems. What stays with TLC are the liveness properties
(`KeepsLivePromise`, `DiscoverySettles`, `ConnectReturns`): liveness under
fairness is out of the provers' reach.

The induction of `ValueProofs` needs a word. The induction rules of the library
take a predicate as a parameter, which no installed prover can instantiate. So
`LeastNatural` derives from the well-foundedness of `<`, as the library states
it of sets, that a nonempty set of numbers has a least element, and
`EveryLevel` that a set with 0 and with each level above one of its own has them
all; a lemma by induction names the set of levels at which it holds. The nine
lemmas `TypesLevels` to `InPlaceLevels` show in this way that each function over
the levels exists, so that its definition may be used.

## 6. What is left out

* Metadata calls of two threads on one connection: the driver has no lock and
  says nothing of sharing; its own user, the dialect, takes its connections
  from `SingletonThreadPool` (`sqlalchemy.py` 572), one per thread.
* Streams and endpoints of one RPC are one step; a stream that fails is a
  failing RPC.
* Calls of the dialect without an inspector: they keep nothing.
  `get_schema_names`, whose only state is SQLAlchemy's own cached answer.
* `rowcount`, `setinputsizes`, the empty `commit` and `rollback`; several
  iterators over one cursor, of which the model keeps the last.
* Booleans, bytes and temporal parameters, and which exception a refused
  parameter ends in. The type code tables and the description.
* The splitting of a URL's query into features, metadata and options.
* The verifier: a writer while it runs, which its documents exclude. What a
  directory hides: `rglob` passes over a subdirectory that cannot be listed, so a
  file in it is neither checked nor missed unless it is a required one, and a
  directory that can be listed but not searched ends in code 2.
* Texts that are numerals as parameters: pyarrow's cast parses them, while the texts
  of `ParameterBinding` fit no numeric field.
* Encodings: protobuf envelopes, Arrow IPC, literal rendering, file names.
* Inside a pipeline stage only success, failure and the bytes of the wheel
  count; two builds of one commit may produce different wheels.

## 7. Not modelled, and what could follow

The client's options and envelopes are encodings; the loader hook rebinds a
function when a class is made and has no state afterwards; compilers and
linters produce or read text. Their properties would be about strings, which
unit tests reach better.

What could follow: a composition of `ReflectionCache` over `CatalogDiscovery`,
so that a shown table that cannot be described is traced to the discovery that
failed; several threads on one connection, if the driver should ever promise
anything of it; the description of a result next to its rows.
