# Verification of the VGI C++ worker SDK

`vgi-cpp` lets a database engine call functions, catalogs and COPY handlers that
live in *worker* processes. The engine drives one execution through a pool of
workers by RPC; each call may land on another worker process, and a worker may be
killed at any time. This directory holds TLA+ models of the parts of the SDK where
that makes correctness hard, the TLC configurations that check them on small
instances, and theorems about them that TLAPS checks for every instance.

Paths below are relative to the repository (`src/storage.cpp` is the SDK's
storage); in `PROJECT.json` they carry the prefix `src/`.

## 1. The system

### 1.1 Components and how they interact

| component | code | state | operations |
|---|---|---|---|
| Shared log and work queue | `src/storage.cpp`, `include/vgi/storage.h` | files `<id>.claim`, `<id>.entry`, `<id>.used`, `<id>.entry.claimed.<pid>` of a log directory; per process a cursor and a cached high-water mark | `append`, `queue_push`, `queue_pop`, `scan`, `clear` |
| Key-value store | `src/storage.cpp` | one file per key, a temporary per key and pid | `kv_put`, `kv_get`, `kv_del` |
| Scope reclamation | `src/storage.cpp` | directory mtimes | `sweep_stale`, at every worker start |
| In-memory catalog | `src/memory_catalog.cpp`, `src/catalog_contents.cpp` | per attachment: schemas, tables, views, a version | attach, detach, DDL, `catalog_contents` |
| Declared catalogs, attachments | `src/catalog.cpp`, `src/catalog_model.cpp` | the attachment a client carries, secret options in a storage scope | `catalog_attach`, version resolution, options, read RPCs |
| Function dispatch | `src/function_dispatch.cpp`, `src/dispatcher.cpp` | registries per kind of function, a counter of execution ids | `bind`, `init` |
| Table scans | `src/function_dispatch.cpp` (`TableProduce`), `src/pushdown.cpp` | producer position, predicates and their revisions, validators | tick, filter delta |
| Table-in-out exchange | `src/function_dispatch.cpp` (`TableInOutExchange`), `src/table_in_out.cpp` | continuation and `more_pending_` | input, tick |
| Table buffering | `src/buffering.cpp`, `init` | nothing in memory: the execution's storage scope | `process`, `combine`, finalize, `destructor` |
| Aggregates | `src/aggregate.cpp` | nothing in memory: keys and a log in the scope | update, combine, finalize, window, streaming, destructor |
| Transactions | `src/catalog.cpp`, `example-worker/table/transaction.cpp` | a storage scope | begin, commit, rollback |
| Seals, split tokens, attach tickets | `src/opaque_seal.cpp`, `src/split_token.cpp`, `src/attach_ticket*.cpp` | keys | seal, open, issue, verify |
| Planned scans | `src/function_dispatch.cpp`, `example-worker/table/splits.cpp` | a plan of tokens, the position in a redeemed range | plan, redeem, read |
| Predicates and pruning | `src/pushdown.cpp`, `example-worker/table/filters.cpp` | the parsed expressions | parse, evaluate, bounds and values |
| Partitioned scans | `src/partition.cpp`, `example-worker/table/partitioned.cpp` | a shared queue of chunks | push, claim, tag, partition values |
| Result caching | `src/cache_control.cpp`, `example-worker/*/cache*.cpp` | advertisements; the engine's store | advertise, validate |
| Scalar calls | `src/function_dispatch.cpp`, `src/arguments.cpp`, `src/numeric.cpp`, `example-worker/scalar/*` | the bound overload and constants | bind, init, process |
| Start-up and transports | `src/worker.cpp`, `src/landing.cpp` | - | command line, serving |
| Wire encoding, SQL literals | `src/wire.cpp`, `src/sql_scalar.cpp`, generated headers | none | conversions |

The arrows between them are few. The engine binds a name, inits an execution,
and from then on names the execution by an id that the primary init minted. The
worker processes of an execution share no memory; what one call leaves for the
next it leaves in the storage scope named after the execution id (an attachment
or a transaction has a scope of its own). The file system is therefore the only
channel between workers, and every protocol above rests on the guarantees of the
storage. Inside one process, the HTTP transport dispatches calls in parallel, so
the catalog's mutex and the storage's file names also face threads.

### 1.2 What is hard

- Worker processes race on the files of one scope with directory walks that are
  stale by the time they are used, and crash between any two system calls.
- `queue_pop` remembers per process where it was, and must not skip what another
  process has still to publish.
- Scopes nobody clears have to be reclaimed, and scopes in use must not be.
- `catalog_contents` reads the version and the contents in two critical sections,
  with DDL in between, and callers then skip refetching by version or etag.
- One name may be registered as several kinds of function, and `bind`, `on_init`
  and `init` each resolve it.
- An attachment is a value the client carries to workers that were restarted, hold
  other keys, or share no storage; a ticket's life is measured on two clocks.
- A transaction's calls read, then write, a scope that its end and the daily sweep
  clear while a cancelled scan still runs.
- A scan is planned once and read by several workers, some of which die; its splits,
  chunks and batches are put together again by numbers the batches carry.
- What a function tells the planner (bounds, values, counts, partitions, cache
  lifetimes) lets the engine drop work silently: one off loses rows without a trace.
- A scalar call is resolved by the engine, by `bind` and by `init`, each from densely
  numbered constants.
- Output is paged over continuation ticks; filters change while a scan runs, by
  deltas that may repeat or arrive late; a sink's batches arrive in any order on
  any worker; a group of an aggregate may never see a value.

`PROJECT.json` lists these as hazards, each at the line where it bites, with the
properties that would catch it going wrong.

### 1.3 What correctness means, per component

- *Log and queue*: an id is spent once; nothing published is lost, duplicated or
  changed; ids grow in real time; calls return; a scan hands out every chunk.
- *Key-value store*: a key always names one complete payload.
- *Reclamation*: only what has been untouched for a day goes, and all of that goes.
- *Catalog*: DDL keeps a tree; a version or an etag that matches means the held
  answer is the catalog's; an answer is never older than its call.
- *Dispatch*: what was bound is what serves.
- *Scan*: the newest revision of every predicate is in force; no row a required
  predicate rejects is emitted and none that all of them keep is lost.
- *Exchange*: the client gets all of the output once, in order, row by row
  traceable to its input.
- *Buffering*: a query delivers exactly what was sunk into it, in order where
  order is promised; it never sees another query's context or loses its scope.
- *Aggregates*: answers are SQL's, however the rows were divided.
- *Attachments*: a call on any worker is served under exactly what its ATTACH
  settled, for the caller who made it; a ticket is that ATTACH, for its lifetime.
- *Transactions*: one answer per key while they run, nothing remembered afterwards.
- *Planned and partitioned scans*: every row once, in an order the numbers restore.
- *Predicates*: what is accepted evaluates; what pruning skips no predicate keeps.
- *Caching*: what is served is what would be computed.
- *Scalars*: the overload that was called serves, each row by its own arguments.

## 2. The modules

| module | models | composes |
|---|---|---|
| `SharedLog` | abstract: what a log directory promises | |
| `FunctionStorage` | log and queue at the level of system calls | refines `SharedLog` |
| `WorkQueue` | two ways of driving the queue: a parallel scan, and non-overlapping pushes | extends `FunctionStorage` |
| `StorageFiles` | the files of a scope: the serial queue and a key | extends `WorkQueue`, instantiates `KvStore` |
| `KvStore` | `kv_put`, `kv_get`, `kv_del` on one key | |
| `ScopeSweep` | `sweep_stale` against the use of a scope | |
| `MemoryCatalog` | DDL and `catalog_contents` | |
| `TableScan` | `TableProduce` and dynamic filters | |
| `InOutExchange` | the exchange stream and the paged function | |
| `Buffering` | sink executions over several workers | |
| `Aggregation` | grouped, windowed and streaming sums | |
| `Execution` | `bind`, `init`, then whichever of the four protocols above serves | instantiates the four |
| `CatalogVersions`, `AttachOptions`, `SealedValues`, `AttachTickets` | what an ATTACH settles, operators | |
| `Attachments` | ATTACH, the carried value and its use, over a pool | extends the four |
| `TransactionMemory` | what a transaction remembers | |
| `Session` | an attachment, a transaction's memory or a swept scope | extends `Attachments`, instantiates `TransactionMemory` and `ScopeSweep` |
| `SplitPlans`, `SplitScan` | planned scans | the second extends the first |
| `Generators` | generating functions and projection | |
| `Predicates`, `FilteredScans` | the language of predicates and scans under them | the second extends the first |
| `PartitionedScans` | scans off a queue of chunks | |
| `ResultCache` | results that may be kept | |
| `NumericTypes`, `ScalarFunctions`, `ScalarCalls` | scalar calls | each extends the one before |
| `WorkerLibrary` | any one of these families | extends the six |
| `*Proofs` | theorems, section 4 | each extends the module it is about |
| `MC*` | values of the constants for TLC | |

### FunctionStorage

One action is one system call another process can see; `pc[p]` is the next system
call of process `p`. A push (`append` is a push of one item) takes `highest_id`,
then tries `<id>.claim` exclusively, checks `<id>.entry` and `<id>.used`, writes
and renames the payload, creates the tombstone and removes the reservation. A pop
renames `<id>.entry` to a name of its own, and on failure looks whether
`<id>.claim` exists, to decide between "popped by another" and "still being
pushed". `cursor` and `high` are `queue_cursors_` and `queue_highs_`. `Crash(p)`
stops a process between any two calls and leaves its files. Write failures take
the code's error path, which leaves the reservation as the code does.

Abstractions: a directory walk is one step (it is used as a lower bound only, and
may be arbitrarily old by the time it is); `exists` and `highest_id` at the start of
`queue_pop` are one step; the temporary of a payload exists only while its writer
holds the reservation and adds no id; `clear` happens when no call of the scope is
running, as the engine's destructor guarantees; a process runs one call at a time;
each batch is pushed at most once, which only lets the history variables tell
payloads apart. `published`, `acked`, `before`, `delivered` and `unsent` are
histories.

### WorkQueue

`ScanSpec` is a parallel table scan: the primary init pushes every chunk in one
`queue_push` before it answers, and only then do workers pop. `SerialSafety` is
the weakest discipline under which the cursor is sound: pushes do not overlap one
another, pops come at any time.

### KvStore

Names and inodes are apart, because the code's argument ("write through a
temporary and rename") is about them: an open file keeps writing to the inode it
opened. An inode's content is the set of payloads written to it since its last
truncation, so a mixture and an empty file are visible.

### ScopeSweep

Of one scope the model keeps the age of its directory's mtime. File names created
in the nested log directory do not move it. A sweeper reads the mtime in one step
and removes the directory in another. Ages saturate one tick above `Day`. As history,
`kvAge` is the age of the key that is there and `late` the sweepers that had looked when
it was put. `SweepSparesFreshKeys` is about the removal: what it destroys was put more than
a day ago, or within the sweeper's own window between look and removal, which the code
leaves open.

### MemoryCatalog

A DDL handler runs under one mutex and is one step; a refused call is a stutter.
`catalog_contents` is `ReadVersion`, then `Validate` (a handler that answers
*not modified*), then `Snapshot`, with DDL of other threads between any two.
`Options` ranges over versioned and unversioned catalogs and the three sources of
etags. The content hash is taken to be injective; a path component holds no NUL,
as the code's joined paths require; the caller, which holds the last answer and
offers its etag back, is external.

### TableScan, InOutExchange, Buffering, Aggregation

- `TableScan`: a predicate is the set of rows it keeps, `Broken` when its evaluation
  raises. `Tick` is `TableProduce`'s whole tick: delta, validators, producer,
  application. The language of predicates is that of `Predicates`.
- `InOutExchange`: an input is the sequence of its rows' fan-out counts. The paged
  function's loop is the recursive function `Fill` of `TakeFromRow`; `Reply` is `emit_merged`, with
  what it refuses. A client may take a wrong turn in any state, which ends the
  stream, as in the code.
- `Buffering`: each call may land on any process; `NextExecutionId` is the per-process
  prefix and counter. An append is atomic and a scan sees every append that
  returned: this is what the refinement of `SharedLog` gives. `Fail` is any error:
  the engine abandons the query, with or without its destructor.
- `Aggregation`: an update reads its states in one step and writes them in another.
  Engine threads have disjoint group ids and combine only after all updates have
  returned; chunks of a streaming session are sequential; both are the engine's
  discipline. FILTER masks are packed eight rows to a set of bits. `Null` is a value that
  is no integer. Keys of streaming partitions hold no NUL, and totals stay within 64 bits
  (section 5).

### Execution

`registered` is the set of kinds a name has, `meant` the kind it was called for.
`BindKind`, `DividesWork` and `InitKind` are the three resolutions of the code.
After `InitCall` the protocol that serves takes its own steps; the protocols a call
does not reach stay in one initial state.

### StorageFiles

The log and a key are different names of one directory, so a behaviour is of one or
of the other. The queue half is `SerialSafety`: pushes that do not overlap.

### Attachments and its operators

`CatalogVersions` reads version requests the way `parse_semver` and the two resolvers
do (npm ranges, or exact). `AttachOptions` merges what the statement set, in whatever case, into what the
catalog declares and keeps secret options out of a value that travels in the clear.
`SealedValues` is an ideal cipher: an envelope opens exactly under the key, the caller
and, for a transaction, the attachment it was sealed with. `AttachTickets` seals an
ATTACH and redeems it on a clock that may be ahead or behind.

`Attachments` puts them together over a pool: four setups of transport and keys, workers
whose clocks differ, restarts that lose a key nobody configured, time, and the sweep of
the secrets' scope. `Attaching` is `catalog_attach` as a whole, `Serving` the opening and
restoring that precede every later call; both are operators of the state, so the
properties quantify over all calls that could be made in it rather than over the few a
trace makes.

### TransactionMemory and Session

Each call site is bound, then scanned; each of its calls looks in the store and, if it
finds nothing, puts its seed in a later step. The engine binds the sites of a transaction
one at a time (external) and may scan them together; a cancelled scan may outlive the
transaction. `Session` is an attachment, a transaction's memory, or any other scope with
its sweep: they share no files, so a behaviour is of one of them.

### WorkerLibrary

The example worker's functions, with the parts of the SDK that serve them. A worker
keeps nothing for these calls that another family reads, so a behaviour is of one family.

- `SplitPlans` divides a scan the way each function of `splits.cpp` does, `SplitScan` is
  `table_function_plan`, the tokens, and readers that claim, redeem at any worker of
  a fleet with or without a common key, die, and redeem again. The filters a tick brings
  to `split_dynamic_filter`, and the column that reports them, are left out.
- `Generators` is a table of sources (columns, rows, batch size, projection, what the
  planner is told, where it raises) and the stream that narrows by name.
- `Predicates` is `pushdown.cpp`: what `Parser::expression` accepts, three-valued
  `evaluate` over integers of `IntBits` bits with overflow, and the accessors a scan prunes
  by; the limits on depth and nodes are constants, floating point is left out. A predicate
  is applied to a whole batch: one that raises over any of its rows fails the scan if it is
  required and is skipped for all of the batch if it is advisory. `FilteredScans` are the
  scans of `filters.cpp`, `static_scan.cpp` and `rff.cpp`.
- `PartitionedScans`: chunks pushed by the primary, claimed by any worker, tagged and
  described by partition values; the deliberately broken fixtures are there too, and the
  engine (external) catches them. The worker's pid, the filters that
  `filter_echo_partitioned` reports, and their application to its rows are left out.
- `ResultCache`: the advertisements of the cache fixtures, and the engine's store
  (external, from what `include/vgi/cache_control.h` says of it). A producer builds only the
  columns asked for, and the SDK then filters that batch: a predicate on a column that was
  not built fails the scan if it is required and keeps every row if it is advisory.
  `ServedIsTheAnswer` compares with tables that are written down apart from the producers.
- `NumericTypes`: the type ladder of `numeric.cpp`, at widths of 2 to 8 bits for 8 to 64.
  `ScalarFunctions` is what each scalar declares and computes; `ScalarCalls` the seating of
  constants, both resolutions of the overload, the checks of arguments, the second bind for
  secrets, and batches. Arrow's null type, the absence of a type, and the two widths of
  decimals are apart. `check_arg_constraints` also checks named parameters, choices and
  patterns, which no scalar function declares.

`Predicates` and `FilteredScans` use RECURSIVE operators for expression trees and are not
reached by any proof.

## 3. What TLC checks

Run with `tlc -config X.cfg M`.

| run | instance | shows |
|---|---|---|
| `storage` | 2 processes, batches `<<a,b>>` and `<<c>>`, 2 claim attempts; 149k states | `IdSpentOnce`, `Conservation`, `MonotonicIds`, the refinement `ImplementsSharedLog`, and `CallsReturn` under fairness |
| `scan_queue` | 3 workers, 3 chunks | a worker that ends its stream leaves no chunk (`FinishedMeansDrained`); the scan completes (`ScanCompletes`) |
| `storage_files` | 3 processes, symmetric; 2 values, 4 inodes | without overlapping pushes no cursor passes a queued item (`CursorStrandsNothing`); a key names, and `kv_get` answers with, one whole payload (`ValuesAreWhole`) |
| `catalog` | paths three deep, two spellings of a name, two definitions, version up to 4, one caller, 3 option rows | DDL keeps the tree (`NoOrphans`); versions and etags decide soundly (`VersionTellsAll`, `AnswersAreFresh`) |
| `execution` | below; 57k states | dispatch (`WriterAndReaderApart`) and the four protocols: `OutputIsWhole`, `OutputEnds`; `DeliversWhatWasSunk`, `QueriesAreApart`, `QueryEnds`; `AggregatesAreRight`; `InForce`, `RowsAreRight` |
| `session` | 2 workers, 2 callers, 4 setups, 10 requests; 3 call sites on 2 keys; a day of 3 ticks and 2 sweepers | `ServedAsAttached`, `OpensForItsCaller`, `NoSecretOnTheWire`, `TicketIsTheAttach`, `TicketLifetime`; `OneAnswerPerTransaction`, `EndedIsForgotten`; `SweepSparesFreshKeys`, `AbandonedIsReclaimed` |
| `worker_library` | below; 344k states | `SplitScanIsWhole`, `StalePlanIsNotRead`, `SplitScanEnds`; `GeneratedAsTold`; `FilteredAsAsked`; `PartitionsAreWhole`; `ServedIsTheAnswer`, `NonceTellsAMiss`; `CalledIsServed`, `ScalarsAnswer` |
| `stranded_item`, `orphaned_reservation`, `kv_threads`, `live_scope_swept`, `shared_name` | the smallest that show it | disagreements, section 5 |

A property that is a conjunction of others is defined in the composing module, with the
parts in the component's own. The inductive invariants of section 4, `OneOfEach` and
`AnswersAreDated` are proved and not repeated in the runs; the type invariants of
`Execution` and `Session` hold on the instances above and can be added to their
configurations.

Why the bounds are enough to be interesting. `storage`: two processes suffice for
every race of two system calls, a batch of two for a push that crashes half-way,
and two attempts let `claim_from` lose the race once and give up once; the proofs
lift the safety part to any number. `scan_queue`: with three chunks and three
workers one may die holding a chunk while the others' marks are stale.
`storage_files` has one more inode than threads and names can hold.
`catalog`: a cascade needs a grandchild; four versions allow a DDL before, between
and after the two critical sections of a call and one before it. `execution`:
inputs with empty rows first, last, between and alone, page sizes 1 and 2 (a page
ends inside a row, and at its end), two inputs on a stream; two queries on two
processes with two batches each and all three sinks, so ids, scopes and contexts
can meet; two engine threads and three calls per aggregate, groups of only NULLs, values that cancel,
frames that overrun the partition, and a key that is a prefix of another; two
pages, five snapshots and six deltas with repeated, late, removing, broken, doubled and
excessive updates. `session`: a worker that made a value and one that did not, before and
after a restart; lifetimes below, at and above the ceiling, and time past expiry by twice
the skew, so both sides of every boundary are reached; requests of every form and every
refusal; two sites that share a key and one that does not; a day longer than a call's
look-then-remove, and two sweepers that race for one scope. `worker_library`: two readers,
a death in the middle of a redemption, fleets without a key, with a common one and with
different ones, plans of 0 to 6 rows in 1 to 5 splits (more splits than rows, empty ones,
several pages, an endless cursor), splits that fill their `kStride` of 2 batch indices and
one that overruns it; batches of 2 and 3 rows, so that scans end inside a
batch and at its end; integers of 3 bits, so that every comparison at the ends of the range
and every overflow is evaluated on *every* row a table may hold, trees at and beyond
`kMaxDepth` 4 and `kMaxNodes` 13 (64 and 10000 in the code), a table of `TableRows` 4
rows for 100, and predicates that raise over one batch and not over the next; chunks of 3 rows for two
workers, partitions below and above the stride; three clock values against a lifetime of 2,
two queries, and every fixture; every scalar with NULLs, batches of 2 of 3 rows, sums at
the ends of each width and decimals at their last digit.

### Fairness

- `storage`, `scan_queue`, `orphaned_reservation`: weak fairness of each process's
  next system call. A process that is not dead keeps executing; crashes are not
  fair. In `scan_queue` the engine also keeps pulling a stream until it ends, which
  is what a scan does.
- `execution`: the engine asks for output that is pending (`Pull`) and keeps driving
  a query it has not abandoned (`Drive(e)`); no other step is fair.
- `session`: time passes, workers keep starting (each start sweeps), a sweep that has
  looked goes on, and a call that has looked for a remembered value ends.
- `worker_library`: the engine keeps planning, claiming and pulling a split scan until
  it is over (`SplitsProgress`); deaths are not fair.

Deadlock is not checked where the system may stop: every call answered, every
process dead or every query over.

## 4. What is proved

16944 obligations, all checked by TLAPS, for every value of the constants that satisfies
the named assumptions. Every theorem that states a run's property was first checked there,
and so was each inductive invariant. `PROJECT.json` lists the theorems.

| module | theorems | of |
|---|---|---|
| `StorageFilesProofs` | `TypeCorrect`, `Invariance`, `IdsSpentOnce`, `ItemsConserved`, `IdsMonotonic`, `Refinement` | the shared log |
| | `SerialCursor`, `CursorIsSound`, `ScanDrains`, `KeyIsWhole` | queue cursors, parallel scans, keys |
| `MemoryCatalogProofs` | `CatalogTypeCorrect`, `CatalogTree`, `CatalogAnswers`, `FreshAnswers` | the catalog |
| `SessionProofs` | `ServedAsMade`, `SealsHold`, `SecretsStayHome`, `TicketIsSound`, `TicketExpires`, `OneAnswer`, `SweepIsSafe` | attachments, tickets, transactions, the sweep |
| `ExecutionProofs` | `CopyTo`, `NewestInForce`, `FilteredRows`, `PagingIsWhole` | dispatch, table scans, in-out exchanges |
| `BufferingProofs` | `QueriesApart`, `Delivery` | sinks |
| `AggregationProofs` | `Aggregates` | grouped, windowed and running sums |
| `SplitScanProofs` | `StalePlan`, `RowsOnce`, `SplitScanWhole` | planned scans |
| `LibraryProofs` | `GeneratedRows`, `RangesTile`, `PartitionsWhole`, `NonceTells`, `CalledServed` | generators, partitioned scans, kept results, scalar overloads |

`StorageFilesProofs`, the shared log, from `BatchesAssumption` (batches are non-empty sequences of items)
and `AttemptsAssumption` (at least one claim attempt). `IdSpentOnce` alone is not inductive:
a publisher that has passed the check of `<id>.entry` and `<id>.used` must be known to hold
the reservation, and an id without reservation must be known to be spent or unused. `IInv`
says this in named parts: `Reservations` (a process past its claim holds `<id>.claim`, and
no two hold the same id), `SpentIds` (a published id is marked by its reservation until it
has its tombstone, acknowledged ids have theirs, and an id reserved anew that was published
before is found spent by the checks that follow), `QuietWhenCleared`, `AboveBefore` (the id
a push tries is above all that were acknowledged when it began), with `IdSpentOnce` and
`Conservation`. `Refinement`: a rename to `<id>.entry` is `Add`, the popper's rename is
`Take`, `clear` is `Discard`, and every other system call a stutter of `SharedLog`.

What else is in `StorageFilesProofs` rests on `Invariance`. Without overlapping pushes, `SInv` adds that
at most one process is pushing, at an id above all that the directory has and every cursor
(`OnePush`), that what a popper knows is of ids that are there for good (`KnownIds`), and
that what its probe has passed over has no entry (`Probing`). In a
parallel scan, `DInv` says that the queue is filled before the first worker pops
(`Dividing`) and that no entry is left behind a worker's probe (`Draining`); so `nullopt`
means drained, with any number of workers and any deaths. A key is whole (`KInv`) because a
temporary belongs to the one thread of its process: `StorageFilesAssumption` has
`OneThreadPerProcess`, without which run `kv_threads` refutes it, and `EnoughInodes`.

`MemoryCatalogProofs`, from `MemoryCatalogAssumption`. In `CatalogTree` the step that
matters is the cascade, and rests on the lemma `BelowParent`: a path whose parent is the
dropped path, or below it, is itself below the dropped path, so what survives keeps its
parent. `CatalogAnswers` follows from `CInv`: the types of calls and answers, that a call in
progress read a version no later than the present one, and that a held answer is the
contents of some moment since its call began, under the version or the etag it is filed by.

`SessionProofs`, from `SessionAssumption` (declared options are not
reserved, lifetimes are naturals). `AInv`: a handle's value is the seal of what its ATTACH
settled less what is kept back (`HandlesOK`), the store has what was kept back until it is
swept (`SecretsOK`), a transaction's value is bound to the attach it was begun under
(`BegunOK`), a ticket holds the valid request it was sealed for (`TicketOK`), and clocks are
ahead by at most the skew (`ClocksOK`). Options are folded one over the other, and the lemmas
on them find the last that sets a name. `MInv` says that what a call site saw is what the
scope holds, or will until the transaction ends (`Remembered`). `SecretsStayHome` is
non-interference: a value that travels unsealed is the one the same ATTACH with its secrets
blank would have got. `SweepIsSafe` is an action property about the removal, and needs more
than the look's guard (`ScopeInv`): a directory is as fresh as a key put within the day, and
of a sweeper that has condemned it, the key is past the day or was put after that look.

`ExecutionProofs`, from `ExecutionAssumption`. `DispatchInv`: what bind and init decided
is a function of the name and the call. `ScanInv`: a predicate in force is the newest
revision that was offered (`RevisionsOK`), each id has one predicate (`SpecsOK`), and the
producer was asked with the first tick's validators (`TagsOK`). `PagingIsWhole`: a page is a
`Segment` of the output from one `Position` to the next, segments that meet join
(`SegmentsJoin`), and each iteration of `next_page`'s loop extends the segment read so far
(`OneIteration`) while a measure drops. `FillIsALoop` shows that the recursive definition of
the loop has a solution, from the set of runs that end. `ExchangeInv` then says that pending
output continues the last input's rows where they end, and every earlier input's are whole.

`BufferingProofs`: ids are minted once (`IdsOK`), so each query finds its own scope
(`ScopesOK`) and bind context (`SeenOK`). For `Delivery`, the log of a query's namespace
holds exactly what it sank so far, `combine` moves it whole, and the replay's output is the
part of it up to its cursor (`DeliveryOK`). `SortIsRight`: the batch-index sink's sort by
index permutes its input.

`AggregationProofs`, from the same assumption (`AggregationAssumption`: threads are finitely
many, a mask is as long as its partition, partition keys hold no NUL). That sums do not
depend on the order is not assumed: `SumsDiffer` compares two sums whose summands differ in
one place, and `TotalBumped` lifts it to sums over the threads. `AInv`: while a grouped
aggregate is fed, the unmerged states of a group add up to what the group was fed, and what
an update has read is still what the scope holds, since no other thread writes its keys
(`Grouped`); so an update adds its batch (`ShareWritten`), a combine moves a summand
(`ShareMerged`), and one state is left at the end (`ShareLeft`). A shipped partition's four
keys hold it until its own destructor (`Holds`), and a mask survives its packing for any
number of rows (`MaskSurvives`). The log of a streaming session loads as the totals so far
(`Streamed`): an entry splits into the key and state it was made of (`BlobLoads`), and the
newest entry of each key is of the last chunk (`AppendedLoads`).

`SplitScanProofs`, from `SplitAssumption` (the types of calls, and that the workers of a
fleet have a key or none of them has). Tokens are bound to the version they were planned
under (`TokensAreBound`), so the first redemption of a stale plan refuses it (`StaleInv`).
`RowsOnce` is about arithmetic first: whatever the number of rows and of splits, each
function's plan tiles its scan, every row in exactly one split (empty splits, more splits
than rows and bounds that prune included). `PlanInv` says that the pages asked for so far
are the first of that plan; `ReadInv` that every row of the plan is delivered once, in the
hands of one reader, or in a split nobody has claimed, through deaths and redemptions.
`SplitScanWhole` adds the sums (`EstimatesAreExact`: sizes that are said to be exact add up
to what is delivered) and `MarkInv`: a reader's batch indices ascend, and belong to its own
splits. The theorem assumes nothing of the calls: rows, counts and estimates are right for
all of them, and the part on batch indices is stated of each call whose splits have no more
batches than the stride (`IndicesFit(q)`), since the code does not see to it (section 5).

`LibraryProofs`. *Generators*: `GenInv` says that what has gone out is the function's rows
up to the producer's position, narrowed to the columns asked for; that the bounds and the
row count told to the planner are those of the rows is a lemma per function; it is stated
for every call, of `double_sequence`'s bounds when its increment is above 0 (section 5). *Partitioned scans*: `RangesTile` is
about `push_ranges` alone. A worker that reads a chunk has it to itself and is the only one
that did (`WorkersInv`, `OwnInv`), its batches are the chunk's up to its cursor (`RunsInv`),
and each chunk is queued or in some worker's hands or delivered whole (`CoverInv`). That
partition values are true is then a fact of each function's chunks; that disjoint ranges
are apart is stated of the calls whose partitions fit the stride (`RangeFits`). That tags
pass the engine's cap is an assumption (`TagsFit`): the cap is the engine's, and every chunk
was pushed to the queue before the first is tagged. The functions
that break their declaration on purpose have an invariant of their own (`BrokenInv`): the
batch that breaks it is the one the engine refuses. *Kept results*: `NonceInv` says that the
rows of a kept result bear one nonce, below the next to be drawn, that a result that may be
confirmed has a row, and that one that depends on its transaction says so (`IsKept`); hence
the nonce tells a run from a confirmation and from a hit. *Scalar calls*: `ServedInv` is short,
and all the work is in `ResolvedAsMeant`, for any types, values and number of arguments the
engine's listing admits (`CallsAreListed`). The proof goes through the listing: seven names
are shared; the overloads of four of them differ in the type of a column, one's are in
different schemas, and those of `format_number` and `smart_format` are told apart by
constants after `remap_positional` has seated them by the first overload - for
`format_number` the constants stay where they were sent, and its last two overloads tie
unless both constants are given.

Facts by induction over data (a fold, a loop, a sort) are proved with the least
counterexample: the library's `WFMin` over `NatLessThanWellFounded` gives the set of
counterexamples a least member, and the step below it contradicts that. Recursive functions
are first shown to have a solution.

What failed proofs changed. Arms of a CASE that overlap have no determined value: those of
the refusals of a token or ticket, of predicates and casts became chains of IF, in the order
of the code's early returns. `WriterAndReaderApart` is false when a third kind has the name
as well, and says so now. A delta that names a predicate twice is refused as a whole by
`apply_delta`; the model took both.

Only model-checked:

- all liveness (`CallsReturn`, `ScanCompletes`, `OutputEnds`, `QueryEnds`,
  `AbandonedIsReclaimed`, `EndedIsForgotten`, `SplitScanEnds`), which is out of this
  prover's reach;
- `FilteredAsAsked` with `PruningLosesNoRow`, over expression trees (RECURSIVE operators),
  for which the prover has no SMT backend. `WorkerLibrary` extends them, so the theorems on
  its other families are of the families' own specifications;
- `ServedIsTheAnswer` and `ScalarsAnswer`: what every one of some 70 fixtures computes,
  by flattened and sorted sequences, decimals and hashes. They compare a function with
  its reference on all inputs of the instance; a proof would be an induction over
  data for each fixture.

## 5. Where the code and its comments disagree

Each has a run whose violated property is what the comment says.

1. `stranded_item`, `CursorStrandsNothing` (`src/storage.cpp:201`): with two pushes in flight, a pop whose
   rename failed and whose look at the reservation comes after the push completed
   takes the item for one another popper had, and its cursor passes it. Scans push
   once before they pop and are not exposed (`scan_queue`, `storage_files`).
2. `orphaned_reservation`, `PushedIsPopped` (`src/storage.cpp:212`): a reservation left by a push that
   died makes every later `queue_pop` of a process rewind and return before it
   refreshes its high-water mark; it never sees items pushed later.
3. `kv_threads`, `NameIsWhole` (`src/storage.cpp:53`): the temporary is named after key and pid, so
   two threads of one process that put one key share it.
4. `live_scope_swept`, `LiveNeverSwept` (`src/storage.cpp:254`): appends and queue operations move the
   mtime of the nested directory, and the sweep reads the scope's.
5. `shared_name`, `InitServesWhatBindBound` (`src/function_dispatch.cpp:1693`): `init` picks its stream by name
   alone, while `bind` breaks the tie by the declared kind: a COPY FROM whose reader
   shares its name with a writer is served the writer's empty stream.

### Limits that the properties state

Met while modelling; each is an exception the property or the instance names.

- The entry of a streaming aggregate is split at its first NUL (`src/aggregate.cpp:308`):
  running totals are checked for partition keys without one. `vgi_sum` adds signed 64-bit
  integers (`example-worker/aggregate/basic.cpp:94`): totals that leave them are excluded.
- A split's batch indices are its number times 1000 plus the batch
  (`example-worker/table/splits.cpp:521`): they collide once a split has more batches, which
  a large row count with few splits asks for. The property claims indices only of the calls
  whose splits fit (`IndicesFit`).
- `disjoint_range_partitioned` puts partitions 1000 apart "whatever a caller asks for"
  (`example-worker/table/partitioned.cpp:378`) and does not bound `rows_per_partition`: with
  more rows than that the partitions it declares disjoint overlap. The property claims
  disjointness only of the calls that fit (`RangeFits`). Tagged functions tag a batch with its chunk's number, which the engine caps
  (`TagsFit`).
- `splits.cpp` says of the empty ranges that one "is never last"; with an even number of
  splits one is. Nothing depends on it.
- A split token is bound to the catalog version, which is constant, and to the function's
  fingerprint, which leaves out the AT clause and the attachment.
- `DoubleSequence::statistics` (`example-worker/table/series.cpp:169`) tells the planner a
  maximum below its minimum for a negative increment, which only `sequence` refuses; the
  property claims bounds only of the calls whose increment grows (`IncrementGrows`). `partition` cardinalities are wrong for negative
  counts; the instance asks for counts of at least 0.
- `value_prune` emits a key as often as an IN list repeats it; the engine's lists hold each
  once.
- The parser accepts comparisons of lists and structs and dictionary literals that the
  evaluator refuses (`Unserved` in `FilteredScans`). One bad row of a batch disables an
  advisory predicate for the whole batch (`src/pushdown.cpp:1413`), so which rows a scan
  drops depends on how it is cut into batches; the engine filters again.
- A required predicate on a column a projection left out fails a cached scan
  (`src/pushdown.cpp:921`); an advisory one keeps all rows.
- `sum_values` takes the type of its first argument for all, so a sum of mixed types may
  wrap; sums of 64-bit integers wrap.
- Constants are seated by the first overload of a name (`src/function_dispatch.cpp:1036`);
  the worker's own overloads agree on the places.
- `check_type_bounds` indexes the input columns by argument position, which is another
  column after a constant; the worker's bounded arguments come first.
- The name of a data version's schema that the catalog does not list is served and not
  listed; a request "1x" is read as major version 1.
- `hash_seed` and `random_bytes` start anew with every batch, though declared consistent.

## 6. What is not modelled

Wire encoding and the generated schemas, SQL literals, and the Arrow schemas that list
arguments are stateless conversions. The listings of catalogs, functions and constraints
answer from a model fixed at start-up, and so does the choice of a table's version by an AT
clause. Sockets and the RPC loop are in a library outside
the repository, and the command line is only read. The cipher, the signature and the hash
are ideal: what they bind together is modelled, their strength is not. The accumulating
in-out functions keep their rows as `buffer_input` does, which is modelled. Sampling and
ordering hints of `init`, conditional-request validators of the exchange, and the batching
of window calls are left out of the modules that surround them. Floating point numbers do
not round. `PROJECT.json` lists every component with its status.

## 7. What is left

Proofs: that what `Keep` files of an answer is that answer, for `ServedIsTheAnswer` of the
fixtures without parallel workers; the operators of `NumericTypes` (`promote_for_addition` has room for the carry) as lemmas for `SumsHaveRoom`.

Modelling: accumulating in-out functions and the finalize phase of `init` as a fifth
protocol of `Execution`, and the cached listings of the registries.
