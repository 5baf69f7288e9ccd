----------------------------- MODULE ResultCache -----------------------------
(***************************************************************************)
(* Results that advertise they may be kept: the fixtures of                *)
(* example-worker/table/cache.cpp, cache_more.cpp, cache_partitions.cpp,   *)
(* table_in_out/cached.cpp and scalar/cached.cpp, with the advertisement   *)
(* of src/cache_control.cpp.  The engine's cache (external) is modelled    *)
(* from what include/vgi/cache_control.h and the fixtures say of it: it    *)
(* keeps a whole result under everything the answer depends on, asks again *)
(* with the validator once the result is stale, keeps a result by          *)
(* partition or by input value where it is told to, and keeps nothing of a *)
(* scan that failed.                                                       *)
(*                                                                         *)
(* A row is a sequence of cells, numbers but for the columns of            *)
(* cache_types; identities, schemas and columns are numbers too.           *)
(***************************************************************************)
EXTENDS Integers, Sequences, FiniteSetsExt, SequencesExt

CONSTANTS
  CacheQueries,  \* records [fn, n, ttl, schema, who, version, filter, keep, wanted, input]
  CacheBatch,    \* rows of a batch: 1000 and 2048 in the code
  CacheChunks,   \* chunks of cache_parallel: 24
  DefaultTtl,    \* kDefaultTtlSeconds
  CacheClock,    \* the last instant modelled
  MaxQueries     \* queries modelled

CacheAssumption ==
  /\ CacheBatch \in Nat \ {0} /\ CacheChunks \in Nat \ {0} /\ DefaultTtl \in Nat
  /\ CacheClock \in Nat /\ MaxQueries \in Nat
  /\ \A q \in CacheQueries : q.n \in Int

NoValue == -1
Anonymous == 0

\* A batch that carries no partition values
Unlabelled == -2

VARIABLES
  cnow,      \* the engine's clock
  ctxn,      \* the transaction it is in
  cstore,    \* whole results kept: [key, txn, rows, control, at]
  cparts,    \* results kept by partition: [key, part, rows, control, at]
  cmemo,     \* answers kept by input value: [key, value, rows, at]
  cnonce,    \* nonce_counter
  canswer,   \* the last query, how it was answered and with which rows
  casked     \* queries so far

cacheVars == <<cnow, ctxn, cstore, cparts, cmemo, cnonce, canswer, casked>>

-----------------------------------------------------------------------------
(* Advertisements                                                          *)

\* CacheControl; to_metadata clamps a negative ttl.
Control(ttl) ==
  [ttl |-> IF ttl < 0 THEN 0 ELSE ttl, scope |-> "catalog", noStore |-> FALSE,
   etag |-> NoValue, notModified |-> FALSE, partitionScope |-> FALSE, perValue |-> FALSE]
NoControl == [Control(0) EXCEPT !.noStore = TRUE]

Revalidated(etag, confirmed) ==
  [Control(0) EXCEPT !.etag = etag, !.notModified = confirmed]

PartitionScope == [Control(DefaultTtl) EXCEPT !.partitionScope = TRUE]
PerValue == [Control(DefaultTtl) EXCEPT !.perValue = TRUE]

\* A batch: its rows, its advertisement and the partition it says it is of.
CacheBatchOf(rows, control, part) == [rows |-> rows, control |-> control, part |-> part]

\* What a worker answers: a stream per worker, and whether one of them failed.
Streams(streams, failed) == [streams |-> streams, failed |-> failed]

FirstOnly(k, control) == IF k = 1 THEN control ELSE NoControl

Ints(from, to) == [k \in 1..(to - from) |-> <<from + k - 1>>]

\* Countdown and Sequence: batches of the rows, advertising on the first.
Countdown(rows, size, control) ==
  [k \in 1..((Len(rows) + size - 1) \div size) |->
     CacheBatchOf(SubSeq(rows, (k - 1) * size + 1, Min({k * size, Len(rows)})),
                  FirstOnly(k, control), Unlabelled)]

OneBatch(rows, control) == Streams(<<<<CacheBatchOf(rows, control, Unlabelled)>>>>, FALSE)

\* The rows asked for: a producer has none to give of a negative count.
CacheN(q) == IF q.n < 0 THEN 0 ELSE q.n

\* A number no earlier call of this worker drew
next_nonce == cnonce' = cnonce + 1

-----------------------------------------------------------------------------
(* The table functions                                                     *)

\* CachedNumbers, cache_bench among them
cacheable_numbers(q) ==
  Streams(<<Countdown(Ints(0, CacheN(q)), CacheBatch, Control(q.ttl))>>, FALSE)

cache_big(q) ==
  Streams(<<Countdown(Ints(0, CacheN(q)), CacheBatch, Control(DefaultTtl))>>, FALSE)

cache_no_store(q) ==
  Streams(<<Countdown(Ints(0, CacheN(q)), CacheBatch, NoControl)>>, FALSE)

\* Mutant of cache_scoped_txn: the result may be kept for the whole catalog.
cache_scoped_widely(q, nonce) ==
  OneBatch([k \in 1..CacheN(q) |-> <<k - 1, nonce>>], Control(DefaultTtl))

\* CacheScopedTxn: every row has the nonce init drew.
cache_scoped_txn(q, nonce) ==
  OneBatch([k \in 1..CacheN(q) |-> <<k - 1, nonce>>],
           [Control(DefaultTtl) EXCEPT !.scope = "transaction"])

cache_nonce(q, nonce) == OneBatch(<<<<nonce>>>>, Control(DefaultTtl))

cache_multicol(q) ==
  OneBatch([k \in 1..CacheN(q) |-> <<k - 1, (k - 1) * 10, (k - 1) * 100>>], Control(q.ttl))

\* OneRow::on_conditional_request, and the same test of the in-out functions.
Confirms(etag, validator) == validator = etag

\* CacheRevalidatable over OneRow: no rows where the validator is confirmed.
RevEtag(q) == 1
cache_revalidatable(q, nonce, validator) ==
  LET confirmed == Confirms(RevEtag(q), validator)
  IN OneBatch(IF confirmed THEN <<>> ELSE <<<<nonce>>>>, Revalidated(RevEtag(q), confirmed))

\* CacheParallel::on_init
ParallelChunks(n) ==
  LET size == (n + CacheChunks - 1) \div CacheChunks
      s == IF size < 1 THEN 1 ELSE size
  IN [k \in 1..((n + s - 1) \div s) |-> [from |-> (k - 1) * s, to |-> Min({k * s, n})]]

\* CacheParallel::QueueProducer: each worker advertises on its first batch only,
\* whichever chunks it claims.
ParallelStream(n, mine) ==
  LET chunks == SetToSortSeq(mine, <)
      Batches(k) ==
        LET c == ParallelChunks(n)[chunks[k]]
        IN [j \in 1..((c.to - c.from + CacheBatch - 1) \div CacheBatch) |->
              Ints(c.from + (j - 1) * CacheBatch, Min({c.from + j * CacheBatch, c.to}))]
      all == FlattenSeq([k \in 1..Len(chunks) |-> Batches(k)])
  IN [k \in 1..Len(all) |->
        CacheBatchOf(all[k], FirstOnly(k, Control(DefaultTtl)), Unlabelled)]
cache_parallel(q, mine) ==
  Streams(<<ParallelStream(CacheN(q), mine),
            ParallelStream(CacheN(q), (1..Len(ParallelChunks(CacheN(q)))) \ mine)>>, FALSE)

\* CachePoison and CacheExternalFail: a batch that may be kept, then a failure,
\* of the worker or of the engine's fetch.
cache_poison(q) ==
  Streams(<<<<CacheBatchOf(Ints(0, CacheN(q)), Control(DefaultTtl), Unlabelled)>>>>, TRUE)
cache_external_fail(q) ==
  Streams(<<<<CacheBatchOf(Ints(0, 3), Control(DefaultTtl), Unlabelled)>>>>, TRUE)

\* CacheProjection: the columns the bound schema names, in its order.
cache_projection(q) ==
  OneBatch([k \in 1..3 |-> [c \in 1..Len(q.wanted) |-> k * q.wanted[c]]], Control(DefaultTtl))

\* CacheTypes: the columns are a list, a struct, a decimal, a timestamp and a text, NULL
\* (an empty cell) together on every fifth row; the id never is.  A column is built
\* against the type it is bound to, and no other is ever bound.
null_row(j) == (j % 5) = 0
build_types_column(column, j) ==
  CASE column = "id" -> <<j>>
    [] column # "id" /\ null_row(j) -> <<>>
    [] OTHER -> CASE column = "tags" -> <<j, j + 1, j + 2>>
                  [] column = "attrs" -> <<j, <<"y", j>>>>
                  [] column = "amt" -> <<j * 100 + (j % 100)>>
                  [] column = "ts" -> <<j>>
                  [] column = "label" -> <<"label", j>>
cache_types_schema == <<"id", "tags", "attrs", "amt", "ts", "label">>
TypesRow(j) ==
  [c \in DOMAIN cache_types_schema |-> build_types_column(cache_types_schema[c], j)]
cache_types(q) ==
  Streams(<<Countdown([k \in 1..CacheN(q) |-> TypesRow(k - 1)], CacheBatch,
                      Control(DefaultTtl))>>, FALSE)

\* The columns of a table by country.
Country == 1
Sales == 2
Extra == 3
CountrySales == <<Country, Sales>>

\* The predicate pushed with a query, where there is one, keeps the rows whose key is
\* in q.keep.  TableProduce applies it to every batch, an emptied one too, as the
\* producer built it: where the predicate's column was not built, a required one fails
\* the scan and an advisory one leaves the batch as it is.  The key is the first column,
\* or the partition, in the order of the batches, or the country, wherever it is.
RegionYear(row) == row[1] * 2 + (row[2] - 2020) \div 2
FilterKey(q, row) ==
  CASE q.fn = "cache_partition_multicol" -> RegionYear(row)
    [] q.fn = "cache_partition_proj" -> row[CHOOSE c \in DOMAIN q.wanted : q.wanted[c] = Country]
    [] OTHER -> row[1]
FilterFails(q, built) == q.filter = "required" /\ ~built
Filtered(q, built, stream) ==
  IF q.filter = "none" \/ ~built THEN stream
  ELSE [k \in 1..Len(stream) |->
          [stream[k] EXCEPT !.rows = SelectSeq(@, LAMBDA row : FilterKey(q, row) \in q.keep)]]
cache_filtered(q) ==
  Streams(<<Filtered(q, TRUE, Countdown(Ints(0, CacheN(q)), CacheBatch, Control(DefaultTtl)))>>,
          FALSE)

cache_ordered(q) ==
  Streams(<<Countdown(Ints(0, CacheN(q)), IF q.ttl < 1 THEN 1 ELSE q.ttl,
                      Control(DefaultTtl))>>, FALSE)

\* The caller, the version of the AT clause, the owning schema.
cache_whoami(q) == OneBatch(<<<<q.who>>>>, Control(DefaultTtl))
cache_versioned_scan(q) ==
  OneBatch(CASE q.version = 1 -> <<<<101>>, <<102>>, <<103>>>>
             [] q.version = 2 -> <<<<201>>, <<202>>>>
             [] OTHER -> <<<<301>>, <<302>>, <<303>>, <<304>>>>, Control(DefaultTtl))
test_same_name_cached(q) == OneBatch(<<<<q.schema>>>>, Control(DefaultTtl))

-----------------------------------------------------------------------------
(* By partition: a country is its index, the absent one NoValue            *)

kPartitionStride == 1000000
kParallelParts == <<0, 1, 2, NoValue>>

\* Only the columns asked for are built.
country_sales_batch(columns, country, index, rows) ==
  LET base == index * kPartitionStride
      Cell(column, k) == CASE column = Country -> country
                           [] column = Sales -> base + k
                           [] column = Extra -> base + 500 + k
  IN [k \in 1..rows |-> [c \in DOMAIN columns |-> Cell(columns[c], k - 1)]]

\* vgi::partition_metadata, of a batch of one country: an empty one is not labelled.
LabelOf(rows) == IF rows = <<>> THEN Unlabelled ELSE rows[1][1]

\* The label of a one-row batch made for it, which is there when the column is not
\* built, the batch is empty or the country is NULL.
explicit_country_values(country) == LabelOf(<<<<country>>>>)

\* CachePartitioned: by partition, but kept only as a whole.
cache_partitioned(q) ==
  LET Rows(k) == country_sales_batch(CountrySales, k - 1, k - 1, CacheN(q))
  IN Streams(<<[k \in 1..5 |-> CacheBatchOf(Rows(k), FirstOnly(k, Control(DefaultTtl)),
                                            LabelOf(Rows(k)))]>>, FALSE)

\* CachePartitionScope: the opt-in rides on every batch, and so do the partition's values.
cache_partition_scope(q) ==
  LET Rows(k) == country_sales_batch(CountrySales, k - 1, k - 1, CacheN(q))
  IN Streams(<<Filtered(q, TRUE, [k \in 1..5 |-> CacheBatchOf(Rows(k), PartitionScope,
                                                             LabelOf(Rows(k)))])>>,
             FALSE)

\* CachePartitionMultiCol: two regions by two years, 2020 and 2022.
cache_partition_multicol(q) ==
  LET Rows(k) == [i \in 1..CacheN(q) |->
                    <<(k - 1) \div 2, 2020 + 2 * ((k - 1) % 2), (k - 1) * 1000 + i - 1>>]
      Label(rows) == IF rows = <<>> THEN Unlabelled ELSE RegionYear(rows[1])
  IN Streams(<<Filtered(q, TRUE, [k \in 1..4 |-> CacheBatchOf(Rows(k), PartitionScope,
                                                             Label(Rows(k)))])>>,
             FALSE)

\* CachePartitionParallel: a partition per chunk, one of them NULL.
cache_partition_parallel(q, mine) ==
  LET Batch(i) == LET rows == country_sales_batch(CountrySales, kParallelParts[i], i - 1,
                                                  CacheN(q))
                  IN CacheBatchOf(rows, PartitionScope, explicit_country_values(kParallelParts[i]))
      Of(chosen) == LET s == SetToSortSeq(chosen, <) IN [k \in 1..Len(s) |-> Batch(s[k])]
      Sent(chosen) == Filtered(q, TRUE, Of(chosen))
  IN Streams(<<Sent(mine), Sent((1..4) \ mine)>>, FALSE)

\* CachePartitionProj: the columns the bound schema names, with or without the country
\* the predicate is on.
cache_partition_proj(q) ==
  LET built == Country \in Range(q.wanted)
      Batch(k) == LET rows == country_sales_batch(q.wanted, k - 1, k - 1, CacheN(q))
                  IN CacheBatchOf(rows, PartitionScope, explicit_country_values(k - 1))
  IN Streams(<<Filtered(q, built, [k \in 1..2 |-> Batch(k)])>>, FilterFails(q, built))

-----------------------------------------------------------------------------
(* By input value: what a function answers a batch of values with is rows,  *)
(* each with the input row it is of.                                       *)

\* NULL stays NULL.
doubled(v) == IF v = NoValue THEN NoValue ELSE v * 2
CachedDoubleScalar(v) == IF v = NoValue THEN NoValue ELSE v * 2
CachedAddConst(v, addend) == IF v = NoValue THEN NoValue ELSE v + addend

\* NULL of a negative value too; a label is told from a value by its offset.
CachedLabel(v) == IF v < 0 THEN NoValue ELSE 1000 + v

MapOne(fn, n, v) ==
  CASE fn \in {"cached_double", "cached_reval_double"} -> doubled(v)
    [] fn = "cached_double_scalar" -> CachedDoubleScalar(v)
    [] fn = "cached_add_const" -> CachedAddConst(v, n)
    [] fn = "cached_label" -> CachedLabel(v)
    [] fn \in {"cached_echo", "cached_reval_echo"} -> v

MapRows(fn, n, input) ==
  [k \in 1..Len(input) |-> [row |-> <<MapOne(fn, n, input[k])>>, parent |-> k]]

\* Mutant of ExplodeRows: the parents of a contiguous emission.
ExplodeRowsAdjacent(input) ==
  LET widest == Max({0} \cup Range(input))
      Round(k) == SelectSeq([r \in 1..Len(input) |-> [row |-> <<k>>, parent |-> r]],
                            LAMBDA e : input[e.parent] > k)
      rows == FlattenSeq([k \in 1..widest |-> Round(k - 1)])
      parents == FlattenSeq([r \in 1..Len(input) |->
                               [k \in 1..(IF input[r] < 0 THEN 0 ELSE input[r]) |-> r]])
  IN [k \in 1..Len(rows) |-> [row |-> rows[k].row, parent |-> parents[k]]]

\* CachedExplode::process: round k emits k for every row that still counts.
ExplodeRows(input) ==
  LET widest == Max({0} \cup Range(input))
      Round(k) == SelectSeq([r \in 1..Len(input) |-> [row |-> <<k>>, parent |-> r]],
                            LAMBDA e : input[e.parent] > k)
  IN FlattenSeq([k \in 1..widest |-> Round(k - 1)])

Mapped(q, input) ==
  IF q.fn = "cached_explode" THEN ExplodeRows(input) ELSE MapRows(q.fn, q.n, input)

\* CachedRevalDouble and CachedRevalEcho: per emission; CachedEcho by ttl.
MapEtag(fn) == IF fn = "cached_reval_double" THEN 2 ELSE 3
cached_map(q, validator) ==
  LET confirmed == q.fn \in {"cached_reval_double", "cached_reval_echo"}
                   /\ Confirms(MapEtag(q.fn), validator)
      rows == [k \in 1..Len(q.input) |-> Mapped(q, q.input)[k].row]
  IN OneBatch(IF confirmed THEN <<>> ELSE rows,
              IF q.fn = "cached_echo" THEN Control(DefaultTtl)
              ELSE Revalidated(MapEtag(q.fn), confirmed))

Memoized == {"cached_double", "cached_explode", "cached_double_scalar", "cached_add_const",
             "cached_label"}
ByPartition == {"cache_partition_scope", "cache_partition_multicol",
                "cache_partition_parallel", "cache_partition_proj"}
Nonces == {"cache_nonce", "cache_scoped_txn", "cache_revalidatable"}

\* The worker answers a query, mine being the chunks its first worker claims.
Answer(q, validator, mine) ==
  CASE q.fn \in {"cacheable_numbers", "cache_bench"} -> cacheable_numbers(q)
    [] q.fn = "cache_big" -> cache_big(q)
    [] q.fn = "cache_no_store" -> cache_no_store(q)
    [] q.fn = "cache_scoped_txn" -> cache_scoped_txn(q, cnonce)
    [] q.fn = "cache_nonce" -> cache_nonce(q, cnonce)
    [] q.fn = "cache_multicol" -> cache_multicol(q)
    [] q.fn = "cache_revalidatable" -> cache_revalidatable(q, cnonce, validator)
    [] q.fn = "cache_parallel" -> cache_parallel(q, mine)
    [] q.fn = "cache_poison" -> cache_poison(q)
    [] q.fn = "cache_external_fail" -> cache_external_fail(q)
    [] q.fn = "cache_projection" -> cache_projection(q)
    [] q.fn = "cache_types" -> cache_types(q)
    [] q.fn = "cache_filtered" -> cache_filtered(q)
    [] q.fn = "cache_ordered" -> cache_ordered(q)
    [] q.fn = "cache_whoami" -> cache_whoami(q)
    [] q.fn = "cache_versioned_scan" -> cache_versioned_scan(q)
    [] q.fn = "test_same_name_cached" -> test_same_name_cached(q)
    [] q.fn = "cache_partitioned" -> cache_partitioned(q)
    [] q.fn = "cache_partition_scope" -> cache_partition_scope(q)
    [] q.fn = "cache_partition_multicol" -> cache_partition_multicol(q)
    [] q.fn = "cache_partition_parallel" -> cache_partition_parallel(q, mine)
    [] q.fn = "cache_partition_proj" -> cache_partition_proj(q)
    [] OTHER -> cached_map(q, validator)

\* How many chunks there are for the workers to share.
Shared(q) ==
  CASE q.fn = "cache_parallel" -> Len(ParallelChunks(CacheN(q)))
    [] q.fn = "cache_partition_parallel" -> 4
    [] OTHER -> 0

-----------------------------------------------------------------------------
(* The engine                                                              *)

CacheInit ==
  /\ cnow = 0 /\ ctxn = 0 /\ cstore = {} /\ cparts = {} /\ cmemo = {}
  /\ cnonce = 0 /\ casked = 0
  /\ canswer = [how |-> "none"]

Fresh(e) == cnow < e.at + e.control.ttl

Kept(q) == {e \in cstore : e.key = q /\ (e.control.scope = "catalog" \/ e.txn = ctxn)}

\* The partitions a filter asks for, where it enumerates them: never NULL.
Enumerated(q) ==
  IF q.fn \in ByPartition /\ q.filter # "none" /\ NoValue \notin q.keep THEN q.keep ELSE {}

\* What the entries of a query's partitions are kept under: all but its predicate.
PartitionKey(q) == [q EXCEPT !.keep = {}, !.filter = "none"]

PartsFor(q) ==
  {e \in cparts : e.key = PartitionKey(q) /\ e.part \in q.keep /\ Fresh(e)}

Replied(q, how, rows) == canswer' = [how |-> how, query |-> q, rows |-> rows, txn |-> ctxn]

\* Served from the store.
Hit(q) ==
  /\ casked < MaxQueries /\ q.fn \notin Memoized
  /\ \E e \in Kept(q) : Fresh(e) /\ Replied(q, "hit", e.rows)
  /\ casked' = casked + 1
  /\ UNCHANGED <<cnow, ctxn, cstore, cparts, cmemo, cnonce>>

\* Served from the entries of the partitions asked for.
PartitionHit(q) ==
  /\ casked < MaxQueries /\ Enumerated(q) # {}
  /\ {e.part : e \in PartsFor(q)} = q.keep
  /\ LET parts == SetToSortSeq(q.keep, <)
         Of(p) == (CHOOSE e \in PartsFor(q) : e.part = p).rows
     IN Replied(q, "hit", FlattenSeq([k \in 1..Len(parts) |-> Of(parts[k])]))
  /\ casked' = casked + 1
  /\ UNCHANGED <<cnow, ctxn, cstore, cparts, cmemo, cnonce>>

AllRows(streams) ==
  FlattenSeq([s \in 1..Len(streams) |->
                FlattenSeq([k \in 1..Len(streams[s]) |-> streams[s][k].rows])])

\* The advertisement of a scan: that of a stream's first batch.
Advertisement(streams) ==
  LET said == {s \in 1..Len(streams) : streams[s] # <<>>}
  IN IF said = {} THEN NoControl ELSE streams[Min(said)][1].control

\* The rows of a partition, from all batches that say they are of it.
PartOf(streams, p) ==
  FlattenSeq([s \in 1..Len(streams) |->
    FlattenSeq([k \in 1..Len(streams[s]) |->
                  IF streams[s][k].part = p THEN streams[s][k].rows ELSE <<>>])])

\* The stale entries the worker may confirm, and the validator sent for them
Stale(q) == {e \in Kept(q) : e.control.etag # NoValue}
Validator(stale) ==
  IF stale = {} THEN NoValue ELSE (CHOOSE e \in stale : TRUE).control.etag

\* The partitions of which the scan delivered every row, NULL not among them
WholeParts(q, parts) ==
  {p \in parts \ {NoValue, Unlabelled} : q.filter = "none" \/ p \in q.keep}

\* The streams' result is kept as a whole, unless it must not be, and by
\* partition too where the worker says so and the scan was of everything.
Keep(q, streams, rows, control) ==
  LET key == PartitionKey(q)
      others == {e \in cstore : e.key # q}
      parts == UNION {{streams[s][k].part : k \in DOMAIN streams[s]} : s \in DOMAIN streams}
  IN /\ cstore' = IF control.noStore THEN others
                  ELSE others \cup {[key |-> q, txn |-> ctxn, rows |-> rows,
                                     control |-> control, at |-> cnow]}
     /\ cparts' = IF ~control.partitionScope THEN cparts
                  ELSE {e \in cparts : e.key # key \/ e.part \notin parts}
                       \cup {[key |-> key, part |-> p, control |-> control, at |-> cnow,
                              rows |-> PartOf(streams, p)]
                             : p \in WholeParts(q, parts)}

\* A scan by the worker: with the validator of what is kept, if that is stale.
Settle(q, reply, rows, control) ==
  IF reply.failed
  THEN Replied(q, "failed", <<>>) /\ UNCHANGED <<cstore, cparts>>
  ELSE IF control.notModified
  THEN /\ Replied(q, "confirmed", (CHOOSE e \in Stale(q) : TRUE).rows)
       /\ UNCHANGED <<cstore, cparts>>
  ELSE Replied(q, "run", rows) /\ Keep(q, reply.streams, rows, control)
Run(q, mine) ==
  /\ casked < MaxQueries /\ q.fn \notin Memoized
  /\ ~ \E e \in Kept(q) : Fresh(e)
  /\ IF q.fn \in Nonces THEN next_nonce ELSE UNCHANGED cnonce
  /\ \E reply \in {Answer(q, Validator(Stale(q)), mine)} :
       Settle(q, reply, AllRows(reply.streams), Advertisement(reply.streams))
  /\ casked' = casked + 1
  /\ UNCHANGED <<cnow, ctxn, cmemo>>

\* A map with a memo: the distinct values it has no slot for go to the worker,
\* and every input row takes its rows from the slot of its value.
RunMemo(q) ==
  LET key == [q EXCEPT !.input = <<>>]
      have == {e \in cmemo : e.key = key /\ Fresh(e)}
      missing == SetToSeq(Range(q.input) \ {e.value : e \in have})
      emitted == Mapped(q, missing)
      Slot(k) == [key |-> key, value |-> missing[k], at |-> cnow, control |-> PerValue,
                  rows |-> SelectSeq(emitted, LAMBDA e : e.parent = k)]
      slots == have \cup {Slot(k) : k \in 1..Len(missing)}
      Of(v) == (CHOOSE e \in slots : e.value = v).rows
  IN /\ casked < MaxQueries /\ q.fn \in Memoized
     /\ cmemo' = {e \in cmemo : e.key # key} \cup slots
     /\ Replied(q, IF missing = <<>> THEN "hit" ELSE "run",
                FlattenSeq([k \in 1..Len(q.input) |->
                              [i \in 1..Len(Of(q.input[k])) |-> Of(q.input[k])[i].row]]))
     /\ casked' = casked + 1
     /\ UNCHANGED <<cnow, ctxn, cstore, cparts, cnonce>>

CacheTick ==
  /\ cnow < CacheClock
  /\ cnow' = cnow + 1
  /\ UNCHANGED <<ctxn, cstore, cparts, cmemo, cnonce, canswer, casked>>

NextTransaction ==
  /\ ctxn < casked
  /\ ctxn' = ctxn + 1
  /\ UNCHANGED <<cnow, cstore, cparts, cmemo, cnonce, canswer, casked>>

CacheNext ==
  \/ \E q \in CacheQueries :
       Hit(q) \/ PartitionHit(q) \/ RunMemo(q) \/ \E mine \in SUBSET (1..Shared(q)) : Run(q, mine)
  \/ CacheTick \/ NextTransaction

CacheSpec == CacheInit /\ [][CacheNext]_cacheVars

-----------------------------------------------------------------------------
(* Properties                                                              *)

\* The tables behind the partitioned scans, all columns of all rows
CountryTable(values, n) ==
  [i \in 1..(Len(values) * n) |->
     LET p == (i - 1) \div n
         at == p * 1000000 + ((i - 1) % n)
     IN <<values[p + 1], at, at + 500>>]
RegionTable(n) ==
  [i \in 1..(4 * n) |->
     LET p == (i - 1) \div n
     IN <<IF p < 2 THEN 0 ELSE 1, IF p \in {0, 2} THEN 2020 ELSE 2022, p * 1000 + ((i - 1) % n)>>]

\* SELECT columns FROM table, with the query's predicate or with none: filtered, then
\* projected.
Asked(q, table, columns, InPart(_)) ==
  LET kept == SelectSeq(table, LAMBDA row : q.filter = "none" \/ InPart(row) \in q.keep)
  IN [i \in DOMAIN kept |-> [c \in DOMAIN columns |-> kept[i][columns[c]]]]

TypesTable(n) ==
  [i \in 1..n |->
     LET j == i - 1
     IN IF \E m \in 0..j : j = 5 * m THEN <<<<j>>, <<>>, <<>>, <<>>, <<>>, <<>>>>
        ELSE <<<<j>>, [t \in 1..3 |-> j + t - 1], <<j, <<"y", j>>>>,
               <<101 * j - 100 * (j \div 100)>>, <<j>>, <<"label", j>>>>]

\* What the query asks for, said without batches, streams or caches.
Truth(q) ==
  LET n == CacheN(q)
      Mine(row) == row[1]
      Pair(row) == CHOOSE p \in 0..3 : \E t \in Range(RegionTable(1)) :
                     t = <<row[1], row[2], p * 1000>>
  IN CASE q.fn \in {"cacheable_numbers", "cache_bench", "cache_big", "cache_no_store",
                    "cache_ordered", "cache_parallel"} -> Ints(0, n)
       [] q.fn = "cache_multicol" -> [k \in 1..n |-> <<k - 1, (k - 1) * 10, (k - 1) * 100>>]
       [] q.fn = "cache_projection" ->
            [k \in 1..3 |-> [c \in 1..Len(q.wanted) |-> k * q.wanted[c]]]
       [] q.fn = "cache_types" -> TypesTable(n)
       [] q.fn = "cache_filtered" -> Asked(q, Ints(0, n), <<1>>, Mine)
       [] q.fn = "cache_whoami" -> <<<<q.who>>>>
       [] q.fn = "cache_versioned_scan" ->
            [k \in 1..(CASE q.version = 1 -> 3 [] q.version = 2 -> 2 [] OTHER -> 4) |->
               <<(IF q.version \in {1, 2} THEN q.version ELSE 3) * 100 + k>>]
       [] q.fn = "test_same_name_cached" -> <<<<q.schema>>>>
       [] q.fn = "cache_partitioned" ->
            Asked(q, CountryTable(<<0, 1, 2, 3, 4>>, n), <<1, 2>>, Mine)
       [] q.fn = "cache_partition_scope" ->
            Asked(q, CountryTable(<<0, 1, 2, 3, 4>>, n), <<1, 2>>, Mine)
       [] q.fn = "cache_partition_multicol" -> Asked(q, RegionTable(n), <<1, 2, 3>>, Pair)
       [] q.fn = "cache_partition_parallel" ->
            Asked(q, CountryTable(<<0, 1, 2, NoValue>>, n), <<1, 2>>, Mine)
       [] q.fn = "cache_partition_proj" ->
            Asked(q, CountryTable(<<0, 1>>, n), q.wanted, Mine)
       [] q.fn = "cached_explode" ->
            FlattenSeq([k \in 1..Len(q.input) |->
                          Ints(0, IF q.input[k] < 0 THEN 0 ELSE q.input[k])])
       [] OTHER -> [k \in 1..Len(q.input) |-> <<MapOne(q.fn, q.n, q.input[k])>>]

\* How often a row is among the rows
Times(row, rows) == Cardinality({i \in DOMAIN rows : rows[i] = row})

SameRows(a, b) == Len(a) = Len(b) /\ \A row \in Range(b) : Times(row, a) = Times(row, b)

\* Every row asked for, and none that a query without the predicate would not get: the
\* engine applies an advisory predicate again.
NoLess(rows, q) ==
  LET all == Truth([q EXCEPT !.filter = "none"])
  IN /\ \A row \in Range(Truth(q)) : Times(row, rows) = Times(row, Truth(q))
     /\ \A row \in Range(rows) : Times(row, rows) <= Times(row, all)

\* Whether it was run, confirmed or served, an answer is what the query asks
\* for: in order, unless several workers share the scan, and all of it where the
\* predicate is advisory and its column was not built.  A scan fails only if it was made
\* to or was given a required predicate on a column that was not built, and what it
\* answered is never served; the partitions that query names are, from the labels of
\* earlier scans (the fixtures' advertisements, validators and partition values).
ServedIsTheAnswer ==
  LET q == canswer.query
      unbuilt == q.fn = "cache_partition_proj" /\ Country \notin Range(q.wanted)
  IN /\ canswer.how = "failed" =>
          \/ q.fn \in {"cache_poison", "cache_external_fail"}
          \/ unbuilt /\ q.filter = "required"
     /\ canswer.how \notin {"none", "failed"} =>
          /\ q.fn \notin {"cache_poison", "cache_external_fail"}
          /\ q.fn \notin Nonces =>
               IF unbuilt /\ q.filter = "advisory" THEN NoLess(canswer.rows, q)
               ELSE IF Shared(q) > 0 THEN SameRows(canswer.rows, Truth(q))
               ELSE canswer.rows = Truth(q)

\* The nonce tells a served answer from a new one: what was run has the newest
\* nonce, what was confirmed an older one, what was served that of an entry of
\* the store, and what depends on the transaction is never served in another
\* (next_nonce, drawn in init; the scope the worker advertises).
NonceTellsAMiss ==
  (canswer.how # "none" /\ canswer.query.fn \in Nonces) =>
    LET nonces == {canswer.rows[i][Len(canswer.rows[i])] : i \in 1..Len(canswer.rows)}
    IN /\ Cardinality(nonces) <= 1
       /\ canswer.how = "run" => \A x \in nonces : x = cnonce - 1
       /\ canswer.how = "confirmed" => nonces # {} /\ \A x \in nonces : x < cnonce - 1
       /\ canswer.how = "hit" =>
            \E e \in cstore : /\ e.rows = canswer.rows /\ e.key = canswer.query
                              /\ canswer.query.fn = "cache_scoped_txn" => e.txn = canswer.txn
=============================================================================
