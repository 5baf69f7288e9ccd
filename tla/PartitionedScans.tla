-------------------------- MODULE PartitionedScans --------------------------
(***************************************************************************)
(* The scans of example-worker/table/partitioned.cpp, which several        *)
(* workers read at once off one queue of chunks, the tags and partition    *)
(* values their batches carry (src/partition.cpp), and the deliberately    *)
(* broken ones of partition_broken.cpp.  The engine (external) holds every *)
(* stream to the contract the function declared.                           *)
(*                                                                         *)
(* A partition's text value is its place in the code's list.               *)
(***************************************************************************)
EXTENDS Integers, Sequences, FiniteSetsExt, SequencesExt

CONSTANTS
  PartitionCalls, \* records [fn, count, rows, wanted], rows being the increment
                  \* or the chunk_size of the functions that take one
  ChunkReaders,   \* the workers that read one scan
  ChunkBatch,     \* kBatchSize
  kChunkRows,     \* rows of a chunk, where that is fixed
  kMaxChunks,     \* chunks of a scan, where that is capped
  kDisjointStride \* between the keys of two disjoint ranges; half of it between
                  \* those of overlapping ones

RangeFunctions ==
  {"partitioned_sequence", "partitioned_preserves_order", "partitioned_no_order_guarantee",
   "partitioned_fixed_order", "partitioned_batch_index", "partitioned_batch_index_marked",
   "filter_echo_partitioned"}
PartitionFunctions ==
  {"country_partitioned_sales", "trailing_partition_sales", "region_year_partitioned",
   "partitioned_with_explicit_override", "disjoint_range_partitioned",
   "overlapping_range_partitioned"}
BrokenKinds == {"broken_missing_partition_values", "broken_partition_min_neq_max",
                "broken_partition_values_no_annotation",
                "broken_partition_column_absent_from_batch"}
BrokenTags == {"broken_missing_batch_index_tag", "broken_non_monotone_batch_index",
               "broken_batch_index_overflow"}

\* The arguments have the types their functions declare, a projection is of one that
\* takes it, and a scan has a worker.
PartitionAssumption ==
  /\ ChunkBatch \in Nat \ {0} /\ kChunkRows \in Nat \ {0} /\ kMaxChunks \in Nat \ {0}
  /\ kDisjointStride \in Nat \ {0} /\ ChunkReaders # {}
  /\ \A c \in PartitionCalls :
       /\ c.fn \in RangeFunctions \cup PartitionFunctions \cup BrokenKinds \cup BrokenTags
       /\ c.count \in Int /\ c.rows \in Int
       /\ c.wanted # {} => c.fn \in {"partitioned_batch_index", "filter_echo_partitioned",
                                    "trailing_partition_sales"}

\* A partition of the call is no longer than the stride.  The code does not see to it:
\* a longer one runs into the keys of the next.
RangeFits(c) == c.rows <= kDisjointStride

kCountryCount == 5
kCategoryCount == 3
kRegionYearCount == 6

NotLess(low, v) == IF v < low THEN low ELSE v

\* push_ranges
Ranges(count, size) ==
  [k \in 1..((NotLess(0, count) + size - 1) \div size) |->
     [id |-> k - 1, start |-> (k - 1) * size, end |-> Min({k * size, count})]]

\* push_partitions
Partitions(n, rows) ==
  [k \in 1..NotLess(0, n) |-> [id |-> k - 1, start |-> 0, end |-> NotLess(1, rows)]]

\* The size that makes at most kMaxChunks of a scan.
CappedSize(count) == NotLess(1, (NotLess(0, count) + kMaxChunks - 1) \div kMaxChunks)

\* What a function declares, and the chunks its on_init queues.
Fixture(chunks, columns, by, kind) ==
  [chunks |-> chunks, columns |-> columns, by |-> by, kind |-> kind,
   tagged |-> FALSE, stated |-> FALSE]

partitioned_sequence(c) ==
  Fixture(Ranges(c.count, IF c.fn = "partitioned_sequence" THEN CappedSize(c.count)
                          ELSE kChunkRows), <<"n">>, {}, "none")

partitioned_batch_index(c) ==
  [Fixture(Ranges(c.count, kChunkRows), <<"n">>, {}, "none") EXCEPT !.tagged = TRUE]

\* A chunk_size below 1 is 1.
partitioned_batch_index_marked(c) ==
  [Fixture(Ranges(c.count, NotLess(1, c.rows)), <<"partition_id", "seq">>, {}, "none")
   EXCEPT !.tagged = TRUE]

\* The columns worker_pid and pushed_filters, and the filter that is applied, are left out.
filter_echo_partitioned(c) == Fixture(Ranges(c.count, CappedSize(c.count)), <<"n">>, {}, "none")

country_partitioned_sales(c) ==
  Fixture(Partitions(kCountryCount, c.rows), <<"country", "sales">>, {"country"}, "single")

trailing_partition_sales(c) ==
  Fixture(Partitions(kCountryCount, c.rows), <<"seq", "label", "sales", "country">>,
          {"country"}, "single")

region_year_partitioned(c) ==
  Fixture(Partitions(kRegionYearCount, c.rows), <<"region", "year", "amount">>,
          {"region", "year"}, "single")

\* PartitionedWithExplicitOverride: the chunk's value is stated, not read back.
partitioned_with_explicit_override(c) ==
  [Fixture(Partitions(kCategoryCount, c.rows), <<"category", "revenue">>, {"category"}, "single")
   EXCEPT !.stated = TRUE]

\* RangePartitioned, of either kind
range_partitioned(c) ==
  Fixture(Partitions(c.count, c.rows), <<"key", "value">>, {"key"},
          IF c.fn = "disjoint_range_partitioned" THEN "disjoint" ELSE "overlapping")

\* BrokenPartitionFunction: without the annotation it declares no kind either.
broken_partition(c) ==
  LET annotated == c.fn # "broken_partition_values_no_annotation"
  IN Fixture(<<>>, <<"country", "sales">>, IF annotated THEN {"country"} ELSE {},
             IF annotated THEN "single" ELSE "none")

\* BrokenBatchIndexFunction
broken_batch_index(c) == [Fixture(<<>>, <<"n">>, {}, "none") EXCEPT !.tagged = TRUE]

FixtureOf(c) ==
  CASE c.fn \in {"partitioned_sequence", "partitioned_preserves_order",
                 "partitioned_no_order_guarantee", "partitioned_fixed_order"} ->
         partitioned_sequence(c)
    [] c.fn = "partitioned_batch_index" -> partitioned_batch_index(c)
    [] c.fn = "partitioned_batch_index_marked" -> partitioned_batch_index_marked(c)
    [] c.fn = "filter_echo_partitioned" -> filter_echo_partitioned(c)
    [] c.fn = "country_partitioned_sales" -> country_partitioned_sales(c)
    [] c.fn = "trailing_partition_sales" -> trailing_partition_sales(c)
    [] c.fn = "region_year_partitioned" -> region_year_partitioned(c)
    [] c.fn = "partitioned_with_explicit_override" -> partitioned_with_explicit_override(c)
    [] c.fn \in {"disjoint_range_partitioned", "overlapping_range_partitioned"} ->
         range_partitioned(c)
    [] c.fn \in BrokenKinds -> broken_partition(c)
    [] c.fn \in BrokenTags -> broken_batch_index(c)

\* The cells of the row at offset i of a chunk, per producer.
SequenceCell(c, chunk, i) ==
  (chunk.start + i) * (IF c.fn = "partitioned_sequence" THEN c.rows ELSE 1)
MarkedCell(name, chunk, i) == IF name = "partition_id" THEN chunk.id ELSE i
CountryCell(name, chunk, i) ==
  IF name = "country" THEN chunk.id ELSE chunk.id * 1000000 + i
TrailingCell(name, chunk, i) ==
  CASE name = "country" -> chunk.id
    [] name = "seq" -> i
    [] name = "label" -> chunk.id * 1000 + i
    [] name = "sales" -> chunk.id * 1000000 + i
\* The regions are listed AMER, EMEA, APAC; as text APAC is before EMEA.
RegionYearCell(name, chunk, i) ==
  CASE name = "region" -> <<0, 2, 1>>[chunk.id \div 2 + 1]
    [] name = "year" -> 2023 + (chunk.id % 2)
    [] name = "amount" -> chunk.id * 1000 + i
CategoryCell(name, chunk, i) ==
  IF name = "category" THEN chunk.id ELSE (chunk.id + 1) * 100 + i
RangeCell(fn, name, chunk, i) ==
  IF name = "key" THEN chunk.id * (IF fn = "disjoint_range_partitioned"
                                           THEN kDisjointStride ELSE kDisjointStride \div 2) + i
  ELSE chunk.id * 10 + i

CellAt(c, name, chunk, i) ==
  CASE c.fn = "partitioned_batch_index_marked" -> MarkedCell(name, chunk, i)
    [] c.fn = "country_partitioned_sales" -> CountryCell(name, chunk, i)
    [] c.fn = "trailing_partition_sales" -> TrailingCell(name, chunk, i)
    [] c.fn = "region_year_partitioned" -> RegionYearCell(name, chunk, i)
    [] c.fn = "partitioned_with_explicit_override" -> CategoryCell(name, chunk, i)
    [] c.fn \in {"disjoint_range_partitioned", "overlapping_range_partitioned"} ->
         RangeCell(c.fn, name, chunk, i)
    [] OTHER -> SequenceCell(c, chunk, i)

-----------------------------------------------------------------------------
VARIABLES
  pcall,     \* the call
  pqueue,    \* the chunks nobody has claimed
  pworker,   \* per worker, the chunk it reads and its cursor_, or it is done
  pbatches,  \* per worker, the batches it emitted
  pstate     \* "running", "done", "refused" by the worker or by the engine

partitionVars == <<pcall, pqueue, pworker, pbatches, pstate>>

NoChunk == [id |-> 0, start |-> 0, end |-> 0]

\* The columns of the bound schema, which next_batch builds by name: those a projection
\* leaves, of the functions that take one.
Projected(c) ==
  {name \in Range(FixtureOf(c).columns) : c.wanted = {} \/ name \in c.wanted}

\* The row at offset i of a chunk.
RowAt(c, chunk, i) == [name \in Projected(c) |-> CellAt(c, name, chunk, i)]

\* on_init runs once for the execution, before any worker's init.
PartitionInit ==
  /\ pcall \in PartitionCalls
  /\ pqueue = FixtureOf(pcall).chunks
  /\ pworker = [w \in ChunkReaders |-> [chunk |-> NoChunk, cursor |-> 0, done |-> FALSE]]
  /\ pbatches = [w \in ChunkReaders |-> <<>>]
  /\ pstate = "running"

\* partition_metadata: the extremes of the partition columns the batch has.
partition_metadata(by, rows) ==
  [name \in by \cap DOMAIN rows[1] |->
     LET values == {rows[i][name] : i \in 1..Len(rows)}
     IN [min |-> Min(values), max |-> Max(values)]]

\* describe: the values the batch advertises.  PartitionedChunks reads them off
\* the batch, Override states them from the chunk.
Advertised(fixture, chunk, rows) ==
  IF fixture.stated
  THEN [name \in fixture.by |-> [min |-> chunk.id, max |-> chunk.id]]
  ELSE partition_metadata(fixture.by, rows)

\* Mutant of ClaimChunk: the chunk is looked at, and removed with its last batch.
ClaimChunkShared(w) ==
  /\ pstate = "running" /\ ~pworker[w].done /\ pworker[w].cursor >= pworker[w].chunk.end
  /\ pcall.fn \notin BrokenKinds \cup BrokenTags
  /\ IF pqueue = <<>>
     THEN pworker' = [pworker EXCEPT ![w].done = TRUE] /\ pqueue' = pqueue
     ELSE /\ pworker' = [pworker EXCEPT ![w] = [chunk |-> Head(pqueue),
                                                cursor |-> Head(pqueue).start,
                                                done |-> FALSE]]
          /\ pqueue' = IF pworker[w].chunk = Head(pqueue) THEN Tail(pqueue) ELSE pqueue
  /\ UNCHANGED <<pcall, pbatches, pstate>>

\* ChunkProducer::next_batch: the loop that claims.  The queue is the execution's own, so
\* what is popped was encoded by push_ranges or push_partitions, and decodes.
ClaimChunk(w) ==
  /\ pstate = "running" /\ ~pworker[w].done /\ pworker[w].cursor >= pworker[w].chunk.end
  /\ pcall.fn \notin BrokenKinds \cup BrokenTags
  /\ IF pqueue = <<>>
     THEN pworker' = [pworker EXCEPT ![w].done = TRUE] /\ pqueue' = pqueue
     ELSE /\ pworker' = [pworker EXCEPT ![w] = [chunk |-> Head(pqueue),
                                                cursor |-> Head(pqueue).start,
                                                done |-> FALSE]]
          /\ pqueue' = Tail(pqueue)
  /\ UNCHANGED <<pcall, pbatches, pstate>>

\* TaggedChunks::describe
TagOf(w) == {pworker[w].chunk.id}

\* The engine: a batch of the worker keeps the contract of the declaration.
\* A projected partition column needs its values, one value where the kind says
\* so; a tag is there, below the cap, and never below the one before it.
TagCap == 1000000000
Keeps(fixture, columns, before, batch) ==
  /\ fixture.kind # "none" =>
       \A name \in fixture.by \cap columns :
         /\ name \in DOMAIN batch.values
         /\ fixture.kind = "single" => batch.values[name].min = batch.values[name].max
  /\ fixture.tagged =>
       /\ batch.tag # {}
       /\ \A t \in batch.tag : t < TagCap
       /\ \A i \in 1..Len(before) : \A s \in before[i].tag, t \in batch.tag : s <= t

\* A batch goes out: the engine keeps it, or ends the scan.
Send(w, batch) ==
  IF Keeps(FixtureOf(pcall), Projected(pcall), pbatches[w], batch)
  THEN pbatches' = [pbatches EXCEPT ![w] = Append(@, batch)] /\ pstate' = pstate
  ELSE pbatches' = pbatches /\ pstate' = "refused"

\* ChunkProducer::next_batch: the rows after the cursor, and their metadata.
EmitChunk(w) ==
  LET at == pworker[w]
      size == Min({ChunkBatch, at.chunk.end - at.cursor})
      rows == [k \in 1..size |->
                 RowAt(pcall, at.chunk, at.cursor - at.chunk.start + k - 1)]
  IN /\ pstate = "running" /\ at.cursor < at.chunk.end
     /\ Send(w, [chunk |-> at.chunk.id, from |-> at.cursor, rows |-> rows,
                 tag |-> IF FixtureOf(pcall).tagged THEN TagOf(w) ELSE {},
                 values |-> Advertised(FixtureOf(pcall), at.chunk, rows)])
     /\ pworker' = [pworker EXCEPT ![w].cursor = @ + size]
     /\ UNCHANGED <<pcall, pqueue>>

\* BrokenPartitionProducer: what it sends, {} if it raises instead.
BrokenPartitionBatch(c) ==
  LET rows == [i \in 1..NotLess(1, c.count) |->
                 [country |-> IF c.fn = "broken_partition_min_neq_max" /\ i % 2 = 0 THEN 1 ELSE 0,
                  sales |-> i - 1]]
  IN IF c.fn \in {"broken_missing_partition_values", "broken_partition_min_neq_max"}
     THEN {[chunk |-> 0, from |-> 0, rows |-> rows, tag |-> {},
            values |-> IF c.fn = "broken_partition_min_neq_max"
                       THEN partition_metadata({"country"}, rows)
                       ELSE [name \in {} |-> rows]]}
     ELSE {}

\* BrokenBatchIndexProducer: the tags of its one or two batches.
BrokenTagBatch(c, k) ==
  [chunk |-> 0, from |-> 0, values |-> <<>>,
   rows |-> [i \in 1..(IF k = 1 THEN NotLess(0, c.count) ELSE 1) |-> [n |-> i - 1]],
   tag |-> CASE c.fn = "broken_missing_batch_index_tag" -> {}
             [] c.fn = "broken_batch_index_overflow" -> {2 * TagCap}
             [] c.fn = "broken_non_monotone_batch_index" -> {IF k = 1 THEN 10 ELSE 3}]

\* A broken function's only worker.
EmitBroken(w) ==
  /\ pstate = "running" /\ ~pworker[w].done /\ w = CHOOSE r \in ChunkReaders : TRUE
  /\ \/ /\ pcall.fn \in BrokenKinds
        /\ IF BrokenPartitionBatch(pcall) = {} THEN pstate' = "raised" /\ pbatches' = pbatches
           ELSE \E batch \in BrokenPartitionBatch(pcall) : Send(w, batch)
        /\ pworker' = [pworker EXCEPT ![w].done = TRUE]
     \/ /\ pcall.fn \in BrokenTags
        /\ Send(w, BrokenTagBatch(pcall, Len(pbatches[w]) + 1))
        /\ pworker' = [pworker EXCEPT ![w].done =
                         pcall.fn # "broken_non_monotone_batch_index" \/ Len(pbatches[w]) = 1]
  /\ UNCHANGED <<pcall, pqueue>>

AllDone ==
  /\ pstate = "running"
  /\ \A w \in ChunkReaders :
       pworker[w].done \/ (pcall.fn \in BrokenKinds \cup BrokenTags
                           /\ w # CHOOSE r \in ChunkReaders : TRUE)
  /\ pstate' = "done"
  /\ UNCHANGED <<pcall, pqueue, pworker, pbatches>>

\* A chunk's number is below the engine's cap.
TagsFit == \A c \in PartitionCalls : FixtureOf(c).tagged => Len(FixtureOf(c).chunks) <= TagCap

PartitionNext ==
  \/ \E w \in ChunkReaders : ClaimChunk(w) \/ EmitChunk(w) \/ EmitBroken(w)
  \/ AllDone

PartitionSpec == PartitionInit /\ [][PartitionNext]_partitionVars

-----------------------------------------------------------------------------
(* Properties                                                              *)

Broken == pcall.fn \in BrokenKinds \cup BrokenTags

Chunks == FixtureOf(pcall).chunks

\* A batch, the j-th of worker w.
SentBatch(w, j) == pbatches[w][j]
EndOf(batch) == batch.from + Len(batch.rows)

\* The batch has the row at this place of the chunk.
Covers(batch, chunk, place) ==
  batch.chunk = chunk.id /\ batch.from <= place /\ place < EndOf(batch)

\* Whoever claims which chunk, and whatever a batch's size, the workers together
\* deliver the rows one worker alone would: a batch is a run of rows of one chunk,
\* and every row of every chunk is in one batch of one worker (push_ranges,
\* push_partitions, ChunkProducer::next_batch over the shared queue).
PartitionRowsOnce ==
  ~Broken =>
    /\ \A w \in ChunkReaders : \A j \in DOMAIN pbatches[w] :
         \E chunk \in Range(Chunks) :
           /\ SentBatch(w, j).chunk = chunk.id
           /\ chunk.start <= SentBatch(w, j).from /\ EndOf(SentBatch(w, j)) <= chunk.end
           /\ \A i \in 1..Len(SentBatch(w, j).rows) :
                SentBatch(w, j).rows[i] =
                  RowAt(pcall, chunk, SentBatch(w, j).from - chunk.start + i - 1)
    /\ pstate = "done" =>
         \A chunk \in Range(Chunks) : \A place \in chunk.start..(chunk.end - 1) :
           \E w \in ChunkReaders : \E j \in DOMAIN pbatches[w] :
             /\ Covers(SentBatch(w, j), chunk, place)
             /\ \A v \in ChunkReaders : \A i \in DOMAIN pbatches[v] :
                  Covers(SentBatch(v, i), chunk, place) => v = w /\ i = j

\* An ordered sink puts the batches in the order of their tags, and those of one
\* tag, which one worker sent, in the order they came.  That is the order one worker
\* alone would deliver their rows in (TaggedChunks::describe).
ReassembledInOrder ==
  (FixtureOf(pcall).tagged /\ ~Broken) =>
    \A v, w \in ChunkReaders : \A i \in DOMAIN pbatches[v], j \in DOMAIN pbatches[w] :
      \E s \in SentBatch(v, i).tag, t \in SentBatch(w, j).tag :
        /\ SentBatch(v, i).tag = {s} /\ (s = t => v = w)
        /\ (s < t \/ (s = t /\ i < j)) =>
             \/ SentBatch(v, i).chunk < SentBatch(w, j).chunk
             \/ /\ SentBatch(v, i).chunk = SentBatch(w, j).chunk
                /\ EndOf(SentBatch(v, i)) <= SentBatch(w, j).from

\* The rows of a batch are inside the values it advertises.
RowsInside ==
  \A w \in ChunkReaders : \A j \in DOMAIN pbatches[w] :
    \A name \in DOMAIN SentBatch(w, j).values : \A i \in 1..Len(SentBatch(w, j).rows) :
      /\ SentBatch(w, j).values[name].min <= SentBatch(w, j).rows[i][name]
      /\ SentBatch(w, j).rows[i][name] <= SentBatch(w, j).values[name].max

\* "1000 keeps consecutive intervals apart" (RangeChunks): the batches of different
\* chunks advertise values that are apart.  Not "whatever a caller asks for", as the
\* comment goes on, but of partitions no longer than the stride.
IntervalsApart ==
  (FixtureOf(pcall).kind = "disjoint" /\ RangeFits(pcall)) =>
    \A v, w \in ChunkReaders : \A i \in DOMAIN pbatches[v], j \in DOMAIN pbatches[w] :
      SentBatch(v, i).chunk < SentBatch(w, j).chunk =>
        \A name \in DOMAIN SentBatch(v, i).values \cap DOMAIN SentBatch(w, j).values :
          SentBatch(v, i).values[name].max < SentBatch(w, j).values[name].min

\* A function that is not broken on purpose keeps what it declared, and one that
\* is gets caught, by its worker or by the engine; what is advertised is true
\* (partition_metadata, BrokenPartitionProducer, BrokenBatchIndexProducer).
ContractIsKept ==
  /\ pstate \in {"refused", "raised"} => Broken
  /\ (pstate = "done" /\ Broken) =>
       pcall.fn = "broken_partition_min_neq_max" /\ pcall.count < 2
  /\ ~Broken => RowsInside /\ IntervalsApart

\* Workers that share a queue of chunks deliver every row once, under tags that
\* restore the order and partition values that are true.
PartitionsAreWhole == PartitionRowsOnce /\ ReassembledInOrder /\ ContractIsKept
=============================================================================
