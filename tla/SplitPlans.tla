----------------------------- MODULE SplitPlans -----------------------------
(***************************************************************************)
(* The split-capable functions of example-worker/table/splits.cpp: how a   *)
(* plan divides a scan into payloads, and the rows a payload names.  A     *)
(* payload is its decoded record; rows of the generated sequence are the   *)
(* numbers 0 .. n-1.                                                       *)
(***************************************************************************)
EXTENDS Integers, Sequences, FiniteSetsExt, SequencesExt

\* The planning page of split_paginated and the countries of split_partitioned.
kPerPage == 4
kCountries == 4
kColumns == 3
\* What split_echo_filters adds to a payload when the plan was given a filter.
kBoundsSeen == 1000000

NoCursor == -1
Whole == [first |-> 0, last |-> 0]

Rows(n) == IF n < 0 THEN 0 ELSE n
Wanted(k) == IF k < 1 THEN 1 ELSE k

\* Share i, counted from 0, of rows divided into count.
Share(rows, i, count) ==
  [first |-> (rows * i) \div count, last |-> (rows * (i + 1)) \div count]

Even(rows, count) == [i \in 1..count |-> Share(rows, i - 1, count)]

\* Every other split names no rows.
EmptyRanges(rows, count) ==
  LET real == (count + 1) \div 2
      Upto(k) == (rows * k) \div real
  IN [i \in 1..count |->
        IF i % 2 = 0 THEN [first |-> Upto(i \div 2), last |-> Upto(i \div 2)]
        ELSE [first |-> Upto(i \div 2), last |-> Upto(i \div 2 + 1)]]

\* The first split takes half and the others divide what is left.
Skewed(rows, count) ==
  LET head == rows \div 2
      Rest(i) == [first |-> head + Share(rows - head, i - 1, count - 1).first,
                  last  |-> head + Share(rows - head, i - 1, count - 1).last]
  IN IF count = 1 \/ rows = 0 THEN <<[first |-> 0, last |-> rows]>>
     ELSE <<[first |-> 0, last |-> head]>> \o [i \in 1..(count - 1) |-> Rest(i)]

Zero(count) == [i \in 1..count |-> [first |-> 0, last |-> 0]]

\* SplitFunction::divide
divide(shape, rows, count) ==
  CASE shape = "even" -> Even(rows, count)
    [] shape = "empty_ranges" -> EmptyRanges(rows, count)
    [] shape = "skewed" -> Skewed(rows, count)
    [] shape = "zero" -> Zero(count)

\* A page: its payloads, whether their sizes are exact, and the next cursor.
Page(payloads, exact, next) ==
  [payloads |-> payloads, exact |-> exact, next |-> next]

\* Mutant of PaginatedPlan: the last split of a page opens the next one too.
PaginatedOverlapping(rows, count, cursor) ==
  LET page == IF cursor = NoCursor THEN 0 ELSE cursor
      from == page * kPerPage
      to == IF count < from + kPerPage + 1 THEN count ELSE from + kPerPage + 1
  IN Page([i \in 1..(to - from) |-> Share(rows, from + i - 1, count)], TRUE,
          IF to < count THEN page + 1 ELSE NoCursor)

\* SplitPaginated::plan: kPerPage splits a page, the cursor being the page.
PaginatedPlan(rows, count, cursor) ==
  LET page == IF cursor = NoCursor THEN 0 ELSE cursor
      from == page * kPerPage
      to == IF count < from + kPerPage THEN count ELSE from + kPerPage
  IN Page([i \in 1..(to - from) |-> Share(rows, from + i - 1, count)], TRUE,
          IF to < count THEN page + 1 ELSE NoCursor)

\* SplitBatchIndex::plan: a payload carries its ordinal too.
BatchIndexPlan(rows, count) ==
  Page([i \in 1..count |->
          [ordinal |-> i - 1, first |-> Share(rows, i - 1, count).first,
           last |-> Share(rows, i - 1, count).last]], TRUE, NoCursor)

\* SplitPartitioned::plan: one split per country, of that many rows.
PartitionedPlan(rows) ==
  Page([i \in 1..kCountries |-> [country |-> i - 1, rows |-> rows]],
       TRUE, NoCursor)

\* SplitFailAt::plan, without estimates.
FailAtPlan(rows, count) == Page(Even(rows, count), FALSE, NoCursor)

\* SplitEndlessCursor::plan: there is always another page.
EndlessPlan(rows, cursor) ==
  Page(<<[first |-> 0, last |-> rows]>>, FALSE, (IF cursor = NoCursor THEN 0 ELSE cursor) + 1)

\* A finite set of numbers, in ascending order.
Ascending(S) ==
  [i \in 1..Cardinality(S) |-> CHOOSE x \in S : Cardinality({y \in S : y < x}) = i - 1]

\* SplitEchoFilters::plan: the splits outside the filter's bounds are pruned;
\* a payload tells what planning was given.
EchoPlan(count, bounds, projection) ==
  LET kept == Ascending({i \in 0..(count - 1) :
                           ~ \E b \in bounds : i < b.min \/ i > b.max})
      narrowed == IF projection = {} \/ Cardinality(projection) >= kColumns
                  THEN 0 ELSE Cardinality(projection)
  IN Page([i \in 1..Len(kept) |->
             [first |-> kept[i],
              last |-> (IF bounds = {} THEN 0 ELSE 1) * kBoundsSeen + narrowed]],
          FALSE, NoCursor)

\* The shape a SplitFunction was registered with.
ShapeOf(fn) ==
  CASE fn \in {"split_sequence", "split_stale_plan", "split_dynamic_filter"} -> "even"
    [] fn = "split_empty_ranges" -> "empty_ranges"
    [] fn = "split_skewed" -> "skewed"
    [] fn = "split_zero" -> "zero"

\* The functions that plan for themselves, and one that does not.
SplitFunctions ==
  {"split_sequence", "split_stale_plan", "split_dynamic_filter", "split_empty_ranges",
   "split_skewed", "split_zero", "split_paginated", "split_batch_index",
   "split_partitioned", "split_fail_at", "split_endless_cursor", "split_echo_filters",
   "sequence"}

\* TableFunction::plan, or the one empty payload of a function without splits.
plan(fn, q, cursor) ==
  LET rows == Rows(q.n)
      count == Wanted(q.splits)
  IN CASE fn = "sequence" -> Page(<<Whole>>, FALSE, NoCursor)
       [] fn = "split_paginated" -> PaginatedPlan(rows, count, cursor)
       [] fn = "split_batch_index" -> BatchIndexPlan(rows, count)
       [] fn = "split_partitioned" -> PartitionedPlan(rows)
       [] fn = "split_fail_at" -> FailAtPlan(rows, count)
       [] fn = "split_endless_cursor" -> EndlessPlan(rows, cursor)
       [] fn = "split_echo_filters" -> EchoPlan(count, q.bounds, q.projection)
       [] OTHER -> Page(divide(ShapeOf(fn), rows, count), TRUE, NoCursor)

\* result.catalog_version: only two of them pin one.
Pinned(fn) ==
  CASE fn = "split_sequence" -> {1}
    [] fn = "split_stale_plan" -> {987654321}
    [] OTHER -> {}

-----------------------------------------------------------------------------
(* Reading                                                                 *)

\* The rows a payload stands for, estimated_rows where it is exact.
Estimate(fn, payload) ==
  IF fn = "split_partitioned" THEN payload.rows ELSE payload.last - payload.first

\* Mutant of Position: a range is passed over one step late.
PositionLingering(ranges, at, cursor) ==
  LET Live(j) == \/ j = at /\ cursor <= ranges[j].last /\ "ordinal" \notin DOMAIN ranges[j]
                 \/ j = at /\ cursor < ranges[j].last
                 \/ j > at /\ ranges[j].first < ranges[j].last
      live == {j \in at..Len(ranges) : Live(j)}
  IN IF live = {} THEN [at |-> Len(ranges) + 1, cursor |-> cursor]
     ELSE LET j == Min(live)
          IN [at |-> j, cursor |-> IF j = at /\ cursor >= ranges[j].first
                                    THEN cursor ELSE ranges[j].first]

\* RangeProducer::next_batch: where the next batch begins.  A range that is
\* used up, and every empty one after it, is passed over; an empty first range
\* that begins past row 0 gives a batch without rows.
Position(ranges, at, cursor) ==
  LET Live(j) == \/ j = at /\ cursor < ranges[j].last
                 \/ j > at /\ ranges[j].first < ranges[j].last
      live == {j \in at..Len(ranges) : Live(j)}
  IN IF live = {} THEN [at |-> Len(ranges) + 1, cursor |-> cursor]
     ELSE LET j == Min(live)
          IN [at |-> j, cursor |-> IF j = at /\ cursor >= ranges[j].first
                                    THEN cursor ELSE ranges[j].first]

Span(from, to) == [k \in 1..(to - from) |-> from + k - 1]

\* SplitPartitioned::Producer::next_batch: the country's place, and its sales.
CountryRows(payload) ==
  [k \in 1..payload.rows |-> <<payload.country, payload.country * 100 + k>>]

\* SplitEchoFilters::init
EchoRow(payload) ==
  <<payload.first, payload.last >= kBoundsSeen, payload.last % kBoundsSeen>>
=============================================================================
