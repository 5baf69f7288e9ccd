----------------------------- MODULE Generators -----------------------------
(***************************************************************************)
(* The generating table functions of example-worker/table (sequence,       *)
(* series, generators, more, settings_fixtures, versioned, proj_repro and  *)
(* rff), and the stream init opens for them: batches of a bounded size,    *)
(* narrowed by name to the columns the engine asked for.                   *)
(*                                                                         *)
(* A function is a source: its columns, its rows (a sequence of records),  *)
(* the rows a batch may have, whether it offers projection pushdown and    *)
(* then builds the columns asked for or all of them, what it tells the     *)
(* planner, and after how many rows it raises.  A cell is Num(v), a text   *)
(* that a tag and a number determine, or Null.                             *)
(***************************************************************************)
EXTENDS Integers, Sequences, FiniteSetsExt, SequencesExt

CONSTANTS
  Calls,        \* records [fn, count, batch, step, values, hint, wanted]
                \* with varargs has cells, or a union's members, as well
  DefaultBatch, \* the batch sizes of the code: 1000, 1024 and 2048 rows
  VolumeRows,   \* kRows of ten_thousand
  Absent        \* an argument the caller left out

GenFunctions ==
  {"sequence", "double_sequence", "make_series", "make_series_csv", "make_series_float",
   "make_pairs", "generator_exception", "nested_sequence", "named_params_echo",
   "union_varargs", "typed_probe", "projected_data", "ten_thousand", "constant_columns",
   "repeat_value", "order_echo", "sample_echo", "profiling_demo", "versioned_data_scan",
   "proj_repro", "rff_scan", "settings_aware", "struct_settings"}

\* The arguments have the types their functions declare.
GeneratorsAssumption ==
  /\ DefaultBatch \in Nat \ {0} /\ VolumeRows \in Nat
  /\ \A c \in Calls :
       /\ c.fn \in GenFunctions
       /\ {c.count, c.batch, c.step} \subseteq Int \cup {Absent} /\ c.wanted \in Seq(Int)
       /\ c.fn = "make_series" => c.values \in Seq(Int) /\ Len(c.values) \in 1..3
       /\ c.fn = "make_series_csv" => Len(c.values) \in Nat
       /\ c.fn = "make_pairs" =>
            /\ c.hint \in {"int", "str", "int_str"}
            /\ c.hint = "int" => c.values[1] \in Int /\ c.values[2] \in Int
       /\ c.fn = "union_varargs" => Len(c.members) \in Nat
       /\ c.fn \in {"constant_columns", "repeat_value"} => Len(c.cells) \in Nat

Num(v) == <<"int", v>>
Text(tag, i) == <<"text", tag, i>>
Null == <<"null">>

AtLeast(low, v) == IF v < low THEN low ELSE v
Or(v, default) == IF v = Absent THEN default ELSE v

\* What the functions have in common.
Source(columns, rows) ==
  [columns |-> columns, rows |-> rows, batch |-> AtLeast(1, Len(rows)),
   pushdown |-> FALSE, strict |-> TRUE, cardinality |-> {}, statistics |-> {},
   failAfter |-> {}]

Count(c) == AtLeast(0, Or(c.count, 0))
Batch(c) == AtLeast(1, Or(c.batch, DefaultBatch))
Step(c) == Or(c.step, 1)

\* The increment is above 0.  sequence refuses any other (validate_sequence_args);
\* double_sequence takes it, and DoubleSequence::statistics then counts values that
\* repeat, or reports a maximum that is below its minimum, 0.
IncrementGrows(c) == c.fn = "double_sequence" => Step(c) >= 1

\* The row count is the argument: the estimate is exact.
CountCardinality(c) == IF c.count = Absent THEN {} ELSE {c.count}

-----------------------------------------------------------------------------
(* The functions                                                           *)

\* Mutant of SequenceStatistics: the upper bound is one value too far.
SequenceStatisticsPast(c) ==
  IF c.count = Absent \/ c.count <= 0 THEN {}
  ELSE {[column |-> "n", min |-> 0, max |-> c.count * Step(c), distinct |-> c.count]}

SequenceStatistics(c) ==
  IF c.count = Absent \/ c.count <= 0 THEN {}
  ELSE {[column |-> "n", min |-> 0, max |-> (c.count - 1) * Step(c),
         distinct |-> c.count]}

sequence(c) ==
  [Source(<<"n">>, [i \in 1..Count(c) |-> [n |-> Num((i - 1) * Step(c))]])
   EXCEPT !.batch = Batch(c), !.pushdown = TRUE,
          !.cardinality = CountCardinality(c), !.statistics = SequenceStatistics(c)]

\* validate_sequence_args, of bind and again of init
SequenceRefuses(c) ==
  /\ c.fn = "sequence"
  /\ \/ c.count # Absent /\ c.count < 0
     \/ c.batch # Absent /\ c.batch < 1
     \/ c.step # Absent /\ c.step < 1

double_sequence(c) ==
  [Source(<<"n">>, [i \in 1..Count(c) |-> [n |-> Num((i - 1) * Step(c))]])
   EXCEPT !.batch = Batch(c), !.pushdown = TRUE,
          !.cardinality = CountCardinality(c),
          !.statistics = IF c.count = Absent \/ c.count <= 0 THEN {}
                         ELSE {[column |-> "n", min |-> 0,
                                max |-> (c.count - 1) * Step(c), distinct |-> c.count]}]

\* The values i, i+step, ... below stop.
Steps(start, stop, step) ==
  [k \in 1..AtLeast(0, (stop - start + step - 1) \div step) |-> start + (k - 1) * step]

\* MakeSeries: three arities of one name; a step below 1 counts as 1.
make_series(c) ==
  LET a == c.values
      values == CASE Len(a) = 1 -> Steps(0, a[1], 1)
                  [] Len(a) = 2 -> Steps(a[1], a[2], 1)
                  [] Len(a) = 3 -> Steps(a[1], a[2], AtLeast(1, a[3]))
  IN [Source(<<"value">>, [k \in 1..Len(values) |-> [value |-> Num(values[k])]])
      EXCEPT !.batch = DefaultBatch]

\* MakeSeriesCsv: a field that is no integer, Absent here, is passed over.
make_series_csv(c) ==
  LET kept == {i \in 1..Len(c.values) : c.values[i] # Absent}
      Place(k) == CHOOSE i \in kept : Cardinality({j \in kept : j < i}) = k - 1
  IN [Source(<<"value">>, [k \in 1..Cardinality(kept) |-> [value |-> Num(c.values[Place(k)])]])
      EXCEPT !.batch = DefaultBatch]

make_series_float(c) ==
  Source(<<"value">>, [i \in 1..10 |-> [value |-> Num((i - 1) * Step(c))]])

\* MakePairs, of the (int, int), (text, text) and (int, text) overloads
make_pairs(c) ==
  LET start == c.values[1]
      ints == Steps(start, c.values[2], 1)
      rows == CASE c.hint = "int" ->
                     [k \in 1..Len(ints) |-> [a |-> Num(ints[k]), b |-> Num(ints[k] * 2)]]
                [] c.hint = "str" ->
                     [k \in 1..5 |-> [a |-> Text(start, k - 1),
                                      b |-> Text(c.values[2], k - 1)]]
                [] c.hint = "int_str" ->
                     [k \in 1..5 |-> [a |-> Num(start + k - 1),
                                      b |-> Text(c.values[2], k - 1)]]
  IN Source(<<"a", "b">>, rows)

\* GeneratorException: one row a batch, and it never ends otherwise.
generator_exception(c) ==
  [Source(<<"n">>, [i \in 1..Count(c) |-> [n |-> Num(i - 1)]])
   EXCEPT !.batch = 1, !.failAfter = {Count(c)}]

\* NestedSequence: the history of a row is the last values up to it.
nested_sequence(c) ==
  LET size == AtLeast(1, Or(c.step, 20))
      History(i) == <<"list", [k \in 1..Min({i + 1, size}) |-> i + k - Min({i + 1, size})]>>
  IN [Source(<<"n", "metadata", "history">>,
             [i \in 1..Count(c) |->
                [n |-> Num(i - 1), metadata |-> Text("row", i - 1),
                 history |-> History(i - 1)]])
      EXCEPT !.cardinality = CountCardinality(c)]

named_params_echo(c) ==
  [Source(<<"id", "greeting", "value">>,
          [i \in 1..Count(c) |->
             [id |-> Num(i - 1), greeting |-> Text(Or(c.hint, "hello"), 0),
              value |-> Num((i - 1) * Step(c))]])
   EXCEPT !.batch = DefaultBatch, !.cardinality = CountCardinality(c)]

\* UnionVarargs: an argument is the member that is live and what it holds.
union_varargs(c) ==
  [Source(<<"idx", "tag", "value">>,
          [i \in 1..Len(c.members) |->
             [idx |-> Num(i - 1), tag |-> Text(c.members[i][1], 0),
              value |-> Num(c.members[i][2])]])
   EXCEPT !.cardinality = {Len(c.members)}]

\* TypedProbe: the interval as days, months being 30 of them, and milliseconds.
typed_probe(c) ==
  LET iv == IF c.values = <<>> THEN <<"interval", 0, 1500>>
            ELSE <<"interval", c.values[1] * 30 + c.values[2], c.values[3] \div 1000000>>
  IN [Source(<<"idx", "iv_ms", "f">>,
             [i \in 1..Count(c) |->
                [idx |-> Num(i - 1), iv_ms |-> iv, f |-> Num(25 + (i - 1) * 10)]])
      EXCEPT !.batch = DefaultBatch, !.cardinality = CountCardinality(c)]

\* ProjectedData builds the columns its schema names, but does not offer projection
\* pushdown: the schema has them all.
projected_data(c) ==
  [Source(<<"id", "name", "value", "extra">>,
          [i \in 1..Count(c) |->
             [id |-> Num(i - 1), name |-> Text("item", i - 1),
              value |-> <<"half", 3 * (i - 1)>>, extra |-> Num((i - 1) * (i - 1))]])
   EXCEPT !.batch = DefaultBatch, !.cardinality = CountCardinality(c)]

ten_thousand(c) ==
  [Source(<<"n">>, [i \in 1..VolumeRows |-> [n |-> Num(i - 1)]])
   EXCEPT !.batch = DefaultBatch, !.cardinality = {VolumeRows}]

\* ConstantColumns and RepeatValue: a column per vararg; without any there is
\* no batch, whatever the count.
ColumnNames == <<"v0", "v1", "v2">>
constant_columns(c) ==
  LET names == SubSeq(ColumnNames, 1, Len(c.cells))
      Value(name) == c.cells[CHOOSE k \in 1..Len(names) : names[k] = name]
  IN [Source(names, [i \in 1..(IF names = <<>> THEN 0 ELSE Count(c)) |->
                       [name \in Range(names) |-> Value(name)]])
      EXCEPT !.cardinality = IF c.fn = "constant_columns" THEN CountCardinality(c) ELSE {}]

\* HintEcho: the hint of the plan as a constant column.
hint_echo(c) ==
  [Source(<<"n", "s", "hint">>,
          [i \in 1..Count(c) |->
             [n |-> Num(i - 1), s |-> Text("row", i - 1),
              hint |-> Text(Or(c.hint, "(none)"), 0)]])
   EXCEPT !.batch = Batch(c), !.pushdown = TRUE,
          !.cardinality = CountCardinality(c)]

profiling_demo(c) ==
  [Source(<<"n">>, [i \in 1..Count(c) |-> [n |-> Num((i - 1) * Step(c))]])
   EXCEPT !.batch = Batch(c), !.cardinality = CountCardinality(c)]

\* build_version: columns and rows differ by version, and 3 is the fallback.
versioned_data_scan(c) ==
  LET version == IF Or(c.count, 3) \in {1, 2} THEN c.count ELSE 3
      columns == CASE version = 1 -> <<"id">>
                   [] version = 2 -> <<"id", "name", "score", "active">>
                   [] version = 3 -> <<"id", "score">>
      rows == CASE version = 1 -> 3 [] version = 2 -> 5 [] version = 3 -> 4
      Cell(name, i) ==
        CASE name = "id" -> Num(i)
          [] name = "score" -> Num(IF version = 2 THEN 10 * i ELSE 10 * i + 5)
          [] name = "name" -> Text("name", i)
          [] name = "active" -> Num(i % 2)
  IN [Source(columns, [i \in 1..rows |-> [name \in Range(columns) |-> Cell(name, i)]])
      EXCEPT !.cardinality = {rows}]

\* ProjRepro: build_column, where the columns without a value are Null; only
\* the strict one builds what was asked for.  A worker that joins has a producer of its
\* own over all the rows, so each of multi_worker's four delivers what chunked does.
proj_repro(c) ==
  LET columns == <<"topic", "partition", "offset", "timestamp", "key">>
      Cell(name, i) ==
        CASE name = "topic" -> Text("demo_topic", 0)
          [] name = "partition" -> Num(i % 4)
          [] name = "offset" -> Num(i)
          [] name = "timestamp" -> Null
          [] name = "key" -> Text("k", i)
  IN [Source(columns, [i \in 1..Count(c) |-> [name \in Range(columns) |-> Cell(name, i - 1)]])
      EXCEPT !.batch = IF c.hint \in {"chunked", "multi_worker"} THEN 2 ELSE Count(c) + 1,
             !.pushdown = TRUE, !.strict = (c.hint = "strict")]

\* build_named: a column is built from its path.
rff_scan(c) ==
  LET columns == <<"row_id", "a", "b", "other">>
      Cell(name, i) == Num(CASE name = "row_id" -> i - 1
                             [] name = "a" -> i
                             [] name = "b" -> i * 10
                             [] name = "other" -> i * 100)
  IN [Source(columns, [i \in 1..Count(c) |-> [name \in Range(columns) |-> Cell(name, i)]])
      EXCEPT !.pushdown = TRUE, !.cardinality = {Count(c)}]

\* SettingsAware: a setting decides on a column; bind and init read it alike.
settings_aware(c) ==
  LET columns == IF c.hint = "verbose" THEN <<"id", "value", "details">>
                 ELSE <<"id", "value">>
      Cell(name, i) == CASE name = "id" -> Num(i)
                         [] name = "value" -> <<"half", 5 * i * Step(c)>>
                         [] name = "details" -> Text("row", i)
  IN [Source(columns, [i \in 1..Count(c) |-> [name \in Range(columns) |-> Cell(name, i - 1)]])
      EXCEPT !.strict = FALSE]

\* StructSettings: the fields of a struct setting, each with its default.
struct_settings(c) ==
  LET start == IF c.values = <<>> THEN 0 ELSE Or(c.values[1], 0)
      step == IF c.values = <<>> THEN 1 ELSE Or(c.values[2], 1)
  IN Source(<<"n", "label">>,
            [i \in 1..Count(c) |-> [n |-> Num(start + (i - 1) * step),
                                    label |-> Text(Or(c.hint, "item"), i - 1)]])

SourceOf(c) ==
  CASE c.fn = "sequence" -> sequence(c)
    [] c.fn = "double_sequence" -> double_sequence(c)
    [] c.fn = "make_series" -> make_series(c)
    [] c.fn = "make_series_csv" -> make_series_csv(c)
    [] c.fn = "make_series_float" -> make_series_float(c)
    [] c.fn = "make_pairs" -> make_pairs(c)
    [] c.fn = "generator_exception" -> generator_exception(c)
    [] c.fn = "nested_sequence" -> nested_sequence(c)
    [] c.fn = "named_params_echo" -> named_params_echo(c)
    [] c.fn = "union_varargs" -> union_varargs(c)
    [] c.fn = "typed_probe" -> typed_probe(c)
    [] c.fn = "projected_data" -> projected_data(c)
    [] c.fn = "ten_thousand" -> ten_thousand(c)
    [] c.fn \in {"constant_columns", "repeat_value"} -> constant_columns(c)
    [] c.fn \in {"order_echo", "sample_echo"} -> hint_echo(c)
    [] c.fn = "profiling_demo" -> profiling_demo(c)
    [] c.fn = "versioned_data_scan" -> versioned_data_scan(c)
    [] c.fn = "proj_repro" -> proj_repro(c)
    [] c.fn = "rff_scan" -> rff_scan(c)
    [] c.fn = "settings_aware" -> settings_aware(c)
    [] c.fn = "struct_settings" -> struct_settings(c)

-----------------------------------------------------------------------------
(* The stream                                                              *)

VARIABLES
  gcall,      \* the call, as one worker serves it
  gstate,     \* "called", "running", "done", "refused" or "failed"
  gpos,       \* rows the producer has handed out
  gout,       \* the rows emitted, as tuples of cells
  gprofile    \* the counters profiling_demo keeps in storage

genVars == <<gcall, gstate, gpos, gout, gprofile>>

\* The columns the engine's schema has: a projection, where the function takes
\* one.  Narrowing is by index into the bound schema.
AskedOf(source, wanted) ==
  IF source.pushdown /\ wanted # <<>>
  THEN [k \in 1..Len(wanted) |-> source.columns[wanted[k] + 1]]
  ELSE source.columns

\* init: an id outside the bound schema is refused.
IdsRefused(source) ==
  /\ source.pushdown
  /\ \E k \in 1..Len(gcall.wanted) :
       gcall.wanted[k] < 0 \/ gcall.wanted[k] >= Len(source.columns)

GenInit ==
  /\ gcall \in Calls
  /\ gstate = "called" /\ gpos = 0 /\ gout = <<>> /\ gprofile = <<>>

Start ==
  /\ gstate = "called"
  /\ gstate' = IF SequenceRefuses(gcall) \/ IdsRefused(SourceOf(gcall)) THEN "refused" ELSE "running"
  /\ UNCHANGED <<gcall, gpos, gout, gprofile>>

\* narrow_to: by name, from the cells of a row in the columns it was built with.
narrow_to(cells, emitted, asked) ==
  [k \in 1..Len(asked) |-> cells[CHOOSE i \in DOMAIN emitted : emitted[i] = asked[k]]]

\* What the producer's batches have as columns.
EmittedBy(source, asked) == IF source.strict THEN asked ELSE source.columns

Narrowed(row, emitted, asked) ==
  narrow_to([k \in DOMAIN emitted |-> row[emitted[k]]], emitted, asked)

\* ProfilingDemo::Producer: the counters are stored with every batch.
Published(size) == IF gcall.fn = "profiling_demo" THEN <<gpos + size>> ELSE gprofile

\* next_batch and TableProduce::produce
Produce ==
  /\ gstate = "running"
  /\ \E source \in {SourceOf(gcall)} :
       LET size == Min({source.batch, Len(source.rows) - gpos})
           asked == AskedOf(source, gcall.wanted)
       IN /\ gpos < Len(source.rows)
          /\ gout' = gout \o [k \in 1..size |->
                                Narrowed(source.rows[gpos + k], EmittedBy(source, asked), asked)]
          /\ gpos' = gpos + size
          /\ gprofile' = Published(size)
  /\ UNCHANGED <<gcall, gstate>>

\* The producer has no batch left, or raises.
Exhausted ==
  /\ gstate = "running"
  /\ \E source \in {SourceOf(gcall)} :
       /\ gpos = Len(source.rows)
       /\ gstate' = IF source.failAfter = {} THEN "done" ELSE "failed"
  /\ UNCHANGED <<gcall, gpos, gout, gprofile>>

GenNext == Start \/ Produce \/ Exhausted

GenSpec == GenInit /\ [][GenNext]_genVars

-----------------------------------------------------------------------------
(* Properties                                                              *)

\* What the engine reads is, in order, each row's cells under the names it
\* asked for, whether the producer built those columns or all it has, and
\* however the rows fell into batches (narrow_to, the producers' next_batch).
CellsUnderTheirNames == \E source \in {SourceOf(gcall)} :
  LET asked == AskedOf(source, gcall.wanted)
  IN /\ Len(gout) = gpos
     /\ \A i \in 1..Len(gout) : \A k \in 1..Len(asked) :
          gout[i][k] = source.rows[i][asked[k]]
     /\ gstate \in {"done", "failed"} => gpos = Len(source.rows)

\* What a function tells the planner is true of the rows it then delivers: the
\* bounds are reached, no value is outside them and values are as many as it says,
\* for an increment that grows, and rows are as many as it says, for any.  A filter
\* outside the bounds is folded away unread.
PlannerIsToldTheTruth ==
  gstate = "done" => \E source \in {SourceOf(gcall)} :
    /\ IncrementGrows(gcall) => \A s \in source.statistics :
         LET values == {source.rows[i][s.column][2] : i \in 1..gpos}
         IN /\ Max(values) = s.max /\ Min(values) = s.min
            /\ Cardinality(values) = s.distinct
    /\ \A n \in source.cardinality : n >= 0 => n = gpos \/ source.columns = <<>>

\* The profile in storage counts every row that has been handed out, also when
\* the engine stops before the end (ProfilingDemo).
ProfileIsCurrent ==
  (gcall.fn = "profiling_demo" /\ gpos > 0) => gprofile = <<gpos>>

\* Rows arrive whole under the names asked for, and are what the planner, and
\* the profile in storage, were told of them.
GeneratedAsTold == CellsUnderTheirNames /\ PlannerIsToldTheTruth /\ ProfileIsCurrent
=============================================================================
