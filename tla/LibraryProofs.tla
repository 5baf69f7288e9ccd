--------------------------- MODULE LibraryProofs ---------------------------
(***************************************************************************)
(* Proofs about the example worker's functions.                            *)
(*                                                                         *)
(* Generators: a stream of batches delivers the rows of its function, in   *)
(* order, narrowed to the columns asked for, and as the planner was told   *)
(* of them.  The invariant says of every state what has gone out: the rows *)
(* up to the position of the producer.                                     *)
(*                                                                         *)
(* PartitionedScans: workers that share a queue of chunks deliver every    *)
(* row of every chunk once, in an order their tags restore, and under      *)
(* partition values that are true.  The invariant says who has which chunk *)
(* and how far it got: no two workers have the same one, and a row of a    *)
(* claimed chunk has gone out or is before the cursor of its reader.       *)
(*                                                                         *)
(* ResultCache: the nonce of an answer tells how it came about.  The       *)
(* invariant says of every kept result which nonce it has.                 *)
(*                                                                         *)
(* ScalarCalls: of a name's overloads, the worker serves the one the       *)
(* engine called.  The lemmas go through the listing: which names are      *)
(* shared, in which type the overloads of each differ, and what of a call  *)
(* the worker sees of that type.                                           *)
(***************************************************************************)
EXTENDS Generators, PartitionedScans, ResultCache, ScalarCalls, SequenceTheorems,
        FiniteSetTheorems, TLAPS


-----------------------------------------------------------------------------
(* Generators: what the functions answer                                   *)

\* Rows and columns are lists, a batch has rows, and rows are as many as the
\* planner was told.
IsSource(s) ==
  /\ Len(s.rows) \in Nat /\ s.batch \in Nat \ {0}
  /\ s.pushdown \in BOOLEAN /\ s.strict \in BOOLEAN
  /\ Len(s.columns) \in Nat /\ DOMAIN s.columns = 1..Len(s.columns)
  /\ \A n \in s.cardinality : n >= 0 => n = Len(s.rows) \/ s.columns = <<>>

\* A function that reports no bounds.
IsPlain(s) == IsSource(s) /\ s.statistics = {}

\* The arguments after they are defaulted and clamped.
LEMMA CallArguments ==
  ASSUME GeneratorsAssumption, NEW c \in Calls
  PROVE  /\ Count(c) \in Nat /\ Batch(c) \in Nat \ {0} /\ Step(c) \in Int
         /\ c.fn \in GenFunctions /\ DefaultBatch \in Nat \ {0} /\ VolumeRows \in Nat
         /\ \A n \in CountCardinality(c) : n >= 0 => n = Count(c)
BY DEF GeneratorsAssumption, Count, Batch, Step, AtLeast, Or, CountCardinality

\* The functions of one column that counts.
LEMMA CountersAreSources ==
  ASSUME GeneratorsAssumption, NEW c \in Calls
  PROVE  /\ IsSource(sequence(c)) /\ IsSource(double_sequence(c))
         /\ IsPlain(profiling_demo(c)) /\ IsPlain(ten_thousand(c))
         /\ IsPlain(generator_exception(c)) /\ IsPlain(make_series_float(c))
<1> USE DEF IsPlain, IsSource, Source, AtLeast
<1>1. IsSource(sequence(c))
  BY CallArguments DEF sequence
<1>2. IsSource(double_sequence(c))
  BY CallArguments DEF double_sequence
<1>3. IsPlain(profiling_demo(c))
  BY CallArguments DEF profiling_demo
<1>4. IsPlain(ten_thousand(c))
  BY CallArguments DEF ten_thousand
<1>5. IsPlain(generator_exception(c))
  BY CallArguments DEF generator_exception
<1>6. IsPlain(make_series_float(c))
  BY CallArguments DEF make_series_float
<1> QED
  BY <1>1, <1>2, <1>3, <1>4, <1>5, <1>6

\* The functions of a fixed record.
LEMMA RecordsAreSources ==
  ASSUME GeneratorsAssumption, NEW c \in Calls
  PROVE  /\ IsPlain(nested_sequence(c)) /\ IsPlain(named_params_echo(c))
         /\ IsPlain(typed_probe(c)) /\ IsPlain(projected_data(c))
         /\ IsPlain(hint_echo(c)) /\ IsPlain(struct_settings(c))
         /\ IsPlain(rff_scan(c)) /\ IsPlain(proj_repro(c))
<1> USE DEF IsPlain, IsSource, Source, AtLeast
<1>1. IsPlain(nested_sequence(c))
  BY CallArguments DEF nested_sequence
<1>2. IsPlain(named_params_echo(c))
  BY CallArguments DEF named_params_echo
<1>3. IsPlain(typed_probe(c))
  BY CallArguments DEF typed_probe
<1>4. IsPlain(projected_data(c))
  BY CallArguments DEF projected_data
<1>5. IsPlain(hint_echo(c))
  BY CallArguments DEF hint_echo
<1>6. IsPlain(struct_settings(c))
  BY CallArguments DEF struct_settings
<1>7. IsPlain(rff_scan(c))
  BY CallArguments DEF rff_scan
<1>8. IsPlain(proj_repro(c))
  BY CallArguments DEF proj_repro
<1> QED
  BY <1>1, <1>2, <1>3, <1>4, <1>5, <1>6, <1>7, <1>8

\* Steps is a list, an empty one where stop is not above start.
LEMMA StepsAreLists ==
  ASSUME NEW start \in Int, NEW stop \in Int, NEW step \in Nat \ {0}
  PROVE  Len(Steps(start, stop, step)) \in Nat
<1>1. AtLeast(0, (stop - start + step - 1) \div step) \in Nat
  BY DEF AtLeast
<1>2. QED
  BY <1>1 DEF Steps

\* Written lists are lists.
LEMMA ShortTuples ==
  /\ \A a : Len(<<a>>) = 1 /\ DOMAIN <<a>> = 1..1
  /\ \A a, b : Len(<<a, b>>) = 2 /\ DOMAIN <<a, b>> = 1..2
  /\ \A a, b, c : Len(<<a, b, c>>) = 3 /\ DOMAIN <<a, b, c>> = 1..3
  /\ \A a, b, c, d : Len(<<a, b, c, d>>) = 4 /\ DOMAIN <<a, b, c, d>> = 1..4
OBVIOUS

\* The functions whose columns or rows depend on their arguments.
LEMMA OthersAreSources ==
  ASSUME GeneratorsAssumption, NEW c \in Calls
  PROVE  /\ c.fn = "make_series" => IsPlain(make_series(c))
         /\ c.fn = "make_series_csv" => IsPlain(make_series_csv(c))
         /\ c.fn = "make_pairs" => IsPlain(make_pairs(c))
         /\ c.fn = "union_varargs" => IsPlain(union_varargs(c))
         /\ c.fn \in {"constant_columns", "repeat_value"} => IsPlain(constant_columns(c))
         /\ IsPlain(versioned_data_scan(c)) /\ IsPlain(settings_aware(c))
<1> USE DEF IsPlain, IsSource, Source, AtLeast
<1>1. ASSUME c.fn = "make_series" PROVE IsPlain(make_series(c))
  <2> DEFINE a == c.values
             values == CASE Len(a) = 1 -> Steps(0, a[1], 1)
                         [] Len(a) = 2 -> Steps(a[1], a[2], 1)
                         [] Len(a) = 3 -> Steps(a[1], a[2], AtLeast(1, a[3]))
  <2>1. a \in Seq(Int) /\ Len(a) \in 1..3
    BY <1>1 DEF GeneratorsAssumption
  <2>2. Len(values) \in Nat
    <3>1. CASE Len(a) = 1
      BY <2>1, <3>1, StepsAreLists
    <3>2. CASE Len(a) = 2
      BY <2>1, <3>2, StepsAreLists
    <3>3. CASE Len(a) = 3
      <4>1. a[1] \in Int /\ a[2] \in Int /\ AtLeast(1, a[3]) \in Nat \ {0}
        BY <2>1, <3>3
      <4>2. QED
        BY <3>3, <4>1, StepsAreLists
    <3>4. QED
      BY <2>1, <3>1, <3>2, <3>3
  <2> HIDE DEF values
  <2>3. make_series(c) = [Source(<<"value">>, [k \in 1..Len(values) |-> [value |-> Num(values[k])]])
                          EXCEPT !.batch = DefaultBatch]
    BY DEF make_series, values
  <2>4. QED
    BY <2>2, <2>3, CallArguments
<1>2. ASSUME c.fn = "make_series_csv" PROVE IsPlain(make_series_csv(c))
  <2> DEFINE kept == {i \in 1..Len(c.values) : c.values[i] # Absent}
             Place(k) == CHOOSE i \in kept : Cardinality({j \in kept : j < i}) = k - 1
  <2>1. Cardinality(kept) \in Nat
    <3>1. Len(c.values) \in Nat
      BY <1>2 DEF GeneratorsAssumption
    <3>2. IsFiniteSet(1..Len(c.values))
      BY <3>1, FS_Interval
    <3>3. kept \subseteq 1..Len(c.values)
      OBVIOUS
    <3>4. IsFiniteSet(kept)
      BY <3>2, <3>3, FS_Subset
    <3>5. QED
      BY <3>4, FS_CardinalityType
  <2>2. make_series_csv(c)
          = [Source(<<"value">>, [k \in 1..Cardinality(kept) |-> [value |-> Num(c.values[Place(k)])]])
             EXCEPT !.batch = DefaultBatch]
    BY DEF make_series_csv
  <2> HIDE DEF kept, Place
  <2>3. QED
    BY <2>1, <2>2, CallArguments
<1>3. ASSUME c.fn = "make_pairs" PROVE IsPlain(make_pairs(c))
  <2> DEFINE start == c.values[1]
             ints == Steps(start, c.values[2], 1)
             numbers == [k \in 1..Len(ints) |-> [a |-> Num(ints[k]), b |-> Num(ints[k] * 2)]]
             texts == [k \in 1..5 |-> [a |-> Text(start, k - 1), b |-> Text(c.values[2], k - 1)]]
             both == [k \in 1..5 |-> [a |-> Num(start + k - 1), b |-> Text(c.values[2], k - 1)]]
             rows == CASE c.hint = "int" -> numbers
                       [] c.hint = "str" -> texts
                       [] c.hint = "int_str" -> both
  <2>1. make_pairs(c) = Source(<<"a", "b">>, rows)
    BY DEF make_pairs
  <2>2. c.hint = "int" => Len(ints) \in Nat
    BY <1>3, StepsAreLists DEF GeneratorsAssumption
  <2>3. c.hint = "int" => Len(numbers) \in Nat
    BY <2>2
  <2>4. Len(texts) \in Nat /\ Len(both) \in Nat
    OBVIOUS
  <2> HIDE DEF numbers, texts, both
  <2>5. Len(rows) \in Nat
    BY <1>3, <2>3, <2>4 DEF GeneratorsAssumption
  <2> HIDE DEF rows
  <2>6. QED
    BY <2>1, <2>5
<1>4. ASSUME c.fn = "union_varargs" PROVE IsPlain(union_varargs(c))
  BY <1>4 DEF union_varargs, GeneratorsAssumption
<1>5. ASSUME c.fn \in {"constant_columns", "repeat_value"} PROVE IsPlain(constant_columns(c))
  <2> DEFINE names == SubSeq(ColumnNames, 1, Len(c.cells))
             Value(name) == c.cells[CHOOSE k \in 1..Len(names) : names[k] = name]
             n == IF names = <<>> THEN 0 ELSE Count(c)
             rows == [i \in 1..n |-> [name \in Range(names) |-> Value(name)]]
             told == IF c.fn = "constant_columns" THEN CountCardinality(c) ELSE {}
  <2>1. constant_columns(c) = [Source(names, rows) EXCEPT !.cardinality = told]
    BY DEF constant_columns
  <2>2. Len(c.cells) \in Nat
    BY <1>5 DEF GeneratorsAssumption
  <2>3. Len(names) \in Nat /\ DOMAIN names = 1..Len(names)
    BY <2>2
  <2>4. Len(rows) = n /\ n \in Nat /\ (names # <<>> => n = Count(c))
    BY CallArguments
  <2>5. \A x \in told : x >= 0 => x = Count(c)
    BY CallArguments
  <2> HIDE DEF names, rows, n, told
  <2>6. QED
    BY <2>1, <2>3, <2>4, <2>5
<1>6. IsPlain(versioned_data_scan(c))
  <2> DEFINE version == IF Or(c.count, 3) \in {1, 2} THEN c.count ELSE 3
             columns == CASE version = 1 -> <<"id">>
                          [] version = 2 -> <<"id", "name", "score", "active">>
                          [] version = 3 -> <<"id", "score">>
             rows == CASE version = 1 -> 3 [] version = 2 -> 5 [] version = 3 -> 4
             Cell(name, i) ==
               CASE name = "id" -> Num(i)
                 [] name = "score" -> Num(IF version = 2 THEN 10 * i ELSE 10 * i + 5)
                 [] name = "name" -> Text("name", i)
                 [] name = "active" -> Num(i % 2)
             cells == [i \in 1..rows |-> [name \in Range(columns) |-> Cell(name, i)]]
  <2>1. versioned_data_scan(c) = [Source(columns, cells) EXCEPT !.cardinality = {rows}]
    BY DEF versioned_data_scan
  <2>2. version \in {1, 2, 3}
    BY DEF Or
  <2> HIDE DEF version
  <2>3. rows \in Nat
    BY <2>2
  <2>4. Len(columns) \in Nat /\ DOMAIN columns = 1..Len(columns)
    <3>1. columns \in {<<"id">>, <<"id", "name", "score", "active">>, <<"id", "score">>}
      BY <2>2
    <3>2. QED
      BY <3>1, ShortTuples
  <2> HIDE DEF rows, columns, Cell
  <2>5. Len(cells) = rows
    BY <2>3
  <2> HIDE DEF cells
  <2>6. QED
    BY <2>1, <2>3, <2>4, <2>5
<1>7. IsPlain(settings_aware(c))
  <2> DEFINE columns == IF c.hint = "verbose" THEN <<"id", "value", "details">>
                        ELSE <<"id", "value">>
             Cell(name, i) == CASE name = "id" -> Num(i)
                                [] name = "value" -> <<"half", 5 * i * Step(c)>>
                                [] name = "details" -> Text("row", i)
             rows == [i \in 1..Count(c) |-> [name \in Range(columns) |-> Cell(name, i - 1)]]
  <2>1. settings_aware(c) = [Source(columns, rows) EXCEPT !.strict = FALSE]
    BY DEF settings_aware
  <2>2. Len(columns) \in Nat /\ DOMAIN columns = 1..Len(columns)
    <3>1. columns \in {<<"id", "value", "details">>, <<"id", "value">>}
      OBVIOUS
    <3>2. QED
      BY <3>1, ShortTuples
  <2> HIDE DEF columns, Cell
  <2>3. Len(rows) \in Nat
    BY CallArguments
  <2> HIDE DEF rows
  <2>4. QED
    BY <2>1, <2>2, <2>3
<1> QED
  BY <1>1, <1>2, <1>3, <1>4, <1>5, <1>6, <1>7


\* Whichever function it is: a source, with bounds only if it counts.
LEMMA SourcesAreSources ==
  ASSUME GeneratorsAssumption, NEW c \in Calls
  PROVE  /\ IsSource(SourceOf(c))
         /\ c.fn \notin {"sequence", "double_sequence"} => SourceOf(c).statistics = {}
         /\ c.fn = "sequence" => SourceOf(c) = sequence(c)
         /\ c.fn = "double_sequence" => SourceOf(c) = double_sequence(c)
<1>1. c.fn \in GenFunctions
  BY CallArguments
<1>2. /\ c.fn = "sequence" => SourceOf(c) = sequence(c)
      /\ c.fn = "double_sequence" => SourceOf(c) = double_sequence(c)
  BY DEF SourceOf
<1>3. c.fn \notin {"sequence", "double_sequence"} => IsPlain(SourceOf(c))
  <2>1. CASE c.fn \in {"make_series", "make_series_csv", "make_pairs", "union_varargs",
                       "constant_columns", "repeat_value", "versioned_data_scan",
                       "settings_aware"}
    BY <2>1, OthersAreSources DEF SourceOf
  <2>2. CASE c.fn \in {"profiling_demo", "ten_thousand", "generator_exception",
                       "make_series_float"}
    BY <2>2, CountersAreSources DEF SourceOf
  <2>3. CASE c.fn \in {"nested_sequence", "named_params_echo", "typed_probe",
                       "projected_data", "order_echo", "sample_echo", "struct_settings",
                       "rff_scan", "proj_repro"}
    BY <2>3, RecordsAreSources DEF SourceOf
  <2>4. QED
    BY <1>1, <2>1, <2>2, <2>3 DEF GenFunctions
<1>4. QED
  BY <1>2, <1>3, CountersAreSources DEF IsPlain

\* The multiples of a step, as the rows of a sequence have them.
Multiples(count, step) == {(i - 1) * step : i \in 1..count}

\* Of two of them the later is the larger.
LEMMA MultiplesGrow ==
  ASSUME NEW i \in Nat, NEW j \in Nat, NEW step \in Nat \ {0}, i < j
  PROVE  i * step \in Nat /\ j * step \in Nat /\ i * step < j * step
<1>1. PICK d \in Nat \ {0} : j = i + d
  <2>1. j - i \in Nat \ {0} /\ j = i + (j - i)
    OBVIOUS
  <2>2. QED
    BY <2>1
<1>2. j * step = i * step + d * step
  BY <1>1
<1>3. d * step \in Nat \ {0} /\ i * step \in Nat
  OBVIOUS
<1>4. QED
  BY <1>2, <1>3

\* They begin at 0, end before count times the step, and are as many as count.
LEMMA MultiplesAre ==
  ASSUME NEW count \in Nat \ {0}, NEW step \in Nat \ {0}
  PROVE  /\ Min(Multiples(count, step)) = 0
         /\ Max(Multiples(count, step)) = (count - 1) * step
         /\ Cardinality(Multiples(count, step)) = count
<1> DEFINE M == Multiples(count, step)
           f == [i \in 1..count |-> (i - 1) * step]
<1>1. ASSUME NEW i \in 1..count, NEW j \in 1..count, i < j
      PROVE  f[i] \in Nat /\ f[j] \in Nat /\ f[i] < f[j]
  <2> DEFINE a == i - 1
             b == j - 1
  <2>1. a \in Nat /\ b \in Nat /\ a < b
    BY <1>1
  <2> HIDE DEF a, b
  <2>2. a * step \in Nat /\ b * step \in Nat /\ a * step < b * step
    BY <2>1, MultiplesGrow
  <2>3. f[i] = a * step /\ f[j] = b * step
    BY DEF a, b
  <2>4. QED
    BY <2>2, <2>3
<1>2. M = {f[i] : i \in 1..count}
  BY DEF Multiples
<1>3. f[1] = 0 /\ f[count] = (count - 1) * step /\ DOMAIN f = 1..count
  OBVIOUS
<1>4. 1 \in 1..count /\ count \in 1..count
  OBVIOUS
<1> DEFINE top == (count - 1) * step
<1>5. \A i \in 1..count : f[i] \in Nat
  <2> SUFFICES ASSUME NEW i \in 1..count PROVE f[i] \in Nat
    OBVIOUS
  <2>1. i - 1 \in Nat
    OBVIOUS
  <2> DEFINE a == i - 1
  <2> HIDE DEF a
  <2>2. a * step \in Nat
    BY <2>1 DEF a
  <2>3. QED
    BY <2>2 DEF a
<1> HIDE DEF f, M, top
<1>6. 0 \in M /\ top \in M /\ M \subseteq Nat
  BY <1>2, <1>3, <1>4, <1>5 DEF top
<1>7. \A x \in M : 0 <= x /\ x <= top
  <2> SUFFICES ASSUME NEW i \in 1..count PROVE 0 <= f[i] /\ f[i] <= top
    BY <1>2
  <2>1. CASE i = count
    BY <1>3, <1>5, <2>1 DEF top
  <2>2. CASE i # count
    <3>1. i < count
      BY <2>2
    <3>2. QED
      BY <1>1, <1>3, <1>4, <1>5, <3>1 DEF top
  <2>3. QED
    BY <2>1, <2>2
<1>8. Min(M) = 0 /\ Max(M) = top
  <2>1. \A x \in M : (\A y \in M : x <= y) => x = 0
    BY <1>6, <1>7
  <2>2. \A x \in M : (\A y \in M : x >= y) => x = top
    BY <1>6, <1>7
  <2>3. \A y \in M : 0 <= y /\ top >= y
    BY <1>6, <1>7
  <2>4. QED
    BY <1>6, <2>1, <2>2, <2>3 DEF Min, Max
<1>9. Cardinality(M) = count
  <2>1. f \in [1..count -> M]
    BY <1>2, <1>3 DEF f
  <2>2. \A i, j \in 1..count : f[i] = f[j] => i = j
    BY <1>1
  <2>3. f \in Bijection(1..count, M)
    BY <1>2, <2>1, <2>2 DEF Bijection, Injection, Surjection, IsInjective
  <2>4. IsFiniteSet(1..count) /\ Cardinality(1..count) = count
    BY FS_Interval
  <2>5. ExistsBijection(1..count, M)
    BY <2>3 DEF ExistsBijection
  <2>6. QED
    BY <2>4, <2>5, FS_Bijection
<1>10. QED
  BY <1>8, <1>9 DEF M, top


\* The values have the bounds that were reported, and are as many.
HasBounds(s, values) ==
  Max(values) = s.max /\ Min(values) = s.min /\ Cardinality(values) = s.distinct

\* The bounds of a counting function that was not refused are those of its rows.
LEMMA BoundsAreTrue ==
  ASSUME GeneratorsAssumption, NEW c \in Calls, ~SequenceRefuses(c), IncrementGrows(c),
         NEW s \in SourceOf(c).statistics
  PROVE  HasBounds(s, {SourceOf(c).rows[i][s.column][2] : i \in 1..Len(SourceOf(c).rows)})
<1> DEFINE rows == [i \in 1..Count(c) |-> [n |-> Num((i - 1) * Step(c))]]
           told == [column |-> "n", min |-> 0, max |-> (c.count - 1) * Step(c),
                    distinct |-> c.count]
           values == {rows[i]["n"][2] : i \in 1..Count(c)}
<1>1. c.fn \in {"sequence", "double_sequence"}
  BY SourcesAreSources
<1>2. SourceOf(c).rows = rows
  <2>1. sequence(c).rows = rows
    BY DEF sequence, Source
  <2>2. double_sequence(c).rows = rows
    BY DEF double_sequence, Source
  <2> HIDE DEF rows
  <2>3. SourceOf(c) = sequence(c) \/ SourceOf(c) = double_sequence(c)
    BY <1>1, SourcesAreSources
  <2>4. QED
    BY <2>1, <2>2, <2>3
<1>3. c.count # Absent /\ c.count > 0 /\ s = told
  <2>1. SourceOf(c).statistics = IF c.count = Absent \/ c.count <= 0 THEN {} ELSE {told}
    BY <1>1, SourcesAreSources DEF sequence, double_sequence, Source, SequenceStatistics
  <2> HIDE DEF told
  <2>2. c.count # Absent /\ ~(c.count <= 0) /\ s = told
    BY <2>1
  <2>3. c.count \in Int
    BY <2>2 DEF GeneratorsAssumption
  <2>4. QED
    BY <2>2, <2>3
<1>4. c.count \in Nat \ {0} /\ Count(c) = c.count
  BY <1>3 DEF GeneratorsAssumption, Count, AtLeast, Or
<1>5. Step(c) \in Nat \ {0}
  <2>1. Step(c) \in Int
    BY CallArguments
  <2>2. Step(c) >= 1
    <3>1. CASE c.fn = "double_sequence"
      BY <3>1 DEF IncrementGrows
    <3>2. CASE c.fn = "sequence"
      <4>1. c.step = Absent \/ ~(c.step < 1)
        BY <3>2 DEF SequenceRefuses
      <4>2. CASE c.step = Absent
        BY <4>2 DEF Step, Or
      <4>3. CASE c.step # Absent
        BY <2>1, <4>1, <4>3 DEF Step, Or
      <4>4. QED
        BY <4>2, <4>3
    <3>3. QED
      BY <1>1, <3>1, <3>2
  <2>3. QED
    BY <2>1, <2>2
<1>6. Len(rows) = Count(c) /\ \A i \in 1..Count(c) : rows[i]["n"][2] = (i - 1) * Step(c)
  BY <1>4 DEF Num
<1>7. values = Multiples(c.count, Step(c))
  BY <1>4, <1>6 DEF Multiples
<1> HIDE DEF rows
<1>8. {SourceOf(c).rows[i][s.column][2] : i \in 1..Len(SourceOf(c).rows)} = values
  BY <1>2, <1>3, <1>6
<1>9. s.min = 0 /\ s.max = (c.count - 1) * Step(c) /\ s.distinct = c.count
  BY <1>3
<1> HIDE DEF values, told
<1> DEFINE count == c.count
           step == Step(c)
<1> HIDE DEF count, step
<1>10. /\ Min(Multiples(count, step)) = 0 /\ Max(Multiples(count, step)) = (count - 1) * step
       /\ Cardinality(Multiples(count, step)) = count
  BY <1>4, <1>5, MultiplesAre DEF count, step
<1>11. HasBounds(s, values)
  BY <1>7, <1>9, <1>10 DEF HasBounds, count, step
<1>12. QED
  BY <1>8, <1>11

-----------------------------------------------------------------------------
(* Generators: the stream                                                  *)

\* The rows handed out, under the names asked for.
IsNarrowed(source, asked, out) ==
  \A i \in 1..Len(out) : \A k \in 1..Len(asked) : out[i][k] = source.rows[i][asked[k]]

\* A stream that was started was not refused, and has handed out the rows before
\* its place.
GenInv ==
  /\ gcall \in Calls
  /\ gstate \in {"called", "running", "done", "refused", "failed"}
  /\ gstate \in {"called", "refused"} => gpos = 0
  /\ gstate \in {"running", "done", "failed"} =>
       ~SequenceRefuses(gcall) /\ ~IdsRefused(SourceOf(gcall))
  /\ gpos \in 0..Len(SourceOf(gcall).rows)
  /\ gout \in Seq(Range(gout)) /\ Len(gout) = gpos
  /\ IsNarrowed(SourceOf(gcall), AskedOf(SourceOf(gcall), gcall.wanted), gout)
  /\ gstate \in {"done", "failed"} => gpos = Len(SourceOf(gcall).rows)
  /\ ProfileIsCurrent

\* The invariant gives the property.
LEMMA GenInvImplies ==
  ASSUME GeneratorsAssumption, GenInv
  PROVE  GeneratedAsTold
<1>1. CellsUnderTheirNames
  BY DEF GenInv, IsNarrowed, CellsUnderTheirNames
<1>2. PlannerIsToldTheTruth
  <2> SUFFICES ASSUME gstate = "done"
               PROVE  \E source \in {SourceOf(gcall)} :
                 /\ IncrementGrows(gcall) => \A s \in source.statistics :
                      LET values == {source.rows[i][s.column][2] : i \in 1..gpos}
                      IN /\ Max(values) = s.max /\ Min(values) = s.min
                         /\ Cardinality(values) = s.distinct
                 /\ \A n \in source.cardinality : n >= 0 => n = gpos \/ source.columns = <<>>
    BY DEF PlannerIsToldTheTruth
  <2>1. gcall \in Calls /\ ~SequenceRefuses(gcall) /\ gpos = Len(SourceOf(gcall).rows)
    BY DEF GenInv
  <2>2. \A n \in SourceOf(gcall).cardinality :
          n >= 0 => n = gpos \/ SourceOf(gcall).columns = <<>>
    BY <2>1, SourcesAreSources DEF IsSource
  <2>3. QED
    BY <2>1, <2>2, BoundsAreTrue DEF HasBounds
<1>3. QED
  BY <1>1, <1>2 DEF GenInv, GeneratedAsTold

\* narrow_to finds each name asked for among those a row was built with.
LEMMA NarrowedByName ==
  ASSUME NEW source, IsSource(source), NEW wanted \in Seq(Int),
         source.pushdown => \A k \in 1..Len(wanted) : ~(wanted[k] < 0 \/ wanted[k] >= Len(source.columns)),
         NEW row, NEW k \in 1..Len(AskedOf(source, wanted))
  PROVE  LET asked == AskedOf(source, wanted)
         IN Narrowed(row, EmittedBy(source, asked), asked)[k] = row[asked[k]]
<1> DEFINE asked == AskedOf(source, wanted)
           emitted == EmittedBy(source, asked)
           cells == [i \in DOMAIN emitted |-> row[emitted[i]]]
           place == CHOOSE i \in DOMAIN emitted : emitted[i] = asked[k]
<1>1. DOMAIN asked = 1..Len(asked)
  <2>1. CASE source.pushdown /\ wanted # <<>>
    BY <2>1 DEF AskedOf
  <2>2. CASE ~(source.pushdown /\ wanted # <<>>)
    BY <2>2 DEF AskedOf, IsSource
  <2>3. QED
    BY <2>1, <2>2
<1>2. \E i \in DOMAIN emitted : emitted[i] = asked[k]
  <2>1. CASE source.strict
    BY <1>1, <2>1 DEF EmittedBy
  <2>2. CASE ~source.strict /\ source.pushdown /\ wanted # <<>>
    <3>1. k \in 1..Len(wanted) /\ asked[k] = source.columns[wanted[k] + 1]
      BY <2>2 DEF AskedOf
    <3>2. wanted[k] \in Int /\ 0 <= wanted[k] /\ wanted[k] < Len(source.columns)
      BY <2>2, <3>1 DEF IsSource
    <3>3. wanted[k] + 1 \in DOMAIN source.columns
      BY <3>2 DEF IsSource
    <3>4. QED
      BY <2>2, <3>1, <3>3 DEF EmittedBy
  <2>3. CASE ~source.strict /\ ~(source.pushdown /\ wanted # <<>>)
    BY <1>1, <2>3 DEF EmittedBy, AskedOf
  <2>4. QED
    BY <2>1, <2>2, <2>3
<1>3. Narrowed(row, emitted, asked) = [j \in 1..Len(asked) |->
                                         cells[CHOOSE i \in DOMAIN emitted : emitted[i] = asked[j]]]
  BY DEF Narrowed, narrow_to
<1> HIDE DEF asked, emitted
<1>4. place \in DOMAIN emitted /\ emitted[place] = asked[k]
  BY <1>2
<1>5. Narrowed(row, emitted, asked)[k] = cells[place]
  BY <1>3 DEF asked
<1> HIDE DEF place
<1>6. cells[place] = row[asked[k]]
  BY <1>4
<1>7. QED
  BY <1>5, <1>6 DEF asked, emitted

\* It holds before the call is served.
LEMMA GenInvInit == ASSUME GeneratorsAssumption, GenInit PROVE GenInv
<1>1. Len(SourceOf(gcall).rows) \in Nat
  BY SourcesAreSources DEF GenInit, IsSource
<1>2. <<>> \in Seq(Range(<<>>)) /\ Len(<<>>) = 0
  OBVIOUS
<1>3. QED
  BY <1>1, <1>2 DEF GenInit, GenInv, IsNarrowed, ProfileIsCurrent

\* The first size rows after gpos, narrowed, join those before them.
LEMMA ProduceKeeps ==
  ASSUME GeneratorsAssumption, GenInv, Produce
  PROVE  GenInv'
<1> DEFINE source == SourceOf(gcall)
           n == Len(source.rows)
           asked == AskedOf(source, gcall.wanted)
           size == Min({source.batch, n - gpos})
           more == [k \in 1..size |->
                      Narrowed(source.rows[gpos + k], EmittedBy(source, asked), asked)]
<1>1. /\ gstate = "running" /\ gpos < n /\ gout' = gout \o more /\ gpos' = gpos + size
      /\ gprofile' = Published(size) /\ UNCHANGED <<gcall, gstate>>
  BY DEF Produce
<1>2. IsSource(source) /\ gcall \in Calls /\ n \in Nat /\ source.batch \in Nat \ {0}
  BY SourcesAreSources DEF GenInv, IsSource
<1>3. gpos \in Nat /\ gpos < n /\ Len(gout) = gpos /\ gout \in Seq(Range(gout))
  BY <1>1, <1>2 DEF GenInv
<1>4. size \in Nat \ {0} /\ gpos + size <= n
  <2> DEFINE b == source.batch
             left == n - gpos
  <2>1. b \in Nat \ {0} /\ left \in Nat \ {0} /\ gpos + left = n
    BY <1>2, <1>3
  <2>2. size = Min({b, left})
    OBVIOUS
  <2> HIDE DEF b, left
  <2>3. size \in {b, left} /\ size <= b /\ size <= left
    BY <2>1, <2>2 DEF Min
  <2>4. QED
    BY <1>3, <2>1, <2>3
<1> HIDE DEF size
<1>5. ASSUME NEW j \in 1..size, NEW k \in 1..Len(asked)
      PROVE  more[j][k] = source.rows[gpos + j][asked[k]]
  <2>1. gcall.wanted \in Seq(Int)
    BY <1>2 DEF GeneratorsAssumption
  <2>2. source.pushdown => \A i \in 1..Len(gcall.wanted) :
          ~(gcall.wanted[i] < 0 \/ gcall.wanted[i] >= Len(source.columns))
    BY <1>1 DEF GenInv, IdsRefused
  <2>3. more[j] = Narrowed(source.rows[gpos + j], EmittedBy(source, asked), asked)
    BY <1>4
  <2> DEFINE row == source.rows[gpos + j]
             wanted == gcall.wanted
  <2>4. /\ IsSource(source) /\ wanted \in Seq(Int) /\ asked = AskedOf(source, wanted)
        /\ source.pushdown => \A i \in 1..Len(wanted) :
             ~(wanted[i] < 0 \/ wanted[i] >= Len(source.columns))
    BY <1>2, <2>1, <2>2
  <2> HIDE DEF source, more, row, wanted, asked
  <2>5. Narrowed(row, EmittedBy(source, asked), asked)[k] = row[asked[k]]
    BY <2>4, NarrowedByName
  <2>6. QED
    BY <2>3, <2>5 DEF row
<1>6. Len(more) = size /\ more \in Seq(Range(more))
  BY <1>4 DEF Range
<1> DEFINE all == gout \o more
<1> HIDE DEF more
<1>7. /\ all \in Seq(Range(all)) /\ Len(all) = gpos + size
      /\ \A i \in 1..gpos : all[i] = gout[i]
      /\ \A j \in 1..size : all[gpos + j] = more[j]
  <2> DEFINE T == Range(gout) \cup Range(more)
  <2>1. gout \in Seq(T) /\ more \in Seq(T)
    BY <1>3, <1>6
  <2> HIDE DEF T
  <2>2. /\ all \in Seq(T) /\ Len(all) = gpos + size
        /\ \A i \in 1..gpos : all[i] = gout[i]
        /\ \A j \in 1..size : all[gpos + j] = more[j]
    BY <1>3, <1>4, <1>6, <2>1
  <2> HIDE DEF all
  <2>3. all \in Seq(Range(all))
    BY <2>2 DEF Range
  <2>4. QED
    BY <2>2, <2>3
<1> HIDE DEF all
<1>8. IsNarrowed(source, asked, all)
  <2> SUFFICES ASSUME NEW i \in 1..(gpos + size), NEW k \in 1..Len(asked)
               PROVE  all[i][k] = source.rows[i][asked[k]]
    BY <1>7 DEF IsNarrowed
  <2>1. CASE i \in 1..gpos
    BY <1>3, <1>7, <2>1 DEF GenInv, IsNarrowed
  <2>2. CASE i \notin 1..gpos
    <3>1. i - gpos \in 1..size /\ gpos + (i - gpos) = i
      BY <1>3, <1>4, <2>2
    <3>2. QED
      BY <1>5, <1>7, <3>1
  <2>3. QED
    BY <2>1, <2>2
<1>9. gpos' \in 0..n
  BY <1>1, <1>2, <1>3, <1>4
<1>10. ProfileIsCurrent'
  BY <1>1 DEF ProfileIsCurrent, Published
<1>11. /\ SourceOf(gcall)' = source /\ AskedOf(SourceOf(gcall), gcall.wanted)' = asked
       /\ gout' = all /\ gpos' = gpos + size /\ gstate' = "running" /\ gcall' = gcall
  BY <1>1 DEF all
<1>12. ~SequenceRefuses(gcall)' /\ ~IdsRefused(SourceOf(gcall))'
  BY <1>1 DEF GenInv, IdsRefused
<1>13. QED
  BY <1>2, <1>7, <1>8, <1>9, <1>10, <1>11, <1>12 DEF GenInv

\* The steps that hand out no row.
LEMMA GenStep ==
  ASSUME GeneratorsAssumption, GenInv, [GenNext]_genVars
  PROVE  GenInv'
<1>1. CASE Start
  <2>1. UNCHANGED <<gcall, gpos, gout, gprofile>> /\ gstate = "called"
    BY <1>1 DEF Start
  <2>2. gstate' = IF SequenceRefuses(gcall) \/ IdsRefused(SourceOf(gcall)) THEN "refused"
                  ELSE "running"
    BY <1>1 DEF Start
  <2>3. IdsRefused(SourceOf(gcall))' = IdsRefused(SourceOf(gcall))
    BY <2>1 DEF IdsRefused
  <2>4. QED
    BY <2>1, <2>2, <2>3 DEF GenInv, ProfileIsCurrent
<1>2. CASE Produce
  BY <1>2, ProduceKeeps
<1>3. CASE Exhausted
  <2>1. UNCHANGED <<gcall, gpos, gout, gprofile>> /\ gstate = "running"
        /\ gpos = Len(SourceOf(gcall).rows) /\ gstate' \in {"done", "failed"}
    BY <1>3 DEF Exhausted
  <2>2. IdsRefused(SourceOf(gcall))' = IdsRefused(SourceOf(gcall))
    BY <2>1 DEF IdsRefused
  <2>3. QED
    BY <2>1, <2>2 DEF GenInv, ProfileIsCurrent
<1>4. CASE UNCHANGED genVars
  <2>1. UNCHANGED <<gcall, gpos, gout, gprofile, gstate>>
    BY <1>4 DEF genVars
  <2>2. IdsRefused(SourceOf(gcall))' = IdsRefused(SourceOf(gcall))
    BY <2>1 DEF IdsRefused
  <2>3. QED
    BY <2>1, <2>2 DEF GenInv, ProfileIsCurrent
<1>5. QED
  BY <1>1, <1>2, <1>3, <1>4 DEF GenNext

\* For any calls of the generating functions, any batch sizes and any projection:
\* what the engine reads is each row's cells under the names it asked for, the
\* planner was told its number of rows and, where the call's increment is above 0,
\* its bounds, and the stored profile counts the rows (narrow_to, next_batch,
\* statistics, cardinality of the functions of example-worker/table).
THEOREM GeneratedRows ==
  ASSUME GeneratorsAssumption PROVE GenSpec => []GeneratedAsTold
<1>1. GenInit => GenInv
  BY GenInvInit
<1>2. GenInv /\ [GenNext]_genVars => GenInv'
  BY GenStep
<1>3. GenInv => GeneratedAsTold
  BY GenInvImplies
<1>4. QED
  BY <1>1, <1>2, <1>3, PTL DEF GenSpec


-----------------------------------------------------------------------------
(* PartitionedScans: the chunks of a scan                                  *)

\* A factor keeps an order.
LEMMA TimesGrows ==
  ASSUME NEW a \in Nat, NEW b \in Nat, NEW c \in Nat, a <= b
  PROVE  a * c <= b * c /\ a * c \in Nat /\ b * c \in Nat
<1> DEFINE d == b - a
<1>1. d \in Nat /\ b = a + d
  OBVIOUS
<1> HIDE DEF d
<1>2. b * c = a * c + d * c /\ d * c \in Nat /\ a * c \in Nat
  BY <1>1
<1>3. QED
  BY <1>2

\* What a quotient is.
LEMMA Quotient ==
  ASSUME NEW a \in Nat, NEW c \in Nat \ {0}
  PROVE  /\ a \div c \in Nat
         /\ (a \div c) * c <= a
         /\ a < (a \div c + 1) * c
<1> DEFINE q == a \div c
           r == a % c
<1>1. q \in Int /\ r \in 0..(c - 1) /\ a = c * q + r
  BY SMT
<1> HIDE DEF q, r
<1>2. q >= 0
  <2>1. SUFFICES ASSUME q < 0 PROVE FALSE
    BY <1>1
  <2> DEFINE m == 0 - q
  <2>2. m \in Nat /\ m >= 1 /\ q = 0 - m
    BY <1>1, <2>1
  <2> HIDE DEF m
  <2>3. 1 * c <= m * c /\ m * c \in Nat /\ 1 * c = c
    BY <2>2, TimesGrows
  <2>4. c * q = 0 - m * c
    BY <2>2
  <2> DEFINE p == m * c
  <2>5. p \in Nat /\ c <= p /\ c * q = 0 - p
    BY <2>3, <2>4
  <2> HIDE DEF p
  <2>6. r \in Int /\ r < c /\ a = (0 - p) + r
    BY <1>1, <2>5
  <2>7. QED
    BY <2>5, <2>6
<1>3. q \in Nat
  BY <1>1, <1>2
<1>4. q * c = c * q /\ (q + 1) * c = c * q + c
  BY <1>3
<1>5. QED
  BY <1>1, <1>3, <1>4 DEF q

\* The lesser of two numbers.
LEMMA MinOfTwo ==
  ASSUME NEW a \in Int, NEW b \in Int
  PROVE  Min({a, b}) = IF a <= b THEN a ELSE b
BY DEF Min

\* Chunks are numbered in their order, and none is empty.
IsChunks(chunks) ==
  /\ chunks \in Seq([id : Nat, start : Nat, end : Nat])
  /\ \A k \in 1..Len(chunks) : chunks[k].id = k - 1 /\ chunks[k].start < chunks[k].end

\* One chunk per size rows, the last one shorter.
RangeCount(count, size) == (NotLess(0, count) + size - 1) \div size

\* The chunks of push_ranges follow each other from 0 to the count.
LEMMA RangesFollow ==
  ASSUME NEW count \in Int, NEW size \in Nat \ {0}, NEW k \in 1..RangeCount(count, size)
  PROVE  /\ RangeCount(count, size) \in Nat
         /\ (k - 1) * size \in Nat /\ k * size \in Nat /\ k * size = (k - 1) * size + size
         /\ (k - 1) * size < count
         /\ k < RangeCount(count, size) => k * size < count
         /\ k = RangeCount(count, size) => count <= k * size
<1> DEFINE m == NotLess(0, count)
           n == RangeCount(count, size)
           a == m + size - 1
<1>1. m \in Nat /\ a \in Nat /\ (m > 0 => m = count)
  BY DEF NotLess
<1>2. n = a \div size
  BY DEF RangeCount
<1>3. n \in Nat /\ n * size <= a /\ a < (n + 1) * size
  BY <1>1, <1>2, Quotient
<1> HIDE DEF n, a
<1>4. k \in 1..n
  BY DEF n
<1> HIDE DEF m
<1>5. /\ (k - 1) * size \in Nat /\ k * size \in Nat /\ k * size = (k - 1) * size + size
      /\ n * size \in Nat /\ (n + 1) * size = n * size + size
  BY <1>3, <1>4
<1>6. k * size <= n * size
  BY <1>3, <1>4, TimesGrows
<1>7. a = m + size - 1
  BY DEF a
<1> DEFINE ks == k * size
           ls == (k - 1) * size
           ns == n * size
<1>8. ks \in Nat /\ ls \in Nat /\ ns \in Nat /\ ks = ls + size /\ ks <= ns /\ ns <= m + size - 1
      /\ m + size - 1 < ns + size /\ m \in Nat
  BY <1>1, <1>3, <1>5, <1>6, <1>7
<1>9. (k = n => ks = ns) /\ (k < n => ks + size <= ns)
  <2>1. k = n => ks = ns
    OBVIOUS
  <2>2. ASSUME k < n PROVE ks + size <= ns
    <3>1. (k + 1) * size <= n * size /\ (k + 1) * size = k * size + size
      BY <1>3, <1>4, <2>2, TimesGrows
    <3>2. QED
      BY <3>1
  <2>3. QED
    BY <2>1, <2>2
<1> HIDE DEF ks, ls, ns
<1>10. ls < m /\ (k < n => ks < m) /\ (k = n => m <= ks)
  BY <1>8, <1>9
<1>11. m = count
  BY <1>1, <1>8, <1>10
<1>12. QED
  BY <1>3, <1>8, <1>10, <1>11 DEF ks, ls, n

\* The chunks of push_ranges are numbered, and none is empty.
LEMMA RangesAreChunks ==
  ASSUME NEW count \in Int, NEW size \in Nat \ {0}
  PROVE  IsChunks(Ranges(count, size))
<1> DEFINE n == RangeCount(count, size)
           chunks == Ranges(count, size)
<1>1. n \in Nat
  <2>1. NotLess(0, count) + size - 1 \in Nat
    BY DEF NotLess
  <2>2. QED
    BY <2>1, Quotient DEF RangeCount
<1>2. chunks = [k \in 1..n |-> [id |-> k - 1, start |-> (k - 1) * size,
                               end |-> Min({k * size, count})]]
  BY DEF Ranges, RangeCount
<1>3. \A k \in 1..n :
        /\ k - 1 \in Nat /\ (k - 1) * size \in Nat /\ Min({k * size, count}) \in Nat
        /\ (k - 1) * size < Min({k * size, count})
  <2> TAKE k \in 1..n
  <2> DEFINE ks == k * size
             ls == (k - 1) * size
  <2>1. ls \in Nat /\ ks \in Nat /\ ks = ls + size /\ ls < count
    BY RangesFollow
  <2>2. k - 1 \in Nat
    BY <1>1
  <2> HIDE DEF ks, ls
  <2>3. Min({ks, count}) = IF ks <= count THEN ks ELSE count
    BY <2>1, MinOfTwo
  <2>4. ls \in Nat /\ Min({ks, count}) \in Nat /\ ls < Min({ks, count})
    BY <2>1, <2>3
  <2>5. QED
    BY <2>2, <2>4 DEF ks, ls
<1> HIDE DEF n, chunks
<1> DEFINE First(k) == (k - 1) * size
           End(k) == Min({k * size, count})
<1>4. /\ chunks = [k \in 1..n |-> [id |-> k - 1, start |-> First(k), end |-> End(k)]]
      /\ \A k \in 1..n : k - 1 \in Nat /\ First(k) \in Nat /\ End(k) \in Nat /\ First(k) < End(k)
  BY <1>2, <1>3
<1> HIDE DEF First, End
<1>5. chunks \in Seq([id : Nat, start : Nat, end : Nat]) /\ Len(chunks) = n
  BY <1>1, <1>4
<1>6. \A k \in 1..n : chunks[k].id = k - 1 /\ chunks[k].start < chunks[k].end
  BY <1>4
<1>7. QED
  BY <1>5, <1>6 DEF IsChunks, chunks

In(chunk, n) == chunk.start <= n /\ n < chunk.end

\* push_ranges divides the scan, whatever its count and the size of a chunk: every
\* row number below the count is in one chunk, and no other number is in any.
THEOREM RangesTile ==
  ASSUME NEW count \in Int, NEW size \in Nat \ {0}, NEW n \in Int
  PROVE  IF n \in 0..(count - 1)
         THEN \E k \in 1..Len(Ranges(count, size)) : \A l \in 1..Len(Ranges(count, size)) :
                In(Ranges(count, size)[l], n) <=> l = k
         ELSE \A k \in 1..Len(Ranges(count, size)) : ~In(Ranges(count, size)[k], n)
<1> DEFINE last == RangeCount(count, size)
           chunks == Ranges(count, size)
<1>1. last \in Nat /\ (count > 0 => count <= last * size)
  <2> DEFINE m == NotLess(0, count)
             a == m + size - 1
  <2>1. m \in Nat /\ a \in Nat /\ (count > 0 => m = count)
    BY DEF NotLess
  <2>2. last = a \div size
    BY DEF RangeCount
  <2>3. last \in Nat /\ a < (last + 1) * size
    BY <2>1, <2>2, Quotient
  <2> HIDE DEF last
  <2>4. (last + 1) * size = last * size + size /\ last * size \in Nat
    BY <2>3
  <2> DEFINE p == last * size
  <2>5. m + size - 1 < p + size /\ p \in Nat
    BY <2>3, <2>4
  <2> HIDE DEF p, m
  <2>6. QED
    BY <2>1, <2>3, <2>5 DEF p
<1>2. chunks = [k \in 1..last |-> [id |-> k - 1, start |-> (k - 1) * size,
                                   end |-> Min({k * size, count})]]
  BY DEF Ranges, RangeCount
<1>3. Len(chunks) = last
  <2> DEFINE Chunk(k) == [id |-> k - 1, start |-> (k - 1) * size, end |-> Min({k * size, count})]
  <2>1. chunks = [k \in 1..last |-> Chunk(k)]
    BY <1>2
  <2> HIDE DEF Chunk, chunks, last
  <2>2. QED
    BY <1>1, <2>1
<1>4. ASSUME NEW l \in 1..last
      PROVE  /\ (l - 1) * size \in Nat /\ l * size \in Nat /\ l \in Nat \ {0}
             /\ In(chunks[l], n) <=> ((l - 1) * size <= n /\ n < l * size /\ n < count)
  <2> DEFINE lo == (l - 1) * size
             hi == l * size
  <2>1. lo \in Nat /\ hi \in Nat
    BY RangesFollow
  <2>2. chunks[l].start = lo /\ chunks[l].end = Min({hi, count})
    BY <1>2
  <2> HIDE DEF lo, hi, chunks
  <2>3. Min({hi, count}) = IF hi <= count THEN hi ELSE count
    BY <2>1, MinOfTwo
  <2>4. In(chunks[l], n) <=> (lo <= n /\ n < hi /\ n < count)
    BY <2>1, <2>2, <2>3 DEF In
  <2>5. QED
    BY <1>1, <2>1, <2>4 DEF lo, hi
<1> HIDE DEF last, chunks
<1>5. ASSUME n \notin 0..(count - 1) PROVE \A k \in 1..last : ~In(chunks[k], n)
  BY <1>4, <1>5
<1>6. ASSUME n \in 0..(count - 1)
      PROVE  \E k \in 1..last : \A l \in 1..last : In(chunks[l], n) <=> l = k
  <2> DEFINE q == n \div size
  <2>1. n \in Nat /\ n < count /\ q \in Nat /\ q * size <= n /\ n < (q + 1) * size
    <3>1. n \in Nat /\ n < count
      BY <1>6
    <3>2. QED
      BY <3>1, Quotient
  <2> HIDE DEF q
  <2>2. q < last
    <3>1. SUFFICES ASSUME last <= q PROVE FALSE
      BY <1>1, <2>1
    <3> DEFINE a == last * size
               b == q * size
    <3>2. a <= b /\ a \in Nat /\ b \in Nat
      BY <1>1, <2>1, <3>1, TimesGrows
    <3>3. count <= a /\ b <= n
      BY <1>1, <2>1
    <3> HIDE DEF a, b
    <3>4. QED
      BY <2>1, <3>2, <3>3
  <2>3. q + 1 \in 1..last
    BY <1>1, <2>1, <2>2
  <2>4. In(chunks[q + 1], n)
    <3>1. (q + 1) - 1 = q
      BY <2>1
    <3>2. QED
      BY <1>4, <2>1, <2>3, <3>1
  <2>5. ASSUME NEW l \in 1..last, In(chunks[l], n) PROVE l = q + 1
    <3> DEFINE lo == (l - 1) * size
               hi == l * size
    <3>1. lo \in Nat /\ hi \in Nat /\ lo <= n /\ n < hi /\ l \in Nat \ {0}
      BY <1>4, <2>5
    <3>2. ~(l <= q)
      <4>1. SUFFICES ASSUME l <= q PROVE FALSE
        OBVIOUS
      <4> DEFINE b == q * size
      <4>2. hi <= b /\ b \in Nat /\ b <= n
        BY <2>1, <3>1, <4>1, TimesGrows
      <4> HIDE DEF hi, b
      <4>3. QED
        BY <2>1, <3>1, <4>2
    <3>3. ~(q + 1 <= l - 1)
      <4>1. SUFFICES ASSUME q + 1 <= l - 1 PROVE FALSE
        OBVIOUS
      <4> DEFINE b == (q + 1) * size
      <4>2. b <= lo /\ b \in Nat
        <5>1. l - 1 \in Nat /\ q + 1 \in Nat
          BY <2>1, <3>1
        <5>2. QED
          BY <4>1, <5>1, TimesGrows
      <4>3. n < b
        BY <2>1
      <4> HIDE DEF lo, b
      <4>4. QED
        BY <2>1, <3>1, <4>2, <4>3
    <3>4. QED
      BY <2>1, <3>1, <3>2, <3>3
  <2>6. QED
    BY <2>3, <2>4, <2>5
<1>7. QED
  BY <1>3, <1>5, <1>6 DEF chunks

\* So are those of push_partitions, which are of one length.
LEMMA PartitionsAreChunks ==
  ASSUME NEW n \in Int, NEW rows \in Int
  PROVE  /\ IsChunks(Partitions(n, rows))
         /\ Len(Partitions(n, rows)) = NotLess(0, n)
         /\ \A k \in 1..NotLess(0, n) : Partitions(n, rows)[k].end = NotLess(1, rows)
                                        /\ Partitions(n, rows)[k].start = 0
<1>1. NotLess(0, n) \in Nat /\ NotLess(1, rows) \in Nat \ {0}
  BY DEF NotLess
<1> DEFINE m == NotLess(0, n)
           e == NotLess(1, rows)
           chunks == Partitions(n, rows)
<1>2. chunks = [k \in 1..m |-> [id |-> k - 1, start |-> 0, end |-> e]]
  BY DEF Partitions
<1> HIDE DEF m, e, chunks
<1>3. m \in Nat /\ e \in Nat \ {0}
  BY <1>1 DEF m, e
<1>4. chunks \in Seq([id : Nat, start : Nat, end : Nat]) /\ Len(chunks) = m
  BY <1>2, <1>3
<1>5. \A k \in 1..m : chunks[k].id = k - 1 /\ chunks[k].start = 0 /\ chunks[k].end = e
  BY <1>2
<1>6. IsChunks(chunks)
  <2>1. 0 < e
    BY <1>3
  <2>2. \A k \in 1..m : chunks[k].id = k - 1 /\ chunks[k].start < chunks[k].end
    BY <1>5, <2>1, Zenon
  <2>3. \A k \in 1..Len(chunks) : chunks[k].id = k - 1 /\ chunks[k].start < chunks[k].end
    BY <1>4, <2>2, Zenon
  <2>4. QED
    BY <1>4, <2>3, Zenon DEF IsChunks
<1>7. QED
  BY <1>4, <1>5, <1>6 DEF m, e, chunks


Ordinary(c) == c.fn \notin BrokenKinds \cup BrokenTags

\* What the functions that are not broken on purpose have in common.
IsFixture(c) ==
  /\ IsChunks(FixtureOf(c).chunks)
  /\ FixtureOf(c).tagged \in BOOLEAN /\ FixtureOf(c).stated \in BOOLEAN

\* The scans that are one range of numbers have no partition columns.
LEMMA RangeFixtures ==
  ASSUME PartitionAssumption, NEW c \in PartitionCalls, c.fn \in RangeFunctions
  PROVE  /\ IsFixture(c) /\ FixtureOf(c).by = {} /\ FixtureOf(c).kind = "none"
         /\ ~FixtureOf(c).stated
<1>1. c.count \in Int /\ c.rows \in Int /\ kChunkRows \in Nat \ {0} /\ kMaxChunks \in Nat \ {0}
  BY DEF PartitionAssumption
<1>2. CappedSize(c.count) \in Nat \ {0} /\ NotLess(1, c.rows) \in Nat \ {0}
  <2>1. NotLess(0, c.count) + kMaxChunks - 1 \in Nat
    BY <1>1 DEF NotLess
  <2>2. (NotLess(0, c.count) + kMaxChunks - 1) \div kMaxChunks \in Nat
    BY <1>1, <2>1, Quotient
  <2>3. QED
    BY <1>1, <2>2 DEF CappedSize, NotLess
<1>3. /\ IsChunks(Ranges(c.count, CappedSize(c.count))) /\ IsChunks(Ranges(c.count, kChunkRows))
      /\ IsChunks(Ranges(c.count, NotLess(1, c.rows)))
  BY <1>1, <1>2, RangesAreChunks
<1>4. CASE c.fn \in {"partitioned_sequence", "partitioned_preserves_order",
                     "partitioned_no_order_guarantee", "partitioned_fixed_order"}
  <2>1. FixtureOf(c) = partitioned_sequence(c)
    BY <1>4 DEF FixtureOf, BrokenKinds, BrokenTags
  <2>2. PICK chunks : IsChunks(chunks) /\ partitioned_sequence(c) = Fixture(chunks, <<"n">>, {}, "none")
    BY <1>3 DEF partitioned_sequence
  <2>3. QED
    BY <2>1, <2>2 DEF IsFixture, Fixture
<1>5. CASE c.fn = "partitioned_batch_index"
  <2>1. FixtureOf(c) = partitioned_batch_index(c)
    BY <1>5 DEF FixtureOf, BrokenKinds, BrokenTags
  <2>2. partitioned_batch_index(c) = [Fixture(Ranges(c.count, kChunkRows), <<"n">>, {}, "none") EXCEPT !.tagged = TRUE]
    BY <1>5 DEF partitioned_batch_index
  <2>3. QED
    BY <1>3, <1>5, <2>1, <2>2 DEF IsFixture, Fixture
<1>6. CASE c.fn = "partitioned_batch_index_marked"
  <2>1. FixtureOf(c) = partitioned_batch_index_marked(c)
    BY <1>6 DEF FixtureOf, BrokenKinds, BrokenTags
  <2>2. partitioned_batch_index_marked(c) = [Fixture(Ranges(c.count, NotLess(1, c.rows)), <<"partition_id", "seq">>, {}, "none") EXCEPT !.tagged = TRUE]
    BY <1>6 DEF partitioned_batch_index_marked
  <2>3. QED
    BY <1>3, <1>6, <2>1, <2>2 DEF IsFixture, Fixture
<1>7. CASE c.fn = "filter_echo_partitioned"
  <2>1. FixtureOf(c) = filter_echo_partitioned(c)
    BY <1>7 DEF FixtureOf, BrokenKinds, BrokenTags
  <2>2. filter_echo_partitioned(c) = Fixture(Ranges(c.count, CappedSize(c.count)), <<"n">>, {}, "none")
    BY <1>7 DEF filter_echo_partitioned
  <2>3. QED
    BY <1>3, <1>7, <2>1, <2>2 DEF IsFixture, Fixture
<1>8. QED
  BY <1>4, <1>5, <1>6, <1>7 DEF RangeFunctions

\* A chunk of the others is a partition.
LEMMA PartitionFixtures ==
  ASSUME PartitionAssumption, NEW c \in PartitionCalls, c.fn \in PartitionFunctions
  PROVE  /\ IsFixture(c) /\ ~FixtureOf(c).tagged /\ FixtureOf(c).kind # "none"
         /\ FixtureOf(c).stated = (c.fn = "partitioned_with_explicit_override")
         /\ FixtureOf(c).kind =
              CASE c.fn = "disjoint_range_partitioned" -> "disjoint"
                [] c.fn = "overlapping_range_partitioned" -> "overlapping"
                [] OTHER -> "single"
         /\ FixtureOf(c).by =
              CASE c.fn = "region_year_partitioned" -> {"region", "year"}
                [] c.fn = "partitioned_with_explicit_override" -> {"category"}
                [] c.fn \in {"country_partitioned_sales", "trailing_partition_sales"} -> {"country"}
                [] OTHER -> {"key"}
         /\ \A k \in 1..Len(FixtureOf(c).chunks) :
              /\ FixtureOf(c).chunks[k].start = 0
              /\ FixtureOf(c).chunks[k].end = NotLess(1, c.rows)
              /\ c.fn = "region_year_partitioned" => k <= 6
<1>1. c.count \in Int /\ c.rows \in Int
  BY DEF PartitionAssumption
<1> DEFINE Good(n) ==
      /\ IsChunks(Partitions(n, c.rows)) /\ Len(Partitions(n, c.rows)) = NotLess(0, n)
      /\ \A k \in 1..Len(Partitions(n, c.rows)) : Partitions(n, c.rows)[k].end = NotLess(1, c.rows)
                                                  /\ Partitions(n, c.rows)[k].start = 0
<1>2. \A n \in Int : Good(n)
  <2> TAKE n \in Int
  <2>1. QED
    BY <1>1, PartitionsAreChunks
<1>3. NotLess(0, 6) = 6
  BY DEF NotLess
<1> DEFINE Chunked(n) == Partitions(n, c.rows)
           e == NotLess(1, c.rows)
<1>10. \A n \in Int : /\ IsChunks(Chunked(n)) /\ (n = 6 => Len(Chunked(n)) = 6)
                     /\ \A k \in 1..Len(Chunked(n)) : Chunked(n)[k].end = e /\ Chunked(n)[k].start = 0
  BY <1>2, <1>3
<1> HIDE DEF Good, Chunked, e
<1>4. CASE c.fn = "country_partitioned_sales"
  <2>1. FixtureOf(c) = country_partitioned_sales(c)
    BY <1>4 DEF FixtureOf, BrokenKinds, BrokenTags
  <2>2. country_partitioned_sales(c) = Fixture(Chunked(5), <<"country", "sales">>, {"country"}, "single")
    BY DEF country_partitioned_sales, Chunked, kCountryCount
  <2> DEFINE ch == Chunked(5)
  <2>3. /\ IsChunks(ch) /\ (5 = 6 => Len(ch) = 6)
        /\ \A k \in 1..Len(ch) : ch[k].end = e /\ ch[k].start = 0
    BY <1>1, <1>10
  <2> HIDE DEF ch
  <2>4. /\ FixtureOf(c).chunks = ch /\ FixtureOf(c).by = {"country"} /\ FixtureOf(c).kind = "single"
        /\ FixtureOf(c).tagged = FALSE /\ FixtureOf(c).stated = FALSE
    BY <2>1, <2>2 DEF ch, Fixture
  <2>5. IsFixture(c) /\ ~FixtureOf(c).tagged
    BY <2>3, <2>4 DEF IsFixture
  <2>6. \A k \in 1..Len(FixtureOf(c).chunks) :
              /\ FixtureOf(c).chunks[k].start = 0
              /\ FixtureOf(c).chunks[k].end = NotLess(1, c.rows)
              /\ c.fn = "region_year_partitioned" => k <= 6
    <3>1. c.fn = "region_year_partitioned" => Len(ch) = 6
      BY <1>4, <2>3
    <3>2. \A k \in 1..Len(ch) : k <= Len(ch)
      BY <2>3 DEF IsChunks
    <3>3. QED
      BY <2>3, <2>4, <3>1, <3>2 DEF e
  <2>7. QED
    BY <1>4, <2>4, <2>5, <2>6
<1>5. CASE c.fn = "trailing_partition_sales"
  <2>1. FixtureOf(c) = trailing_partition_sales(c)
    BY <1>5 DEF FixtureOf, BrokenKinds, BrokenTags
  <2>2. trailing_partition_sales(c) = Fixture(Chunked(5), <<"seq", "label", "sales", "country">>, {"country"}, "single")
    BY DEF trailing_partition_sales, Chunked, kCountryCount
  <2> DEFINE ch == Chunked(5)
  <2>3. /\ IsChunks(ch) /\ (5 = 6 => Len(ch) = 6)
        /\ \A k \in 1..Len(ch) : ch[k].end = e /\ ch[k].start = 0
    BY <1>1, <1>10
  <2> HIDE DEF ch
  <2>4. /\ FixtureOf(c).chunks = ch /\ FixtureOf(c).by = {"country"} /\ FixtureOf(c).kind = "single"
        /\ FixtureOf(c).tagged = FALSE /\ FixtureOf(c).stated = FALSE
    BY <2>1, <2>2 DEF ch, Fixture
  <2>5. IsFixture(c) /\ ~FixtureOf(c).tagged
    BY <2>3, <2>4 DEF IsFixture
  <2>6. \A k \in 1..Len(FixtureOf(c).chunks) :
              /\ FixtureOf(c).chunks[k].start = 0
              /\ FixtureOf(c).chunks[k].end = NotLess(1, c.rows)
              /\ c.fn = "region_year_partitioned" => k <= 6
    <3>1. c.fn = "region_year_partitioned" => Len(ch) = 6
      BY <1>5, <2>3
    <3>2. \A k \in 1..Len(ch) : k <= Len(ch)
      BY <2>3 DEF IsChunks
    <3>3. QED
      BY <2>3, <2>4, <3>1, <3>2 DEF e
  <2>7. QED
    BY <1>5, <2>4, <2>5, <2>6
<1>6. CASE c.fn = "region_year_partitioned"
  <2>1. FixtureOf(c) = region_year_partitioned(c)
    BY <1>6 DEF FixtureOf, BrokenKinds, BrokenTags
  <2>2. region_year_partitioned(c) = Fixture(Chunked(6), <<"region", "year", "amount">>, {"region", "year"}, "single")
    BY DEF region_year_partitioned, Chunked, kRegionYearCount
  <2> DEFINE ch == Chunked(6)
  <2>3. /\ IsChunks(ch) /\ (6 = 6 => Len(ch) = 6)
        /\ \A k \in 1..Len(ch) : ch[k].end = e /\ ch[k].start = 0
    BY <1>1, <1>10
  <2> HIDE DEF ch
  <2>4. /\ FixtureOf(c).chunks = ch /\ FixtureOf(c).by = {"region", "year"} /\ FixtureOf(c).kind = "single"
        /\ FixtureOf(c).tagged = FALSE /\ FixtureOf(c).stated = FALSE
    BY <2>1, <2>2 DEF ch, Fixture
  <2>5. IsFixture(c) /\ ~FixtureOf(c).tagged
    BY <2>3, <2>4 DEF IsFixture
  <2>6. \A k \in 1..Len(FixtureOf(c).chunks) :
              /\ FixtureOf(c).chunks[k].start = 0
              /\ FixtureOf(c).chunks[k].end = NotLess(1, c.rows)
              /\ c.fn = "region_year_partitioned" => k <= 6
    <3>1. c.fn = "region_year_partitioned" => Len(ch) = 6
      BY <1>6, <2>3
    <3>2. \A k \in 1..Len(ch) : k <= Len(ch)
      BY <2>3 DEF IsChunks
    <3>3. QED
      BY <2>3, <2>4, <3>1, <3>2 DEF e
  <2>7. QED
    BY <1>6, <2>4, <2>5, <2>6
<1>7. CASE c.fn = "partitioned_with_explicit_override"
  <2>1. FixtureOf(c) = partitioned_with_explicit_override(c)
    BY <1>7 DEF FixtureOf, BrokenKinds, BrokenTags
  <2>2. partitioned_with_explicit_override(c) = [Fixture(Chunked(3), <<"category", "revenue">>, {"category"}, "single") EXCEPT !.stated = TRUE]
    BY DEF partitioned_with_explicit_override, Chunked, kCategoryCount
  <2> DEFINE ch == Chunked(3)
  <2>3. /\ IsChunks(ch) /\ (3 = 6 => Len(ch) = 6)
        /\ \A k \in 1..Len(ch) : ch[k].end = e /\ ch[k].start = 0
    BY <1>1, <1>10
  <2> HIDE DEF ch
  <2>4. /\ FixtureOf(c).chunks = ch /\ FixtureOf(c).by = {"category"} /\ FixtureOf(c).kind = "single"
        /\ FixtureOf(c).tagged = FALSE /\ FixtureOf(c).stated = TRUE
    BY <2>1, <2>2 DEF ch, Fixture
  <2>5. IsFixture(c) /\ ~FixtureOf(c).tagged
    BY <2>3, <2>4 DEF IsFixture
  <2>6. \A k \in 1..Len(FixtureOf(c).chunks) :
              /\ FixtureOf(c).chunks[k].start = 0
              /\ FixtureOf(c).chunks[k].end = NotLess(1, c.rows)
              /\ c.fn = "region_year_partitioned" => k <= 6
    <3>1. c.fn = "region_year_partitioned" => Len(ch) = 6
      BY <1>7, <2>3
    <3>2. \A k \in 1..Len(ch) : k <= Len(ch)
      BY <2>3 DEF IsChunks
    <3>3. QED
      BY <2>3, <2>4, <3>1, <3>2 DEF e
  <2>7. QED
    BY <1>7, <2>4, <2>5, <2>6
<1>8. CASE c.fn \in {"disjoint_range_partitioned", "overlapping_range_partitioned"}
  <2>1. FixtureOf(c) = range_partitioned(c)
    BY <1>8 DEF FixtureOf, BrokenKinds, BrokenTags
  <2>2. range_partitioned(c) = Fixture(Chunked(c.count), <<"key", "value">>, {"key"}, 
          (IF c.fn = "disjoint_range_partitioned" THEN "disjoint" ELSE "overlapping"))
    BY DEF range_partitioned, Chunked
  <2> DEFINE ch == Chunked(c.count)
  <2>3. /\ IsChunks(ch) /\ (c.count = 6 => Len(ch) = 6)
        /\ \A k \in 1..Len(ch) : ch[k].end = e /\ ch[k].start = 0
    BY <1>1, <1>10
  <2> HIDE DEF ch
  <2>4. /\ FixtureOf(c).chunks = ch /\ FixtureOf(c).by = {"key"} /\ FixtureOf(c).kind = 
          (IF c.fn = "disjoint_range_partitioned" THEN "disjoint" ELSE "overlapping")
        /\ FixtureOf(c).tagged = FALSE /\ FixtureOf(c).stated = FALSE
    BY <2>1, <2>2 DEF ch, Fixture
  <2>5. IsFixture(c) /\ ~FixtureOf(c).tagged
    BY <2>3, <2>4 DEF IsFixture
  <2>6. \A k \in 1..Len(FixtureOf(c).chunks) :
              /\ FixtureOf(c).chunks[k].start = 0
              /\ FixtureOf(c).chunks[k].end = NotLess(1, c.rows)
              /\ c.fn = "region_year_partitioned" => k <= 6
    <3>1. c.fn = "region_year_partitioned" => Len(ch) = 6
      BY <1>8, <2>3
    <3>2. \A k \in 1..Len(ch) : k <= Len(ch)
      BY <2>3 DEF IsChunks
    <3>3. QED
      BY <2>3, <2>4, <3>1, <3>2 DEF e
  <2>7. QED
    BY <1>8, <2>4, <2>5, <2>6
<1>9. QED
  BY <1>4, <1>5, <1>6, <1>7, <1>8 DEF PartitionFunctions

\* Those that are have no chunks, and hand over one or two batches.
LEMMA BrokenFixtures ==
  ASSUME PartitionAssumption, NEW c \in PartitionCalls, ~Ordinary(c)
  PROVE  /\ FixtureOf(c).chunks = <<>> /\ c.wanted = {}
         /\ c.fn \in BrokenKinds /\ c.fn # "broken_partition_values_no_annotation" =>
              /\ FixtureOf(c).kind = "single" /\ FixtureOf(c).by = {"country"}
              /\ "country" \in Projected(c) /\ ~FixtureOf(c).tagged
         /\ c.fn \in BrokenTags => FixtureOf(c).kind = "none" /\ FixtureOf(c).tagged
<1>1. c.wanted = {}
  BY DEF PartitionAssumption, Ordinary, BrokenKinds, BrokenTags
<1>2. CASE c.fn \in BrokenKinds
  <2>1. FixtureOf(c) = Fixture(<<>>, <<"country", "sales">>,
                 IF c.fn = "broken_partition_values_no_annotation" THEN {} ELSE {"country"},
                 IF c.fn = "broken_partition_values_no_annotation" THEN "none" ELSE "single")
    BY <1>2 DEF FixtureOf, BrokenKinds, BrokenTags, broken_partition
  <2>2. FixtureOf(c).columns = <<"country", "sales">>
    BY <2>1 DEF Fixture
  <2>3. "country" \in Range(<<"country", "sales">>)
    <3>1. 1 \in DOMAIN <<"country", "sales">> /\ <<"country", "sales">>[1] = "country"
      OBVIOUS
    <3>2. QED
      BY <3>1 DEF Range
  <2>4. "country" \in Projected(c)
    BY <1>1, <2>2, <2>3 DEF Projected
  <2>5. c.fn \notin BrokenTags
    BY <1>2 DEF BrokenKinds, BrokenTags
  <2>6. QED
    BY <1>1, <2>1, <2>4, <2>5 DEF Fixture
<1>3. CASE c.fn \in BrokenTags
  <2>1. FixtureOf(c) = [Fixture(<<>>, <<"n">>, {}, "none") EXCEPT !.tagged = TRUE]
    BY <1>3 DEF FixtureOf, BrokenTags, BrokenKinds, broken_batch_index
  <2>2. c.fn \notin BrokenKinds
    BY <1>3 DEF BrokenKinds, BrokenTags
  <2>3. QED
    BY <1>1, <2>1, <2>2 DEF Fixture
<1>4. QED
  BY <1>2, <1>3 DEF Ordinary

\* Every function that is not broken is of one of the two kinds.
LEMMA OrdinaryFixtures ==
  ASSUME PartitionAssumption, NEW c \in PartitionCalls, Ordinary(c)
  PROVE  IsFixture(c) /\ c.fn \in RangeFunctions \cup PartitionFunctions
<1>1. c.fn \in RangeFunctions \cup PartitionFunctions
  BY DEF PartitionAssumption, Ordinary
<1>2. QED
  BY <1>1, RangeFixtures, PartitionFixtures


\* The least and the greatest of some numbers.
LEMMA Extremes ==
  ASSUME NEW S \in SUBSET Int, NEW low \in S, NEW high \in S,
         \A x \in S : low <= x /\ x <= high
  PROVE  Min(S) = low /\ Max(S) = high
<1>1. \E x \in S : \A y \in S : x <= y
  OBVIOUS
<1>2. Min(S) \in S /\ \A y \in S : Min(S) <= y
  BY <1>1 DEF Min
<1>3. \E x \in S : \A y \in S : x >= y
  OBVIOUS
<1>4. Max(S) \in S /\ \A y \in S : Max(S) >= y
  BY <1>3 DEF Max
<1> DEFINE m == Min(S)
           n == Max(S)
<1>5. m \in Int /\ n \in Int /\ low \in Int /\ high \in Int
  BY <1>2, <1>4
<1>6. m <= low /\ low <= m /\ n >= high /\ high >= n
  BY <1>2, <1>4
<1> HIDE DEF m, n
<1>7. m = low /\ n = high
  BY <1>5, <1>6
<1>8. QED
  BY <1>7 DEF m, n

\* A partition's value is one for the whole chunk.
LEMMA SingleCells ==
  ASSUME PartitionAssumption, NEW c \in PartitionCalls, c.fn \in PartitionFunctions,
         FixtureOf(c).kind = "single", NEW name \in FixtureOf(c).by,
         NEW chunk, chunk.id \in Nat, c.fn = "region_year_partitioned" => chunk.id \in 0..5
  PROVE  \E x \in Int : /\ \A i : CellAt(c, name, chunk, i) = x
                        /\ FixtureOf(c).stated => x = chunk.id
<1>1. c.fn \in {"country_partitioned_sales", "trailing_partition_sales", "region_year_partitioned",
                "partitioned_with_explicit_override"}
  BY PartitionFixtures DEF PartitionFunctions
<1>2. CASE c.fn = "country_partitioned_sales"
  <2>1. name = "country" /\ ~FixtureOf(c).stated
    BY <1>2, PartitionFixtures
  <2>2. \A i : CellAt(c, name, chunk, i) = chunk.id
    BY <1>2, <2>1 DEF CellAt, CountryCell
  <2>3. QED
    BY <2>1, <2>2
<1>3. CASE c.fn = "trailing_partition_sales"
  <2>1. name = "country" /\ ~FixtureOf(c).stated
    BY <1>3, PartitionFixtures
  <2>2. \A i : CellAt(c, name, chunk, i) = chunk.id
    BY <1>3, <2>1 DEF CellAt, TrailingCell
  <2>3. QED
    BY <2>1, <2>2
<1>4. CASE c.fn = "partitioned_with_explicit_override"
  <2>1. name = "category"
    BY <1>4, PartitionFixtures
  <2>2. \A i : CellAt(c, name, chunk, i) = chunk.id
    BY <1>4, <2>1 DEF CellAt, CategoryCell
  <2>3. QED
    BY <2>2
<1>5. CASE c.fn = "region_year_partitioned"
  <2>1. name \in {"region", "year"} /\ ~FixtureOf(c).stated
    BY <1>5, PartitionFixtures
  <2>2. CASE name = "region"
    <3> DEFINE x == <<0, 2, 1>>[chunk.id \div 2 + 1]
    <3>1. chunk.id \div 2 + 1 \in 1..3
      BY <1>5
    <3>2. x \in Int
      BY <3>1
    <3>3. \A i : CellAt(c, name, chunk, i) = x
      BY <1>5, <2>2 DEF CellAt, RegionYearCell
    <3> HIDE DEF x
    <3>4. QED
      BY <2>1, <3>2, <3>3
  <2>3. CASE name = "year"
    <3> DEFINE x == 2023 + (chunk.id % 2)
    <3>1. x \in Int
      OBVIOUS
    <3>2. \A i : CellAt(c, name, chunk, i) = x
      BY <1>5, <2>3 DEF CellAt, RegionYearCell
    <3> HIDE DEF x
    <3>3. QED
      BY <2>1, <3>1, <3>2
  <2>4. QED
    BY <2>1, <2>2, <2>3
<1>6. QED
  BY <1>1, <1>2, <1>3, <1>4, <1>5

\* The keys of a range count up from the chunk's multiple of the stride.
LEMMA KeyCells ==
  ASSUME PartitionAssumption, NEW c \in PartitionCalls,
         c.fn \in {"disjoint_range_partitioned", "overlapping_range_partitioned"},
         NEW chunk, chunk.id \in Nat
  PROVE  \E base \in Int : /\ \A i : CellAt(c, "key", chunk, i) = base + i
                           /\ c.fn = "disjoint_range_partitioned" =>
                                base = chunk.id * kDisjointStride
<1>1. kDisjointStride \in Nat /\ kDisjointStride \div 2 \in Int
  BY DEF PartitionAssumption
<1> DEFINE stride == IF c.fn = "disjoint_range_partitioned"
                     THEN kDisjointStride ELSE kDisjointStride \div 2
           base == chunk.id * stride
<1>2. stride \in Int
  BY <1>1
<1>3. \A i : CellAt(c, "key", chunk, i) = base + i
  BY DEF CellAt, RangeCell
<1>4. c.fn = "disjoint_range_partitioned" => base = chunk.id * kDisjointStride
  OBVIOUS
<1> HIDE DEF stride
<1>5. base \in Int
  BY <1>2
<1> HIDE DEF base
<1>6. QED
  BY <1>3, <1>4, <1>5

\* The values a batch advertises are true of it, and those of a disjoint range
\* are within the chunk's own stretch of keys.
Within(v, chunk, stride) ==
  chunk.id * stride <= v.min /\ v.max < chunk.id * stride + stride
IsTrue(c, chunk, rows, values) ==
  /\ FixtureOf(c).kind # "none" => FixtureOf(c).by \cap Projected(c) \subseteq DOMAIN values
  /\ \A name \in DOMAIN values :
       /\ values[name].min \in Int /\ values[name].max \in Int
       /\ FixtureOf(c).kind = "single" => values[name].min = values[name].max
       /\ (FixtureOf(c).kind = "disjoint" /\ RangeFits(c)) =>
            Within(values[name], chunk, kDisjointStride)
       /\ \A i \in 1..Len(rows) :
            values[name].min <= rows[i][name] /\ rows[i][name] <= values[name].max

\* What is known of a chunk.
LEMMA ChunkFacts ==
  ASSUME NEW chunks, IsChunks(chunks), NEW k \in 1..Len(chunks)
  PROVE  /\ Len(chunks) \in Nat /\ k \in Nat \ {0} /\ DOMAIN chunks = 1..Len(chunks)
         /\ chunks[k] \in [id : Nat, start : Nat, end : Nat]
         /\ chunks[k].id = k - 1 /\ chunks[k].id \in Nat
         /\ chunks[k].start \in Nat /\ chunks[k].end \in Nat
         /\ chunks[k].start < chunks[k].end
<1>1. Len(chunks) \in Nat /\ k \in Nat \ {0} /\ DOMAIN chunks = 1..Len(chunks)
  BY DEF IsChunks
<1>2. chunks[k] \in [id : Nat, start : Nat, end : Nat]
  <2> DEFINE S == [id : Nat, start : Nat, end : Nat]
  <2>1. chunks \in Seq(S)
    BY DEF IsChunks
  <2> HIDE DEF S
  <2>2. chunks[k] \in S
    BY <2>1, ElementOfSeq
  <2>3. QED
    BY <2>2 DEF S
<1>3. QED
  BY <1>1, <1>2 DEF IsChunks

\* The extremes of the cells of one column.
ColumnValues(rows, name) == {rows[i][name] : i \in 1..Len(rows)}

\* A run of rows of a chunk that is no longer than the stride.
LEMMA RunsWithin ==
  ASSUME NEW o \in Nat, NEW size \in Nat, NEW s \in Nat
  PROVE  /\ \A e \in Nat : (o + size <= e - 0 /\ e <= s) => o + size <= s
         /\ \A base \in Int : o + size <= s => base <= base + o /\ base + o + size - 1 < base + s
OBVIOUS

\* describe tells the truth about the rows of a batch.
LEMMA ValuesAreTrue ==
  ASSUME PartitionAssumption, NEW c \in PartitionCalls, Ordinary(c),
         NEW k \in 1..Len(FixtureOf(c).chunks), NEW o \in Nat, NEW size \in Nat \ {0},
         NEW chunk, chunk = FixtureOf(c).chunks[k], o + size <= chunk.end - chunk.start,
         NEW rows, rows = [i \in 1..size |-> RowAt(c, chunk, o + i - 1)]
  PROVE  IsTrue(c, chunk, rows, Advertised(FixtureOf(c), chunk, rows))
<1> DEFINE f == FixtureOf(c)
           values == Advertised(f, chunk, rows)
           names == f.by \cap Projected(c)
<1>1. /\ chunk.id = k - 1 /\ chunk.id \in Nat /\ chunk.start \in Nat /\ chunk.end \in Nat
      /\ k \in Nat \ {0}
  <2>1. IsChunks(FixtureOf(c).chunks)
    BY OrdinaryFixtures DEF IsFixture
  <2>2. QED
    BY <2>1, ChunkFacts
<1>2. /\ Len(rows) = size /\ size >= 1
      /\ \A i \in 1..size : \A name \in Projected(c) : rows[i][name] = CellAt(c, name, chunk, o + i - 1)
      /\ DOMAIN rows[1] = Projected(c)
  BY DEF RowAt
<1>3. \/ c.fn \in RangeFunctions \/ c.fn \in PartitionFunctions
  BY OrdinaryFixtures
<1>4. /\ ~f.stated => /\ DOMAIN values = names
                      /\ \A name \in names : /\ values[name].min = Min(ColumnValues(rows, name))
                                              /\ values[name].max = Max(ColumnValues(rows, name))
      /\ f.stated => /\ DOMAIN values = f.by
                     /\ \A name \in f.by : values[name].min = chunk.id /\ values[name].max = chunk.id
  BY <1>2 DEF Advertised, partition_metadata, ColumnValues
<1> HIDE DEF values, names, f
<1>5. CASE c.fn \in RangeFunctions
  <2>1. f.by = {} /\ f.kind = "none" /\ ~f.stated
    BY <1>5, RangeFixtures DEF f
  <2>2. DOMAIN values = {}
    BY <1>4, <2>1 DEF names
  <2>3. QED
    BY <2>1, <2>2 DEF IsTrue, f, values
<1>6. CASE c.fn \in PartitionFunctions /\ f.kind = "single"
  <2>1. c.fn = "region_year_partitioned" => chunk.id \in 0..5
    <3>1. c.fn = "region_year_partitioned" => k <= 6
      BY <1>6, PartitionFixtures
    <3>2. QED
      BY <1>1, <3>1
  <2>2. \A name \in f.by : \E x \in Int : /\ \A i : CellAt(c, name, chunk, i) = x
                                          /\ f.stated => x = chunk.id
    <3> TAKE name \in f.by
    <3>1. FixtureOf(c).kind = "single" /\ name \in FixtureOf(c).by /\ chunk.id \in Nat
      BY <1>1, <1>6 DEF f
    <3>2. QED
      BY <1>6, <2>1, <3>1, SingleCells DEF f
  <2>3. f.stated => f.by \subseteq Projected(c)
    <3> SUFFICES ASSUME f.stated PROVE f.by \subseteq Projected(c)
      OBVIOUS
    <3>1. c.fn = "partitioned_with_explicit_override" /\ f.by = {"category"}
      BY <1>6, PartitionFixtures DEF f
    <3>2. c.wanted = {}
      BY <3>1 DEF PartitionAssumption
    <3>3. FixtureOf(c) = partitioned_with_explicit_override(c)
      BY <3>1 DEF FixtureOf, BrokenKinds, BrokenTags
    <3>4. FixtureOf(c).columns = <<"category", "revenue">>
      BY <3>3 DEF partitioned_with_explicit_override, Fixture
    <3>5. "category" \in Range(<<"category", "revenue">>)
      <4>1. 1 \in DOMAIN <<"category", "revenue">> /\ <<"category", "revenue">>[1] = "category"
        OBVIOUS
      <4>2. QED
        BY <4>1 DEF Range
    <3>6. QED
      BY <3>1, <3>2, <3>4, <3>5 DEF Projected
  <2>4. DOMAIN values \subseteq names /\ names \subseteq DOMAIN values
    BY <1>4, <2>3 DEF names
  <2>5. ASSUME NEW name \in DOMAIN values
        PROVE  \E x \in Int : /\ values[name].min = x /\ values[name].max = x
                             /\ \A i \in 1..Len(rows) : rows[i][name] = x
    <3>1. name \in f.by /\ name \in Projected(c)
      BY <2>4 DEF names
    <3>2. PICK x \in Int : (\A i : CellAt(c, name, chunk, i) = x) /\ (f.stated => x = chunk.id)
      BY <2>2, <3>1
    <3>3. \A i \in 1..Len(rows) : rows[i][name] = x
      <4>1. \A i \in 1..size : rows[i][name] = CellAt(c, name, chunk, o + i - 1)
        BY <1>2, <3>1
      <4>2. \A i \in 1..size : rows[i][name] = x
        BY <3>2, <4>1
      <4>3. QED
        BY <1>2, <4>2
    <3>4. ColumnValues(rows, name) = {x}
      <4>1. 1 \in 1..Len(rows) /\ rows[1][name] = x
        <5>1. 1 \in 1..size /\ 1..size = 1..Len(rows)
          BY <1>2
        <5>2. QED
          BY <3>3, <5>1
      <4>2. \A y : y \in ColumnValues(rows, name) <=> y = x
        BY <3>3, <4>1 DEF ColumnValues
      <4>3. QED
        BY <4>2
    <3>5. Min({x}) = x /\ Max({x}) = x
      <4>1. {x} \in SUBSET Int /\ x \in {x} /\ \A y \in {x} : x <= y /\ y <= x
        OBVIOUS
      <4>2. QED
        BY <4>1, Extremes
    <3>6. values[name].min = x /\ values[name].max = x
      BY <1>4, <2>4, <3>1, <3>2, <3>4, <3>5
    <3>7. QED
      BY <3>3, <3>6
  <2>6. f.kind # "disjoint"
    BY <1>6
  <2>7. QED
    <3>1. \A name \in DOMAIN values :
            /\ values[name].min \in Int /\ values[name].max \in Int
            /\ values[name].min = values[name].max
            /\ \A i \in 1..Len(rows) :
                 values[name].min <= rows[i][name] /\ rows[i][name] <= values[name].max
      <4> TAKE name \in DOMAIN values
      <4>1. PICK x \in Int : /\ values[name].min = x /\ values[name].max = x
                             /\ \A i \in 1..Len(rows) : rows[i][name] = x
        BY <2>5
      <4>2. x <= x
        OBVIOUS
      <4>3. QED
        BY <4>1, <4>2
    <3>2. names \subseteq DOMAIN values
      BY <2>4
    <3>3. QED
      BY <2>6, <3>1, <3>2 DEF IsTrue, f, values, names
<1>7. CASE c.fn \in {"disjoint_range_partitioned", "overlapping_range_partitioned"}
  <2>1. /\ f.by = {"key"} /\ ~f.stated /\ f.kind # "single"
        /\ f.kind = "disjoint" => c.fn = "disjoint_range_partitioned"
        /\ chunk.start = 0 /\ chunk.end = NotLess(1, c.rows)
    BY <1>7, PartitionFixtures DEF f, PartitionFunctions
  <2>2. PICK base \in Int : /\ \A i : CellAt(c, "key", chunk, i) = base + i
                            /\ c.fn = "disjoint_range_partitioned" =>
                                 base = chunk.id * kDisjointStride
    <3>1. chunk.id \in Nat
      BY <1>1
    <3>2. QED
      BY <1>7, <3>1, KeyCells
  <2>3. (f.kind = "disjoint" /\ RangeFits(c)) => o + size <= kDisjointStride
    <3> SUFFICES ASSUME f.kind = "disjoint", RangeFits(c) PROVE o + size <= kDisjointStride
      OBVIOUS
    <3> DEFINE e == NotLess(1, c.rows)
    <3>1. c.rows \in Int /\ c.rows <= kDisjointStride /\ kDisjointStride \in Nat \ {0}
      BY <2>1 DEF RangeFits, PartitionAssumption
    <3>2. e \in Nat /\ e <= kDisjointStride
      BY <3>1 DEF NotLess
    <3>3. chunk.start = 0 /\ chunk.end = e
      BY <2>1
    <3> HIDE DEF e
    <3>4. QED
      BY <3>1, <3>2, <3>3, RunsWithin
  <2>4. DOMAIN values \subseteq names /\ names \subseteq DOMAIN values
    BY <1>4, <2>1
  <2>5. ASSUME NEW name \in DOMAIN values
        PROVE  /\ values[name].min = base + o /\ values[name].max = base + o + size - 1
               /\ \A i \in 1..Len(rows) : rows[i][name] = base + o + i - 1
    <3>1. name = "key" /\ name \in Projected(c) /\ name \in names
      BY <2>1, <2>4 DEF names
    <3>2. \A i \in 1..size : rows[i][name] = base + o + i - 1
      <4> TAKE i \in 1..size
      <4>1. rows[i][name] = base + (o + i - 1)
        BY <1>2, <2>2, <3>1
      <4>2. QED
        BY <4>1
    <3> DEFINE S == ColumnValues(rows, name)
               low == base + o
               high == base + o + size - 1
    <3>3. S \subseteq Int /\ \A x \in S : low <= x /\ x <= high
      <4>1. \A i \in 1..size : base + o + i - 1 \in Int /\ low <= base + o + i - 1
                                /\ base + o + i - 1 <= high
        OBVIOUS
      <4> HIDE DEF low, high
      <4>2. \A x \in S : \E i \in 1..size : x = rows[i][name]
        BY <1>2 DEF ColumnValues
      <4>3. \A i \in 1..size : rows[i][name] \in Int /\ low <= rows[i][name] /\ rows[i][name] <= high
        BY <3>2, <4>1
      <4>4. QED
        BY <4>2, <4>3
    <3>4. low \in S /\ high \in S
      <4>1. rows[1][name] = low /\ rows[size][name] = high /\ 1 \in 1..size /\ size \in 1..size
        BY <1>2, <3>2
      <4>2. QED
        BY <1>2, <4>1 DEF ColumnValues
    <3> HIDE DEF S, low, high
    <3>5. Min(S) = low /\ Max(S) = high
      BY <3>3, <3>4, Extremes
    <3>6. QED
      BY <1>2, <1>4, <2>1, <3>1, <3>2, <3>5 DEF S, low, high
  <2>6. ASSUME NEW name \in DOMAIN values, f.kind = "disjoint", RangeFits(c)
        PROVE  Within(values[name], chunk, kDisjointStride)
    <3>1. base = chunk.id * kDisjointStride /\ kDisjointStride \in Nat
      BY <2>1, <2>2, <2>6 DEF PartitionAssumption
    <3>2. base <= base + o /\ base + o + size - 1 < base + kDisjointStride
      BY <2>3, <2>6, <3>1, RunsWithin
    <3>3. QED
      BY <2>5, <3>1, <3>2 DEF Within
  <2>7. \A name \in DOMAIN values :
          /\ values[name].min \in Int /\ values[name].max \in Int
          /\ \A i \in 1..Len(rows) :
               values[name].min <= rows[i][name] /\ rows[i][name] <= values[name].max
    <3> TAKE name \in DOMAIN values
    <3> DEFINE low == values[name].min
               high == values[name].max
    <3>1. /\ low = base + o /\ high = base + o + size - 1
          /\ \A i \in 1..Len(rows) : rows[i][name] = base + o + i - 1
      BY <2>5
    <3> HIDE DEF low, high
    <3>2. \A i \in 1..Len(rows) : low <= rows[i][name] /\ rows[i][name] <= high
      <4> TAKE i \in 1..Len(rows)
      <4> DEFINE x == rows[i][name]
      <4>1. x = base + o + i - 1 /\ i \in 1..size
        BY <1>2, <3>1
      <4> HIDE DEF x
      <4>2. low <= x /\ x <= high
        BY <3>1, <4>1
      <4>3. QED
        BY <4>2 DEF x
    <3>3. low \in Int /\ high \in Int
      BY <3>1
    <3>4. QED
      BY <3>2, <3>3 DEF low, high
  <2>8. QED
    <3>1. names \subseteq DOMAIN values
      BY <2>4
    <3>2. \A name \in DOMAIN values :
            /\ f.kind = "single" => values[name].min = values[name].max
            /\ (f.kind = "disjoint" /\ RangeFits(c)) => Within(values[name], chunk, kDisjointStride)
      BY <2>1, <2>6
    <3> HIDE DEF Within
    <3>3. QED
      BY <2>7, <3>1, <3>2 DEF IsTrue, f, values, names
<1>8. QED
  <2>1. ASSUME c.fn \in PartitionFunctions, f.kind # "single"
        PROVE  c.fn \in {"disjoint_range_partitioned", "overlapping_range_partitioned"}
    BY <2>1, PartitionFixtures DEF f, PartitionFunctions
  <2>2. QED
    BY <1>3, <1>5, <1>6, <1>7, <2>1


-----------------------------------------------------------------------------
(* PartitionedScans: the workers of a scan                                 *)

ChunkSet == [id : Nat, start : Nat, end : Nat]
WorkerSet == [chunk : ChunkSet, cursor : Nat, done : BOOLEAN]

\* The chunks that were claimed are the first ones.
Claimed(chunks, queue) == Len(chunks) - Len(queue)
IsQueue(chunks, queue) ==
  /\ queue \in Seq(ChunkSet) /\ Len(queue) <= Len(chunks)
  /\ \A i \in 1..Len(queue) : queue[i] = chunks[Claimed(chunks, queue) + i]

\* A worker reads a claimed chunk, and stops when there is none left.
Reads(chunks, queue, at) ==
  /\ at.chunk # NoChunk
  /\ at.chunk.id < Claimed(chunks, queue) /\ at.chunk = chunks[at.chunk.id + 1]
  /\ at.chunk.start <= at.cursor /\ at.cursor <= at.chunk.end
IsWorker(chunks, queue, at) ==
  /\ at \in WorkerSet
  /\ at.chunk = NoChunk \/ Reads(chunks, queue, at)
  /\ at.done => queue = <<>> /\ at.chunk.end <= at.cursor

\* No two workers read one chunk.
WorkersInv(chunks, queue, worker) ==
  /\ IsQueue(chunks, queue) /\ worker \in [ChunkReaders -> WorkerSet]
  /\ \A w \in ChunkReaders : IsWorker(chunks, queue, worker[w])
  /\ \A v, w \in ChunkReaders :
       (v # w /\ worker[v].chunk # NoChunk /\ worker[w].chunk # NoChunk) =>
         worker[v].chunk.id # worker[w].chunk.id

\* A batch is a run of rows of its chunk, and what it tells is true.
IsRun(c, batch) ==
  LET chunk == FixtureOf(c).chunks[batch.chunk + 1]
  IN /\ batch.chunk \in Nat /\ batch.chunk < Len(FixtureOf(c).chunks)
     /\ batch.from \in Nat /\ Len(batch.rows) \in Nat \ {0}
     /\ chunk.start <= batch.from /\ EndOf(batch) <= chunk.end
     /\ \A i \in 1..Len(batch.rows) :
          batch.rows[i] = RowAt(c, chunk, batch.from - chunk.start + i - 1)
     /\ batch.tag = IF FixtureOf(c).tagged THEN {batch.chunk} ELSE {}
     /\ IsTrue(c, chunk, batch.rows, batch.values)

\* In the order of the scan: a batch before another, and before what its worker
\* reads next.
Before(a, b) == a.chunk < b.chunk \/ (a.chunk = b.chunk /\ EndOf(a) <= b.from)
Behind(batch, at) ==
  /\ at.chunk # NoChunk
  /\ batch.chunk < at.chunk.id \/ (batch.chunk = at.chunk.id /\ EndOf(batch) <= at.cursor)

RunsInv(c, worker, batches) ==
  /\ DOMAIN batches = ChunkReaders
  /\ \A w \in ChunkReaders :
       /\ batches[w] \in Seq(Range(batches[w]))
       /\ \A j \in 1..Len(batches[w]) : IsRun(c, batches[w][j]) /\ Behind(batches[w][j], worker[w])
       /\ \A i, j \in 1..Len(batches[w]) : i < j => Before(batches[w][i], batches[w][j])

\* The batches of a chunk are of one worker.
OwnInv(worker, batches) ==
  \A v, w \in ChunkReaders : v # w =>
    \A i \in 1..Len(batches[v]) :
      /\ worker[w].chunk # NoChunk => batches[v][i].chunk # worker[w].chunk.id
      /\ \A j \in 1..Len(batches[w]) : batches[v][i].chunk # batches[w][j].chunk

\* A row of a claimed chunk is in a batch, or the worker has it before it.
Sent(batches, chunk, place) ==
  \E w \in ChunkReaders : \E j \in 1..Len(batches[w]) : Covers(batches[w][j], chunk, place)
Pending(worker, chunk, place) ==
  \E w \in ChunkReaders : worker[w].chunk = chunk /\ worker[w].cursor <= place
CoverInv(chunks, queue, worker, batches) ==
  \A k \in 1..Claimed(chunks, queue) : \A place \in chunks[k].start..(chunks[k].end - 1) :
    Sent(batches, chunks[k], place) \/ Pending(worker, chunks[k], place)

-----------------------------------------------------------------------------
\* No chunk of a scan is NoChunk, and the id tells which it is.
LEMMA ChunksAreChunks ==
  ASSUME NEW chunks, IsChunks(chunks), NEW k \in 1..Len(chunks)
  PROVE  /\ chunks[k] # NoChunk /\ chunks[k] \in ChunkSet
         /\ chunks[k].id = k - 1 /\ chunks[k].start < chunks[k].end
<1>1. chunks[k] \in [id : Nat, start : Nat, end : Nat] /\ chunks[k].id = k - 1
      /\ chunks[k].start < chunks[k].end
  BY ChunkFacts
<1>2. QED
  BY <1>1 DEF NoChunk, ChunkSet

\* The first of the queue is the first that was not claimed.
LEMMA QueueHead ==
  ASSUME NEW chunks, IsChunks(chunks), NEW queue, IsQueue(chunks, queue), queue # <<>>
  PROVE  /\ Claimed(chunks, queue) \in Nat /\ Claimed(chunks, queue) + 1 \in 1..Len(chunks)
         /\ Head(queue) = chunks[Claimed(chunks, queue) + 1]
         /\ Head(queue).id = Claimed(chunks, queue)
         /\ IsQueue(chunks, Tail(queue)) /\ Tail(queue) \in Seq(ChunkSet)
         /\ Claimed(chunks, Tail(queue)) = Claimed(chunks, queue) + 1
<1>1. queue \in Seq(ChunkSet) /\ Len(queue) <= Len(chunks) /\ Len(chunks) \in Nat
  BY DEF IsQueue, IsChunks
<1>2. /\ Len(queue) \in Nat \ {0} /\ Head(queue) = queue[1]
      /\ Tail(queue) \in Seq(ChunkSet) /\ Len(Tail(queue)) = Len(queue) - 1
      /\ \A i \in 1..(Len(queue) - 1) : Tail(queue)[i] = queue[i + 1]
  BY <1>1
<1> DEFINE n == Claimed(chunks, queue)
<1>3. n \in Nat /\ n + Len(queue) = Len(chunks) /\ n + 1 \in 1..Len(chunks)
  BY <1>1, <1>2 DEF Claimed
<1>4. Claimed(chunks, Tail(queue)) = n + 1
  BY <1>1, <1>2 DEF Claimed
<1> HIDE DEF n
<1>5. \A i \in 1..Len(queue) : queue[i] = chunks[n + i]
  BY DEF IsQueue, n
<1>6. Head(queue) = chunks[n + 1]
  BY <1>2, <1>5
<1>7. chunks[n + 1].id = n
  BY <1>3, ChunksAreChunks, SMTT(20)
<1>8. \A i \in 1..Len(Tail(queue)) : Tail(queue)[i] = chunks[n + 1 + i]
  <2> TAKE i \in 1..Len(Tail(queue))
  <2>1. i \in 1..(Len(queue) - 1) /\ i + 1 \in 1..Len(queue) /\ n + (i + 1) = n + 1 + i
    BY <1>2, <1>3
  <2>2. QED
    BY <1>2, <1>5, <2>1
<1>9. IsQueue(chunks, Tail(queue))
  BY <1>1, <1>2, <1>4, <1>8 DEF IsQueue
<1>10. QED
  BY <1>2, <1>3, <1>4, <1>6, <1>7, <1>9 DEF n

Stopped(worker, w) == [worker EXCEPT ![w].done = TRUE]

\* A worker that stops, the queue being empty.
LEMMA StopKeeps ==
  ASSUME NEW chunks, IsChunks(chunks), NEW worker, WorkersInv(chunks, <<>>, worker),
         NEW w \in ChunkReaders, worker[w].cursor >= worker[w].chunk.end,
         NEW worker2, worker2 = Stopped(worker, w)
  PROVE  /\ WorkersInv(chunks, <<>>, worker2)
         /\ \A v \in ChunkReaders : /\ worker2[v].chunk = worker[v].chunk
                                    /\ worker2[v].cursor = worker[v].cursor
         /\ worker2[w].done
<1>1. worker \in [ChunkReaders -> WorkerSet] /\ \A v \in ChunkReaders : worker[v] \in WorkerSet
  BY DEF WorkersInv
<1> DEFINE new == [worker[w] EXCEPT !.done = TRUE]
<1>2. worker[w] \in WorkerSet
  BY <1>1
<1>3. new \in WorkerSet /\ new.chunk = worker[w].chunk /\ new.cursor = worker[w].cursor /\ new.done
  BY <1>2 DEF WorkerSet
<1>4. worker2 = [worker EXCEPT ![w] = new]
  BY DEF Stopped
<1> HIDE DEF new
<1>5. /\ worker2 \in [ChunkReaders -> WorkerSet] /\ worker2[w] = new
      /\ \A v \in ChunkReaders : v # w => worker2[v] = worker[v]
  BY <1>1, <1>3, <1>4
<1>6. \A v \in ChunkReaders : worker2[v].chunk = worker[v].chunk /\ worker2[v].cursor = worker[v].cursor
  BY <1>3, <1>5
<1>7. \A v \in ChunkReaders : IsWorker(chunks, <<>>, worker2[v])
  <2> TAKE v \in ChunkReaders
  <2>1. IsWorker(chunks, <<>>, worker[v])
    BY DEF WorkersInv
  <2>2. CASE v # w
    BY <1>5, <2>1, <2>2
  <2>3. CASE v = w
    <3>1. new.chunk.end <= new.cursor
      BY <1>2, <1>3 DEF WorkerSet, ChunkSet
    <3>2. IsWorker(chunks, <<>>, new)
      BY <1>3, <2>1, <2>3, <3>1 DEF IsWorker, Reads
    <3>3. QED
      BY <1>5, <2>3, <3>2
  <2>4. QED
    BY <2>2, <2>3
<1>8. \A u, v \in ChunkReaders :
        (u # v /\ worker2[u].chunk # NoChunk /\ worker2[v].chunk # NoChunk) =>
          worker2[u].chunk.id # worker2[v].chunk.id
  BY <1>6 DEF WorkersInv
<1>9. WorkersInv(chunks, <<>>, worker2)
  <2>1. IsQueue(chunks, <<>>)
    BY DEF WorkersInv
  <2>2. QED
    BY <1>5, <1>7, <1>8, <2>1 DEF WorkersInv
<1>10. QED
  BY <1>3, <1>5, <1>6, <1>9

\* A worker that claims the next chunk.
LEMMA ClaimKeeps ==
  ASSUME NEW chunks, IsChunks(chunks), NEW queue, queue # <<>>,
         NEW worker, WorkersInv(chunks, queue, worker),
         NEW w \in ChunkReaders, worker[w].cursor >= worker[w].chunk.end,
         NEW worker2,
         worker2 = [worker EXCEPT ![w] = [chunk |-> Head(queue), cursor |-> Head(queue).start,
                                          done |-> FALSE]]
  PROVE  WorkersInv(chunks, Tail(queue), worker2)
<1> DEFINE n == Claimed(chunks, queue)
           head == Head(queue)
           new == [chunk |-> head, cursor |-> head.start, done |-> FALSE]
<1>1. IsQueue(chunks, queue) /\ worker \in [ChunkReaders -> WorkerSet]
  BY DEF WorkersInv
<1>2. /\ n \in Nat /\ n + 1 \in 1..Len(chunks) /\ head = chunks[n + 1] /\ head.id = n
      /\ IsQueue(chunks, Tail(queue)) /\ Claimed(chunks, Tail(queue)) = n + 1
  BY <1>1, QueueHead
<1>3. head \in ChunkSet /\ head # NoChunk /\ head.start < head.end
  BY <1>2, ChunksAreChunks
<1> HIDE DEF n, head
<1>4. new \in WorkerSet /\ new.chunk = head /\ new.cursor = head.start /\ new.done = FALSE
  BY <1>3 DEF WorkerSet, ChunkSet
<1>5. worker2 = [worker EXCEPT ![w] = new]
  BY DEF head
<1> HIDE DEF new
<1>6. /\ worker2 \in [ChunkReaders -> WorkerSet] /\ worker2[w] = new
      /\ \A v \in ChunkReaders : v # w => worker2[v] = worker[v]
  BY <1>1, <1>4, <1>5
<1>7. IsWorker(chunks, Tail(queue), new)
  <2>1. head.start <= head.start /\ head.start <= head.end /\ head.id < n + 1
        /\ head = chunks[head.id + 1]
    BY <1>2, <1>3 DEF ChunkSet
  <2>2. QED
    BY <1>2, <1>3, <1>4, <2>1 DEF IsWorker, Reads
<1>8. \A v \in ChunkReaders : worker[v].chunk # NoChunk => worker[v].chunk.id \in Nat /\ worker[v].chunk.id < n
  BY DEF WorkersInv, IsWorker, Reads, WorkerSet, ChunkSet, n
<1>9. \A v \in ChunkReaders : v # w => IsWorker(chunks, Tail(queue), worker[v])
  <2> SUFFICES ASSUME NEW v \in ChunkReaders, v # w PROVE IsWorker(chunks, Tail(queue), worker[v])
    OBVIOUS
  <2>1. IsWorker(chunks, queue, worker[v])
    BY DEF WorkersInv
  <2> DEFINE at == worker[v]
  <2>2. at \in WorkerSet /\ ~at.done /\ (at.chunk = NoChunk \/ Reads(chunks, queue, at))
    BY <2>1 DEF IsWorker
  <2>3. Reads(chunks, queue, at) => Reads(chunks, Tail(queue), at)
    <3>1. at.chunk.id \in Nat /\ Claimed(chunks, queue) = n
      BY <2>2 DEF WorkerSet, ChunkSet, n
    <3>2. at.chunk.id < n => at.chunk.id < n + 1
      BY <1>2, <3>1
    <3>3. QED
      BY <1>2, <3>1, <3>2 DEF Reads
  <2>4. QED
    BY <2>2, <2>3 DEF IsWorker
<1>10. \A v \in ChunkReaders : IsWorker(chunks, Tail(queue), worker2[v])
  BY <1>6, <1>7, <1>9
<1>11. \A u, v \in ChunkReaders :
         (u # v /\ worker2[u].chunk # NoChunk /\ worker2[v].chunk # NoChunk) =>
           worker2[u].chunk.id # worker2[v].chunk.id
  <2> TAKE u, v \in ChunkReaders
  <2> HAVE u # v /\ worker2[u].chunk # NoChunk /\ worker2[v].chunk # NoChunk
  <2>1. CASE u # w /\ v # w
    BY <1>6, <2>1 DEF WorkersInv
  <2>2. CASE u = w
    BY <1>2, <1>4, <1>6, <1>8, <2>2
  <2>3. CASE v = w
    BY <1>2, <1>4, <1>6, <1>8, <2>3
  <2>4. QED
    BY <2>1, <2>2, <2>3
<1>12. QED
  BY <1>2, <1>6, <1>10, <1>11 DEF WorkersInv


\* A worker that is through with its chunk stops, or goes to the next one.
Moves(queue, queue2, worker, worker2, w) ==
  /\ worker[w].cursor >= worker[w].chunk.end
  /\ \A v \in ChunkReaders : v # w => worker2[v] = worker[v]
  /\ \/ /\ queue2 = queue /\ worker2[w].chunk = worker[w].chunk
        /\ worker2[w].cursor = worker[w].cursor
     \/ /\ queue # <<>> /\ queue2 = Tail(queue) /\ worker2[w].chunk = Head(queue)
        /\ worker2[w].cursor = Head(queue).start

\* The batches stay what they are when a worker stops or claims: its place moves on.
LEMMA MovesOn ==
  ASSUME NEW c, NEW chunks, IsChunks(chunks), NEW queue, NEW queue2, NEW worker, NEW worker2, NEW batches,
         WorkersInv(chunks, queue, worker), WorkersInv(chunks, queue2, worker2),
         RunsInv(c, worker, batches), OwnInv(worker, batches),
         CoverInv(chunks, queue, worker, batches), NEW w \in ChunkReaders,
         Moves(queue, queue2, worker, worker2, w)
  PROVE  /\ RunsInv(c, worker2, batches) /\ OwnInv(worker2, batches)
         /\ CoverInv(chunks, queue2, worker2, batches)
<1>0. /\ worker[w].cursor >= worker[w].chunk.end
      /\ \A v \in ChunkReaders : v # w => worker2[v] = worker[v]
  BY DEF Moves
<1> USE <1>0
<1>1. CASE /\ queue2 = queue /\ worker2[w].chunk = worker[w].chunk
           /\ worker2[w].cursor = worker[w].cursor
  <2>1. \A v \in ChunkReaders : worker2[v].chunk = worker[v].chunk /\ worker2[v].cursor = worker[v].cursor
    BY <1>1
  <2>2. RunsInv(c, worker2, batches)
    <3>1. \A v \in ChunkReaders : \A b : Behind(b, worker[v]) => Behind(b, worker2[v])
      BY <2>1 DEF Behind
    <3>2. QED
      BY <3>1 DEF RunsInv
  <2>3. OwnInv(worker2, batches)
    BY <2>1 DEF OwnInv
  <2>4. CoverInv(chunks, queue2, worker2, batches)
    <3>1. \A chunk, place : Pending(worker, chunk, place) => Pending(worker2, chunk, place)
      BY <2>1 DEF Pending
    <3>2. QED
      BY <1>1, <3>1 DEF CoverInv
  <2>5. QED
    BY <2>2, <2>3, <2>4
<1>2. CASE /\ queue # <<>> /\ queue2 = Tail(queue) /\ worker2[w].chunk = Head(queue)
           /\ worker2[w].cursor = Head(queue).start
  <2> DEFINE n == Claimed(chunks, queue)
             head == Head(queue)
  <2>1. /\ n \in Nat /\ n + 1 \in 1..Len(chunks) /\ head = chunks[n + 1] /\ head.id = n
        /\ Claimed(chunks, queue2) = n + 1
    BY <1>2, QueueHead DEF WorkersInv
  <2>2. head \in ChunkSet /\ head # NoChunk /\ head.start < head.end
    BY <2>1, ChunksAreChunks
  <2>3. worker2[w].chunk = head /\ worker2[w].cursor = head.start
    BY <1>2
  <2> HIDE DEF n, head
  <2>4. \A v \in ChunkReaders : worker[v].chunk # NoChunk => worker[v].chunk.id \in Nat /\ worker[v].chunk.id < n
    BY DEF WorkersInv, IsWorker, Reads, WorkerSet, ChunkSet, n
  <2>5. \A v \in ChunkReaders : \A j \in 1..Len(batches[v]) :
          batches[v][j].chunk \in Nat /\ batches[v][j].chunk < n
    <3> TAKE v \in ChunkReaders
    <3> TAKE j \in 1..Len(batches[v])
    <3>1. IsRun(c, batches[v][j]) /\ Behind(batches[v][j], worker[v])
      BY DEF RunsInv
    <3>2. batches[v][j].chunk \in Nat
      BY <3>1 DEF IsRun
    <3>3. worker[v].chunk # NoChunk /\ batches[v][j].chunk <= worker[v].chunk.id
      BY <2>4, <3>1, <3>2 DEF Behind
    <3>4. QED
      BY <2>1, <2>4, <3>2, <3>3
  <2>6. \A v \in ChunkReaders : \A j \in 1..Len(batches[v]) : Behind(batches[v][j], worker2[v])
    <3> TAKE v \in ChunkReaders
    <3> TAKE j \in 1..Len(batches[v])
    <3>1. CASE v = w
      BY <2>1, <2>2, <2>3, <2>5, <3>1 DEF Behind
    <3>2. CASE v # w
      BY <3>2 DEF RunsInv
    <3>3. QED
      BY <3>1, <3>2
  <2>7. RunsInv(c, worker2, batches)
    BY <2>6 DEF RunsInv
  <2>8. OwnInv(worker2, batches)
    <3>1. \A u, v \in ChunkReaders : u # v => \A i \in 1..Len(batches[u]) :
            worker2[v].chunk # NoChunk => batches[u][i].chunk # worker2[v].chunk.id
      <4> SUFFICES ASSUME NEW u \in ChunkReaders, NEW v \in ChunkReaders, u # v,
                          NEW i \in 1..Len(batches[u]), worker2[v].chunk # NoChunk
                   PROVE  batches[u][i].chunk # worker2[v].chunk.id
        OBVIOUS
      <4>1. CASE v = w
        BY <2>1, <2>3, <2>5, <4>1
      <4>2. CASE v # w
        BY <4>2 DEF OwnInv
      <4>3. QED
        BY <4>1, <4>2
    <3>2. QED
      BY <3>1 DEF OwnInv
  <2>9. CoverInv(chunks, queue2, worker2, batches)
    <3> SUFFICES ASSUME NEW k \in 1..(n + 1), NEW place \in chunks[k].start..(chunks[k].end - 1)
                 PROVE  Sent(batches, chunks[k], place) \/ Pending(worker2, chunks[k], place)
      BY <2>1 DEF CoverInv
    <3>1. k \in 1..Len(chunks) /\ Len(chunks) \in Nat
      <4>1. Len(chunks) \in Nat
        BY DEF IsChunks
      <4>2. QED
        BY <2>1, <4>1
    <3>2. chunks[k] # NoChunk /\ chunks[k] \in ChunkSet /\ chunks[k].id = k - 1
      BY <3>1, ChunksAreChunks
    <3>3. CASE k = n + 1
      <4>1. worker2[w].chunk = chunks[k] /\ worker2[w].cursor <= place
        BY <2>1, <2>2, <2>3, <3>3 DEF ChunkSet
      <4>2. QED
        BY <4>1 DEF Pending
    <3>4. CASE k # n + 1
      <4>1. k \in 1..n
        BY <2>1, <3>4
      <4>2. Sent(batches, chunks[k], place) \/ Pending(worker, chunks[k], place)
        BY <4>1 DEF CoverInv, n
      <4>3. ASSUME Pending(worker, chunks[k], place) PROVE Pending(worker2, chunks[k], place)
        <5>1. PICK v \in ChunkReaders : worker[v].chunk = chunks[k] /\ worker[v].cursor <= place
          BY <4>3 DEF Pending
        <5>2. v # w
          <6> SUFFICES ASSUME v = w PROVE FALSE
            OBVIOUS
          <6>1. worker[w].cursor \in Nat
            BY DEF WorkersInv, WorkerSet
          <6>2. QED
            BY <3>2, <5>1, <6>1 DEF ChunkSet
        <5>3. QED
          BY <5>1, <5>2 DEF Pending
      <4>4. QED
        BY <4>2, <4>3
    <3>5. QED
      BY <3>3, <3>4
  <2>10. QED
    BY <2>7, <2>8, <2>9
<1>3. QED
  BY <1>1, <1>2 DEF Moves

\* A list that one more joins.
LEMMA OneMore ==
  ASSUME NEW s, s \in Seq(Range(s)), NEW e
  PROVE  /\ Len(Append(s, e)) = Len(s) + 1 /\ Len(s) \in Nat
         /\ \A i \in 1..Len(s) : Append(s, e)[i] = s[i]
         /\ Append(s, e)[Len(s) + 1] = e
         /\ Append(s, e) \in Seq(Range(Append(s, e)))
         /\ DOMAIN Append(s, e) = 1..(Len(s) + 1)
<1> DEFINE S == Range(s) \cup {e}
           t == Append(s, e)
<1>1. s \in Seq(S) /\ e \in S
  OBVIOUS
<1> HIDE DEF S
<1>2. /\ t \in Seq(S) /\ Len(t) = Len(s) + 1 /\ Len(s) \in Nat /\ t[Len(s) + 1] = e
      /\ \A i \in 1..Len(s) : t[i] = s[i]
  BY <1>1
<1>3. DOMAIN t = 1..Len(t)
  BY <1>2
<1> HIDE DEF t
<1>4. t \in Seq(Range(t))
  <2>1. t = [i \in 1..Len(t) |-> t[i]]
    BY <1>2, <1>3
  <2>2. \A i \in 1..Len(t) : t[i] \in Range(t)
    BY <1>3 DEF Range
  <2>3. QED
    BY <1>2, <2>1, <2>2
<1>5. QED
  BY <1>2, <1>3, <1>4 DEF t

Advanced(worker, w, place) == [worker EXCEPT ![w].cursor = place]
Joined(batches, w, batch) == [batches EXCEPT ![w] = Append(batches[w], batch)]

\* A worker that hands over the next rows of its chunk.
LEMMA EmitKeeps ==
  ASSUME NEW c, NEW chunks, chunks = FixtureOf(c).chunks, IsChunks(chunks), NEW queue,
         NEW worker, NEW worker2, NEW batches, NEW batches2,
         WorkersInv(chunks, queue, worker), RunsInv(c, worker, batches),
         OwnInv(worker, batches), CoverInv(chunks, queue, worker, batches),
         NEW w \in ChunkReaders, NEW batch, IsRun(c, batch),
         worker[w].cursor < worker[w].chunk.end,
         batch.chunk = worker[w].chunk.id, batch.from = worker[w].cursor,
         EndOf(batch) <= worker[w].chunk.end,
         worker2 = Advanced(worker, w, EndOf(batch)),
         batches2 = Joined(batches, w, batch)
  PROVE  /\ WorkersInv(chunks, queue, worker2) /\ RunsInv(c, worker2, batches2)
         /\ OwnInv(worker2, batches2) /\ CoverInv(chunks, queue, worker2, batches2)
<1> DEFINE at == worker[w]
           new == [at EXCEPT !.cursor = EndOf(batch)]
           end == EndOf(batch)
           n == Len(batches[w])
<1>1. worker \in [ChunkReaders -> WorkerSet] /\ at \in WorkerSet
  BY DEF WorkersInv
<1>2. batch.from \in Nat /\ Len(batch.rows) \in Nat \ {0} /\ batch.chunk \in Nat
  BY DEF IsRun
<1>3. end \in Nat /\ batch.from < end
  BY <1>2 DEF EndOf
<1>4. new \in WorkerSet /\ new.chunk = at.chunk /\ new.cursor = end /\ new.done = at.done
  BY <1>1, <1>3 DEF WorkerSet
<1>5. worker2 = [worker EXCEPT ![w] = new]
  BY DEF Advanced
<1>6. /\ at.cursor \in Nat /\ at.chunk \in ChunkSet /\ at.chunk.end \in Nat /\ at.chunk.start \in Nat
      /\ at.chunk.id \in Nat /\ at.cursor < at.chunk.end /\ at.cursor = batch.from
      /\ end <= at.chunk.end /\ batch.chunk = at.chunk.id
  BY <1>1 DEF WorkerSet, ChunkSet
<1>7. at.chunk # NoChunk
  BY <1>6 DEF NoChunk
<1>8. /\ \A v \in ChunkReaders : IsWorker(chunks, queue, worker[v])
      /\ Reads(chunks, queue, at)
  BY <1>7 DEF WorkersInv, IsWorker
<1> HIDE DEF at, new, end, n
<1>9. /\ worker2 \in [ChunkReaders -> WorkerSet] /\ worker2[w] = new
      /\ \A v \in ChunkReaders : v # w => worker2[v] = worker[v]
  BY <1>1, <1>4, <1>5
<1>10. \A v \in ChunkReaders : worker2[v].chunk = worker[v].chunk
  BY <1>4, <1>9 DEF at
<1>11. WorkersInv(chunks, queue, worker2)
  <2>1. ~at.done
    <3>1. IsWorker(chunks, queue, at)
      BY <1>8 DEF at
    <3>2. QED
      BY <1>6, <3>1 DEF IsWorker
  <2>2. at.chunk.start <= end
    BY <1>3, <1>6, <1>8 DEF Reads
  <2>3. IsWorker(chunks, queue, new)
    BY <1>4, <1>6, <1>8, <2>1, <2>2 DEF IsWorker, Reads
  <2>4. \A v \in ChunkReaders : IsWorker(chunks, queue, worker2[v])
    BY <1>8, <1>9, <2>3
  <2>5. \A u, v \in ChunkReaders :
          (u # v /\ worker2[u].chunk # NoChunk /\ worker2[v].chunk # NoChunk) =>
            worker2[u].chunk.id # worker2[v].chunk.id
    BY <1>10 DEF WorkersInv
  <2>6. QED
    BY <1>9, <2>4, <2>5 DEF WorkersInv
<1>12. /\ DOMAIN batches2 = ChunkReaders /\ batches2[w] = Append(batches[w], batch)
       /\ \A v \in ChunkReaders : v # w => batches2[v] = batches[v]
  BY DEF RunsInv, Joined
<1>13. /\ Len(batches2[w]) = n + 1 /\ n \in Nat
       /\ \A i \in 1..n : batches2[w][i] = batches[w][i]
       /\ batches2[w][n + 1] = batch
       /\ batches2[w] \in Seq(Range(batches2[w]))
  <2>1. batches[w] \in Seq(Range(batches[w]))
    BY DEF RunsInv
  <2>2. QED
    BY <1>12, <2>1, OneMore DEF n
<1>14. \A v \in ChunkReaders : \A j \in 1..Len(batches2[v]) :
         \/ j \in 1..Len(batches[v]) /\ batches2[v][j] = batches[v][j]
         \/ v = w /\ j = n + 1 /\ batches2[v][j] = batch
  <2> TAKE v \in ChunkReaders
  <2> TAKE j \in 1..Len(batches2[v])
  <2>1. CASE v # w
    BY <1>12, <2>1
  <2>2. CASE v = w
    <3>1. j \in 1..(n + 1)
      BY <1>13, <2>2
    <3>2. CASE j = n + 1
      BY <1>13, <2>2, <3>2
    <3>3. CASE j # n + 1
      <4>1. j \in 1..n
        BY <1>13, <3>1, <3>3
      <4>2. QED
        BY <1>13, <2>2, <4>1 DEF n
    <3>4. QED
      BY <3>2, <3>3
  <2>3. QED
    BY <2>1, <2>2
<1>15. \A j \in 1..n : Before(batches[w][j], batch)
  <2> TAKE j \in 1..n
  <2> DEFINE b == batches[w][j]
  <2>1. Behind(b, at)
    BY DEF RunsInv, at, n
  <2> HIDE DEF b
  <2>2. Before(b, batch)
    BY <1>6, <2>1 DEF Behind, Before
  <2>3. QED
    BY <2>2 DEF b
<1>16. RunsInv(c, worker2, batches2)
  <2>1. \A v \in ChunkReaders : \A j \in 1..Len(batches2[v]) : IsRun(c, batches2[v][j])
    BY <1>14 DEF RunsInv
  <2>2. \A v \in ChunkReaders : \A j \in 1..Len(batches2[v]) : Behind(batches2[v][j], worker2[v])
    <3> TAKE v \in ChunkReaders
    <3> TAKE j \in 1..Len(batches2[v])
    <3>1. CASE j \in 1..Len(batches[v]) /\ batches2[v][j] = batches[v][j]
      <4> DEFINE b == batches[v][j]
      <4>1. Behind(b, worker[v]) /\ IsRun(c, b)
        BY <3>1 DEF RunsInv
      <4> HIDE DEF b
      <4>2. EndOf(b) \in Nat
        <5>1. b.from \in Nat /\ Len(b.rows) \in Nat
          BY <4>1 DEF IsRun
        <5>2. QED
          BY <5>1 DEF EndOf
      <4>3. CASE v = w
        <5>1. Behind(b, at)
          BY <4>1, <4>3 DEF at
        <5>2. Behind(b, new)
          BY <1>3, <1>4, <1>6, <4>2, <5>1 DEF Behind
        <5>3. QED
          BY <1>9, <3>1, <4>3, <5>2 DEF b
      <4>4. CASE v # w
        BY <1>9, <3>1, <4>1, <4>4 DEF b
      <4>5. QED
        BY <4>3, <4>4
    <3>2. CASE v = w /\ j = n + 1 /\ batches2[v][j] = batch
      <4>1. Behind(batch, new)
        BY <1>3, <1>4, <1>6, <1>7 DEF Behind, end
      <4>2. QED
        BY <1>9, <3>2, <4>1
    <3>3. QED
      BY <1>14, <3>1, <3>2
  <2>3. \A v \in ChunkReaders : \A i, j \in 1..Len(batches2[v]) :
          i < j => Before(batches2[v][i], batches2[v][j])
    <3> SUFFICES ASSUME NEW v \in ChunkReaders, NEW i \in 1..Len(batches2[v]),
                        NEW j \in 1..Len(batches2[v]), i < j
                 PROVE  Before(batches2[v][i], batches2[v][j])
      OBVIOUS
    <3>1. CASE v # w
      BY <1>12, <3>1 DEF RunsInv
    <3>2. CASE v = w
      <4>1. i \in 1..n
        BY <1>13, <3>2
      <4>2. CASE j \in 1..n
        BY <1>13, <3>2, <4>1, <4>2 DEF RunsInv, n
      <4>3. CASE j = n + 1
        BY <1>13, <1>15, <3>2, <4>1, <4>3
      <4>4. QED
        BY <1>13, <3>2, <4>2, <4>3
    <3>3. QED
      BY <3>1, <3>2
  <2>4. \A v \in ChunkReaders : batches2[v] \in Seq(Range(batches2[v]))
    BY <1>12, <1>13 DEF RunsInv
  <2>5. QED
    BY <1>12, <2>1, <2>2, <2>3, <2>4 DEF RunsInv
<1>17. OwnInv(worker2, batches2)
  <2> SUFFICES ASSUME NEW u \in ChunkReaders, NEW v \in ChunkReaders, u # v,
                      NEW i \in 1..Len(batches2[u])
               PROVE  /\ worker2[v].chunk # NoChunk => batches2[u][i].chunk # worker2[v].chunk.id
                      /\ \A j \in 1..Len(batches2[v]) : batches2[u][i].chunk # batches2[v][j].chunk
    BY DEF OwnInv
  <2>1. worker2[v].chunk # NoChunk => batches2[u][i].chunk # worker2[v].chunk.id
    <3>1. CASE i \in 1..Len(batches[u]) /\ batches2[u][i] = batches[u][i]
      BY <1>10, <3>1 DEF OwnInv
    <3>2. CASE u = w /\ batches2[u][i] = batch
      <4>1. batch.chunk = worker[w].chunk.id /\ worker[w].chunk # NoChunk
        BY <1>6, <1>7 DEF at
      <4>2. QED
        BY <1>10, <3>2, <4>1 DEF WorkersInv
    <3>3. QED
      BY <1>14, <3>1, <3>2
  <2>2. ASSUME NEW j \in 1..Len(batches2[v]) PROVE batches2[u][i].chunk # batches2[v][j].chunk
    <3>1. CASE /\ i \in 1..Len(batches[u]) /\ batches2[u][i] = batches[u][i]
               /\ j \in 1..Len(batches[v]) /\ batches2[v][j] = batches[v][j]
      BY <3>1 DEF OwnInv
    <3>2. CASE /\ u = w /\ batches2[u][i] = batch
               /\ j \in 1..Len(batches[v]) /\ batches2[v][j] = batches[v][j]
      BY <1>6, <1>7, <3>2 DEF OwnInv, at
    <3>3. CASE /\ i \in 1..Len(batches[u]) /\ batches2[u][i] = batches[u][i]
               /\ v = w /\ batches2[v][j] = batch
      BY <1>6, <1>7, <3>3 DEF OwnInv, at
    <3>4. QED
      BY <1>14, <3>1, <3>2, <3>3
  <2>3. QED
    BY <2>1, <2>2
<1>18. CoverInv(chunks, queue, worker2, batches2)
  <2> SUFFICES ASSUME NEW k \in 1..Claimed(chunks, queue),
                      NEW place \in chunks[k].start..(chunks[k].end - 1)
               PROVE  Sent(batches2, chunks[k], place) \/ Pending(worker2, chunks[k], place)
    BY DEF CoverInv
  <2>1. Sent(batches, chunks[k], place) \/ Pending(worker, chunks[k], place)
    BY DEF CoverInv
  <2>2. ASSUME Sent(batches, chunks[k], place) PROVE Sent(batches2, chunks[k], place)
    <3>0. PICK v \in ChunkReaders : \E j \in 1..Len(batches[v]) : Covers(batches[v][j], chunks[k], place)
      BY <2>2 DEF Sent
    <3>1. PICK j \in 1..Len(batches[v]) : Covers(batches[v][j], chunks[k], place)
      BY <3>0
    <3>2. j \in 1..Len(batches2[v]) /\ batches2[v][j] = batches[v][j]
      <4>1. CASE v # w
        BY <1>12, <4>1
      <4>2. CASE v = w
        <5>1. j \in 1..n
          BY <4>2 DEF n
        <5>2. j \in 1..(n + 1)
          BY <1>13, <5>1
        <5>3. QED
          BY <1>13, <4>2, <5>1, <5>2
      <4>3. QED
        BY <4>1, <4>2
    <3>3. QED
      BY <3>1, <3>2 DEF Sent
  <2>3. ASSUME Pending(worker, chunks[k], place)
        PROVE  Sent(batches2, chunks[k], place) \/ Pending(worker2, chunks[k], place)
    <3>1. PICK v \in ChunkReaders : worker[v].chunk = chunks[k] /\ worker[v].cursor <= place
      BY <2>3 DEF Pending
    <3>2. CASE v # w
      BY <1>9, <3>1, <3>2 DEF Pending
    <3>3. CASE v = w
      <4>1. at.chunk = chunks[k] /\ at.cursor <= place
        BY <3>1, <3>3 DEF at
      <4>2. place \in Int
        BY <1>6, <4>1
      <4>3. CASE end <= place
        BY <1>4, <1>9, <4>1, <4>3 DEF Pending
      <4>4. CASE place < end
        <5>1. Covers(batch, chunks[k], place)
          BY <1>6, <4>1, <4>4 DEF Covers, end
        <5>2. n + 1 \in 1..Len(batches2[w]) /\ batches2[w][n + 1] = batch
          BY <1>13
        <5>3. QED
          BY <5>1, <5>2 DEF Sent
      <4>5. QED
        BY <1>3, <4>2, <4>3, <4>4
    <3>4. QED
      BY <3>2, <3>3
  <2>4. QED
    BY <2>1, <2>2, <2>3
<1>19. QED
  BY <1>11, <1>16, <1>17, <1>18


-----------------------------------------------------------------------------
(* PartitionedScans: the invariant                                         *)

OrdinaryInv ==
  /\ WorkersInv(Chunks, pqueue, pworker) /\ RunsInv(pcall, pworker, pbatches)
  /\ OwnInv(pworker, pbatches) /\ CoverInv(Chunks, pqueue, pworker, pbatches)
  /\ pstate \in {"running", "done"}
  /\ pstate = "done" => \A w \in ChunkReaders : pworker[w].done

\* The one worker of a broken function.
Only == CHOOSE r \in ChunkReaders : TRUE
MayPass(c) == c.fn = "broken_partition_min_neq_max" /\ c.count < 2

BrokenInv ==
  /\ pworker \in [ChunkReaders -> WorkerSet]
  /\ \A w \in ChunkReaders : pworker[w].chunk = NoChunk /\ pworker[w].cursor = 0
  /\ DOMAIN pbatches = ChunkReaders /\ pbatches[Only] \in Seq(Range(pbatches[Only]))
  /\ pstate = "done" => pworker[Only].done
  /\ (pstate \in {"running", "done"} /\ pworker[Only].done) => MayPass(pcall)
  /\ (pcall.fn \in BrokenTags /\ pbatches[Only] # <<>>) =>
       /\ pcall.fn = "broken_non_monotone_batch_index"
       /\ Len(pbatches[Only]) = 1 /\ pbatches[Only][1].tag = {10}

PartitionInv ==
  /\ pcall \in PartitionCalls
  /\ Ordinary(pcall) => OrdinaryInv
  /\ ~Ordinary(pcall) => BrokenInv

\* It holds at first.
LEMMA PartitionInvInit ==
  ASSUME PartitionAssumption, PartitionInit PROVE PartitionInv
<1>1. /\ pcall \in PartitionCalls /\ pqueue = Chunks
      /\ pworker = [w \in ChunkReaders |-> [chunk |-> NoChunk, cursor |-> 0, done |-> FALSE]]
      /\ pbatches = [w \in ChunkReaders |-> <<>>] /\ pstate = "running"
  BY DEF PartitionInit, Chunks
<1> DEFINE first == [chunk |-> NoChunk, cursor |-> 0, done |-> FALSE]
<1>2. first \in WorkerSet /\ first.chunk = NoChunk /\ first.cursor = 0 /\ first.done = FALSE
  BY DEF WorkerSet, ChunkSet, NoChunk
<1>3. pworker = [w \in ChunkReaders |-> first]
  BY <1>1
<1> HIDE DEF first
<1>4. /\ pworker \in [ChunkReaders -> WorkerSet]
      /\ \A w \in ChunkReaders : pworker[w].chunk = NoChunk /\ pworker[w].cursor = 0
                                 /\ pworker[w].done = FALSE
  BY <1>2, <1>3
<1>5. /\ DOMAIN pbatches = ChunkReaders
      /\ \A w \in ChunkReaders : pbatches[w] = <<>> /\ pbatches[w] \in Seq(Range(pbatches[w]))
                                 /\ Len(pbatches[w]) = 0
  BY <1>1
<1>6. ASSUME Ordinary(pcall) PROVE OrdinaryInv
  <2>1. IsChunks(Chunks)
    BY <1>1, <1>6, OrdinaryFixtures DEF IsFixture, Chunks
  <2> DEFINE chunks == Chunks
  <2>2. chunks \in Seq(ChunkSet) /\ IsChunks(chunks) /\ pqueue = chunks
    BY <1>1, <2>1 DEF IsChunks, ChunkSet
  <2> HIDE DEF chunks
  <2>3. Claimed(chunks, pqueue) = 0 /\ Len(chunks) \in Nat
    BY <2>2 DEF Claimed
  <2>4. IsQueue(chunks, pqueue)
    BY <2>2, <2>3 DEF IsQueue
  <2>5. \A w \in ChunkReaders : IsWorker(chunks, pqueue, pworker[w])
    BY <1>4 DEF IsWorker
  <2>6. WorkersInv(chunks, pqueue, pworker)
    BY <1>4, <2>4, <2>5 DEF WorkersInv
  <2>7. RunsInv(pcall, pworker, pbatches) /\ OwnInv(pworker, pbatches)
    BY <1>5 DEF RunsInv, OwnInv
  <2>8. CoverInv(chunks, pqueue, pworker, pbatches)
    BY <2>3 DEF CoverInv
  <2>9. QED
    BY <1>1, <2>6, <2>7, <2>8 DEF OrdinaryInv, chunks
<1>7. Only \in ChunkReaders
  BY DEF PartitionAssumption, Only
<1>8. BrokenInv
  BY <1>1, <1>4, <1>5, <1>7 DEF BrokenInv
<1>9. QED
  BY <1>1, <1>6, <1>8 DEF PartitionInv

\* A claim keeps the invariant.
LEMMA ClaimStep ==
  ASSUME PartitionAssumption, PartitionInv, NEW w \in ChunkReaders, ClaimChunk(w)
  PROVE  PartitionInv'
<1>1. Ordinary(pcall) /\ pcall \in PartitionCalls /\ OrdinaryInv
  BY DEF ClaimChunk, Ordinary, PartitionInv
<1>2. /\ pstate = "running" /\ pworker[w].cursor >= pworker[w].chunk.end
      /\ pcall' = pcall /\ pbatches' = pbatches /\ pstate' = pstate
      /\ \/ /\ pqueue = <<>> /\ pqueue' = pqueue /\ pworker' = [pworker EXCEPT ![w].done = TRUE]
         \/ /\ pqueue # <<>> /\ pqueue' = Tail(pqueue)
            /\ pworker' = [pworker EXCEPT ![w] = [chunk |-> Head(pqueue), cursor |-> Head(pqueue).start,
                                                  done |-> FALSE]]
  BY DEF ClaimChunk
<1> DEFINE chunks == Chunks
<1>3. chunks' = chunks
  BY <1>2 DEF Chunks
<1>4. IsChunks(chunks)
  BY <1>1, OrdinaryFixtures DEF IsFixture, Chunks
<1>5. /\ WorkersInv(chunks, pqueue, pworker) /\ RunsInv(pcall, pworker, pbatches)
      /\ OwnInv(pworker, pbatches) /\ CoverInv(chunks, pqueue, pworker, pbatches)
  BY <1>1 DEF OrdinaryInv
<1> HIDE DEF chunks
<1> DEFINE queue2 == pqueue'
           worker2 == pworker'
<1>6. pworker \in [ChunkReaders -> WorkerSet]
  BY <1>5 DEF WorkersInv
<1> HIDE DEF queue2, worker2
<1>7. /\ WorkersInv(chunks, queue2, worker2)
      /\ Moves(pqueue, queue2, pworker, worker2, w)
  <2>1. CASE pqueue = <<>> /\ pqueue' = pqueue /\ pworker' = [pworker EXCEPT ![w].done = TRUE]
    <3>1. WorkersInv(chunks, <<>>, pworker)
      BY <1>5, <2>1
    <3>2. /\ WorkersInv(chunks, <<>>, worker2)
          /\ \A v \in ChunkReaders : /\ worker2[v].chunk = pworker[v].chunk
                                     /\ worker2[v].cursor = pworker[v].cursor
      <4>1. worker2 = Stopped(pworker, w)
        BY <2>1 DEF worker2, Stopped
      <4>2. pworker[w].cursor >= pworker[w].chunk.end
        BY <1>2
      <4>3. QED
        BY <1>4, <3>1, <4>1, <4>2, StopKeeps
    <3>3. \A v \in ChunkReaders : v # w => worker2[v] = pworker[v]
      BY <1>6, <2>1 DEF worker2
    <3>4. QED
      BY <1>2, <2>1, <3>2, <3>3 DEF Moves, queue2
  <2>2. CASE /\ pqueue # <<>> /\ pqueue' = Tail(pqueue)
             /\ pworker' = [pworker EXCEPT ![w] = [chunk |-> Head(pqueue), cursor |-> Head(pqueue).start,
                                                   done |-> FALSE]]
    <3>1. WorkersInv(chunks, queue2, worker2)
      BY <1>2, <1>4, <1>5, <2>2, ClaimKeeps DEF queue2, worker2
    <3>2. /\ \A v \in ChunkReaders : v # w => worker2[v] = pworker[v]
          /\ worker2[w].chunk = Head(pqueue) /\ worker2[w].cursor = Head(pqueue).start
      BY <1>6, <2>2 DEF worker2
    <3>3. QED
      BY <1>2, <2>2, <3>1, <3>2 DEF Moves, queue2
  <2>3. QED
    BY <1>2, <2>1, <2>2
<1>8. /\ RunsInv(pcall, worker2, pbatches) /\ OwnInv(worker2, pbatches)
      /\ CoverInv(chunks, queue2, worker2, pbatches)
  BY <1>4, <1>5, <1>7, MovesOn
<1>9. OrdinaryInv'
  BY <1>2, <1>3, <1>7, <1>8 DEF OrdinaryInv, chunks, queue2, worker2
<1>10. QED
  BY <1>1, <1>2, <1>9 DEF PartitionInv, Ordinary


\* The batch a worker makes of the rows after its cursor.
RunRows(c, at, size) == [k \in 1..size |-> RowAt(c, at.chunk, at.cursor - at.chunk.start + k - 1)]
RunSize(at) == Min({ChunkBatch, at.chunk.end - at.cursor})
RunBatch(c, at) ==
  [chunk |-> at.chunk.id, from |-> at.cursor, rows |-> RunRows(c, at, RunSize(at)),
   tag |-> IF FixtureOf(c).tagged THEN {at.chunk.id} ELSE {},
   values |-> Advertised(FixtureOf(c), at.chunk, RunRows(c, at, RunSize(at)))]

\* It is a run of rows.
LEMMA RunIsRun ==
  ASSUME PartitionAssumption, NEW c \in PartitionCalls, Ordinary(c), NEW at,
         at \in WorkerSet, NEW queue, Len(queue) \in Nat, Reads(FixtureOf(c).chunks, queue, at), at.cursor < at.chunk.end
  PROVE  /\ IsRun(c, RunBatch(c, at))
         /\ RunBatch(c, at).chunk = at.chunk.id /\ RunBatch(c, at).from = at.cursor
         /\ EndOf(RunBatch(c, at)) = at.cursor + RunSize(at)
         /\ EndOf(RunBatch(c, at)) <= at.chunk.end
         /\ RunBatch(c, at).tag = IF FixtureOf(c).tagged THEN {at.chunk.id} ELSE {}
         /\ IsTrue(c, at.chunk, RunBatch(c, at).rows, RunBatch(c, at).values)
<1> DEFINE chunks == FixtureOf(c).chunks
           chunk == at.chunk
           o == at.cursor - chunk.start
           size == RunSize(at)
           rows == RunRows(c, at, size)
           batch == RunBatch(c, at)
<1>1. IsChunks(chunks)
  BY OrdinaryFixtures DEF IsFixture
<1>2. /\ chunk \in ChunkSet /\ at.cursor \in Nat /\ chunk.id \in Nat /\ chunk.start \in Nat /\ chunk.end \in Nat
  BY DEF WorkerSet, ChunkSet
<1>3. /\ chunk.id < Len(chunks) /\ chunk = chunks[chunk.id + 1] /\ Len(chunks) \in Nat
      /\ chunk.start <= at.cursor /\ at.cursor < chunk.end
  <2>1. Len(chunks) \in Nat
    BY <1>1 DEF IsChunks
  <2>2. chunk.id < Len(chunks) - Len(queue)
    BY DEF Reads, Claimed
  <2>3. chunk.id < Len(chunks)
    BY <1>2, <2>1, <2>2
  <2>4. QED
    BY <2>1, <2>3 DEF Reads
<1>4. ChunkBatch \in Nat \ {0}
  BY DEF PartitionAssumption
<1>5. size = IF ChunkBatch <= chunk.end - at.cursor THEN ChunkBatch ELSE chunk.end - at.cursor
  BY <1>2, <1>4, MinOfTwo DEF RunSize
<1>6. o \in Nat /\ size \in Nat \ {0} /\ o + size <= chunk.end - chunk.start
      /\ at.cursor + size <= chunk.end
  BY <1>2, <1>3, <1>4, <1>5, SMTT(20)
<1>7. rows = [i \in 1..size |-> RowAt(c, chunk, o + i - 1)] /\ Len(rows) = size
  BY <1>6 DEF RunRows
<1>8. /\ batch.chunk = chunk.id /\ batch.from = at.cursor /\ batch.rows = rows
      /\ batch.tag = (IF FixtureOf(c).tagged THEN {chunk.id} ELSE {})
      /\ batch.values = Advertised(FixtureOf(c), chunk, rows)
  BY DEF RunBatch
<1>9. chunk.id + 1 \in 1..Len(chunks)
  BY <1>2, <1>3
<1> HIDE DEF size, rows, batch, chunk, chunks, o
<1>10. IsTrue(c, chunk, rows, Advertised(FixtureOf(c), chunk, rows))
  BY <1>3, <1>6, <1>7, <1>9, ValuesAreTrue DEF chunks
<1>11. EndOf(batch) = at.cursor + size
  BY <1>7, <1>8 DEF EndOf
<1>12. \A i \in 1..Len(rows) : rows[i] = RowAt(c, chunk, o + i - 1)
  BY <1>7
<1>13. IsRun(c, batch)
  <2>1. chunks[batch.chunk + 1] = chunk
    BY <1>3, <1>8
  <2>2. /\ batch.chunk \in Nat /\ batch.chunk < Len(chunks) /\ batch.from \in Nat
        /\ Len(batch.rows) \in Nat \ {0} /\ chunk.start <= batch.from /\ EndOf(batch) <= chunk.end
    BY <1>2, <1>3, <1>6, <1>7, <1>8, <1>11 DEF chunk
  <2>3. \A i \in 1..Len(batch.rows) : batch.rows[i] = RowAt(c, chunk, batch.from - chunk.start + i - 1)
    BY <1>8, <1>12 DEF o
  <2>4. batch.tag = IF FixtureOf(c).tagged THEN {batch.chunk} ELSE {}
    BY <1>8
  <2>5. IsTrue(c, chunk, batch.rows, batch.values)
    BY <1>8, <1>10
  <2>6. QED
    BY <2>1, <2>2, <2>3, <2>4, <2>5 DEF IsRun, chunks
<1>14. QED
  BY <1>6, <1>8, <1>10, <1>11, <1>13 DEF batch, chunk, size

\* The engine keeps it.
LEMMA RunIsKept ==
  ASSUME PartitionAssumption, TagsFit, NEW c \in PartitionCalls, NEW at, at \in WorkerSet,
         NEW before, Len(before) \in Nat, NEW batch, IsRun(c, batch),
         batch.chunk = at.chunk.id, batch.from = at.cursor,
         \A i \in 1..Len(before) : IsRun(c, before[i]) /\ Behind(before[i], at)
  PROVE  Keeps(FixtureOf(c), Projected(c), before, batch)
<1> DEFINE f == FixtureOf(c)
           chunk == f.chunks[batch.chunk + 1]
<1>1. /\ IsTrue(c, chunk, batch.rows, batch.values) /\ batch.chunk \in Nat /\ batch.chunk < Len(f.chunks)
      /\ batch.tag = IF f.tagged THEN {batch.chunk} ELSE {}
  BY DEF IsRun
<1>2. f.kind # "none" => \A name \in f.by \cap Projected(c) :
         /\ name \in DOMAIN batch.values
         /\ f.kind = "single" => batch.values[name].min = batch.values[name].max
  BY <1>1 DEF IsTrue
<1>3. ASSUME f.tagged
      PROVE  /\ batch.tag # {} /\ \A t \in batch.tag : t < TagCap
             /\ \A i \in 1..Len(before) : \A s \in before[i].tag, t \in batch.tag : s <= t
  <2>1. batch.tag = {batch.chunk}
    BY <1>1, <1>3
  <2>2. batch.chunk < TagCap
    <3>1. Len(f.chunks) <= TagCap
      BY <1>3 DEF TagsFit
    <3>2. Len(f.chunks) \in Int
      <4>1. CASE Ordinary(c)
        <5>1. IsChunks(f.chunks)
          BY <4>1, OrdinaryFixtures DEF IsFixture
        <5>2. QED
          BY <5>1 DEF IsChunks
      <4>2. CASE ~Ordinary(c)
        <5>1. f.chunks = <<>>
          BY <4>2, BrokenFixtures
        <5>2. QED
          BY <5>1
      <4>3. QED
        BY <4>1, <4>2
    <3> DEFINE l == Len(f.chunks)
               x == batch.chunk
    <3>3. l \in Int /\ x \in Nat /\ x < l /\ l <= TagCap
      BY <1>1, <3>1, <3>2
    <3> HIDE DEF l, x
    <3>4. x < TagCap
      BY <3>3 DEF TagCap
    <3>5. QED
      BY <3>4 DEF x
  <2>3. \A i \in 1..Len(before) : before[i].tag = {before[i].chunk} /\ before[i].chunk \in Nat
                                   /\ before[i].chunk <= batch.chunk
    <3> TAKE i \in 1..Len(before)
    <3> DEFINE b == before[i]
    <3>1. IsRun(c, b) /\ Behind(b, at)
      OBVIOUS
    <3> HIDE DEF b
    <3>2. b.tag = (IF f.tagged THEN {b.chunk} ELSE {}) /\ b.chunk \in Nat
      BY <3>1 DEF IsRun
    <3>3. b.chunk <= batch.chunk
      BY <1>1, <3>1, <3>2 DEF Behind
    <3>4. QED
      BY <1>3, <3>2, <3>3 DEF b
  <2>4. QED
    BY <2>1, <2>2, <2>3
<1>4. QED
  BY <1>2, <1>3 DEF Keeps

\* Handing over rows keeps the invariant.
LEMMA EmitStep ==
  ASSUME PartitionAssumption, TagsFit, PartitionInv, NEW w \in ChunkReaders, EmitChunk(w)
  PROVE  PartitionInv'
<1> DEFINE at == pworker[w]
           batch == RunBatch(pcall, at)
           chunks == Chunks
<1>1. /\ pstate = "running" /\ at.cursor < at.chunk.end /\ Send(w, batch)
      /\ pworker' = [pworker EXCEPT ![w].cursor = at.cursor + RunSize(at)]
      /\ pcall' = pcall /\ pqueue' = pqueue
  BY DEF EmitChunk, RunBatch, RunRows, RunSize, TagOf
<1>2. Ordinary(pcall) /\ pcall \in PartitionCalls /\ OrdinaryInv
  <2>1. ASSUME ~Ordinary(pcall) PROVE FALSE
    <3>1. at.chunk = NoChunk /\ at.cursor = 0
      BY <2>1 DEF PartitionInv, BrokenInv
    <3>2. QED
      BY <1>1, <3>1 DEF NoChunk
  <2>2. QED
    BY <2>1 DEF PartitionInv
<1>3. /\ WorkersInv(chunks, pqueue, pworker) /\ RunsInv(pcall, pworker, pbatches)
      /\ OwnInv(pworker, pbatches) /\ CoverInv(chunks, pqueue, pworker, pbatches)
  BY <1>2 DEF OrdinaryInv
<1>4. IsChunks(chunks) /\ chunks = FixtureOf(pcall).chunks /\ chunks' = chunks
  BY <1>1, <1>2, OrdinaryFixtures DEF IsFixture, Chunks
<1>5. at \in WorkerSet /\ IsWorker(chunks, pqueue, at) /\ Len(pqueue) \in Nat
  BY <1>3 DEF WorkersInv, IsQueue
<1>6. Reads(chunks, pqueue, at)
  BY <1>1, <1>5 DEF IsWorker, NoChunk, WorkerSet
<1>7. /\ IsRun(pcall, batch) /\ batch.chunk = at.chunk.id /\ batch.from = at.cursor
      /\ EndOf(batch) = at.cursor + RunSize(at) /\ EndOf(batch) <= at.chunk.end
  <2>1. Reads(FixtureOf(pcall).chunks, pqueue, at)
    BY <1>4, <1>6
  <2>2. at.cursor < at.chunk.end
    BY <1>1
  <2> HIDE DEF at
  <2>3. QED
    BY <1>2, <1>5, <2>1, <2>2, RunIsRun
<1> HIDE DEF batch, chunks
<1>8. Keeps(FixtureOf(pcall), Projected(pcall), pbatches[w], batch)
  <2> DEFINE before == pbatches[w]
  <2>1. /\ before \in Seq(Range(before))
        /\ \A i \in 1..Len(before) : IsRun(pcall, before[i]) /\ Behind(before[i], at)
    BY <1>3 DEF RunsInv
  <2>2. Len(before) \in Nat
    BY <2>1
  <2> HIDE DEF before, at
  <2>3. Keeps(FixtureOf(pcall), Projected(pcall), before, batch)
    BY <1>2, <1>5, <1>7, <2>1, <2>2, RunIsKept
  <2>4. QED
    BY <2>3 DEF before
<1>9. pbatches' = Joined(pbatches, w, batch) /\ pstate' = pstate
  BY <1>1, <1>8 DEF Send, Joined
<1>10. pworker' = Advanced(pworker, w, EndOf(batch))
  BY <1>1, <1>7 DEF Advanced
<1>11. /\ WorkersInv(chunks, pqueue, pworker') /\ RunsInv(pcall, pworker', pbatches')
       /\ OwnInv(pworker', pbatches') /\ CoverInv(chunks, pqueue, pworker', pbatches')
  <2>1. /\ pworker[w].cursor < pworker[w].chunk.end /\ batch.chunk = pworker[w].chunk.id
        /\ batch.from = pworker[w].cursor /\ EndOf(batch) <= pworker[w].chunk.end
    BY <1>1, <1>7
  <2> DEFINE worker2 == pworker'
             batches2 == pbatches'
  <2>2. worker2 = Advanced(pworker, w, EndOf(batch)) /\ batches2 = Joined(pbatches, w, batch)
    BY <1>9, <1>10
  <2> HIDE DEF worker2, batches2
  <2>3. /\ WorkersInv(chunks, pqueue, worker2) /\ RunsInv(pcall, worker2, batches2)
        /\ OwnInv(worker2, batches2) /\ CoverInv(chunks, pqueue, worker2, batches2)
    BY <1>3, <1>4, <1>7, <2>1, <2>2, EmitKeeps
  <2>4. QED
    BY <2>3 DEF worker2, batches2
<1>12. OrdinaryInv'
  BY <1>1, <1>4, <1>9, <1>11 DEF OrdinaryInv, chunks
<1>13. QED
  BY <1>1, <1>2, <1>12 DEF PartitionInv, Ordinary


\* The engine keeps no batch of a broken function but one whose rows agree.
LEMMA BrokenPartitionIsRefused ==
  ASSUME PartitionAssumption, NEW c \in PartitionCalls, c.fn \in BrokenKinds, ~MayPass(c),
         NEW batch \in BrokenPartitionBatch(c), NEW before
  PROVE  ~Keeps(FixtureOf(c), Projected(c), before, batch)
<1>1. /\ FixtureOf(c).kind = "single" /\ FixtureOf(c).by = {"country"} /\ "country" \in Projected(c)
      /\ c.fn \in {"broken_missing_partition_values", "broken_partition_min_neq_max"}
  <2>1. c.fn \in {"broken_missing_partition_values", "broken_partition_min_neq_max"}
    BY DEF BrokenPartitionBatch
  <2>2. ~Ordinary(c)
    BY DEF Ordinary
  <2>3. QED
    BY <2>1, <2>2, BrokenFixtures
<1> DEFINE m == NotLess(1, c.count)
           CountryAt(i) == IF c.fn = "broken_partition_min_neq_max" /\ i % 2 = 0 THEN 1 ELSE 0
           rows == [i \in 1..m |-> [country |-> CountryAt(i), sales |-> i - 1]]
<1>2. batch.values = IF c.fn = "broken_partition_min_neq_max"
                     THEN partition_metadata({"country"}, rows)
                     ELSE [name \in {} |-> rows]
  BY <1>1 DEF BrokenPartitionBatch
<1>3. CASE c.fn = "broken_missing_partition_values"
  <2>1. DOMAIN batch.values = {}
    BY <1>2, <1>3
  <2>2. QED
    BY <1>1, <2>1 DEF Keeps
<1>4. CASE c.fn = "broken_partition_min_neq_max"
  <2>1. c.count \in Int /\ c.count >= 2 /\ m = c.count
    BY <1>4 DEF MayPass, PartitionAssumption, NotLess
  <2>2. 1 \in 1..m /\ 2 \in 1..m /\ m \in Nat
    BY <2>1
  <2>3. CountryAt(1) = 0 /\ CountryAt(2) = 1 /\ \A i \in 1..m : CountryAt(i) \in {0, 1}
    BY <1>4
  <2> HIDE DEF CountryAt, m
  <2>4. /\ Len(rows) = m /\ DOMAIN rows[1] = {"country", "sales"}
        /\ \A i \in 1..m : rows[i]["country"] = CountryAt(i)
    BY <2>2
  <2> HIDE DEF rows
  <2> DEFINE S == ColumnValues(rows, "country")
  <2>5. S \subseteq {0, 1} /\ 0 \in S /\ 1 \in S
    <3>1. \A x \in S : \E i \in 1..m : x = CountryAt(i)
      BY <2>4 DEF ColumnValues
    <3>2. S \subseteq {0, 1}
      BY <2>3, <3>1
    <3>3. rows[1]["country"] = 0 /\ rows[2]["country"] = 1
      BY <2>2, <2>3, <2>4
    <3>4. QED
      BY <2>2, <2>4, <3>2, <3>3 DEF ColumnValues
  <2>6. S \in SUBSET Int /\ \A x \in S : 0 <= x /\ x <= 1
    BY <2>5
  <2> HIDE DEF S
  <2>7. Min(S) = 0 /\ Max(S) = 1
    BY <2>5, <2>6, Extremes
  <2>8. "country" \in DOMAIN batch.values /\ batch.values["country"].min = Min(S)
        /\ batch.values["country"].max = Max(S)
    <3>1. batch.values = partition_metadata({"country"}, rows)
      BY <1>2, <1>4
    <3>2. partition_metadata({"country"}, rows) =
            [name \in {"country"} \cap DOMAIN rows[1] |->
               [min |-> Min(ColumnValues(rows, name)), max |-> Max(ColumnValues(rows, name))]]
      BY DEF partition_metadata, ColumnValues
    <3>3. "country" \in {"country"} \cap DOMAIN rows[1]
      BY <2>4
    <3>4. QED
      BY <3>1, <3>2, <3>3 DEF S
  <2>9. batch.values["country"].min # batch.values["country"].max
    BY <2>7, <2>8
  <2>10. QED
    BY <1>1, <2>9 DEF Keeps
<1>5. QED
  BY <1>1, <1>3, <1>4

\* Nor one of a broken tag, but the first of two.
LEMMA BrokenTagIsRefused ==
  ASSUME PartitionAssumption, NEW c \in PartitionCalls, c.fn \in BrokenTags, NEW before,
         \/ before = <<>>
         \/ c.fn = "broken_non_monotone_batch_index" /\ Len(before) = 1 /\ before[1].tag = {10},
         Keeps(FixtureOf(c), Projected(c), before, BrokenTagBatch(c, Len(before) + 1))
  PROVE  /\ c.fn = "broken_non_monotone_batch_index" /\ before = <<>>
         /\ BrokenTagBatch(c, 1).tag = {10}
<1> DEFINE batch == BrokenTagBatch(c, Len(before) + 1)
<1>1. FixtureOf(c).tagged
  BY BrokenFixtures DEF Ordinary
<1>2. /\ batch.tag # {} /\ \A t \in batch.tag : t < TagCap
      /\ \A i \in 1..Len(before) : \A s \in before[i].tag, t \in batch.tag : s <= t
  BY <1>1 DEF Keeps
<1>3. /\ c.fn = "broken_missing_batch_index_tag" => batch.tag = {}
      /\ c.fn = "broken_batch_index_overflow" => batch.tag = {2 * TagCap}
      /\ c.fn = "broken_non_monotone_batch_index" =>
           batch.tag = {IF Len(before) + 1 = 1 THEN 10 ELSE 3}
  BY DEF BrokenTagBatch
<1> HIDE DEF batch
<1>4. c.fn = "broken_non_monotone_batch_index"
  <2>1. ~(2 * TagCap < TagCap)
    BY DEF TagCap
  <2>2. QED
    BY <1>2, <1>3, <2>1 DEF BrokenTags
<1>5. before = <<>>
  <2> SUFFICES ASSUME Len(before) = 1, before[1].tag = {10} PROVE FALSE
    OBVIOUS
  <2>1. batch.tag = {3} /\ 1 \in 1..Len(before)
    BY <1>3, <1>4
  <2>2. 10 <= 3
    BY <1>2, <2>1
  <2>3. QED
    BY <2>2
<1>6. BrokenTagBatch(c, 1).tag = {10}
  BY <1>4 DEF BrokenTagBatch
<1>7. QED
  BY <1>4, <1>5, <1>6

\* A broken function's batch keeps the invariant.
LEMMA BrokenStep ==
  ASSUME PartitionAssumption, PartitionInv, NEW w \in ChunkReaders, EmitBroken(w)
  PROVE  PartitionInv'
<1>1. /\ pstate = "running" /\ ~pworker[w].done /\ w = Only /\ pcall' = pcall /\ pqueue' = pqueue
      /\ pcall.fn \in BrokenKinds \cup BrokenTags
  BY DEF EmitBroken, Only
<1>2. ~Ordinary(pcall) /\ pcall \in PartitionCalls /\ BrokenInv
  BY <1>1 DEF Ordinary, PartitionInv
<1>3. pworker \in [ChunkReaders -> WorkerSet] /\ pworker[w] \in WorkerSet
  BY <1>2 DEF BrokenInv
<1>4. /\ DOMAIN pbatches = ChunkReaders /\ pbatches[w] \in Seq(Range(pbatches[w]))
  BY <1>1, <1>2 DEF BrokenInv
<1>5. ASSUME NEW done \in BOOLEAN, pworker' = [pworker EXCEPT ![w].done = done]
      PROVE  /\ pworker' \in [ChunkReaders -> WorkerSet] /\ pworker'[w].done = done
             /\ \A v \in ChunkReaders : pworker'[v].chunk = NoChunk /\ pworker'[v].cursor = 0
  <2> DEFINE new == [pworker[w] EXCEPT !.done = done]
  <2>1. new \in WorkerSet /\ new.chunk = pworker[w].chunk /\ new.cursor = pworker[w].cursor /\ new.done = done
    BY <1>3 DEF WorkerSet
  <2>2. pworker' = [pworker EXCEPT ![w] = new]
    BY <1>5
  <2> HIDE DEF new
  <2>3. \A v \in ChunkReaders : pworker[v].chunk = NoChunk /\ pworker[v].cursor = 0
    BY <1>2 DEF BrokenInv
  <2>4. QED
    BY <1>3, <2>1, <2>2, <2>3
<1>6. ASSUME NEW batch, Send(w, batch)
      PROVE  /\ DOMAIN pbatches' = ChunkReaders /\ pbatches'[w] \in Seq(Range(pbatches'[w]))
             /\ IF Keeps(FixtureOf(pcall), Projected(pcall), pbatches[w], batch)
                THEN pstate' = pstate /\ pbatches'[w] = Append(pbatches[w], batch)
                ELSE pstate' = "refused" /\ pbatches' = pbatches
  <2>1. CASE Keeps(FixtureOf(pcall), Projected(pcall), pbatches[w], batch)
    <3>1. pstate' = pstate /\ pbatches' = [pbatches EXCEPT ![w] = Append(pbatches[w], batch)]
      BY <1>6, <2>1 DEF Send
    <3>2. DOMAIN pbatches' = ChunkReaders /\ pbatches'[w] = Append(pbatches[w], batch)
      BY <1>4, <3>1
    <3>3. pbatches'[w] \in Seq(Range(pbatches'[w]))
      BY <1>4, <3>2, OneMore
    <3>4. QED
      BY <2>1, <3>1, <3>2, <3>3
  <2>2. CASE ~Keeps(FixtureOf(pcall), Projected(pcall), pbatches[w], batch)
    BY <1>4, <1>6, <2>2 DEF Send
  <2>3. QED
    BY <2>1, <2>2
<1>7. CASE pcall.fn \in BrokenKinds
  <2>1. /\ pworker' = [pworker EXCEPT ![w].done = TRUE] /\ pcall.fn \notin BrokenTags
        /\ IF BrokenPartitionBatch(pcall) = {} THEN pstate' = "raised" /\ pbatches' = pbatches
           ELSE \E batch \in BrokenPartitionBatch(pcall) : Send(w, batch)
    BY <1>7 DEF EmitBroken, BrokenKinds, BrokenTags
  <2>2. /\ pworker' \in [ChunkReaders -> WorkerSet]
        /\ \A v \in ChunkReaders : pworker'[v].chunk = NoChunk /\ pworker'[v].cursor = 0
        /\ pworker'[w].done = TRUE
    BY <1>5, <2>1
  <2>3. /\ DOMAIN pbatches' = ChunkReaders /\ pbatches'[w] \in Seq(Range(pbatches'[w]))
        /\ pstate' \in {"running", "done"} => MayPass(pcall)
        /\ pstate' # "done"
    <3>1. CASE BrokenPartitionBatch(pcall) = {}
      <4>1. pstate' = "raised" /\ pbatches' = pbatches
        BY <2>1, <3>1
      <4>2. QED
        BY <1>4, <4>1
    <3>2. CASE BrokenPartitionBatch(pcall) # {}
      <4>1. PICK batch \in BrokenPartitionBatch(pcall) : Send(w, batch)
        BY <2>1, <3>2
      <4>2. ~MayPass(pcall) => ~Keeps(FixtureOf(pcall), Projected(pcall), pbatches[w], batch)
        BY <1>2, <1>7, BrokenPartitionIsRefused
      <4>3. QED
        BY <1>1, <1>6, <4>1, <4>2
    <3>3. QED
      BY <3>1, <3>2
  <2>4. BrokenInv'
    BY <1>1, <2>1, <2>2, <2>3 DEF BrokenInv, Only
  <2>5. QED
    BY <1>1, <1>2, <2>4 DEF PartitionInv, Ordinary
<1>8. CASE pcall.fn \in BrokenTags
  <2> DEFINE before == pbatches[w]
             batch == BrokenTagBatch(pcall, Len(before) + 1)
             done == pcall.fn # "broken_non_monotone_batch_index" \/ Len(before) = 1
  <2>1. Send(w, batch) /\ pworker' = [pworker EXCEPT ![w].done = done]
    BY <1>8 DEF EmitBroken, BrokenKinds, BrokenTags
  <2>2. done \in BOOLEAN
    OBVIOUS
  <2>3. \/ before = <<>>
        \/ pcall.fn = "broken_non_monotone_batch_index" /\ Len(before) = 1 /\ before[1].tag = {10}
    BY <1>1, <1>2, <1>8 DEF BrokenInv
  <2> HIDE DEF batch
  <2>4. /\ pworker' \in [ChunkReaders -> WorkerSet]
        /\ \A v \in ChunkReaders : pworker'[v].chunk = NoChunk /\ pworker'[v].cursor = 0
        /\ pworker'[w].done = done
    <3> HIDE DEF done
    <3>1. QED
      BY <1>5, <2>1, <2>2
  <2>5. CASE Keeps(FixtureOf(pcall), Projected(pcall), before, batch)
    <3>1. /\ pcall.fn = "broken_non_monotone_batch_index" /\ before = <<>>
          /\ BrokenTagBatch(pcall, 1).tag = {10}
      BY <1>2, <1>8, <2>3, <2>5, BrokenTagIsRefused DEF batch
    <3>2. batch.tag = {10} /\ done = FALSE
      BY <3>1 DEF batch
    <3>3. /\ DOMAIN pbatches' = ChunkReaders /\ pbatches'[w] \in Seq(Range(pbatches'[w]))
          /\ pstate' = pstate /\ pbatches'[w] = Append(<<>>, batch)
      BY <1>6, <2>1, <2>5, <3>1
    <3>4. Len(pbatches'[w]) = 1 /\ pbatches'[w][1].tag = {10}
      BY <3>2, <3>3
    <3>5. BrokenInv'
      BY <1>1, <2>4, <3>1, <3>2, <3>3, <3>4 DEF BrokenInv, Only
    <3>6. QED
      BY <1>1, <1>2, <3>5 DEF PartitionInv, Ordinary
  <2>6. CASE ~Keeps(FixtureOf(pcall), Projected(pcall), before, batch)
    <3>1. pstate' = "refused" /\ pbatches' = pbatches
      BY <1>6, <2>1, <2>6
    <3>2. BrokenInv'
      BY <1>1, <1>2, <2>4, <3>1 DEF BrokenInv, Only
    <3>3. QED
      BY <1>1, <1>2, <3>2 DEF PartitionInv, Ordinary
  <2>7. QED
    BY <2>5, <2>6
<1>9. QED
  BY <1>1, <1>7, <1>8


\* The end of a scan keeps the invariant.
LEMMA DoneStep ==
  ASSUME PartitionAssumption, PartitionInv, AllDone PROVE PartitionInv'
<1>1. /\ pstate = "running" /\ pstate' = "done"
      /\ pcall' = pcall /\ pqueue' = pqueue /\ pworker' = pworker /\ pbatches' = pbatches
      /\ \A w \in ChunkReaders : pworker[w].done \/ (~Ordinary(pcall) /\ w # Only)
  BY DEF AllDone, Ordinary, Only
<1>2. ASSUME Ordinary(pcall) PROVE OrdinaryInv'
  <2>1. OrdinaryInv
    BY <1>2 DEF PartitionInv
  <2>2. Chunks' = Chunks
    BY <1>1 DEF Chunks
  <2>3. QED
    BY <1>1, <1>2, <2>1, <2>2 DEF OrdinaryInv
<1>3. ASSUME ~Ordinary(pcall) PROVE BrokenInv'
  <2>1. BrokenInv
    BY <1>3 DEF PartitionInv
  <2>2. Only \in ChunkReaders
    BY DEF PartitionAssumption, Only
  <2>3. pworker[Only].done
    BY <1>1, <2>2
  <2>4. Only' = Only
    BY DEF Only
  <2>5. QED
    BY <1>1, <2>1, <2>3, <2>4 DEF BrokenInv
<1>4. pcall' \in PartitionCalls /\ (Ordinary(pcall)' <=> Ordinary(pcall))
  BY <1>1 DEF PartitionInv, Ordinary
<1>5. QED
  BY <1>2, <1>3, <1>4 DEF PartitionInv

\* Every step does.
LEMMA PartitionStep ==
  ASSUME PartitionAssumption, TagsFit, PartitionInv, [PartitionNext]_partitionVars
  PROVE  PartitionInv'
<1>1. CASE UNCHANGED partitionVars
  <2>1. /\ pcall' = pcall /\ pqueue' = pqueue /\ pworker' = pworker /\ pbatches' = pbatches
        /\ pstate' = pstate
    BY <1>1 DEF partitionVars
  <2>2. Chunks' = Chunks /\ Only' = Only /\ (Ordinary(pcall)' <=> Ordinary(pcall))
    BY <2>1 DEF Chunks, Only, Ordinary
  <2>3. OrdinaryInv => OrdinaryInv'
    BY <2>1, <2>2 DEF OrdinaryInv
  <2>4. BrokenInv => BrokenInv'
    BY <2>1, <2>2 DEF BrokenInv
  <2>5. QED
    BY <2>1, <2>2, <2>3, <2>4 DEF PartitionInv
<1>2. CASE PartitionNext
  <2>1. CASE AllDone
    BY <2>1, DoneStep
  <2>2. ASSUME NEW w \in ChunkReaders, ClaimChunk(w) PROVE PartitionInv'
    BY <2>2, ClaimStep
  <2>3. ASSUME NEW w \in ChunkReaders, EmitChunk(w) PROVE PartitionInv'
    BY <2>3, EmitStep
  <2>4. ASSUME NEW w \in ChunkReaders, EmitBroken(w) PROVE PartitionInv'
    BY <2>4, BrokenStep
  <2>5. QED
    BY <1>2, <2>1, <2>2, <2>3, <2>4 DEF PartitionNext
<1>3. QED
  BY <1>1, <1>2

-----------------------------------------------------------------------------
(* PartitionedScans: what the invariant says                               *)

\* The lists of batches.
LEMMA BatchDomain ==
  ASSUME NEW c, NEW worker, NEW batches, RunsInv(c, worker, batches), NEW w \in ChunkReaders
  PROVE  DOMAIN batches[w] = 1..Len(batches[w]) /\ Len(batches[w]) \in Nat
<1>1. batches[w] \in Seq(Range(batches[w]))
  BY DEF RunsInv
<1>2. QED
  BY <1>1

\* A batch's number is that of its chunk.
LEMMA RunFacts ==
  ASSUME PartitionAssumption, NEW c \in PartitionCalls, Ordinary(c), NEW batch, IsRun(c, batch)
  PROVE  LET chunk == FixtureOf(c).chunks[batch.chunk + 1]
         IN /\ batch.chunk + 1 \in DOMAIN FixtureOf(c).chunks
            /\ chunk.id = batch.chunk /\ batch.chunk \in Nat
            /\ chunk.start <= batch.from /\ EndOf(batch) <= chunk.end
            /\ batch.from \in Nat /\ EndOf(batch) \in Nat /\ batch.from < EndOf(batch)
            /\ \A i \in 1..Len(batch.rows) :
                 batch.rows[i] = RowAt(c, chunk, batch.from - chunk.start + i - 1)
<1> DEFINE chunks == FixtureOf(c).chunks
           chunk == chunks[batch.chunk + 1]
<1>1. IsChunks(chunks)
  BY OrdinaryFixtures DEF IsFixture
<1>2. /\ batch.chunk \in Nat /\ batch.chunk < Len(chunks) /\ batch.from \in Nat
      /\ Len(batch.rows) \in Nat \ {0} /\ chunk.start <= batch.from /\ EndOf(batch) <= chunk.end
      /\ \A i \in 1..Len(batch.rows) :
           batch.rows[i] = RowAt(c, chunk, batch.from - chunk.start + i - 1)
  BY DEF IsRun
<1>3. Len(chunks) \in Nat /\ DOMAIN chunks = 1..Len(chunks)
  BY <1>1 DEF IsChunks
<1>4. batch.chunk + 1 \in 1..Len(chunks)
  BY <1>2, <1>3
<1>5. chunk.id = batch.chunk
  BY <1>1, <1>2, <1>4, ChunkFacts
<1>6. EndOf(batch) \in Nat /\ batch.from < EndOf(batch)
  BY <1>2 DEF EndOf
<1>7. QED
  BY <1>2, <1>3, <1>4, <1>5, <1>6

\* Two batches that have one row in common are one.
LEMMA CoveredOnce ==
  ASSUME PartitionAssumption, NEW c \in PartitionCalls, Ordinary(c), NEW worker, NEW batches,
         RunsInv(c, worker, batches), OwnInv(worker, batches),
         NEW v \in ChunkReaders, NEW w \in ChunkReaders,
         NEW i \in 1..Len(batches[v]), NEW j \in 1..Len(batches[w]), NEW chunk, NEW place \in Int,
         Covers(batches[v][i], chunk, place), Covers(batches[w][j], chunk, place)
  PROVE  v = w /\ i = j
<1> DEFINE a == batches[v][i]
           b == batches[w][j]
<1>1. IsRun(c, a) /\ IsRun(c, b)
  BY DEF RunsInv
<1>2. a.from \in Nat /\ EndOf(a) \in Nat /\ a.chunk \in Nat
  BY <1>1, RunFacts
<1>3. b.from \in Nat /\ EndOf(b) \in Nat /\ b.chunk \in Nat
  BY <1>1, RunFacts
<1>4. /\ a.chunk = chunk.id /\ a.from <= place /\ place < EndOf(a)
      /\ b.chunk = chunk.id /\ b.from <= place /\ place < EndOf(b)
  BY DEF Covers
<1>5. v = w
  BY <1>4 DEF OwnInv
<1>6. ~Before(a, b) /\ ~Before(b, a)
  <2> HIDE DEF a, b
  <2>1. QED
    BY <1>2, <1>3, <1>4 DEF Before
<1>7. ~(i < j) /\ ~(j < i)
  BY <1>5, <1>6 DEF RunsInv
<1>8. i \in Int /\ j \in Int
  BY BatchDomain
<1>9. QED
  BY <1>5, <1>7, <1>8

\* The rows of a scan.
LEMMA RowsOnceFromInv ==
  ASSUME PartitionAssumption, PartitionInv PROVE PartitionRowsOnce
<1> SUFFICES ASSUME Ordinary(pcall) PROVE PartitionRowsOnce
  BY DEF PartitionRowsOnce, Broken, Ordinary
<1>1. pcall \in PartitionCalls /\ OrdinaryInv
  BY DEF PartitionInv
<1>2. /\ WorkersInv(Chunks, pqueue, pworker) /\ RunsInv(pcall, pworker, pbatches)
      /\ OwnInv(pworker, pbatches) /\ CoverInv(Chunks, pqueue, pworker, pbatches)
      /\ pstate = "done" => \A w \in ChunkReaders : pworker[w].done
  BY <1>1 DEF OrdinaryInv
<1>3. \A w \in ChunkReaders : DOMAIN pbatches[w] = 1..Len(pbatches[w])
  BY <1>2, BatchDomain
<1>4. IsChunks(Chunks)
  BY <1>1, OrdinaryFixtures DEF IsFixture, Chunks
<1>5. ASSUME NEW w \in ChunkReaders, NEW j \in DOMAIN pbatches[w]
      PROVE  \E chunk \in Range(Chunks) :
               /\ SentBatch(w, j).chunk = chunk.id
               /\ chunk.start <= SentBatch(w, j).from /\ EndOf(SentBatch(w, j)) <= chunk.end
               /\ \A i \in 1..Len(SentBatch(w, j).rows) :
                    SentBatch(w, j).rows[i] =
                      RowAt(pcall, chunk, SentBatch(w, j).from - chunk.start + i - 1)
  <2> DEFINE b == pbatches[w][j]
             chunk == Chunks[b.chunk + 1]
  <2>1. IsRun(pcall, b)
    BY <1>2, <1>3 DEF RunsInv
  <2>2. /\ b.chunk + 1 \in DOMAIN Chunks /\ chunk.id = b.chunk
        /\ chunk.start <= b.from /\ EndOf(b) <= chunk.end
        /\ \A i \in 1..Len(b.rows) : b.rows[i] = RowAt(pcall, chunk, b.from - chunk.start + i - 1)
    BY <1>1, <2>1, RunFacts DEF Chunks
  <2>3. chunk \in Range(Chunks)
    BY <2>2 DEF Range
  <2>4. SentBatch(w, j) = b
    BY DEF SentBatch
  <2> HIDE DEF b, chunk
  <2>5. QED
    BY <2>2, <2>3, <2>4
<1>6. ASSUME pstate = "done", NEW chunk \in Range(Chunks), NEW place \in chunk.start..(chunk.end - 1)
      PROVE  \E w \in ChunkReaders : \E j \in DOMAIN pbatches[w] :
               /\ Covers(SentBatch(w, j), chunk, place)
               /\ \A v \in ChunkReaders : \A i \in DOMAIN pbatches[v] :
                    Covers(SentBatch(v, i), chunk, place) => v = w /\ i = j
  <2>1. Len(Chunks) \in Nat /\ DOMAIN Chunks = 1..Len(Chunks)
    BY <1>4 DEF IsChunks
  <2>2. PICK k \in 1..Len(Chunks) : chunk = Chunks[k]
    BY <2>1 DEF Range
  <2>3. chunk.start \in Nat /\ chunk.end \in Nat /\ chunk # NoChunk /\ place \in Int /\ place < chunk.end
    <3>1. chunk.start \in Nat /\ chunk.end \in Nat /\ chunk # NoChunk
      BY <1>4, <2>2, ChunksAreChunks DEF ChunkSet
    <3>2. QED
      BY <3>1
  <2>4. \A w \in ChunkReaders : pworker[w].done /\ IsWorker(Chunks, pqueue, pworker[w])
    BY <1>2, <1>6 DEF WorkersInv
  <2>5. PICK r \in ChunkReaders : TRUE
    BY DEF PartitionAssumption
  <2>6. pqueue = <<>>
    BY <2>4, <2>5 DEF IsWorker
  <2>7. Claimed(Chunks, pqueue) = Len(Chunks)
    BY <2>1, <2>6 DEF Claimed
  <2>8. Sent(pbatches, chunk, place) \/ Pending(pworker, chunk, place)
    BY <1>2, <2>2, <2>7 DEF CoverInv
  <2>9. ~Pending(pworker, chunk, place)
    <3> SUFFICES ASSUME NEW w \in ChunkReaders, pworker[w].chunk = chunk, pworker[w].cursor <= place
                 PROVE  FALSE
      BY DEF Pending
    <3>1. chunk.end <= pworker[w].cursor /\ pworker[w].cursor \in Nat
      BY <2>4 DEF IsWorker, WorkerSet
    <3>2. QED
      BY <2>3, <3>1
  <2>10. PICK w \in ChunkReaders : \E j \in 1..Len(pbatches[w]) : Covers(pbatches[w][j], chunk, place)
    BY <2>8, <2>9 DEF Sent
  <2>11. PICK j \in 1..Len(pbatches[w]) : Covers(pbatches[w][j], chunk, place)
    BY <2>10
  <2>12. ASSUME NEW v \in ChunkReaders, NEW i \in DOMAIN pbatches[v], Covers(SentBatch(v, i), chunk, place)
         PROVE  v = w /\ i = j
    <3>1. i \in 1..Len(pbatches[v]) /\ Covers(pbatches[v][i], chunk, place)
      BY <1>3, <2>12 DEF SentBatch
    <3>2. QED
      BY <1>1, <1>2, <2>3, <2>11, <3>1, CoveredOnce
  <2>13. j \in DOMAIN pbatches[w] /\ Covers(SentBatch(w, j), chunk, place)
    BY <1>3, <2>11 DEF SentBatch
  <2>14. QED
    BY <2>12, <2>13
<1>7. QED
  BY <1>5, <1>6 DEF PartitionRowsOnce


\* The order of a tagged scan.
LEMMA InOrderFromInv ==
  ASSUME PartitionAssumption, PartitionInv PROVE ReassembledInOrder
<1> SUFFICES ASSUME Ordinary(pcall), FixtureOf(pcall).tagged PROVE ReassembledInOrder
  BY DEF ReassembledInOrder, Broken, Ordinary
<1>1. pcall \in PartitionCalls /\ RunsInv(pcall, pworker, pbatches) /\ OwnInv(pworker, pbatches)
  BY DEF PartitionInv, OrdinaryInv
<1>2. \A w \in ChunkReaders : DOMAIN pbatches[w] = 1..Len(pbatches[w])
  BY <1>1, BatchDomain
<1>3. ASSUME NEW v \in ChunkReaders, NEW w \in ChunkReaders,
             NEW i \in DOMAIN pbatches[v], NEW j \in DOMAIN pbatches[w]
      PROVE  \E s \in SentBatch(v, i).tag, t \in SentBatch(w, j).tag :
               /\ SentBatch(v, i).tag = {s} /\ (s = t => v = w)
               /\ (s < t \/ (s = t /\ i < j)) =>
                    \/ SentBatch(v, i).chunk < SentBatch(w, j).chunk
                    \/ /\ SentBatch(v, i).chunk = SentBatch(w, j).chunk
                       /\ EndOf(SentBatch(v, i)) <= SentBatch(w, j).from
  <2> DEFINE a == SentBatch(v, i)
             b == SentBatch(w, j)
  <2>1. i \in 1..Len(pbatches[v]) /\ j \in 1..Len(pbatches[w])
    BY <1>2
  <2>2. IsRun(pcall, a) /\ IsRun(pcall, b)
    BY <1>1, <2>1 DEF RunsInv, SentBatch
  <2>3. v # w => a.chunk # b.chunk
    BY <1>1, <2>1 DEF OwnInv, SentBatch
  <2>4. (v = w /\ i < j) => Before(a, b)
    BY <1>1, <2>1 DEF RunsInv, SentBatch
  <2> HIDE DEF a, b
  <2>5. a.tag = {a.chunk} /\ b.tag = {b.chunk}
    BY <2>2 DEF IsRun
  <2>6. (a.chunk < b.chunk \/ (a.chunk = b.chunk /\ i < j)) => Before(a, b)
    BY <2>3, <2>4 DEF Before
  <2>7. QED
    BY <2>3, <2>5, <2>6 DEF Before, a, b
<1>4. QED
  BY <1>3 DEF ReassembledInOrder

\* The values that are advertised.
LEMMA ContractFromInv ==
  ASSUME PartitionAssumption, PartitionInv PROVE ContractIsKept
<1>1. pcall \in PartitionCalls /\ (Broken <=> ~Ordinary(pcall))
  BY DEF PartitionInv, Broken, Ordinary
<1>2. ASSUME ~Ordinary(pcall), pstate = "done" PROVE MayPass(pcall)
  BY <1>2 DEF PartitionInv, BrokenInv
<1>3. ASSUME Ordinary(pcall) PROVE pstate \notin {"refused", "raised"} /\ RowsInside /\ IntervalsApart
  <2>1. pstate \in {"running", "done"} /\ RunsInv(pcall, pworker, pbatches)
    BY <1>3 DEF PartitionInv, OrdinaryInv
  <2>2. \A w \in ChunkReaders : \A j \in DOMAIN pbatches[w] : IsRun(pcall, SentBatch(w, j))
    <3> TAKE w \in ChunkReaders
    <3> TAKE j \in DOMAIN pbatches[w]
    <3>1. j \in 1..Len(pbatches[w])
      BY <2>1, BatchDomain
    <3>2. QED
      BY <2>1, <3>1 DEF RunsInv, SentBatch
  <2>3. RowsInside
    BY <2>2 DEF RowsInside, IsRun, IsTrue
  <2>4. ASSUME FixtureOf(pcall).kind = "disjoint", RangeFits(pcall),
               NEW v \in ChunkReaders, NEW w \in ChunkReaders,
               NEW i \in DOMAIN pbatches[v], NEW j \in DOMAIN pbatches[w],
               SentBatch(v, i).chunk < SentBatch(w, j).chunk,
               NEW name \in DOMAIN SentBatch(v, i).values \cap DOMAIN SentBatch(w, j).values
        PROVE  SentBatch(v, i).values[name].max < SentBatch(w, j).values[name].min
    <3> DEFINE a == SentBatch(v, i)
               b == SentBatch(w, j)
               p == a.values[name]
               q == b.values[name]
               ca == FixtureOf(pcall).chunks[a.chunk + 1]
               cb == FixtureOf(pcall).chunks[b.chunk + 1]
               s == kDisjointStride
    <3>1. IsRun(pcall, a) /\ IsRun(pcall, b)
      BY <2>2
    <3> HIDE DEF a, b
    <3>2. IsTrue(pcall, ca, a.rows, a.values) /\ IsTrue(pcall, cb, b.rows, b.values)
      BY <3>1 DEF IsRun
    <3>3. ca.id = a.chunk /\ a.chunk \in Nat
      BY <1>1, <1>3, <3>1, RunFacts
    <3>4. cb.id = b.chunk /\ b.chunk \in Nat
      BY <1>1, <1>3, <3>1, RunFacts
    <3>5. name \in DOMAIN a.values /\ name \in DOMAIN b.values /\ a.chunk < b.chunk
      BY <2>4 DEF a, b
    <3> HIDE DEF ca, cb
    <3>6. p.max \in Int /\ q.min \in Int /\ Within(p, ca, s) /\ Within(q, cb, s)
      BY <2>4, <3>2, <3>5 DEF IsTrue
    <3> HIDE DEF p, q
    <3>7. s \in Nat
      BY DEF PartitionAssumption
    <3> HIDE DEF s
    <3>8. p.max < a.chunk * s + s /\ b.chunk * s <= q.min
      BY <3>3, <3>4, <3>6 DEF Within
    <3> DEFINE m == a.chunk
               n == b.chunk
    <3>9. m \in Nat /\ n \in Nat /\ m + 1 <= n
      BY <3>3, <3>4, <3>5
    <3>10. p.max < m * s + s /\ n * s <= q.min
      BY <3>8
    <3> HIDE DEF m, n
    <3>11. (m + 1) * s <= n * s /\ (m + 1) * s = m * s + s /\ m * s \in Int /\ n * s \in Int
      BY <3>7, <3>9, TimesGrows
    <3>12. p.max < q.min
      <4> DEFINE ms == m * s
                 ns == n * s
      <4>1. p.max < ms + s /\ ns <= q.min /\ ms + s <= ns /\ ms \in Int /\ ns \in Int
        BY <3>10, <3>11
      <4> HIDE DEF ms, ns
      <4>2. QED
        BY <3>6, <3>7, <4>1
    <3>13. QED
      BY <3>12 DEF p, q, a, b
  <2>5. IntervalsApart
    BY <2>4 DEF IntervalsApart
  <2>6. QED
    BY <2>1, <2>3, <2>5
<1>4. QED
  BY <1>1, <1>2, <1>3 DEF ContractIsKept, MayPass

\* Of a scan that several workers read: whoever claims which chunk, every row is
\* delivered once, the tags restore the order of one worker alone, the advertised
\* partition values are true and those of disjoint partitions apart, if the call's are
\* no longer than the stride, and a function that breaks its declaration does not
\* complete (partitioned.cpp, partition.cpp, partition_broken.cpp).
THEOREM PartitionsWhole ==
  ASSUME PartitionAssumption, TagsFit PROVE PartitionSpec => []PartitionsAreWhole
<1>1. PartitionInit => PartitionInv
  BY PartitionInvInit
<1>2. PartitionInv /\ [PartitionNext]_partitionVars => PartitionInv'
  BY PartitionStep
<1>3. PartitionInv => PartitionsAreWhole
  BY RowsOnceFromInv, InOrderFromInv, ContractFromInv DEF PartitionsAreWhole
<1>4. QED
  BY <1>1, <1>2, <1>3, PTL DEF PartitionSpec


-----------------------------------------------------------------------------
(* ResultCache: nonces                                                     *)

\* A list of one sequence flattens to that sequence.
LEMMA FlatOfOne ==
  ASSUME NEW seqs, Len(seqs) = 1 PROVE FlattenSeq(seqs) = seqs[1]
<1> DEFINE Def(g) == g = [i \in 1..Len(seqs) |-> IF i = 1 THEN seqs[i] ELSE g[i - 1] \o seqs[i]]
           flatten == CHOOSE g : Def(g)
           one == [i \in 1..Len(seqs) |-> seqs[1]]
<1>1. FlattenSeq(seqs) = flatten[Len(seqs)]
  BY DEF FlattenSeq
<1>2. Def(one)
  <2>1. \A i \in 1..Len(seqs) : i = 1
    OBVIOUS
  <2>2. QED
    BY <2>1
<1>3. Def(flatten)
  BY <1>2
<1> HIDE DEF flatten
<1>4. flatten[1] = seqs[1]
  BY <1>3
<1>5. QED
  BY <1>1, <1>4

\* What a worker's one batch is to the engine.
LEMMA OneBatchRead ==
  ASSUME NEW rows, NEW control, NEW reply, reply = OneBatch(rows, control)
  PROVE  /\ reply.failed = FALSE
         /\ AllRows(reply.streams) = rows /\ Advertisement(reply.streams) = control
<1> DEFINE batch == CacheBatchOf(rows, control, Unlabelled)
           stream == <<batch>>
           streams == <<stream>>
<1>1. reply.failed = FALSE /\ reply.streams = streams
  BY DEF OneBatch, Streams
<1>2. batch.rows = rows /\ batch.control = control
  BY DEF CacheBatchOf
<1> HIDE DEF batch
<1>3. Len(stream) = 1 /\ stream[1] = batch /\ stream # <<>>
  OBVIOUS
<1> HIDE DEF stream
<1>4. Len(streams) = 1 /\ streams[1] = stream
  OBVIOUS
<1> HIDE DEF streams
<1> DEFINE Part(s) == [k \in 1..Len(streams[s]) |-> streams[s][k].rows]
           parts == [s \in 1..Len(streams) |-> FlattenSeq(Part(s))]
<1>5. AllRows(streams) = FlattenSeq(parts)
  BY DEF AllRows
<1>6. Len(Part(1)) = 1 /\ Part(1)[1] = rows
  BY <1>2, <1>3, <1>4
<1> HIDE DEF Part
<1>7. Len(parts) = 1 /\ parts[1] = FlattenSeq(Part(1))
  BY <1>4
<1> HIDE DEF parts
<1>8. AllRows(streams) = rows
  BY <1>5, <1>6, <1>7, FlatOfOne
<1> DEFINE said == {s \in 1..Len(streams) : streams[s] # <<>>}
<1>9. said = {1}
  BY <1>3, <1>4
<1>10. Advertisement(streams) = IF said = {} THEN NoControl ELSE streams[Min(said)][1].control
  BY DEF Advertisement
<1> HIDE DEF said
<1>11. Min(said) = 1
  BY <1>9 DEF Min
<1>12. Advertisement(streams) = control
  BY <1>2, <1>3, <1>4, <1>9, <1>10, <1>11
<1>13. QED
  BY <1>1, <1>8, <1>12

\* Rows that all end in the nonce x.
Bears(rows, x) ==
  Len(rows) \in Nat /\ \A i \in 1..Len(rows) : rows[i][Len(rows[i])] = x

\* What a function with a nonce answers: rows that bear the nonce, for the
\* transaction only where they depend on it, and nothing where its etag is confirmed.
Nonced(q, validator, nonce, rows, control) ==
  /\ control.notModified \in BOOLEAN
  /\ control.notModified = TRUE => q.fn = "cache_revalidatable" /\ validator # NoValue
  /\ control.notModified = FALSE =>
       Bears(rows, nonce) /\ (q.fn = "cache_revalidatable" => Len(rows) = 1)
  /\ q.fn = "cache_scoped_txn" => control.scope = "transaction"

\* The fields of the advertisements.
LEMMA Controls ==
  /\ \A ttl : Control(ttl).notModified = FALSE
  /\ \A ttl : [Control(ttl) EXCEPT !.scope = "transaction"].scope = "transaction"
  /\ \A ttl : [Control(ttl) EXCEPT !.scope = "transaction"].notModified = FALSE
  /\ \A etag, confirmed : Revalidated(etag, confirmed).notModified = confirmed
BY DEF Control, Revalidated

\* The three functions answer so.
LEMMA NonceAnswers ==
  ASSUME NEW q, q.fn \in Nonces, q.n \in Int, NEW validator, NEW mine
  PROVE  \E rows, control : /\ Answer(q, validator, mine) = OneBatch(rows, control)
                            /\ Nonced(q, validator, cnonce, rows, control)
<1> USE Controls
<1>1. CASE q.fn = "cache_scoped_txn"
  <2> DEFINE N == CacheN(q)
             rows == [k \in 1..N |-> <<k - 1, cnonce>>]
             control == [Control(DefaultTtl) EXCEPT !.scope = "transaction"]
  <2>1. Answer(q, validator, mine) = OneBatch(rows, control)
    BY <1>1 DEF Answer, cache_scoped_txn
  <2>2. N \in Nat
    BY DEF CacheN
  <2> HIDE DEF N
  <2>3. Bears(rows, cnonce)
    BY <2>2 DEF Bears
  <2>4. control.scope = "transaction" /\ control.notModified = FALSE
    OBVIOUS
  <2> HIDE DEF rows, control
  <2>5. Nonced(q, validator, cnonce, rows, control)
    BY <1>1, <2>3, <2>4 DEF Nonced
  <2>6. QED
    BY <2>1, <2>5
<1>2. CASE q.fn = "cache_nonce"
  <2> DEFINE rows == <<<<cnonce>>>>
             control == Control(DefaultTtl)
  <2>1. Answer(q, validator, mine) = OneBatch(rows, control)
    BY <1>2 DEF Answer, cache_nonce
  <2>2. Bears(rows, cnonce)
    <3> DEFINE row == <<cnonce>>
    <3>1. row[Len(row)] = cnonce /\ rows = <<row>>
      OBVIOUS
    <3> HIDE DEF row, rows
    <3>2. Len(rows) = 1 /\ \A i \in 1..1 : rows[i] = row
      BY <3>1
    <3>3. QED
      BY <3>1, <3>2 DEF Bears
  <2>3. control.notModified = FALSE
    OBVIOUS
  <2> HIDE DEF rows, control
  <2>4. Nonced(q, validator, cnonce, rows, control)
    BY <1>2, <2>2, <2>3 DEF Nonced
  <2>5. QED
    BY <2>1, <2>4
<1>3. CASE q.fn = "cache_revalidatable"
  <2> DEFINE confirmed == Confirms(RevEtag(q), validator)
             rows == IF confirmed THEN <<>> ELSE <<<<cnonce>>>>
             control == Revalidated(RevEtag(q), confirmed)
  <2>1. Answer(q, validator, mine) = OneBatch(rows, control)
    BY <1>3 DEF Answer, cache_revalidatable
  <2>2. confirmed \in BOOLEAN /\ (confirmed = TRUE => validator # NoValue)
    BY DEF Confirms, RevEtag, NoValue
  <2>3. control.notModified = confirmed
    OBVIOUS
  <2> HIDE DEF confirmed, control
  <2>4. confirmed = FALSE => Bears(rows, cnonce) /\ Len(rows) = 1
    BY DEF Bears
  <2> HIDE DEF rows
  <2>5. Nonced(q, validator, cnonce, rows, control)
    BY <1>3, <2>2, <2>3, <2>4 DEF Nonced
  <2>6. QED
    BY <2>1, <2>5
<1>4. QED
  BY <1>1, <1>2, <1>3 DEF Nonces


\* A kept result that has a nonce.
IsKept(e, nonce) ==
  /\ \E x \in Nat : x < nonce /\ Bears(e.rows, x)
  /\ e.key.fn = "cache_revalidatable" => Len(e.rows) = 1
  /\ e.key.fn = "cache_scoped_txn" => e.control.scope = "transaction"

\* The nonces of rows.
NoncesOf(rows) == {rows[i][Len(rows[i])] : i \in 1..Len(rows)}

\* There is one such nonce at most.
LEMMA NoncesBorne ==
  ASSUME NEW rows, NEW x, Bears(rows, x)
  PROVE  /\ Cardinality(NoncesOf(rows)) <= 1 /\ \A y \in NoncesOf(rows) : y = x
         /\ Len(rows) = 1 => NoncesOf(rows) # {}
<1> DEFINE S == NoncesOf(rows)
<1>1. \A y \in S : y = x
  BY DEF NoncesOf, Bears
<1>2. Len(rows) = 1 => S # {}
  BY DEF NoncesOf
<1> HIDE DEF S
<1>3. S = {} \/ S = {x}
  BY <1>1
<1>4. Cardinality(S) <= 1
  <2>1. Cardinality({}) = 0 /\ Cardinality({x}) = 1
    BY FS_EmptySet, FS_Singleton
  <2>2. QED
    BY <1>3, <2>1
<1>5. QED
  BY <1>1, <1>2, <1>4 DEF S

\* NonceTellsAMiss of an answer.
Tells(answer, store, nonce) ==
  (answer.how # "none" /\ answer.query.fn \in Nonces) =>
    /\ Cardinality(NoncesOf(answer.rows)) <= 1
    /\ answer.how = "run" => \A x \in NoncesOf(answer.rows) : x = nonce - 1
    /\ answer.how = "confirmed" =>
         NoncesOf(answer.rows) # {} /\ \A x \in NoncesOf(answer.rows) : x < nonce - 1
    /\ answer.how = "hit" =>
         \E e \in store : /\ e.rows = answer.rows /\ e.key = answer.query
                          /\ answer.query.fn = "cache_scoped_txn" => e.txn = answer.txn

\* What is kept has nonces that were drawn, and the last answer tells of its own.
NonceInv ==
  /\ cnonce \in Nat
  /\ \A e \in cstore : e.key.fn \in Nonces => IsKept(e, cnonce)
  /\ Tells(canswer, cstore, cnonce)

\* Later nonces are higher.
LEMMA KeptLonger ==
  ASSUME NEW e, NEW n \in Nat, IsKept(e, n) PROVE IsKept(e, n + 1)
BY DEF IsKept

\* An answer that is served.
LEMMA HitTells ==
  ASSUME NonceInv, NEW q, Hit(q) PROVE NonceInv'
<1>1. PICK e \in Kept(q) : Replied(q, "hit", e.rows)
  BY DEF Hit
<1>2. /\ e \in cstore /\ e.key = q /\ (e.control.scope = "catalog" \/ e.txn = ctxn)
  BY DEF Kept
<1>3. canswer' = [how |-> "hit", query |-> q, rows |-> e.rows, txn |-> ctxn]
  BY <1>1 DEF Replied
<1>4. cstore' = cstore /\ cnonce' = cnonce
  BY DEF Hit
<1>5. /\ canswer'.how = "hit" /\ canswer'.query = q /\ canswer'.rows = e.rows
      /\ canswer'.txn = ctxn
  BY <1>3
<1>6. ASSUME q.fn \in Nonces PROVE Tells(canswer', cstore, cnonce)
  <2>1. IsKept(e, cnonce)
    BY <1>2, <1>6 DEF NonceInv
  <2>2. Cardinality(NoncesOf(e.rows)) <= 1
    BY <2>1, NoncesBorne DEF IsKept
  <2>3. q.fn = "cache_scoped_txn" => e.txn = ctxn
    BY <1>2, <2>1 DEF IsKept
  <2>4. QED
    BY <1>2, <1>5, <2>2, <2>3 DEF Tells
<1>7. q.fn \notin Nonces => Tells(canswer', cstore, cnonce)
  BY <1>5 DEF Tells
<1>8. QED
  BY <1>4, <1>6, <1>7 DEF NonceInv

\* The worker's own answer, or its confirmation of what is kept.
LEMMA RunTells ==
  ASSUME CacheAssumption, NonceInv, NEW q \in CacheQueries, NEW mine, Run(q, mine)
  PROVE  NonceInv'
<1> DEFINE validator == Validator(Stale(q))
           reply == Answer(q, validator, mine)
           rows == AllRows(reply.streams)
           control == Advertisement(reply.streams)
<1>1. /\ cnonce' = IF q.fn \in Nonces THEN cnonce + 1 ELSE cnonce
      /\ Settle(q, reply, rows, control)
  BY DEF Run, next_nonce
<1>2. cnonce \in Nat /\ \A e \in cstore : e.key.fn \in Nonces => IsKept(e, cnonce)
  BY DEF NonceInv
<1> HIDE DEF rows, control, reply, validator
<1>3. /\ canswer'.query = q /\ canswer'.how \in {"failed", "confirmed", "run"}
      /\ canswer'.how = "run" => canswer'.rows = rows
      /\ canswer'.how = "confirmed" => canswer'.rows = (CHOOSE e \in Stale(q) : TRUE).rows
      /\ reply.failed = FALSE =>
           canswer'.how = IF control.notModified THEN "confirmed" ELSE "run"
  BY <1>1 DEF Settle, Replied
<1>4. ASSUME NEW e \in cstore'
      PROVE  \/ e \in cstore
             \/ /\ canswer'.how = "run" /\ e.key = q /\ e.rows = rows /\ e.control = control
  <2>1. CASE canswer'.how # "run"
    BY <1>1, <2>1 DEF Settle, Replied
  <2>2. CASE canswer'.how = "run"
    <3>1. Keep(q, reply.streams, rows, control)
      BY <1>1, <2>2 DEF Settle, Replied
    <3> DEFINE others == {d \in cstore : d.key # q}
               new == [key |-> q, txn |-> ctxn, rows |-> rows, control |-> control, at |-> cnow]
    <3>2. cstore' = IF control.noStore THEN others ELSE others \cup {new}
      BY <3>1 DEF Keep
    <3>3. new.key = q /\ new.rows = rows /\ new.control = control
      OBVIOUS
    <3> HIDE DEF new
    <3>4. QED
      BY <2>2, <3>2, <3>3
  <2>3. QED
    BY <2>1, <2>2
<1>5. CASE q.fn \notin Nonces
  <2>1. cnonce' = cnonce
    BY <1>1, <1>5
  <2>2. Tells(canswer', cstore', cnonce')
    BY <1>3, <1>5 DEF Tells
  <2>3. QED
    BY <1>2, <1>4, <1>5, <2>1, <2>2 DEF NonceInv
<1>6. CASE q.fn \in Nonces
  <2>1. cnonce' = cnonce + 1
    BY <1>1, <1>6
  <2>2. reply.failed = FALSE /\ Nonced(q, validator, cnonce, rows, control)
    <3>1. q.n \in Int
      BY DEF CacheAssumption
    <3>2. PICK r, c : reply = OneBatch(r, c) /\ Nonced(q, validator, cnonce, r, c)
      BY <1>6, <3>1, NonceAnswers DEF reply
    <3>3. reply.failed = FALSE /\ AllRows(reply.streams) = r /\ Advertisement(reply.streams) = c
      BY <3>2, OneBatchRead
    <3>4. QED
      BY <3>2, <3>3 DEF rows, control
  <2>3. canswer'.how = "run" => control.notModified = FALSE
    BY <1>3, <2>2 DEF Nonced
  <2>4. \A e \in cstore' : e.key.fn \in Nonces => IsKept(e, cnonce')
    <3> SUFFICES ASSUME NEW e \in cstore', e.key.fn \in Nonces PROVE IsKept(e, cnonce + 1)
      BY <2>1
    <3>1. CASE e \in cstore
      BY <1>2, <3>1, KeptLonger
    <3>2. CASE e \notin cstore
      <4>1. canswer'.how = "run" /\ e.key = q /\ e.rows = rows /\ e.control = control
        BY <1>4, <3>2
      <4>2. Bears(e.rows, cnonce) /\ (q.fn = "cache_revalidatable" => Len(e.rows) = 1)
            /\ (q.fn = "cache_scoped_txn" => e.control.scope = "transaction")
        BY <2>2, <2>3, <4>1 DEF Nonced
      <4>3. cnonce < cnonce + 1
        BY <1>2
      <4>4. QED
        BY <1>2, <4>1, <4>2, <4>3 DEF IsKept
    <3>3. QED
      BY <3>1, <3>2
  <2>5. Tells(canswer', cstore', cnonce + 1)
    <3>1. CASE canswer'.how = "run"
      <4>1. canswer'.rows = rows /\ Bears(rows, cnonce)
        BY <1>3, <2>2, <2>3, <3>1 DEF Nonced
      <4>2. /\ Cardinality(NoncesOf(rows)) <= 1
            /\ \A x \in NoncesOf(rows) : x = (cnonce + 1) - 1
        BY <1>2, <4>1, NoncesBorne
      <4>3. QED
        BY <3>1, <4>1, <4>2 DEF Tells
    <3>2. CASE canswer'.how = "confirmed"
      <4> DEFINE e == CHOOSE d \in Stale(q) : TRUE
      <4>1. canswer'.rows = e.rows
        BY <1>3, <3>2
      <4>2. validator # NoValue /\ q.fn = "cache_revalidatable"
        BY <1>3, <2>2, <3>2 DEF Nonced
      <4>3. Stale(q) # {}
        BY <4>2 DEF validator, Validator
      <4>4. e \in Stale(q)
        BY <4>3
      <4> HIDE DEF e
      <4>5. e \in cstore /\ e.key = q
        BY <4>4 DEF Stale, Kept
      <4>6. IsKept(e, cnonce)
        BY <1>2, <1>6, <4>5
      <4>7. PICK x \in Nat : x < cnonce /\ Bears(e.rows, x)
        BY <4>6 DEF IsKept
      <4>8. Len(e.rows) = 1
        BY <4>2, <4>5, <4>6 DEF IsKept
      <4>9. /\ Cardinality(NoncesOf(e.rows)) <= 1 /\ NoncesOf(e.rows) # {}
            /\ \A y \in NoncesOf(e.rows) : y = x
        BY <4>7, <4>8, NoncesBorne
      <4>10. \A y \in NoncesOf(e.rows) : y < (cnonce + 1) - 1
        BY <1>2, <4>7, <4>9
      <4>11. QED
        BY <3>2, <4>1, <4>9, <4>10 DEF Tells
    <3>3. QED
      BY <1>3, <2>2, <3>1, <3>2 DEF Nonced
  <2>6. QED
    BY <1>2, <2>1, <2>4, <2>5 DEF NonceInv
<1>7. QED
  BY <1>5, <1>6

\* The nonce of an answer tells whether it was made for its query, for any queries,
\* lifetimes and times: a result is run with the newest nonce, confirmed or served
\* with that of a kept one, and never served outside the transaction it is for
\* (next_nonce, CacheScopedTxn, CacheRevalidatable).
THEOREM NonceTells == ASSUME CacheAssumption PROVE CacheSpec => []NonceTellsAMiss
<1>1. CacheInit => NonceInv
  <2> SUFFICES ASSUME CacheInit PROVE NonceInv
    OBVIOUS
  <2>1. canswer.how = "none" /\ cstore = {} /\ cnonce = 0
    BY DEF CacheInit
  <2>2. QED
    BY <2>1 DEF NonceInv, Tells
<1>2. NonceInv /\ [CacheNext]_cacheVars => NonceInv'
  <2> SUFFICES ASSUME NonceInv, [CacheNext]_cacheVars PROVE NonceInv'
    OBVIOUS
  <2>1. ASSUME NEW q \in CacheQueries, Hit(q) PROVE NonceInv'
    BY <2>1, HitTells
  <2>2. ASSUME cnonce' = cnonce, cstore' = cstore, canswer'.query.fn \notin Nonces PROVE NonceInv'
    BY <2>2 DEF NonceInv, Tells
  <2>3. ASSUME NEW q \in CacheQueries, PartitionHit(q) PROVE NonceInv'
    <3>1. q.fn \notin Nonces
      BY <2>3 DEF PartitionHit, Enumerated, ByPartition, Nonces
    <3>2. cnonce' = cnonce /\ cstore' = cstore /\ canswer'.query = q
      BY <2>3 DEF PartitionHit, Replied
    <3>3. QED
      BY <2>2, <3>1, <3>2
  <2>4. ASSUME NEW q \in CacheQueries, RunMemo(q) PROVE NonceInv'
    <3>1. q.fn \notin Nonces
      BY <2>4 DEF RunMemo, Memoized, Nonces
    <3>2. cnonce' = cnonce /\ cstore' = cstore /\ canswer'.query = q
      BY <2>4 DEF RunMemo, Replied
    <3>3. QED
      BY <2>2, <3>1, <3>2
  <2>5. ASSUME NEW q \in CacheQueries, NEW mine, Run(q, mine) PROVE NonceInv'
    BY <2>5, RunTells
  <2>6. CASE CacheTick \/ NextTransaction \/ UNCHANGED cacheVars
    <3>1. cnonce' = cnonce /\ cstore' = cstore /\ canswer' = canswer
      BY <2>6 DEF CacheTick, NextTransaction, cacheVars
    <3>2. QED
      BY <3>1 DEF NonceInv
  <2>7. QED
    BY <2>1, <2>3, <2>4, <2>5, <2>6 DEF CacheNext
<1>3. NonceInv => NonceTellsAMiss
  BY DEF NonceInv, NonceTellsAMiss, Tells, NoncesOf
<1>4. QED
  BY <1>1, <1>2, <1>3, PTL DEF CacheSpec


-----------------------------------------------------------------------------
(* ScalarCalls: the listing                                                *)

\* The list p is in the list s, after the first o of it.
Inside(s, o, p) == \A k \in 1..Len(p) : o + k \in 1..Len(s) /\ s[o + k] = p[k]

\* What a list is put together from stays where it is.
LEMMA Extended ==
  ASSUME NEW S, NEW s \in Seq(S), NEW t \in Seq(S)
  PROVE  /\ s \o t \in Seq(S) /\ Len(s \o t) = Len(s) + Len(t)
         /\ \A o \in Nat : \A p : Inside(s, o, p) => Inside(s \o t, o, p)
         /\ Inside(s \o t, Len(s), t)
<1>1. /\ s \o t \in Seq(S) /\ Len(s \o t) = Len(s) + Len(t)
      /\ \A k \in 1..Len(s) : (s \o t)[k] = s[k]
      /\ \A k \in 1..Len(t) : (s \o t)[Len(s) + k] = t[k]
      /\ Len(s) \in Nat /\ Len(t) \in Nat
  OBVIOUS
<1> DEFINE u == s \o t
<1>2. Len(u) = Len(s) + Len(t) /\ (\A k \in 1..Len(s) : u[k] = s[k])
      /\ \A k \in 1..Len(t) : u[Len(s) + k] = t[k]
  BY <1>1
<1> HIDE DEF u
<1>3. \A o \in Nat : \A p : Inside(s, o, p) => Inside(u, o, p)
  BY <1>1, <1>2 DEF Inside
<1>4. Inside(u, Len(s), t)
  BY <1>1, <1>2 DEF Inside
<1>5. QED
  BY <1>1, <1>3, <1>4 DEF u

\* Every part is a list.
LEMMA PartLists ==
  /\ ArithmeticFunctions \in Seq(Range(ArithmeticFunctions)) /\ Len(ArithmeticFunctions) = 5
  /\ StringFunctions \in Seq(Range(StringFunctions)) /\ Len(StringFunctions) = 7
  /\ SeededFunctions \in Seq(Range(SeededFunctions)) /\ Len(SeededFunctions) = 7
  /\ GeoFunctions \in Seq(Range(GeoFunctions)) /\ Len(GeoFunctions) = 6
  /\ TypeFunctions \in Seq(Range(TypeFunctions)) /\ Len(TypeFunctions) = 10
  /\ SameNameFunctions \in Seq(Range(SameNameFunctions)) /\ Len(SameNameFunctions) = 2
  /\ SettingsFunctions \in Seq(Range(SettingsFunctions)) /\ Len(SettingsFunctions) = 2
  /\ FormatFunctions \in Seq(Range(FormatFunctions)) /\ Len(FormatFunctions) = 5
  /\ SecretFunctions \in Seq(Range(SecretFunctions)) /\ Len(SecretFunctions) = 6
  /\ CachedFunctions \in Seq(Range(CachedFunctions)) /\ Len(CachedFunctions) = 1
<1>1. ArithmeticFunctions \in Seq(Range(ArithmeticFunctions)) /\ Len(ArithmeticFunctions) = 5
  <2>1. \E x1, x2, x3, x4, x5 : ArithmeticFunctions = <<x1, x2, x3, x4, x5>>
    BY DEF ArithmeticFunctions
  <2>2. PICK x1, x2, x3, x4, x5 : ArithmeticFunctions = <<x1, x2, x3, x4, x5>>
    BY <2>1
  <2>3. QED
    BY <2>2 DEF Range
<1>2. StringFunctions \in Seq(Range(StringFunctions)) /\ Len(StringFunctions) = 7
  <2>1. \E x1, x2, x3, x4, x5, x6, x7 : StringFunctions = <<x1, x2, x3, x4, x5, x6, x7>>
    BY DEF StringFunctions
  <2>2. PICK x1, x2, x3, x4, x5, x6, x7 : StringFunctions = <<x1, x2, x3, x4, x5, x6, x7>>
    BY <2>1
  <2>3. QED
    BY <2>2 DEF Range
<1>3. SeededFunctions \in Seq(Range(SeededFunctions)) /\ Len(SeededFunctions) = 7
  <2>1. \E x1, x2, x3, x4, x5, x6, x7 : SeededFunctions = <<x1, x2, x3, x4, x5, x6, x7>>
    BY DEF SeededFunctions
  <2>2. PICK x1, x2, x3, x4, x5, x6, x7 : SeededFunctions = <<x1, x2, x3, x4, x5, x6, x7>>
    BY <2>1
  <2>3. QED
    BY <2>2 DEF Range
<1>4. GeoFunctions \in Seq(Range(GeoFunctions)) /\ Len(GeoFunctions) = 6
  <2>1. \E x1, x2, x3, x4, x5, x6 : GeoFunctions = <<x1, x2, x3, x4, x5, x6>>
    BY DEF GeoFunctions
  <2>2. PICK x1, x2, x3, x4, x5, x6 : GeoFunctions = <<x1, x2, x3, x4, x5, x6>>
    BY <2>1
  <2>3. QED
    BY <2>2 DEF Range
<1>5. TypeFunctions \in Seq(Range(TypeFunctions)) /\ Len(TypeFunctions) = 10
  <2>1. \E x1, x2, x3, x4, x5, x6, x7, x8, x9, x10 : TypeFunctions = <<x1, x2, x3, x4, x5, x6, x7, x8, x9, x10>>
    BY DEF TypeFunctions
  <2>2. PICK x1, x2, x3, x4, x5, x6, x7, x8, x9, x10 : TypeFunctions = <<x1, x2, x3, x4, x5, x6, x7, x8, x9, x10>>
    BY <2>1
  <2>3. QED
    BY <2>2 DEF Range
<1>6. SameNameFunctions \in Seq(Range(SameNameFunctions)) /\ Len(SameNameFunctions) = 2
  BY DEF SameNameFunctions, Range
<1>7. SettingsFunctions \in Seq(Range(SettingsFunctions)) /\ Len(SettingsFunctions) = 2
  <2>1. \E x1, x2 : SettingsFunctions = <<x1, x2>>
    BY DEF SettingsFunctions
  <2>2. PICK x1, x2 : SettingsFunctions = <<x1, x2>>
    BY <2>1
  <2>3. QED
    BY <2>2 DEF Range
<1>8. FormatFunctions \in Seq(Range(FormatFunctions)) /\ Len(FormatFunctions) = 5
  <2>1. \E x1, x2, x3, x4, x5 : FormatFunctions = <<x1, x2, x3, x4, x5>>
    BY DEF FormatFunctions
  <2>2. PICK x1, x2, x3, x4, x5 : FormatFunctions = <<x1, x2, x3, x4, x5>>
    BY <2>1
  <2>3. QED
    BY <2>2 DEF Range
<1>9. SecretFunctions \in Seq(Range(SecretFunctions)) /\ Len(SecretFunctions) = 6
  <2>1. \E x1, x2, x3, x4, x5, x6 : SecretFunctions = <<x1, x2, x3, x4, x5, x6>>
    BY DEF SecretFunctions
  <2>2. PICK x1, x2, x3, x4, x5, x6 : SecretFunctions = <<x1, x2, x3, x4, x5, x6>>
    BY <2>1
  <2>3. QED
    BY <2>2 DEF Range
<1>10. CachedFunctions \in Seq(Range(CachedFunctions)) /\ Len(CachedFunctions) = 1
  <2>1. \E x1 : CachedFunctions = <<x1>>
    BY DEF CachedFunctions
  <2>2. PICK x1 : CachedFunctions = <<x1>>
    BY <2>1
  <2>3. QED
    BY <2>2 DEF Range
<1>11. QED
  BY <1>1, <1>2, <1>3, <1>4, <1>5, <1>6, <1>7, <1>8, <1>9, <1>10

\* Where each of them starts in the listing.
LEMMA PartPlaces ==
  /\ DOMAIN Scalars = 1..51
  /\ Inside(Scalars, 0, ArithmeticFunctions)
  /\ Inside(Scalars, 5, StringFunctions)
  /\ Inside(Scalars, 12, SeededFunctions)
  /\ Inside(Scalars, 19, GeoFunctions)
  /\ Inside(Scalars, 25, TypeFunctions)
  /\ Inside(Scalars, 35, SameNameFunctions)
  /\ Inside(Scalars, 37, SettingsFunctions)
  /\ Inside(Scalars, 39, FormatFunctions)
  /\ Inside(Scalars, 44, SecretFunctions)
  /\ Inside(Scalars, 50, CachedFunctions)
<1> DEFINE S == Range(ArithmeticFunctions)
                \cup Range(StringFunctions)
                \cup Range(SeededFunctions)
                \cup Range(GeoFunctions)
                \cup Range(TypeFunctions)
                \cup Range(SameNameFunctions)
                \cup Range(SettingsFunctions)
                \cup Range(FormatFunctions)
                \cup Range(SecretFunctions)
                \cup Range(CachedFunctions)
<1>1. /\ ArithmeticFunctions \in Seq(S) /\ Len(ArithmeticFunctions) = 5
      /\ StringFunctions \in Seq(S) /\ Len(StringFunctions) = 7
      /\ SeededFunctions \in Seq(S) /\ Len(SeededFunctions) = 7
      /\ GeoFunctions \in Seq(S) /\ Len(GeoFunctions) = 6
      /\ TypeFunctions \in Seq(S) /\ Len(TypeFunctions) = 10
      /\ SameNameFunctions \in Seq(S) /\ Len(SameNameFunctions) = 2
      /\ SettingsFunctions \in Seq(S) /\ Len(SettingsFunctions) = 2
      /\ FormatFunctions \in Seq(S) /\ Len(FormatFunctions) = 5
      /\ SecretFunctions \in Seq(S) /\ Len(SecretFunctions) = 6
      /\ CachedFunctions \in Seq(S) /\ Len(CachedFunctions) = 1
  <2>1. \A p : p \in Seq(Range(p)) /\ Range(p) \subseteq S => p \in Seq(S)
    OBVIOUS
  <2>2. QED
    BY <2>1, PartLists
<1> HIDE DEF S
<1> DEFINE s1 == ArithmeticFunctions
           s2 == s1 \o StringFunctions
           s3 == s2 \o SeededFunctions
           s4 == s3 \o GeoFunctions
           s5 == s4 \o TypeFunctions
           s6 == s5 \o SameNameFunctions
           s7 == s6 \o SettingsFunctions
           s8 == s7 \o FormatFunctions
           s9 == s8 \o SecretFunctions
           s10 == s9 \o CachedFunctions
<1>2. s1 \in Seq(S) /\ Len(s1) = 5 /\ Inside(s1, 0, ArithmeticFunctions)
  BY <1>1 DEF Inside
<1> HIDE DEF s1
<1> HIDE DEF s2, s3, s4, s5, s6, s7, s8, s9, s10
<1>3.
      /\ s2 \in Seq(S) /\ Len(s2) = 12
      /\ Inside(s2, 0, ArithmeticFunctions)
      /\ Inside(s2, 5, StringFunctions)
  <2>1. /\ s2 \in Seq(S) /\ Len(s2) = Len(s1) + Len(StringFunctions)
        /\ \A o \in Nat : \A p : Inside(s1, o, p) => Inside(s2, o, p)
        /\ Inside(s2, Len(s1), StringFunctions)
    BY <1>1, <1>2, Extended DEF s2
  <2>2. QED
    BY <1>1, <1>2, <2>1
<1>4.
      /\ s3 \in Seq(S) /\ Len(s3) = 19
      /\ Inside(s3, 0, ArithmeticFunctions)
      /\ Inside(s3, 5, StringFunctions)
      /\ Inside(s3, 12, SeededFunctions)
  <2>1. /\ s3 \in Seq(S) /\ Len(s3) = Len(s2) + Len(SeededFunctions)
        /\ \A o \in Nat : \A p : Inside(s2, o, p) => Inside(s3, o, p)
        /\ Inside(s3, Len(s2), SeededFunctions)
    BY <1>1, <1>3, Extended DEF s3
  <2>2. QED
    BY <1>1, <1>3, <2>1
<1>5.
      /\ s4 \in Seq(S) /\ Len(s4) = 25
      /\ Inside(s4, 0, ArithmeticFunctions)
      /\ Inside(s4, 5, StringFunctions)
      /\ Inside(s4, 12, SeededFunctions)
      /\ Inside(s4, 19, GeoFunctions)
  <2>1. /\ s4 \in Seq(S) /\ Len(s4) = Len(s3) + Len(GeoFunctions)
        /\ \A o \in Nat : \A p : Inside(s3, o, p) => Inside(s4, o, p)
        /\ Inside(s4, Len(s3), GeoFunctions)
    BY <1>1, <1>4, Extended DEF s4
  <2>2. QED
    BY <1>1, <1>4, <2>1
<1>6.
      /\ s5 \in Seq(S) /\ Len(s5) = 35
      /\ Inside(s5, 0, ArithmeticFunctions)
      /\ Inside(s5, 5, StringFunctions)
      /\ Inside(s5, 12, SeededFunctions)
      /\ Inside(s5, 19, GeoFunctions)
      /\ Inside(s5, 25, TypeFunctions)
  <2>1. /\ s5 \in Seq(S) /\ Len(s5) = Len(s4) + Len(TypeFunctions)
        /\ \A o \in Nat : \A p : Inside(s4, o, p) => Inside(s5, o, p)
        /\ Inside(s5, Len(s4), TypeFunctions)
    BY <1>1, <1>5, Extended DEF s5
  <2>2. QED
    BY <1>1, <1>5, <2>1
<1>7.
      /\ s6 \in Seq(S) /\ Len(s6) = 37
      /\ Inside(s6, 0, ArithmeticFunctions)
      /\ Inside(s6, 5, StringFunctions)
      /\ Inside(s6, 12, SeededFunctions)
      /\ Inside(s6, 19, GeoFunctions)
      /\ Inside(s6, 25, TypeFunctions)
      /\ Inside(s6, 35, SameNameFunctions)
  <2>1. /\ s6 \in Seq(S) /\ Len(s6) = Len(s5) + Len(SameNameFunctions)
        /\ \A o \in Nat : \A p : Inside(s5, o, p) => Inside(s6, o, p)
        /\ Inside(s6, Len(s5), SameNameFunctions)
    BY <1>1, <1>6, Extended DEF s6
  <2>2. QED
    BY <1>1, <1>6, <2>1
<1>8.
      /\ s7 \in Seq(S) /\ Len(s7) = 39
      /\ Inside(s7, 0, ArithmeticFunctions)
      /\ Inside(s7, 5, StringFunctions)
      /\ Inside(s7, 12, SeededFunctions)
      /\ Inside(s7, 19, GeoFunctions)
      /\ Inside(s7, 25, TypeFunctions)
      /\ Inside(s7, 35, SameNameFunctions)
      /\ Inside(s7, 37, SettingsFunctions)
  <2>1. /\ s7 \in Seq(S) /\ Len(s7) = Len(s6) + Len(SettingsFunctions)
        /\ \A o \in Nat : \A p : Inside(s6, o, p) => Inside(s7, o, p)
        /\ Inside(s7, Len(s6), SettingsFunctions)
    BY <1>1, <1>7, Extended DEF s7
  <2>2. QED
    BY <1>1, <1>7, <2>1
<1>9.
      /\ s8 \in Seq(S) /\ Len(s8) = 44
      /\ Inside(s8, 0, ArithmeticFunctions)
      /\ Inside(s8, 5, StringFunctions)
      /\ Inside(s8, 12, SeededFunctions)
      /\ Inside(s8, 19, GeoFunctions)
      /\ Inside(s8, 25, TypeFunctions)
      /\ Inside(s8, 35, SameNameFunctions)
      /\ Inside(s8, 37, SettingsFunctions)
      /\ Inside(s8, 39, FormatFunctions)
  <2>1. /\ s8 \in Seq(S) /\ Len(s8) = Len(s7) + Len(FormatFunctions)
        /\ \A o \in Nat : \A p : Inside(s7, o, p) => Inside(s8, o, p)
        /\ Inside(s8, Len(s7), FormatFunctions)
    BY <1>1, <1>8, Extended DEF s8
  <2>2. QED
    BY <1>1, <1>8, <2>1
<1>10.
      /\ s9 \in Seq(S) /\ Len(s9) = 50
      /\ Inside(s9, 0, ArithmeticFunctions)
      /\ Inside(s9, 5, StringFunctions)
      /\ Inside(s9, 12, SeededFunctions)
      /\ Inside(s9, 19, GeoFunctions)
      /\ Inside(s9, 25, TypeFunctions)
      /\ Inside(s9, 35, SameNameFunctions)
      /\ Inside(s9, 37, SettingsFunctions)
      /\ Inside(s9, 39, FormatFunctions)
      /\ Inside(s9, 44, SecretFunctions)
  <2>1. /\ s9 \in Seq(S) /\ Len(s9) = Len(s8) + Len(SecretFunctions)
        /\ \A o \in Nat : \A p : Inside(s8, o, p) => Inside(s9, o, p)
        /\ Inside(s9, Len(s8), SecretFunctions)
    BY <1>1, <1>9, Extended DEF s9
  <2>2. QED
    BY <1>1, <1>9, <2>1
<1>11.
      /\ s10 \in Seq(S) /\ Len(s10) = 51
      /\ Inside(s10, 0, ArithmeticFunctions)
      /\ Inside(s10, 5, StringFunctions)
      /\ Inside(s10, 12, SeededFunctions)
      /\ Inside(s10, 19, GeoFunctions)
      /\ Inside(s10, 25, TypeFunctions)
      /\ Inside(s10, 35, SameNameFunctions)
      /\ Inside(s10, 37, SettingsFunctions)
      /\ Inside(s10, 39, FormatFunctions)
      /\ Inside(s10, 44, SecretFunctions)
      /\ Inside(s10, 50, CachedFunctions)
  <2>1. /\ s10 \in Seq(S) /\ Len(s10) = Len(s9) + Len(CachedFunctions)
        /\ \A o \in Nat : \A p : Inside(s9, o, p) => Inside(s10, o, p)
        /\ Inside(s10, Len(s9), CachedFunctions)
    BY <1>1, <1>10, Extended DEF s10
  <2>2. QED
    BY <1>1, <1>10, <2>1
<1>12. Scalars = s10
  BY DEF Scalars, s1, s2, s3, s4, s5, s6, s7, s8, s9, s10
<1>13. DOMAIN s10 = 1..51
  BY <1>11
<1>14. QED
  BY <1>11, <1>12, <1>13


\* The names in the listing.
ListedName ==
  <<"double", "add_values", "argument_names_probe", "multiply", "sum_values",
    "concat_values", "upper_case", "passthru", "sha256_hex", "hash_rounds",
    "collatz_steps", "concat_values", "null_handling", "conditional_message",
    "hash_seed", "query_seed", "bernoulli", "random_int", "random_bytes",
    "geo_distance_struct", "geo_centroid_struct", "geo_distance_list",
    "geo_centroid_list", "geo_distance_fixed", "geo_centroid_fixed", "type_info",
    "type_info", "type_info", "type_info", "type_info", "pair_type", "pair_type",
    "pair_type", "any_mixed", "any_mixed", "test_same_name_bind",
    "test_same_name_bind", "multiply_by_setting", "scale_by_setting", "format_number",
    "format_number", "format_number", "smart_format", "smart_format",
    "return_secret_value", "secret_field", "global_scalar", "whoami", "binary_packet",
    "unnest_tensor", "cached_label">>

\* They are the names of the functions, by their numbers.
LEMMA ListedNames ==
  \A m \in 1..51 : Scalars[m].name = ListedName[m]
<1>1. \A k \in 1..5 : ArithmeticFunctions[k].name = ListedName[0 + k]
  <2>1.
        /\ ArithmeticFunctions[1].name = "double"
        /\ ArithmeticFunctions[2].name = "add_values"
        /\ ArithmeticFunctions[3].name = "argument_names_probe"
        /\ ArithmeticFunctions[4].name = "multiply"
        /\ ArithmeticFunctions[5].name = "sum_values"
    BY DEF ArithmeticFunctions, Scalar
  <2>2.
        /\ ListedName[1] = "double"
        /\ ListedName[2] = "add_values"
        /\ ListedName[3] = "argument_names_probe"
        /\ ListedName[4] = "multiply"
        /\ ListedName[5] = "sum_values"
    BY DEF ListedName
  <2>3. QED
    BY <2>1, <2>2
<1>2. \A k \in 1..7 : StringFunctions[k].name = ListedName[5 + k]
  <2>1.
        /\ StringFunctions[1].name = "concat_values"
        /\ StringFunctions[2].name = "upper_case"
        /\ StringFunctions[3].name = "passthru"
        /\ StringFunctions[4].name = "sha256_hex"
        /\ StringFunctions[5].name = "hash_rounds"
        /\ StringFunctions[6].name = "collatz_steps"
        /\ StringFunctions[7].name = "concat_values"
    BY DEF StringFunctions, Scalar
  <2>2.
        /\ ListedName[6] = "concat_values"
        /\ ListedName[7] = "upper_case"
        /\ ListedName[8] = "passthru"
        /\ ListedName[9] = "sha256_hex"
        /\ ListedName[10] = "hash_rounds"
        /\ ListedName[11] = "collatz_steps"
        /\ ListedName[12] = "concat_values"
    BY DEF ListedName
  <2>3. QED
    BY <2>1, <2>2
<1>3. \A k \in 1..7 : SeededFunctions[k].name = ListedName[12 + k]
  <2>1.
        /\ SeededFunctions[1].name = "null_handling"
        /\ SeededFunctions[2].name = "conditional_message"
        /\ SeededFunctions[3].name = "hash_seed"
        /\ SeededFunctions[4].name = "query_seed"
        /\ SeededFunctions[5].name = "bernoulli"
        /\ SeededFunctions[6].name = "random_int"
        /\ SeededFunctions[7].name = "random_bytes"
    BY DEF SeededFunctions, Scalar
  <2>2.
        /\ ListedName[13] = "null_handling"
        /\ ListedName[14] = "conditional_message"
        /\ ListedName[15] = "hash_seed"
        /\ ListedName[16] = "query_seed"
        /\ ListedName[17] = "bernoulli"
        /\ ListedName[18] = "random_int"
        /\ ListedName[19] = "random_bytes"
    BY DEF ListedName
  <2>3. QED
    BY <2>1, <2>2
<1>4. \A k \in 1..6 : GeoFunctions[k].name = ListedName[19 + k]
  <2>1.
        /\ GeoFunctions[1].name = "geo_distance_struct"
        /\ GeoFunctions[2].name = "geo_centroid_struct"
        /\ GeoFunctions[3].name = "geo_distance_list"
        /\ GeoFunctions[4].name = "geo_centroid_list"
        /\ GeoFunctions[5].name = "geo_distance_fixed"
        /\ GeoFunctions[6].name = "geo_centroid_fixed"
    BY DEF GeoFunctions, DistanceOf, CentroidOf, Scalar
  <2>2.
        /\ ListedName[20] = "geo_distance_struct"
        /\ ListedName[21] = "geo_centroid_struct"
        /\ ListedName[22] = "geo_distance_list"
        /\ ListedName[23] = "geo_centroid_list"
        /\ ListedName[24] = "geo_distance_fixed"
        /\ ListedName[25] = "geo_centroid_fixed"
    BY DEF ListedName
  <2>3. QED
    BY <2>1, <2>2
<1>5. \A k \in 1..10 : TypeFunctions[k].name = ListedName[25 + k]
  <2>1.
        /\ TypeFunctions[1].name = "type_info"
        /\ TypeFunctions[2].name = "type_info"
        /\ TypeFunctions[3].name = "type_info"
        /\ TypeFunctions[4].name = "type_info"
        /\ TypeFunctions[5].name = "type_info"
        /\ TypeFunctions[6].name = "pair_type"
        /\ TypeFunctions[7].name = "pair_type"
        /\ TypeFunctions[8].name = "pair_type"
        /\ TypeFunctions[9].name = "any_mixed"
        /\ TypeFunctions[10].name = "any_mixed"
    BY DEF TypeFunctions, TypeInfoOf, PairTypeOf, AnyMixedOf, Scalar
  <2>2.
        /\ ListedName[26] = "type_info"
        /\ ListedName[27] = "type_info"
        /\ ListedName[28] = "type_info"
        /\ ListedName[29] = "type_info"
        /\ ListedName[30] = "type_info"
        /\ ListedName[31] = "pair_type"
        /\ ListedName[32] = "pair_type"
        /\ ListedName[33] = "pair_type"
        /\ ListedName[34] = "any_mixed"
        /\ ListedName[35] = "any_mixed"
    BY DEF ListedName
  <2>3. QED
    BY <2>1, <2>2
<1>6. \A k \in 1..2 : SameNameFunctions[k].name = ListedName[35 + k]
  <2>1.
        /\ SameNameFunctions[1].name = "test_same_name_bind"
        /\ SameNameFunctions[2].name = "test_same_name_bind"
    <3> DEFINE f == Scalar("test_same_name_bind", "", <<ColumnSpec(0, TInt64)>>, TText)
               g(x) == [f EXCEPT !.schema = x]
    <3>1. \A x : g(x).name = "test_same_name_bind" /\ g(x).schema = x
      BY DEF Scalar
    <3> HIDE DEF g
    <3>2. SameNameFunctions = [k \in 1..2 |-> g(<<"main", "data">>[k])]
      BY DEF SameNameFunctions, g
    <3>3. QED
      BY <3>1, <3>2
  <2>2.
        /\ ListedName[36] = "test_same_name_bind"
        /\ ListedName[37] = "test_same_name_bind"
    BY DEF ListedName
  <2>3. QED
    BY <2>1, <2>2
<1>7. \A k \in 1..2 : SettingsFunctions[k].name = ListedName[37 + k]
  <2>1.
        /\ SettingsFunctions[1].name = "multiply_by_setting"
        /\ SettingsFunctions[2].name = "scale_by_setting"
    BY DEF SettingsFunctions, Scalar
  <2>2.
        /\ ListedName[38] = "multiply_by_setting"
        /\ ListedName[39] = "scale_by_setting"
    BY DEF ListedName
  <2>3. QED
    BY <2>1, <2>2
<1>8. \A k \in 1..5 : FormatFunctions[k].name = ListedName[39 + k]
  <2>1.
        /\ FormatFunctions[1].name = "format_number"
        /\ FormatFunctions[2].name = "format_number"
        /\ FormatFunctions[3].name = "format_number"
        /\ FormatFunctions[4].name = "smart_format"
        /\ FormatFunctions[5].name = "smart_format"
    BY DEF FormatFunctions, Scalar
  <2>2.
        /\ ListedName[40] = "format_number"
        /\ ListedName[41] = "format_number"
        /\ ListedName[42] = "format_number"
        /\ ListedName[43] = "smart_format"
        /\ ListedName[44] = "smart_format"
    BY DEF ListedName
  <2>3. QED
    BY <2>1, <2>2
<1>9. \A k \in 1..6 : SecretFunctions[k].name = ListedName[44 + k]
  <2>1.
        /\ SecretFunctions[1].name = "return_secret_value"
        /\ SecretFunctions[2].name = "secret_field"
        /\ SecretFunctions[3].name = "global_scalar"
        /\ SecretFunctions[4].name = "whoami"
        /\ SecretFunctions[5].name = "binary_packet"
        /\ SecretFunctions[6].name = "unnest_tensor"
    BY DEF SecretFunctions, Scalar
  <2>2.
        /\ ListedName[45] = "return_secret_value"
        /\ ListedName[46] = "secret_field"
        /\ ListedName[47] = "global_scalar"
        /\ ListedName[48] = "whoami"
        /\ ListedName[49] = "binary_packet"
        /\ ListedName[50] = "unnest_tensor"
    BY DEF ListedName
  <2>3. QED
    BY <2>1, <2>2
<1>10. \A k \in 1..1 : CachedFunctions[k].name = ListedName[50 + k]
  <2>1.
        /\ CachedFunctions[1].name = "cached_label"
    BY DEF CachedFunctions, Scalar
  <2>2.
        /\ ListedName[51] = "cached_label"
    BY DEF ListedName
  <2>3. QED
    BY <2>1, <2>2
<1>11. QED
  <2> TAKE m \in 1..51
  <2>1. CASE m \in 1..5
    <3>1. m - 0 \in 1..5 /\ 0 + (m - 0) = m
      BY <2>1
    <3>2. Scalars[0 + (m - 0)] = ArithmeticFunctions[m - 0]
      BY <3>1, PartLists, PartPlaces DEF Inside
    <3>3. QED
      BY <1>1, <3>1, <3>2
  <2>2. CASE m \in 6..12
    <3>1. m - 5 \in 1..7 /\ 5 + (m - 5) = m
      BY <2>2
    <3>2. Scalars[5 + (m - 5)] = StringFunctions[m - 5]
      BY <3>1, PartLists, PartPlaces DEF Inside
    <3>3. QED
      BY <1>2, <3>1, <3>2
  <2>3. CASE m \in 13..19
    <3>1. m - 12 \in 1..7 /\ 12 + (m - 12) = m
      BY <2>3
    <3>2. Scalars[12 + (m - 12)] = SeededFunctions[m - 12]
      BY <3>1, PartLists, PartPlaces DEF Inside
    <3>3. QED
      BY <1>3, <3>1, <3>2
  <2>4. CASE m \in 20..25
    <3>1. m - 19 \in 1..6 /\ 19 + (m - 19) = m
      BY <2>4
    <3>2. Scalars[19 + (m - 19)] = GeoFunctions[m - 19]
      BY <3>1, PartLists, PartPlaces DEF Inside
    <3>3. QED
      BY <1>4, <3>1, <3>2
  <2>5. CASE m \in 26..35
    <3>1. m - 25 \in 1..10 /\ 25 + (m - 25) = m
      BY <2>5
    <3>2. Scalars[25 + (m - 25)] = TypeFunctions[m - 25]
      BY <3>1, PartLists, PartPlaces DEF Inside
    <3>3. QED
      BY <1>5, <3>1, <3>2
  <2>6. CASE m \in 36..37
    <3>1. m - 35 \in 1..2 /\ 35 + (m - 35) = m
      BY <2>6
    <3>2. Scalars[35 + (m - 35)] = SameNameFunctions[m - 35]
      BY <3>1, PartLists, PartPlaces DEF Inside
    <3>3. QED
      BY <1>6, <3>1, <3>2
  <2>7. CASE m \in 38..39
    <3>1. m - 37 \in 1..2 /\ 37 + (m - 37) = m
      BY <2>7
    <3>2. Scalars[37 + (m - 37)] = SettingsFunctions[m - 37]
      BY <3>1, PartLists, PartPlaces DEF Inside
    <3>3. QED
      BY <1>7, <3>1, <3>2
  <2>8. CASE m \in 40..44
    <3>1. m - 39 \in 1..5 /\ 39 + (m - 39) = m
      BY <2>8
    <3>2. Scalars[39 + (m - 39)] = FormatFunctions[m - 39]
      BY <3>1, PartLists, PartPlaces DEF Inside
    <3>3. QED
      BY <1>8, <3>1, <3>2
  <2>9. CASE m \in 45..50
    <3>1. m - 44 \in 1..6 /\ 44 + (m - 44) = m
      BY <2>9
    <3>2. Scalars[44 + (m - 44)] = SecretFunctions[m - 44]
      BY <3>1, PartLists, PartPlaces DEF Inside
    <3>3. QED
      BY <1>9, <3>1, <3>2
  <2>10. CASE m \in 51..51
    <3>1. m - 50 \in 1..1 /\ 50 + (m - 50) = m
      BY <2>10
    <3>2. Scalars[50 + (m - 50)] = CachedFunctions[m - 50]
      BY <3>1, PartLists, PartPlaces DEF Inside
    <3>3. QED
      BY <1>10, <3>1, <3>2
  <2>11. QED
    BY <2>1, <2>2, <2>3, <2>4, <2>5, <2>6, <2>7, <2>8, <2>9, <2>10


\* The overloads of one name.
Overloads == {{6, 12}, 26..30, 31..33, 34..35, 36..37, 40..42, 43..44}

\* Two functions of one name are among them.
LEMMA NamesDiffer ==
  ASSUME NEW m \in 1..51, NEW n \in 1..51, m < n, Scalars[m].name = Scalars[n].name
  PROVE  \E g \in Overloads : m \in g /\ n \in g
<1>1. ListedName[m] = ListedName[n]
  BY ListedNames
<1>2. \/ m \in {6, 12} /\ n \in {6, 12}
      \/ m \in 26..30 /\ n \in 26..30
      \/ m \in 31..33 /\ n \in 31..33
      \/ m \in 34..35 /\ n \in 34..35
      \/ m \in 36..37 /\ n \in 36..37
      \/ m \in 40..42 /\ n \in 40..42
      \/ m \in 43..44 /\ n \in 43..44
  BY <1>1 DEF ListedName
<1>3. QED
  BY <1>2 DEF Overloads


-----------------------------------------------------------------------------
(* ScalarCalls: the choice among overloads                                 *)

\* How many numbers there are from a to b.
LEMMA FromTo ==
  ASSUME NEW a \in Int, NEW b \in Int, a <= b + 1 PROVE Cardinality(a..b) = b - a + 1
BY FS_Interval

\* How many numbers there are up to n.
LEMMA UpTo ==
  ASSUME NEW n \in Nat PROVE IsFiniteSet(1..n) /\ Cardinality(1..n) = n
BY FS_Interval

\* The least of some numbers.
LEMMA LeastOf ==
  ASSUME NEW S \in SUBSET Int, NEW m \in S, \A n \in S : m <= n
  PROVE  Min(S) = m
<1>1. Min(S) \in S /\ \A n \in S : Min(S) <= n
  BY DEF Min
<1>2. Min(S) <= m /\ m <= Min(S)
  BY <1>1
<1> DEFINE x == Min(S)
<1>3. x \in Int /\ m \in Int /\ x <= m /\ m <= x
  BY <1>1, <1>2
<1> HIDE DEF x
<1>4. x = m
  BY <1>3
<1>5. QED
  BY <1>4 DEF x

\* A name without overloads is resolved without a look at the arguments.
LEMMA OnlyCandidate ==
  ASSUME NEW m \in Int, NEW params PROVE resolve_scalar({m}, params) = m
<1>1. Min({m}) = m
  BY LeastOf
<1> DEFINE best == Best({m}, params)
<1>2. best = {} \/ best = {m}
  BY DEF Best
<1> HIDE DEF best
<1>3. QED
  BY <1>1, <1>2 DEF resolve_scalar, best

\* The first of the highest score is chosen.
LEMMA Winner ==
  ASSUME NEW candidates \in SUBSET (1..51), NEW params, NEW m \in candidates,
         score_overload(Scalars[m], params) \in Nat,
         \A n \in candidates : n # m =>
           \/ score_overload(Scalars[n], params) = -1
           \/ /\ score_overload(Scalars[n], params) = score_overload(Scalars[m], params)
              /\ m < n
  PROVE  resolve_scalar(candidates, params) = m
<1> DEFINE Score(n) == score_overload(Scalars[n], params)
           best == Best(candidates, params)
<1>1. Score(m) \in Nat /\ \A n \in candidates : n # m => Score(n) = -1 \/ (Score(n) = Score(m) /\ m < n)
  OBVIOUS
<1>2. best = {x \in candidates : Score(x) >= 0 /\ \A n \in candidates : Score(n) <= Score(x)}
  BY DEF Best
<1>3. resolve_scalar(candidates, params) =
        IF Cardinality(candidates) = 1 \/ best = {} THEN Min(candidates) ELSE Min(best)
  BY DEF resolve_scalar
<1> HIDE DEF Score, best
<1>4. m \in best
  BY <1>1, <1>2
<1>5. \A n \in best : n \in Int /\ m <= n
  BY <1>1, <1>2
<1>6. Min(best) = m
  BY <1>4, <1>5, LeastOf
<1>7. Cardinality(candidates) = 1 => candidates = {m}
  <2>1. IsFiniteSet(candidates)
    <3> DEFINE n == 51
    <3>1. n \in Nat /\ candidates \in SUBSET (1..n)
      OBVIOUS
    <3> HIDE DEF n
    <3>2. QED
      BY <3>1, UpTo, FS_Subset
  <2>2. QED
    BY <2>1, FS_Singleton
<1>8. Cardinality(candidates) = 1 => Min(candidates) = m
  BY <1>7, LeastOf
<1>9. QED
  BY <1>3, <1>4, <1>6, <1>8

\* The parameters for which score_overload compares types.
Typed(f, params) ==
  {k \in DOMAIN f.specs : f.specs[k].type # NoType /\ input_type(params, f.specs[k].index) # NoType}

\* An overload whose types the arguments have, and one of which they have not.
LEMMA ScoreOf ==
  ASSUME NEW f, NEW params
  PROVE  /\ (\A k \in Typed(f, params) : input_type(params, f.specs[k].index) = f.specs[k].type)
              => score_overload(f, params) = Cardinality(Typed(f, params))
         /\ (\E k \in Typed(f, params) : input_type(params, f.specs[k].index) # f.specs[k].type)
              => score_overload(f, params) = -1
BY DEF score_overload, Typed

Picked(f, args, constant) == {k \in DOMAIN args : ParameterOf(f, k).constant = constant}

Slice(args, lo, n) == [j \in 1..n |-> args[lo + j]]

\* A stretch of the arguments, picked in their order.
LEMMA Stretch ==
  ASSUME NEW args, NEW f, NEW constant, NEW lo \in Nat, NEW hi \in Nat, lo <= hi,
         Picked(f, args, constant) = (lo + 1)..hi
  PROVE  ArgumentsOf(f, args, constant) = Slice(args, lo, hi - lo)
<1> DEFINE S == (lo + 1)..hi
           Place(j) == CHOOSE k \in S : Cardinality({i \in S : i < k}) = j - 1
<1>1. Cardinality(S) = hi - lo
  <2> DEFINE a == lo + 1
  <2>1. a \in Int /\ a <= hi + 1 /\ S = a..hi /\ hi - a + 1 = hi - lo
    OBVIOUS
  <2> HIDE DEF a, S
  <2>2. QED
    BY <2>1, FromTo
<1>2. \A k \in S : Cardinality({i \in S : i < k}) = k - lo - 1
  <2> TAKE k \in S
  <2> DEFINE a == lo + 1
             b == k - 1
             below == {i \in S : i < k}
  <2>1. below = a..b
    OBVIOUS
  <2>2. a \in Int /\ b \in Int /\ a <= b + 1 /\ b - a + 1 = k - lo - 1
    OBVIOUS
  <2> HIDE DEF a, b, below
  <2>3. Cardinality(below) = k - lo - 1
    BY <2>1, <2>2, FromTo
  <2>4. QED
    BY <2>3 DEF below
<1>3. \A j \in 1..(hi - lo) : Place(j) = lo + j
  <2> TAKE j \in 1..(hi - lo)
  <2>1. lo + j \in S /\ Cardinality({i \in S : i < lo + j}) = j - 1
    BY <1>2
  <2> DEFINE x == Place(j)
  <2>2. x \in S /\ Cardinality({i \in S : i < x}) = j - 1
    BY <2>1
  <2> HIDE DEF x
  <2>3. x - lo - 1 = j - 1 /\ x \in Int
    BY <1>2, <2>2
  <2>4. x = lo + j
    BY <2>3
  <2>5. QED
    BY <2>4 DEF x
<1>4. ArgumentsOf(f, args, constant) = [j \in 1..Cardinality(S) |-> args[Place(j)]]
  <2> DEFINE chosen == Picked(f, args, constant)
             Chosen(j) == CHOOSE k \in chosen : Cardinality({i \in chosen : i < k}) = j - 1
  <2>1. ArgumentsOf(f, args, constant) = [j \in 1..Cardinality(chosen) |-> args[Chosen(j)]]
    BY DEF ArgumentsOf, Picked
  <2>2. chosen = S
    OBVIOUS
  <2> HIDE DEF chosen, S
  <2>3. \A j : Chosen(j) = Place(j)
    BY <2>2
  <2> HIDE DEF Chosen, Place
  <2>4. QED
    BY <2>1, <2>2, <2>3
<1> HIDE DEF S, Place
<1>5. QED
  BY <1>1, <1>3, <1>4 DEF Slice

\* The first c arguments are the constants.
Leads(f, args, c) ==
  /\ c \in 0..Len(args)
  /\ \A k \in DOMAIN args : /\ k <= c => ParameterOf(f, k).constant = TRUE
                            /\ c < k => ParameterOf(f, k).constant = FALSE

\* The constants of a call lead, and the columns are the rest.
LEMMA Leading ==
  ASSUME NEW args, args \in Seq(Range(args)), NEW f, NEW c, Leads(f, args, c)
  PROVE  /\ ArgumentsOf(f, args, TRUE) = Slice(args, 0, c)
         /\ ArgumentsOf(f, args, FALSE) = Slice(args, c, Len(args) - c)
<1> DEFINE n == Len(args)
<1>1. n \in Nat /\ DOMAIN args = 1..n /\ c \in Nat /\ c <= n
  BY DEF Leads
<1>2. Picked(f, args, TRUE) = 1..c
  BY <1>1 DEF Picked, Leads
<1>3. Picked(f, args, FALSE) = (c + 1)..n
  BY <1>1 DEF Picked, Leads
<1> HIDE DEF n
<1>4. \A constant : Picked(f, args, constant) = 1..c => ArgumentsOf(f, args, constant) = Slice(args, 0, c)
  <2> TAKE constant
  <2> DEFINE lo == 0
  <2>1. lo \in Nat /\ lo <= c /\ 1..c = (lo + 1)..c /\ c - lo = c
    BY <1>1
  <2> HIDE DEF lo
  <2>2. Picked(f, args, constant) = (lo + 1)..c => ArgumentsOf(f, args, constant) = Slice(args, lo, c - lo)
    BY <1>1, <2>1, Stretch
  <2>3. QED
    BY <2>1, <2>2 DEF lo
<1>5. \A constant : Picked(f, args, constant) = (c + 1)..n =>
                      ArgumentsOf(f, args, constant) = Slice(args, c, n - c)
  BY <1>1, Stretch
<1>6. QED
  BY <1>2, <1>3, <1>4, <1>5 DEF n


\* The parameters are columns in the order of the call, and none may be left out.
IsColumns(specs) ==
  /\ Len(specs) \in Nat \ {0} /\ DOMAIN specs = 1..Len(specs)
  /\ \A k \in 1..Len(specs) :
       specs[k].index = k - 1 /\ specs[k].constant = FALSE /\ specs[k].optional = FALSE

\* A call the engine makes.
IsCall(call) ==
  /\ call.args \in Seq(Range(call.args))
  /\ \A k \in DOMAIN call.args : call.args[k].type # NoType

\* What the engine sends of a call whose first c arguments are constants.
LEMMA SentArguments ==
  ASSUME NEW call, IsCall(call), NEW f, f = Scalars[Meant(call)], NEW c, Leads(f, call.args, c)
  PROVE  /\ Len(Positional(call)) = c /\ (Positional(call) = <<>> <=> c = 0)
         /\ \A j \in 1..c : Positional(call)[j].type = call.args[j].type
         /\ Len(InputColumns(call)) = Len(call.args) - c
         /\ \A j \in 1..(Len(call.args) - c) : InputColumns(call)[j].type = call.args[c + j].type
<1> DEFINE args == call.args
           n == Len(args)
<1>1. n \in Nat /\ c \in Nat /\ n - c \in Nat
  BY DEF IsCall, Leads
<1>2. ArgumentsOf(f, args, TRUE) = Slice(args, 0, c) /\ ArgumentsOf(f, args, FALSE) = Slice(args, c, n - c)
  BY Leading DEF IsCall
<1>3. Positional(call) = Constants(Slice(args, 0, c)) /\ InputColumns(call) = Slice(args, c, n - c)
  BY <1>2 DEF Positional, InputColumns, ArgumentsWhere
<1> HIDE DEF args, n
<1>4. /\ DOMAIN Slice(args, 0, c) = 1..c /\ \A j \in 1..c : Slice(args, 0, c)[j] = args[j]
      /\ Len(Slice(args, c, n - c)) = n - c
      /\ \A j \in 1..(n - c) : Slice(args, c, n - c)[j] = args[c + j]
  BY <1>1 DEF Slice
<1> DEFINE s == Slice(args, 0, c)
           t == Constants(s)
           One(j) == [type |-> s[j].type, cell |-> s[j].cells[1], given |-> TRUE]
<1>5. t = [j \in 1..c |-> One(j)]
  BY <1>4 DEF Constants
<1>6. \A j : One(j).type = s[j].type
  OBVIOUS
<1> HIDE DEF s, t, One
<1>7. Len(t) = c /\ t \in Seq(Range(t)) /\ \A j \in 1..c : t[j] = One(j)
  BY <1>1, <1>5 DEF Range
<1>8. t = <<>> <=> c = 0
  <2>1. t = <<>> => c = 0
    BY <1>7
  <2>2. c = 0 => t = <<>>
    BY <1>7, EmptySeq
  <2>3. QED
    BY <2>1, <2>2
<1>9. \A j \in 1..c : t[j].type = args[j].type
  BY <1>4, <1>6, <1>7 DEF s
<1>10. Positional(call) = t
  BY <1>3 DEF t, s
<1>11. Len(Positional(call)) = c /\ (Positional(call) = <<>> <=> c = 0)
  BY <1>7, <1>8, <1>10
<1>12. \A j \in 1..c : Positional(call)[j].type = args[j].type
  BY <1>9, <1>10
<1>13. /\ Len(InputColumns(call)) = n - c
       /\ \A j \in 1..(n - c) : InputColumns(call)[j].type = args[c + j].type
  BY <1>3, <1>4
<1>14. QED
  BY <1>11, <1>12, <1>13 DEF args, n

\* A call without constants has as many arguments as parameters, or more, of the
\* types the parameters have.
LEMMA ColumnCall ==
  ASSUME NEW call, IsCall(call), NEW f, IsColumns(f.specs), Accepts(f, call)
  PROVE  /\ Len(call.args) \in Nat /\ Len(f.specs) <= Len(call.args)
         /\ \A k \in 1..Len(call.args) : ParameterOf(f, k).constant = FALSE
         /\ \A k \in 1..Len(f.specs) : f.specs[k].type \in {NoType, call.args[k].type}
<1>1. Len(call.args) \in Nat
  BY DEF IsCall
<1>2. {k \in DOMAIN f.specs : ~f.specs[k].optional} = 1..Len(f.specs)
  BY DEF IsColumns
<1>3. Cardinality(1..Len(f.specs)) = Len(f.specs) /\ Len(f.specs) \in Nat \ {0}
  BY UpTo DEF IsColumns
<1>4. Len(f.specs) <= Len(call.args)
  BY <1>1, <1>2, <1>3 DEF Accepts
<1>5. \A k \in 1..Len(call.args) : \E l \in 1..Len(f.specs) : ParameterOf(f, k) = f.specs[l]
  BY <1>1, <1>3 DEF ParameterOf
<1>6. \A k \in 1..Len(f.specs) : ParameterOf(f, k) = f.specs[k] /\ k \in 1..Len(call.args)
  BY <1>1, <1>3, <1>4 DEF ParameterOf
<1>7. \A k \in 1..Len(call.args) : ParameterOf(f, k).type \in {NoType, call.args[k].type}
  BY DEF Accepts
<1>8. QED
  BY <1>1, <1>4, <1>5, <1>6, <1>7 DEF IsColumns

\* The types a worker sees of such a call.
LEMMA ColumnTypes ==
  ASSUME NEW call, IsCall(call), NEW f, f = Scalars[Meant(call)], IsColumns(f.specs),
         Accepts(f, call)
  PROVE  \A k \in 1..Len(f.specs) :
           /\ input_type(read_bind_request(call), k - 1) = call.args[k].type
           /\ call.args[k].type # NoType
<1> DEFINE params == read_bind_request(call)
<1>1. /\ Len(call.args) \in Nat /\ Len(f.specs) \in Nat /\ Len(f.specs) <= Len(call.args)
      /\ \A k \in 1..Len(call.args) : ParameterOf(f, k).constant = FALSE
  <2>1. Len(f.specs) \in Nat
    BY DEF IsColumns
  <2> DEFINE Plain == \A k \in 1..Len(call.args) : ParameterOf(f, k).constant = FALSE
  <2>2. Plain /\ Len(call.args) \in Nat /\ Len(f.specs) <= Len(call.args)
    BY ColumnCall
  <2> HIDE DEF Plain
  <2>3. Len(f.specs) \in Nat /\ Plain /\ Len(call.args) \in Nat /\ Len(f.specs) <= Len(call.args)
    BY <2>1, <2>2
  <2>4. QED
    BY <2>3 DEF Plain
<1>2. DOMAIN call.args = 1..Len(call.args)
  BY DEF IsCall
<1> DEFINE c == 0
<1>3. Leads(f, call.args, c)
  BY <1>1, <1>2 DEF Leads
<1> HIDE DEF c
<1>4. /\ Positional(call) = <<>> /\ Len(InputColumns(call)) = Len(call.args)
      /\ \A k \in 1..Len(call.args) : InputColumns(call)[k].type = call.args[k].type
  <2>1. /\ Positional(call) = <<>> <=> c = 0
        /\ Len(InputColumns(call)) = Len(call.args) - c
        /\ \A k \in 1..(Len(call.args) - c) : InputColumns(call)[k].type = call.args[c + k].type
    BY <1>1, <1>2, <1>3, SentArguments
  <2>2. QED
    BY <1>1, <2>1 DEF c
<1>5. params.seated = <<>> /\ params.columns = InputColumns(call)
  BY <1>4 DEF read_bind_request, remap_positional
<1> HIDE DEF params
<1>6. \A k \in 1..Len(f.specs) :
        /\ k \in DOMAIN call.args /\ k - 1 < Len(call.args) /\ ~(k - 1 < 0) /\ (k - 1) + 1 = k
  BY <1>1, <1>2
<1>7. \A k \in 1..Len(f.specs) : input_type(params, k - 1) = call.args[k].type
  BY <1>1, <1>4, <1>5, <1>6 DEF input_type
<1>8. QED
  BY <1>6, <1>7 DEF IsCall, params

\* Of overloads that differ in the type of a column, the one that was called.
LEMMA ColumnOverloads ==
  ASSUME NEW call, IsCall(call), NEW candidates \in SUBSET (1..51), NEW m \in candidates,
         m = Meant(call), IsColumns(Scalars[m].specs), Accepts(Scalars[m], call),
         \A n \in candidates : n # m =>
           \E k \in 1..Len(Scalars[m].specs) :
             /\ k \in DOMAIN Scalars[n].specs /\ Scalars[n].specs[k].index = k - 1
             /\ Scalars[m].specs[k].type # NoType
             /\ Scalars[n].specs[k].type \notin {NoType, Scalars[m].specs[k].type}
  PROVE  resolve_scalar(candidates, read_bind_request(call)) = m
<1> DEFINE f == Scalars[m]
           params == read_bind_request(call)
<1>1. \A k \in 1..Len(f.specs) :
        /\ input_type(params, k - 1) = call.args[k].type /\ call.args[k].type # NoType
        /\ f.specs[k].type \in {NoType, call.args[k].type}
        /\ f.specs[k].index = k - 1
  <2>1. \A k \in 1..Len(f.specs) : f.specs[k].index = k - 1
    BY DEF IsColumns
  <2>2. \A k \in 1..Len(f.specs) : f.specs[k].type \in {NoType, call.args[k].type}
    BY ColumnCall
  <2>3. \A k \in 1..Len(f.specs) : /\ input_type(params, k - 1) = call.args[k].type
                                    /\ call.args[k].type # NoType
    BY ColumnTypes
  <2>4. QED
    BY <2>1, <2>2, <2>3
<1>2. DOMAIN f.specs = 1..Len(f.specs) /\ Len(f.specs) \in Nat
  BY DEF IsColumns
<1> HIDE DEF f, params
<1>3. Typed(f, params) \subseteq 1..Len(f.specs)
  BY <1>2 DEF Typed
<1>4. score_overload(f, params) = Cardinality(Typed(f, params))
  <2>1. \A k \in Typed(f, params) : input_type(params, f.specs[k].index) = f.specs[k].type
    BY <1>1, <1>3 DEF Typed
  <2>2. QED
    BY <2>1, ScoreOf
<1>5. score_overload(f, params) \in Nat
  <2>1. IsFiniteSet(Typed(f, params))
    BY <1>2, <1>3, UpTo, FS_Subset
  <2>2. QED
    BY <1>4, <2>1, FS_CardinalityType
<1>6. ASSUME NEW n \in candidates, n # m PROVE score_overload(Scalars[n], params) = -1
  <2> DEFINE g == Scalars[n]
  <2>1. PICK k \in 1..Len(f.specs) :
          /\ k \in DOMAIN g.specs /\ g.specs[k].index = k - 1
          /\ f.specs[k].type # NoType /\ g.specs[k].type \notin {NoType, f.specs[k].type}
    BY <1>6 DEF f
  <2> HIDE DEF g
  <2>2. k \in Typed(g, params) /\ input_type(params, g.specs[k].index) # g.specs[k].type
    BY <1>1, <2>1 DEF Typed
  <2>3. score_overload(g, params) = -1
    BY <2>2, ScoreOf
  <2>4. QED
    BY <2>3 DEF g
<1>7. resolve_scalar(candidates, params) = m
  <2>1. score_overload(Scalars[m], params) \in Nat
    BY <1>5 DEF f
  <2>2. QED
    BY <1>6, <2>1, Winner
<1>8. QED
  BY <1>7 DEF params


\* The types by which overloads differ.
LEMMA TypesDiffer ==
  /\ TText \notin {NoType, TInt64, TInt(3), TUint(3), TUint(4), TDouble}
  /\ TInt64 \notin {NoType, TInt(3), TUint(3), TUint(4), TDouble}
  /\ TInt(3) \notin {NoType, TUint(3), TUint(4)}
  /\ TUint(3) \notin {NoType, TUint(4)} /\ TUint(4) # NoType /\ TDouble # NoType
  /\ TInt64 # TNull /\ TText # TNull /\ NoType # TNull
<1>1. \A a, b : a[1] # b[1] => a # b
  OBVIOUS
<1>2. TText[1] = "utf8" /\ NoType[1] = "none" /\ TDouble[1] = "float" /\ TNull[1] = "na"
  BY DEF TText, NoType, TDouble, TNull
<1>3. /\ \A k : TInt(k)[1] = "int" /\ TInt(k)[2] = k /\ TInt(k)[3] = TRUE
      /\ \A k : TUint(k)[1] = "int" /\ TUint(k)[2] = k /\ TUint(k)[3] = FALSE
  BY DEF TInt, TUint
<1>4. TInt64 = TInt(4)
  BY DEF TInt64
<1>5. \A k, l : TInt(k) # TUint(l)
  BY <1>3
<1>6. TInt(4) # TInt(3) /\ TUint(4) # TUint(3)
  BY <1>3
<1>7. QED
  BY <1>2, <1>3, <1>4, <1>5, <1>6

\* A parameter list that is one column.
LEMMA OneColumn ==
  ASSUME NEW type, NEW s, s = ColumnSpec(0, type) \/ s = [ColumnSpec(0, type) EXCEPT !.varargs = TRUE]
  PROVE  IsColumns(<<s>>) /\ Len(<<s>>) = 1 /\ <<s>>[1].type = type
<1>1. s.index = 0 /\ s.type = type /\ s.constant = FALSE /\ s.optional = FALSE
  BY DEF ColumnSpec
<1>2. \A k \in 1..1 : k = 1 /\ k - 1 = 0
  OBVIOUS
<1>3. QED
  BY <1>1, <1>2 DEF IsColumns

\* The same of two.
LEMMA TwoColumns ==
  ASSUME NEW a, NEW b, NEW s, NEW t, s = ColumnSpec(0, a), t = ColumnSpec(1, b)
  PROVE  /\ IsColumns(<<s, t>>) /\ Len(<<s, t>>) = 2
         /\ <<s, t>>[1].type = a /\ <<s, t>>[2].type = b
<1>1. /\ s.index = 0 /\ s.type = a /\ s.constant = FALSE /\ s.optional = FALSE
      /\ t.index = 1 /\ t.type = b /\ t.constant = FALSE /\ t.optional = FALSE
  BY DEF ColumnSpec
<1>2. \A k \in 1..2 : k = 1 \/ k = 2
  OBVIOUS
<1>3. QED
  BY <1>1, <1>2 DEF IsColumns

\* The parameters of the overloads that take no constant.
OneOf(m, type) ==
  IsColumns(Scalars[m].specs) /\ Len(Scalars[m].specs) = 1 /\ Scalars[m].specs[1].type = type
TwoOf(m, a, b) ==
  /\ IsColumns(Scalars[m].specs) /\ Len(Scalars[m].specs) = 2
  /\ Scalars[m].specs[1].type = a /\ Scalars[m].specs[2].type = b

\* What the worker lists of them.
LEMMA ColumnListing ==
  /\ OneOf(6, TInt64) /\ OneOf(12, TText)
  /\ OneOf(26, TInt(3)) /\ OneOf(27, TInt64) /\ OneOf(28, TUint(3)) /\ OneOf(29, TUint(4))
  /\ OneOf(30, TText)
  /\ TwoOf(31, TInt64, TInt64) /\ TwoOf(32, TText, TText) /\ TwoOf(33, TInt64, TText)
  /\ TwoOf(34, NoType, TInt64) /\ TwoOf(35, NoType, TText)
<1>1. /\ Scalars[5 + 1] = StringFunctions[1] /\ Scalars[5 + 7] = StringFunctions[7]
      /\ \A k \in 1..10 : Scalars[25 + k] = TypeFunctions[k]
  BY PartLists, PartPlaces DEF Inside
<1>2. /\ Scalars[6].specs = <<[ColumnSpec(0, TInt64) EXCEPT !.varargs = TRUE]>>
      /\ Scalars[12].specs = <<[ColumnSpec(0, TText) EXCEPT !.varargs = TRUE]>>
  <2>1. /\ StringFunctions[1].specs = <<[ColumnSpec(0, TInt64) EXCEPT !.varargs = TRUE]>>
        /\ StringFunctions[7].specs = <<[ColumnSpec(0, TText) EXCEPT !.varargs = TRUE]>>
    BY DEF StringFunctions, Scalar
  <2>2. QED
    BY <1>1, <2>1
<1>3. /\ Scalars[26] = TypeInfoOf(TInt(3)) /\ Scalars[27] = TypeInfoOf(TInt64)
      /\ Scalars[28] = TypeInfoOf(TUint(3)) /\ Scalars[29] = TypeInfoOf(TUint(4))
      /\ Scalars[30] = TypeInfoOf(TText)
      /\ Scalars[31] = PairTypeOf(TInt64, TInt64) /\ Scalars[32] = PairTypeOf(TText, TText)
      /\ Scalars[33] = PairTypeOf(TInt64, TText)
      /\ Scalars[34] = AnyMixedOf(TInt64) /\ Scalars[35] = AnyMixedOf(TText)
  <2>1. /\ TypeFunctions[1] = TypeInfoOf(TInt(3)) /\ TypeFunctions[2] = TypeInfoOf(TInt64)
        /\ TypeFunctions[3] = TypeInfoOf(TUint(3)) /\ TypeFunctions[4] = TypeInfoOf(TUint(4))
        /\ TypeFunctions[5] = TypeInfoOf(TText)
        /\ TypeFunctions[6] = PairTypeOf(TInt64, TInt64) /\ TypeFunctions[7] = PairTypeOf(TText, TText)
        /\ TypeFunctions[8] = PairTypeOf(TInt64, TText)
        /\ TypeFunctions[9] = AnyMixedOf(TInt64) /\ TypeFunctions[10] = AnyMixedOf(TText)
    BY DEF TypeFunctions
  <2>2. QED
    BY <1>1, <2>1
<1>4. /\ \A a : TypeInfoOf(a).specs = <<ColumnSpec(0, a)>>
      /\ \A a, b : PairTypeOf(a, b).specs = <<ColumnSpec(0, a), ColumnSpec(1, b)>>
      /\ \A b : AnyMixedOf(b).specs = <<ColumnSpec(0, NoType), ColumnSpec(1, b)>>
  BY DEF TypeInfoOf, PairTypeOf, AnyMixedOf, Scalar
<1>5. \A m, a : Scalars[m].specs = <<ColumnSpec(0, a)>> => OneOf(m, a)
  <2> TAKE m, a
  <2>1. /\ IsColumns(<<ColumnSpec(0, a)>>) /\ Len(<<ColumnSpec(0, a)>>) = 1
        /\ <<ColumnSpec(0, a)>>[1].type = a
    BY OneColumn
  <2>2. QED
    BY <2>1 DEF OneOf
<1>6. \A m, a, b : Scalars[m].specs = <<ColumnSpec(0, a), ColumnSpec(1, b)>> => TwoOf(m, a, b)
  BY TwoColumns DEF TwoOf
<1>7. OneOf(6, TInt64) /\ OneOf(12, TText)
  BY <1>2, OneColumn DEF OneOf
<1>8. QED
  BY <1>3, <1>4, <1>5, <1>6, <1>7


\* The parameters are in the order of the call, and an argument is given for each.
IsFixed(specs) ==
  /\ Len(specs) \in Nat \ {0} /\ DOMAIN specs = 1..Len(specs)
  /\ \A k \in 1..Len(specs) :
       specs[k].index = k - 1 /\ specs[k].optional = FALSE /\ specs[k].varargs = FALSE

\* The arguments of such a call have the types of its parameters.
LEMMA FixedCall ==
  ASSUME NEW call, IsCall(call), NEW f, IsFixed(f.specs), Accepts(f, call)
  PROVE  /\ Len(call.args) = Len(f.specs) /\ DOMAIN call.args = 1..Len(f.specs)
         /\ \A k \in 1..Len(f.specs) : /\ ParameterOf(f, k) = f.specs[k]
                                       /\ f.specs[k].type \in {NoType, call.args[k].type}
<1>1. Len(call.args) \in Nat /\ DOMAIN call.args = 1..Len(call.args)
  BY DEF IsCall
<1>2. {k \in DOMAIN f.specs : ~f.specs[k].optional} = 1..Len(f.specs)
  BY DEF IsFixed
<1>3. Cardinality(1..Len(f.specs)) = Len(f.specs) /\ Len(f.specs) \in Nat \ {0}
  BY UpTo DEF IsFixed
<1> DEFINE least == Cardinality({k \in DOMAIN f.specs : ~f.specs[k].optional})
           varargs == f.specs # <<>> /\ f.specs[Len(f.specs)].varargs
           n == Len(call.args)
<1>4. least = Len(f.specs) /\ ~varargs
  <2>1. f.specs[Len(f.specs)].varargs = FALSE
    BY <1>3 DEF IsFixed
  <2>2. QED
    BY <1>2, <1>3, <2>1
<1>5. n = Len(f.specs)
  <2>1. n >= least /\ (varargs \/ n <= Len(f.specs))
    BY DEF Accepts
  <2> HIDE DEF n, least, varargs
  <2>2. n \in Nat
    BY <1>1 DEF n
  <2>3. QED
    BY <1>3, <1>4, <2>1, <2>2
<1>6. \A k \in 1..Len(f.specs) : ParameterOf(f, k) = f.specs[k]
  BY <1>3 DEF ParameterOf
<1>7. \A k \in 1..Len(call.args) : ParameterOf(f, k).type \in {NoType, call.args[k].type}
  BY DEF Accepts
<1>8. QED
  BY <1>1, <1>5, <1>6, <1>7

\* A parameter that is a constant or a column, and the list of one, two or three.
ConstantAt(s, i, type) ==
  /\ s.index = i /\ s.type = type /\ s.constant = TRUE
  /\ s.optional = FALSE /\ s.varargs = FALSE
ColumnAt(s, i, type) ==
  /\ s.index = i /\ s.type = type /\ s.constant = FALSE
  /\ s.optional = FALSE /\ s.varargs = FALSE
OneListed(specs, a) == Len(specs) = 1 /\ DOMAIN specs = 1..1 /\ specs[1] = a
TwoListed(specs, a, b) == Len(specs) = 2 /\ DOMAIN specs = 1..2 /\ specs[1] = a /\ specs[2] = b
ThreeListed(specs, a, b, c) ==
  Len(specs) = 3 /\ DOMAIN specs = 1..3 /\ specs[1] = a /\ specs[2] = b /\ specs[3] = c

\* Of a list that is written out.
LEMMA Lists ==
  \A a, b, c : OneListed(<<a>>, a) /\ TwoListed(<<a, b>>, a, b) /\ ThreeListed(<<a, b, c>>, a, b, c)
BY DEF OneListed, TwoListed, ThreeListed

\* The parameters of the overloads that take constants.
LEMMA FormatListing ==
  \E a, b, c, d, e, g, h, i, j, k :
    /\ OneListed(Scalars[40].specs, a) /\ ColumnAt(a, 0, TDouble)
    /\ TwoListed(Scalars[41].specs, b, c) /\ ConstantAt(b, 0, TInt64) /\ ColumnAt(c, 1, TDouble)
    /\ ThreeListed(Scalars[42].specs, d, e, g) /\ ConstantAt(d, 0, TInt64)
    /\ ConstantAt(e, 1, TText) /\ ColumnAt(g, 2, TDouble)
    /\ TwoListed(Scalars[43].specs, h, i) /\ ConstantAt(h, 0, TInt64) /\ ColumnAt(i, 1, NoType)
    /\ TwoListed(Scalars[44].specs, j, k) /\ ConstantAt(j, 0, TText) /\ ColumnAt(k, 1, NoType)
<1>1. \A k \in 1..5 : Scalars[39 + k] = FormatFunctions[k]
  BY PartLists, PartPlaces DEF Inside
<1>2. /\ FormatFunctions[1].specs = <<ColumnSpec(0, TDouble)>>
      /\ FormatFunctions[2].specs = <<Precision, ColumnSpec(1, TDouble)>>
      /\ FormatFunctions[3].specs = <<Precision, ConstantSpec(1, TText), ColumnSpec(2, TDouble)>>
      /\ FormatFunctions[4].specs = <<ConstantSpec(0, TInt64), ColumnSpec(1, NoType)>>
      /\ FormatFunctions[5].specs = <<ConstantSpec(0, TText), ColumnSpec(1, NoType)>>
  BY DEF FormatFunctions, Scalar
<1>3. \A i, type : ColumnAt(ColumnSpec(i, type), i, type) /\ ConstantAt(ConstantSpec(i, type), i, type)
  BY DEF ColumnSpec, ConstantSpec, ColumnAt, ConstantAt
<1>4. ConstantAt(Precision, 0, TInt64)
  BY DEF Precision, ConstantSpec, ColumnSpec, ConstantAt
<1>5. /\ Scalars[40] = FormatFunctions[1] /\ Scalars[41] = FormatFunctions[2]
      /\ Scalars[42] = FormatFunctions[3] /\ Scalars[43] = FormatFunctions[4]
      /\ Scalars[44] = FormatFunctions[5]
  BY <1>1
<1>6. OneListed(Scalars[40].specs, ColumnSpec(0, TDouble))
  BY <1>2, <1>5, Lists
<1>7. TwoListed(Scalars[41].specs, Precision, ColumnSpec(1, TDouble))
  BY <1>2, <1>5, Lists
<1>8. ThreeListed(Scalars[42].specs, Precision, ConstantSpec(1, TText), ColumnSpec(2, TDouble))
  BY <1>2, <1>5, Lists
<1>9. TwoListed(Scalars[43].specs, ConstantSpec(0, TInt64), ColumnSpec(1, NoType))
  BY <1>2, <1>5, Lists
<1>10. TwoListed(Scalars[44].specs, ConstantSpec(0, TText), ColumnSpec(1, NoType))
  BY <1>2, <1>5, Lists
<1>11. QED
  BY <1>3, <1>4, <1>6, <1>7, <1>8, <1>9, <1>10


\* The greatest of some numbers.
LEMMA GreatestOf ==
  ASSUME NEW S \in SUBSET Int, NEW m \in S, \A n \in S : n <= m
  PROVE  Max(S) = m
<1> DEFINE x == Max(S)
<1>1. x \in S /\ \A n \in S : x >= n
  BY DEF Max
<1>2. x \in Int /\ m \in Int /\ x <= m /\ m <= x
  BY <1>1
<1> HIDE DEF x
<1>3. x = m
  BY <1>2
<1>4. QED
  BY <1>3 DEF x

\* Where the first overload has only one parameter, the constants stay in their places.
LEMMA NotMoved ==
  ASSUME NEW positional, NEW specs, NEW a, OneListed(specs, a), a.index = 0,
         Len(positional) \in Nat \ {0}
  PROVE  remap_positional(positional, specs) = positional
<1> DEFINE indices == {specs[k].index : k \in DOMAIN specs}
<1>1. indices = {0}
  BY DEF OneListed
<1> HIDE DEF indices
<1>2. Max(indices) = 0
  <2>1. indices \in SUBSET Int /\ 0 \in indices /\ \A n \in indices : n <= 0
    BY <1>1
  <2>2. QED
    BY <2>1, GreatestOf
<1>3. Len(positional) > Max({specs[k].index : k \in DOMAIN specs})
  BY <1>2 DEF indices
<1>4. QED
  BY <1>3 DEF remap_positional

\* A constant before a column stays at its own place, and the column's is left empty.
LEMMA OneMoved ==
  ASSUME NEW positional, Len(positional) = 1, positional # <<>>,
         NEW specs, NEW a, NEW b, TwoListed(specs, a, b), a.index = 0, b.index = 1,
         a.constant = TRUE, b.constant = FALSE
  PROVE  /\ Len(remap_positional(positional, specs)) = 2
         /\ remap_positional(positional, specs)[1] = positional[1]
         /\ remap_positional(positional, specs)[2] = NoArgument
<1> DEFINE indices == {specs[k].index : k \in DOMAIN specs}
           declared == {specs[k].index : k \in {j \in DOMAIN specs : specs[j].constant}}
           Rank(p) == Cardinality({q \in declared : q < p}) + 1
<1>1. indices = {0, 1}
  <2>1. \A k \in 1..2 : k = 1 \/ k = 2
    OBVIOUS
  <2>2. QED
    BY <2>1 DEF TwoListed
<1>2. {j \in DOMAIN specs : specs[j].constant} = {1}
  <2>1. \A k \in 1..2 : k = 1 \/ k = 2
    OBVIOUS
  <2>2. QED
    BY <2>1 DEF TwoListed
<1>3. declared = {0}
  BY <1>2 DEF TwoListed
<1>4. Cardinality(declared) = 1
  BY <1>3, FS_Singleton
<1>5. Rank(0) = 1
  <2> HIDE DEF declared
  <2> DEFINE below == {q \in declared : q < 0}
  <2>1. below = {} /\ Rank(0) = Cardinality(below) + 1
    BY <1>3
  <2> HIDE DEF below, Rank
  <2>2. Cardinality(below) = 0
    BY <2>1, FS_EmptySet
  <2>3. QED
    BY <2>1, <2>2
<1>6. Max(indices) = 1
  <2> HIDE DEF indices
  <2>1. indices \in SUBSET Int /\ 1 \in indices /\ \A n \in indices : n <= 1
    BY <1>1
  <2>2. QED
    BY <2>1, GreatestOf
<1>7. Len(specs) = 2 /\ specs # <<>>
  BY DEF TwoListed
<1> DEFINE moved == [p \in 1..(Max(indices) + 1) |->
                       IF p - 1 \in declared /\ Rank(p - 1) <= Len(positional)
                       THEN positional[Rank(p - 1)] ELSE NoArgument]
<1>8. remap_positional(positional, specs) =
        IF \/ positional = <<>> \/ specs = <<>>
           \/ Cardinality(declared) = Len(specs)
           \/ Len(positional) > Max(indices)
        THEN positional ELSE moved
  BY DEF remap_positional
<1> DEFINE At(p) == IF p - 1 \in declared /\ Rank(p - 1) <= Len(positional)
                    THEN positional[Rank(p - 1)] ELSE NoArgument
<1>9. moved = [p \in 1..2 |-> At(p)]
  <2> DEFINE top == Max(indices) + 1
  <2>1. top = 2
    BY <1>6
  <2>2. moved = [p \in 1..top |-> At(p)]
    OBVIOUS
  <2> HIDE DEF moved, At, top
  <2>3. QED
    BY <2>1, <2>2
<1>10. At(1) = positional[1] /\ At(2) = NoArgument
  <2> HIDE DEF declared, Rank
  <2>1. 1 - 1 \in declared /\ Rank(1 - 1) = 1 /\ 1 <= Len(positional)
    BY <1>3, <1>5
  <2>2. 2 - 1 \notin declared
    BY <1>3
  <2>3. QED
    BY <2>1, <2>2
<1> HIDE DEF moved, At, declared, indices, Rank
<1>11. Len(moved) = 2 /\ moved[1] = At(1) /\ moved[2] = At(2)
  BY <1>9
<1>12. remap_positional(positional, specs) = moved
  BY <1>4, <1>6, <1>7, <1>8
<1>13. QED
  BY <1>10, <1>11, <1>12

\* The types a worker sees when the constants are as they were sent.
LEMMA SeatedTypes ==
  ASSUME NEW call, IsCall(call), NEW f, f = Scalars[Meant(call)], NEW c \in Nat \ {0},
         Leads(f, call.args, c), Len(call.args) = c + 1,
         \A k \in 1..c : call.args[k].type # TNull,
         read_bind_request(call).seated = Positional(call)
  PROVE  /\ \A i \in 0..(c - 1) : input_type(read_bind_request(call), i) = call.args[i + 1].type
         /\ \A i \in Nat : c <= i => input_type(read_bind_request(call), i) = NoType
<1> DEFINE params == read_bind_request(call)
<1>1. /\ Len(Positional(call)) = c
      /\ \A j \in 1..c : Positional(call)[j].type = call.args[j].type
      /\ Len(InputColumns(call)) = Len(call.args) - c
  BY SentArguments
<1>2. params.seated = Positional(call) /\ Len(params.columns) = 1
  <2>1. params.columns = InputColumns(call)
    BY DEF read_bind_request
  <2>2. QED
    BY <1>1, <2>1
<1> HIDE DEF params
<1>3. \A i \in 0..(c - 1) : /\ i < Len(params.seated)
                            /\ params.seated[i + 1].type = call.args[i + 1].type
                            /\ call.args[i + 1].type \notin {NoType, TNull}
  <2> TAKE i \in 0..(c - 1)
  <2>1. i + 1 \in 1..c /\ i + 1 \in 1..Len(call.args) /\ i < c
    OBVIOUS
  <2>2. DOMAIN call.args = 1..Len(call.args)
    BY DEF IsCall
  <2>3. call.args[i + 1].type \notin {NoType, TNull}
    BY <2>1, <2>2 DEF IsCall
  <2>4. QED
    BY <1>1, <1>2, <2>1, <2>3
<1>4. \A i \in 0..(c - 1) : input_type(params, i) = call.args[i + 1].type
  BY <1>3 DEF input_type
<1>5. \A i \in Nat : c <= i => ~(i < Len(params.seated)) /\ ~(i < Len(params.columns))
  BY <1>1, <1>2
<1>6. \A i \in Nat : c <= i => input_type(params, i) = NoType
  BY <1>5 DEF input_type
<1>7. QED
  BY <1>4, <1>6 DEF params


\* The types of a call whose first parameter, or first two, are constants, as the
\* worker sees them.
Seen(params, c, args) ==
  /\ \A i \in 0..(c - 1) : input_type(params, i) = args[i + 1].type
  /\ \A i \in Nat : c <= i => input_type(params, i) = NoType

\* The parameter lists of format_number and smart_format: one or two constants
\* before a column, or the column alone.
IsOne(specs, t) ==
  /\ IsColumns(specs) /\ Len(specs) = 1 /\ DOMAIN specs = 1..1
  /\ specs[1].index = 0 /\ specs[1].type = t
IsTwo(specs, t, u) ==
  /\ IsFixed(specs) /\ Len(specs) = 2 /\ DOMAIN specs = 1..2
  /\ specs[1].index = 0 /\ specs[1].type = t /\ specs[1].constant = TRUE
  /\ specs[2].index = 1 /\ specs[2].type = u /\ specs[2].constant = FALSE
IsThree(specs, t, u, v) ==
  /\ IsFixed(specs) /\ Len(specs) = 3 /\ DOMAIN specs = 1..3
  /\ specs[1].index = 0 /\ specs[1].type = t /\ specs[1].constant = TRUE
  /\ specs[2].index = 1 /\ specs[2].type = u /\ specs[2].constant = TRUE
  /\ specs[3].index = 2 /\ specs[3].type = v /\ specs[3].constant = FALSE

\* A list of such parameters is of that form.
LEMMA OneFixed ==
  ASSUME NEW specs, NEW a, NEW t, OneListed(specs, a), ColumnAt(a, 0, t) PROVE IsOne(specs, t)
<1>1. \A k \in 1..1 : k = 1 /\ k - 1 = 0
  OBVIOUS
<1>2. QED
  BY <1>1 DEF OneListed, ColumnAt, IsColumns, IsOne

\* The same of two.
LEMMA TwoFixed ==
  ASSUME NEW specs, NEW a, NEW b, NEW t, NEW u, TwoListed(specs, a, b),
         ConstantAt(a, 0, t), ColumnAt(b, 1, u)
  PROVE  IsTwo(specs, t, u)
<1>1. \A k \in 1..2 : k = 1 \/ k = 2
  OBVIOUS
<1>2. QED
  BY <1>1 DEF TwoListed, ConstantAt, ColumnAt, IsFixed, IsTwo

\* The same of three.
LEMMA ThreeFixed ==
  ASSUME NEW specs, NEW a, NEW b, NEW c, NEW t, NEW u, NEW v, ThreeListed(specs, a, b, c),
         ConstantAt(a, 0, t), ConstantAt(b, 1, u), ColumnAt(c, 2, v)
  PROVE  IsThree(specs, t, u, v)
<1>1. \A k \in 1..3 : k = 1 \/ k = 2 \/ k = 3
  OBVIOUS
<1>2. QED
  BY <1>1 DEF ThreeListed, ConstantAt, ColumnAt, IsFixed, IsThree

\* The lists of format_number, 40 to 42, and of smart_format.
LEMMA FormatSpecs ==
  /\ IsOne(Scalars[40].specs, TDouble)
  /\ IsTwo(Scalars[41].specs, TInt64, TDouble)
  /\ IsThree(Scalars[42].specs, TInt64, TText, TDouble)
  /\ IsTwo(Scalars[43].specs, TInt64, NoType) /\ IsTwo(Scalars[44].specs, TText, NoType)
<1>1. PICK a, b, c, d, e, g, h, i, j, k :
    /\ OneListed(Scalars[40].specs, a) /\ ColumnAt(a, 0, TDouble)
    /\ TwoListed(Scalars[41].specs, b, c) /\ ConstantAt(b, 0, TInt64) /\ ColumnAt(c, 1, TDouble)
    /\ ThreeListed(Scalars[42].specs, d, e, g) /\ ConstantAt(d, 0, TInt64)
    /\ ConstantAt(e, 1, TText) /\ ColumnAt(g, 2, TDouble)
    /\ TwoListed(Scalars[43].specs, h, i) /\ ConstantAt(h, 0, TInt64) /\ ColumnAt(i, 1, NoType)
    /\ TwoListed(Scalars[44].specs, j, k) /\ ConstantAt(j, 0, TText) /\ ColumnAt(k, 1, NoType)
  BY FormatListing
<1>2. IsOne(Scalars[40].specs, TDouble)
  BY <1>1, OneFixed
<1>3. /\ IsTwo(Scalars[41].specs, TInt64, TDouble)
      /\ IsTwo(Scalars[43].specs, TInt64, NoType) /\ IsTwo(Scalars[44].specs, TText, NoType)
  BY <1>1, TwoFixed
<1>4. IsThree(Scalars[42].specs, TInt64, TText, TDouble)
  BY <1>1, ThreeFixed
<1>5. QED
  BY <1>2, <1>3, <1>4

\* Of the overloads of format_number the one that was called.  Constants alone are
\* scored, so the last two may tie and the first of them is taken.
LEMMA NumberServed ==
  ASSUME NEW call, IsCall(call), ScalarCandidates(call) = 40..42, Meant(call) \in 40..42,
         Accepts(Scalars[Meant(call)], call)
  PROVE  resolve_scalar(40..42, read_bind_request(call)) = Meant(call)
<1> DEFINE m == Meant(call)
           params == read_bind_request(call)
           one == Scalars[40].specs
           two == Scalars[41].specs
           three == Scalars[42].specs
           args == call.args
           Settled(c) == \A k \in 1..c : args[k].type # TNull
<1>1. IsOne(one, TDouble) /\ IsTwo(two, TInt64, TDouble) /\ IsThree(three, TInt64, TText, TDouble)
  BY FormatSpecs
<1>2. /\ IsColumns(one) /\ Len(one) = 1 /\ DOMAIN one = 1..1
      /\ one[1].index = 0 /\ one[1].type = TDouble
  BY <1>1 DEF IsOne
<1>3. /\ IsFixed(two) /\ Len(two) = 2 /\ DOMAIN two = 1..2
      /\ two[1].index = 0 /\ two[1].type = TInt64 /\ two[1].constant = TRUE
      /\ two[2].index = 1 /\ two[2].type = TDouble /\ two[2].constant = FALSE
  BY <1>1 DEF IsTwo
<1>4. /\ IsFixed(three) /\ Len(three) = 3 /\ DOMAIN three = 1..3
      /\ three[1].index = 0 /\ three[1].type = TInt64 /\ three[1].constant = TRUE
      /\ three[2].index = 1 /\ three[2].type = TText /\ three[2].constant = TRUE
      /\ three[3].index = 2 /\ three[3].type = TDouble /\ three[3].constant = FALSE
  BY <1>1 DEF IsThree
<1>5. FirstCandidate(call) = Scalars[40]
  <2> DEFINE g == 40..42
  <2>1. g \in SUBSET Int /\ 40 \in g /\ \A n \in g : 40 <= n
    OBVIOUS
  <2> HIDE DEF g
  <2>2. Min(g) = 40
    BY <2>1, LeastOf
  <2>3. QED
    BY <2>2 DEF FirstCandidate, g
<1>6. \A p : Len(p) \in Nat \ {0} => remap_positional(p, one) = p
  <2> HIDE DEF one
  <2>1. OneListed(one, one[1]) /\ one[1].index = 0
    BY <1>2 DEF OneListed
  <2>2. QED
    BY <2>1, NotMoved
<1>7. \A c \in Nat \ {0} :
        Leads(Scalars[m], args, c) /\ Len(args) = c + 1 /\ Settled(c) => Seen(params, c, args)
  <2> TAKE c \in Nat \ {0}
  <2> HAVE Leads(Scalars[m], args, c) /\ Len(args) = c + 1 /\ Settled(c)
  <2>1. Len(Positional(call)) = c
    BY SentArguments
  <2>2. params.seated = Positional(call)
    BY <1>5, <1>6, <2>1 DEF read_bind_request
  <2>3. QED
    BY <2>2, SeatedTypes DEF Seen
<1> DEFINE Score(n) == score_overload(Scalars[n], params)
<1>8. CASE m = 40
  <2> DEFINE g == 40..42
  <2>1. g \in SUBSET (1..51) /\ m \in g /\ m = Meant(call) /\ IsColumns(Scalars[m].specs)
        /\ Accepts(Scalars[m], call)
    BY <1>2, <1>8
  <2>2. \A n \in g : n # m =>
          \E k \in 1..Len(Scalars[m].specs) :
             /\ k \in DOMAIN Scalars[n].specs /\ Scalars[n].specs[k].index = k - 1
             /\ Scalars[m].specs[k].type # NoType
             /\ Scalars[n].specs[k].type \notin {NoType, Scalars[m].specs[k].type}
    <3> TAKE n \in g
    <3> HAVE n # m
    <3>1. n = 41 \/ n = 42
      BY <1>8
    <3>2. /\ 1 \in DOMAIN Scalars[n].specs /\ Scalars[n].specs[1].index = 1 - 1
          /\ Scalars[n].specs[1].type = TInt64
      BY <1>3, <1>4, <3>1
    <3>3. 1 \in 1..Len(Scalars[m].specs) /\ Scalars[m].specs[1].type = TDouble
      BY <1>2, <1>8
    <3> DEFINE k == 1
    <3>4. TInt64 \notin {NoType, TDouble} /\ TDouble # NoType
      BY TypesDiffer
    <3> HIDE DEF m
    <3>5. QED
      BY <3>2, <3>3, <3>4
  <2> HIDE DEF g, m
  <2>3. resolve_scalar(g, params) = m
    BY <2>1, <2>2, ColumnOverloads
  <2>4. QED
    BY <2>3 DEF g, m
<1>9. CASE m = 41
  <2>1. Len(args) = 2 /\ DOMAIN args = 1..2
        /\ \A k \in 1..2 : /\ ParameterOf(Scalars[41], k) = two[k]
                           /\ two[k].type \in {NoType, args[k].type}
    BY <1>3, <1>9, FixedCall
  <2> DEFINE c == 1
  <2>2. Leads(Scalars[m], args, c) /\ Len(args) = c + 1
    <3>1. \A k \in 1..2 : k = 1 \/ k = 2
      OBVIOUS
    <3>2. QED
      BY <1>3, <1>9, <2>1, <3>1 DEF Leads
  <2> HIDE DEF c
  <2>3. args[1].type = TInt64
    BY <1>3, <2>1, TypesDiffer
  <2>4. Seen(params, c, args)
    <3>1. \A k \in 1..c : args[k].type # TNull
      BY <2>3, TypesDiffer DEF c
    <3>2. QED
      BY <1>7, <2>2, <3>1 DEF c
  <2> HIDE DEF params, args, m
  <2>5. /\ input_type(params, 0) = TInt64 /\ input_type(params, 1) = NoType
        /\ input_type(params, 2) = NoType
    BY <2>3, <2>4 DEF Seen, c
  <2>6. Score(40) = -1
    <3>1. 1 \in Typed(Scalars[40], params) /\ input_type(params, one[1].index) # one[1].type
      BY <1>2, <2>5, TypesDiffer DEF Typed
    <3>2. QED
      BY <3>1, ScoreOf
  <2>7. Typed(Scalars[41], params) = {1}
    <3>1. \A k \in 1..2 : k = 1 \/ k = 2
      OBVIOUS
    <3>2. QED
      BY <1>3, <2>5, <3>1, TypesDiffer DEF Typed
  <2>8. Typed(Scalars[42], params) = {1}
    <3>1. \A k \in 1..3 : k = 1 \/ k = 2 \/ k = 3
      OBVIOUS
    <3>2. QED
      BY <1>4, <2>5, <3>1, TypesDiffer DEF Typed
  <2>9. Score(41) = 1 /\ Score(42) = 1
    <3>1. Cardinality({1}) = 1
      BY FS_Singleton
    <3>2. Score(41) = Cardinality(Typed(Scalars[41], params))
      <4>1. \A k \in Typed(Scalars[41], params) : input_type(params, two[k].index) = two[k].type
        BY <1>3, <2>5, <2>7
      <4>2. QED
        BY <4>1, ScoreOf
    <3>3. Score(42) = Cardinality(Typed(Scalars[42], params))
      <4>1. \A k \in Typed(Scalars[42], params) : input_type(params, three[k].index) = three[k].type
        BY <1>4, <2>5, <2>8
      <4>2. QED
        BY <4>1, ScoreOf
    <3>4. QED
      BY <2>7, <2>8, <3>1, <3>2, <3>3
  <2> DEFINE g == 40..42
  <2>10. /\ g \in SUBSET (1..51) /\ 41 \in g /\ Score(41) \in Nat
         /\ \A n \in g : n # 41 => Score(n) = -1 \/ (Score(n) = Score(41) /\ 41 < n)
    <3>1. \A n \in 40..42 : n = 40 \/ n = 41 \/ n = 42
      OBVIOUS
    <3> HIDE DEF Score
    <3>2. QED
      BY <2>6, <2>9, <3>1
  <2> HIDE DEF g
  <2>11. resolve_scalar(g, params) = 41
    BY <2>10, Winner
  <2>12. QED
    BY <1>9, <2>11 DEF g, m, params
<1>10. CASE m = 42
  <2>1. Len(args) = 3 /\ DOMAIN args = 1..3
        /\ \A k \in 1..3 : /\ ParameterOf(Scalars[42], k) = three[k]
                           /\ three[k].type \in {NoType, args[k].type}
    BY <1>4, <1>10, FixedCall
  <2> DEFINE c == 2
  <2>2. Leads(Scalars[m], args, c) /\ Len(args) = c + 1
    <3>1. \A k \in 1..3 : k = 1 \/ k = 2 \/ k = 3
      OBVIOUS
    <3>2. QED
      BY <1>4, <1>10, <2>1, <3>1 DEF Leads
  <2> HIDE DEF c
  <2>3. args[1].type = TInt64 /\ args[2].type = TText
    BY <1>4, <2>1, TypesDiffer
  <2>4. Seen(params, c, args)
    <3>1. \A k \in 1..c : k = 1 \/ k = 2
      BY DEF c
    <3>2. \A k \in 1..c : args[k].type # TNull
      BY <2>3, <3>1, TypesDiffer
    <3>3. QED
      BY <1>7, <2>2, <3>2 DEF c
  <2> HIDE DEF params, args, m
  <2>5. /\ input_type(params, 0) = TInt64 /\ input_type(params, 1) = TText
        /\ input_type(params, 2) = NoType
    BY <2>3, <2>4 DEF Seen, c
  <2>6. Score(40) = -1
    <3>1. 1 \in Typed(Scalars[40], params) /\ input_type(params, one[1].index) # one[1].type
      BY <1>2, <2>5, TypesDiffer DEF Typed
    <3>2. QED
      BY <3>1, ScoreOf
  <2>7. Score(41) = -1
    <3>1. 2 \in Typed(Scalars[41], params) /\ input_type(params, two[2].index) # two[2].type
      BY <1>3, <2>5, TypesDiffer DEF Typed
    <3>2. QED
      BY <3>1, ScoreOf
  <2>8. Typed(Scalars[42], params) = {1, 2}
    <3>1. \A k \in 1..3 : k = 1 \/ k = 2 \/ k = 3
      OBVIOUS
    <3>2. QED
      BY <1>4, <2>5, <3>1, TypesDiffer DEF Typed
  <2>9. Score(42) \in Nat
    <3>1. Score(42) = Cardinality(Typed(Scalars[42], params))
      BY <1>4, <2>5, <2>8, ScoreOf
    <3>2. IsFiniteSet({1, 2})
      <4>1. IsFiniteSet({1}) /\ {1, 2} = {1} \cup {2}
        BY FS_Singleton
      <4>2. QED
        BY <4>1, FS_AddElement
    <3>3. QED
      BY <2>8, <3>1, <3>2, FS_CardinalityType
  <2> DEFINE g == 40..42
  <2>10. /\ g \in SUBSET (1..51) /\ 42 \in g /\ Score(42) \in Nat
         /\ \A n \in g : n # 42 => Score(n) = -1
    <3>1. \A n \in 40..42 : n = 40 \/ n = 41 \/ n = 42
      OBVIOUS
    <3> HIDE DEF Score
    <3>2. QED
      BY <2>6, <2>7, <2>9, <3>1
  <2> HIDE DEF g
  <2>11. resolve_scalar(g, params) = 42
    BY <2>10, Winner
  <2>12. QED
    BY <1>10, <2>11 DEF g, m, params
<1>11. QED
  BY <1>8, <1>9, <1>10


\* Of the overloads of smart_format the one that was called: its constant is at its
\* own place after remap_positional, and has the type of one of them only.
LEMMA SmartServed ==
  ASSUME NEW call, IsCall(call), ScalarCandidates(call) = 43..44, Meant(call) \in 43..44,
         Accepts(Scalars[Meant(call)], call)
  PROVE  resolve_scalar(43..44, read_bind_request(call)) = Meant(call)
<1> DEFINE m == Meant(call)
           params == read_bind_request(call)
           first == Scalars[43].specs
           args == call.args
           Constant(n) == IF n = 43 THEN TInt64 ELSE TText
<1>1. \A n \in 43..44 : IsTwo(Scalars[n].specs, Constant(n), NoType)
  <2>1. \A n \in 43..44 : n = 43 \/ n = 44
    OBVIOUS
  <2>2. QED
    BY <2>1, FormatSpecs
<1>2. \A n \in 43..44 : n # m => Constant(n) # Constant(m)
  <2>1. TText # TInt64
    BY TypesDiffer
  <2>2. QED
    BY <2>1
<1>3. \A n \in 43..44 : Constant(n) \notin {NoType, TNull}
  BY TypesDiffer
<1> HIDE DEF Constant
<1>4. FirstCandidate(call) = Scalars[43]
  <2> DEFINE g == 43..44
  <2>1. g \in SUBSET Int /\ 43 \in g /\ \A n \in g : 43 <= n
    OBVIOUS
  <2> HIDE DEF g
  <2>2. Min(g) = 43
    BY <2>1, LeastOf
  <2>3. QED
    BY <2>2 DEF FirstCandidate, g
<1> DEFINE f == Scalars[m]
<1>5. /\ IsFixed(f.specs) /\ Len(f.specs) = 2 /\ f.specs[1].type = Constant(m)
      /\ f.specs[1].constant = TRUE /\ f.specs[2].constant = FALSE
  BY <1>1 DEF IsTwo
<1>6. /\ Len(args) = 2 /\ DOMAIN args = 1..2 /\ args[1].type = Constant(m)
      /\ ParameterOf(f, 1) = f.specs[1] /\ ParameterOf(f, 2) = f.specs[2]
  <2>1. /\ Len(args) = 2 /\ DOMAIN args = 1..2
        /\ \A k \in 1..2 : /\ ParameterOf(f, k) = f.specs[k]
                           /\ f.specs[k].type \in {NoType, args[k].type}
    BY <1>5, FixedCall
  <2> HIDE DEF f, m
  <2>2. m \in 43..44
    BY DEF m
  <2>3. QED
    BY <1>3, <1>5, <2>1, <2>2
<1> DEFINE c == 1
<1>7. Leads(f, args, c)
  <2>1. \A k \in 1..2 : k = 1 \/ k = 2
    OBVIOUS
  <2>2. QED
    BY <1>5, <1>6, <2>1 DEF Leads
<1> HIDE DEF c
<1>8. /\ Len(Positional(call)) = c /\ (Positional(call) = <<>> <=> c = 0)
      /\ \A j \in 1..c : Positional(call)[j].type = args[j].type
      /\ Len(InputColumns(call)) = Len(args) - c
  <2>1. f = Scalars[Meant(call)] /\ Leads(f, call.args, c)
    BY <1>7
  <2> HIDE DEF f
  <2>2. QED
    BY <2>1, SentArguments, ZenonT(60)
<1> DEFINE p == Positional(call)
<1>9. Len(p) = 1 /\ p # <<>> /\ p[1].type = Constant(m) /\ Len(InputColumns(call)) = 1
  BY <1>6, <1>8 DEF c
<1> HIDE DEF p
<1>10. /\ Len(remap_positional(p, first)) = 2
       /\ remap_positional(p, first)[1] = p[1]
       /\ remap_positional(p, first)[2] = NoArgument
  <2>1. IsTwo(first, Constant(43), NoType)
    BY <1>1
  <2> HIDE DEF first
  <2> DEFINE a == first[1]
             b == first[2]
  <2>2. TwoListed(first, a, b) /\ a.index = 0 /\ b.index = 1 /\ a.constant = TRUE /\ b.constant = FALSE
    BY <2>1 DEF IsTwo, TwoListed
  <2> HIDE DEF a, b
  <2>3. QED
    BY <1>9, <2>2, OneMoved
<1>11. params.seated = remap_positional(p, first) /\ params.columns = InputColumns(call)
  BY <1>4 DEF read_bind_request, p
<1> HIDE DEF params, m, first
<1>12. m \in 43..44
  BY DEF m
<1>13. input_type(params, 0) = Constant(m) /\ input_type(params, 1) = NoType
  <2>1. /\ Len(params.seated) = 2 /\ Len(params.columns) = 1
        /\ params.seated[0 + 1].type = Constant(m) /\ params.seated[1 + 1].type = NoType
    BY <1>9, <1>10, <1>11 DEF NoArgument
  <2>2. Constant(m) \notin {NoType, TNull} /\ 0 < 2 /\ 1 < 2 /\ ~(1 < 1)
    BY <1>3, <1>12
  <2>3. QED
    BY <2>1, <2>2 DEF input_type
<1>14. ASSUME NEW n \in 43..44
       PROVE  score_overload(Scalars[n], params) = IF n = m THEN 1 ELSE -1
  <2> DEFINE specs == Scalars[n].specs
  <2>1. /\ DOMAIN specs = 1..2 /\ specs[1].index = 0 /\ specs[2].index = 1
        /\ specs[1].type = Constant(n)
    BY <1>1 DEF IsTwo
  <2>2. Typed(Scalars[n], params) = {1}
    <3>1. \A k \in 1..2 : k = 1 \/ k = 2
      OBVIOUS
    <3>2. Constant(n) # NoType /\ Constant(m) # NoType
      BY <1>3, <1>12
    <3>3. QED
      BY <1>13, <2>1, <3>1, <3>2 DEF Typed
  <2>3. CASE n = m
    <3>1. \A k \in Typed(Scalars[n], params) : input_type(params, specs[k].index) = specs[k].type
      BY <1>13, <2>1, <2>2, <2>3
    <3>2. score_overload(Scalars[n], params) = Cardinality(Typed(Scalars[n], params))
      BY <3>1, ScoreOf
    <3>3. Cardinality({1}) = 1
      BY FS_Singleton
    <3>4. QED
      BY <2>2, <2>3, <3>2, <3>3
  <2>4. CASE n # m
    <3>1. Constant(n) # Constant(m)
      BY <1>2, <2>4 DEF m
    <3>2. \E k \in Typed(Scalars[n], params) : input_type(params, specs[k].index) # specs[k].type
      BY <1>13, <2>1, <2>2, <3>1
    <3>3. score_overload(Scalars[n], params) = -1
      BY <3>2, ScoreOf
    <3>4. QED
      BY <2>4, <3>3
  <2>5. QED
    BY <2>3, <2>4
<1> DEFINE g == 43..44
<1>15. /\ g \in SUBSET (1..51) /\ m \in g /\ score_overload(Scalars[m], params) \in Nat
       /\ \A n \in g : n # m => score_overload(Scalars[n], params) = -1
  BY <1>12, <1>14
<1> HIDE DEF g
<1>16. resolve_scalar(g, params) = m
  BY <1>15, Winner
<1>17. QED
  BY <1>16 DEF g, m, params

\* Two overloads of one and the same number of columns differ in the type of one.
Apart(m, n) ==
  \E k \in 1..Len(Scalars[m].specs) :
    /\ k \in DOMAIN Scalars[n].specs /\ Scalars[n].specs[k].index = k - 1
    /\ Scalars[m].specs[k].type # NoType
    /\ Scalars[n].specs[k].type \notin {NoType, Scalars[m].specs[k].type}

\* Overloads of one column.
LEMMA ApartByOne ==
  ASSUME NEW m, NEW n, NEW t, NEW u, OneOf(m, t), OneOf(n, u), t # NoType, u # NoType, t # u
  PROVE  Apart(m, n) /\ IsColumns(Scalars[m].specs)
<1> DEFINE k == 1
<1>1. /\ k \in 1..Len(Scalars[m].specs) /\ k \in DOMAIN Scalars[n].specs
      /\ Scalars[n].specs[k].index = k - 1
      /\ Scalars[m].specs[k].type = t /\ Scalars[n].specs[k].type = u
  BY DEF OneOf, IsColumns
<1> HIDE DEF k
<1>2. Apart(m, n)
  BY <1>1 DEF Apart
<1>3. QED
  BY <1>2 DEF OneOf

\* Overloads of two columns, either of which may tell them apart.
LEMMA ApartByTwo ==
  ASSUME NEW m, NEW n, NEW t, NEW u, NEW v, NEW w, TwoOf(m, t, u), TwoOf(n, v, w),
         \/ t # NoType /\ v # NoType /\ t # v
         \/ u # NoType /\ w # NoType /\ u # w
  PROVE  Apart(m, n) /\ IsColumns(Scalars[m].specs)
<1>1. \A k \in 1..2 : /\ k \in 1..Len(Scalars[m].specs) /\ k \in DOMAIN Scalars[n].specs
                      /\ Scalars[n].specs[k].index = k - 1
  BY DEF TwoOf, IsColumns
<1>2. /\ Scalars[m].specs[1].type = t /\ Scalars[n].specs[1].type = v
      /\ Scalars[m].specs[2].type = u /\ Scalars[n].specs[2].type = w
  BY DEF TwoOf
<1>3. 1 \in 1..2 /\ 2 \in 1..2
  OBVIOUS
<1>4. Apart(m, n)
  BY <1>1, <1>2, <1>3 DEF Apart
<1>5. QED
  BY <1>4 DEF TwoOf

\* The overloads without constants differ so.
LEMMA ColumnsApart ==
  /\ \A m \in {6, 12} : \A n \in {6, 12} : n # m => Apart(m, n)
  /\ \A m \in 26..30 : \A n \in 26..30 : n # m => Apart(m, n)
  /\ \A m \in 31..33 : \A n \in 31..33 : n # m => Apart(m, n)
  /\ \A m \in 34..35 : \A n \in 34..35 : n # m => Apart(m, n)
  /\ \A m \in {6, 12} \cup 26..35 : IsColumns(Scalars[m].specs)
<1> DEFINE Info(m) == IF m = 26 THEN TInt(3) ELSE IF m = 27 THEN TInt64
                      ELSE IF m = 28 THEN TUint(3) ELSE IF m = 29 THEN TUint(4) ELSE TText
<1>1. ASSUME NEW m \in {6, 12}, NEW n \in {6, 12}, n # m PROVE Apart(m, n)
  <2>1. (m = 6 /\ n = 12) \/ (m = 12 /\ n = 6)
    BY <1>1
  <2>2. TInt64 # NoType /\ TText # NoType /\ TText # TInt64
    BY TypesDiffer
  <2>3. QED
    BY <2>1, <2>2, ApartByOne, ColumnListing
<1>2. ASSUME NEW m \in 26..30, NEW n \in 26..30, n # m PROVE Apart(m, n)
  <2>1. \A k \in 26..30 : k = 26 \/ k = 27 \/ k = 28 \/ k = 29 \/ k = 30
    OBVIOUS
  <2>2. \A k \in 26..30 : OneOf(k, Info(k)) /\ Info(k) # NoType
    BY <2>1, ColumnListing, TypesDiffer
  <2>3. Info(m) # Info(n)
    BY <1>2, <2>1, TypesDiffer
  <2> HIDE DEF Info
  <2>4. QED
    BY <2>2, <2>3, ApartByOne
<1>3. ASSUME NEW m \in 31..33, NEW n \in 31..33, n # m PROVE Apart(m, n)
  <2>1. TInt64 # NoType /\ TText # NoType /\ TText # TInt64
    BY TypesDiffer
  <2>2. \A k \in 31..33 : k = 31 \/ k = 32 \/ k = 33
    OBVIOUS
  <2> DEFINE One(k) == IF k = 32 THEN TText ELSE TInt64
             Two(k) == IF k = 31 THEN TInt64 ELSE TText
  <2>3. \A k \in 31..33 : TwoOf(k, One(k), Two(k)) /\ One(k) # NoType /\ Two(k) # NoType
    BY <2>1, <2>2, ColumnListing
  <2>4. One(m) # One(n) \/ Two(m) # Two(n)
    BY <1>3, <2>1, <2>2
  <2> HIDE DEF One, Two
  <2>5. QED
    BY <2>3, <2>4, ApartByTwo
<1>4. ASSUME NEW m \in 34..35, NEW n \in 34..35, n # m PROVE Apart(m, n)
  <2>1. TInt64 # NoType /\ TText # NoType /\ TText # TInt64
    BY TypesDiffer
  <2>2. \A k \in 34..35 : k = 34 \/ k = 35
    OBVIOUS
  <2> DEFINE Two(k) == IF k = 34 THEN TInt64 ELSE TText
  <2>3. \A k \in 34..35 : TwoOf(k, NoType, Two(k)) /\ Two(k) # NoType
    BY <2>1, <2>2, ColumnListing
  <2>4. Two(m) # Two(n)
    BY <1>4, <2>1, <2>2
  <2> HIDE DEF Two
  <2>5. QED
    BY <2>3, <2>4, ApartByTwo
<1>5. ASSUME NEW m \in {6, 12} \cup 26..35 PROVE IsColumns(Scalars[m].specs)
  <2>1. m \in {6, 12, 26, 27, 28, 29, 30, 31, 32, 33, 34, 35}
    OBVIOUS
  <2>2. /\ \A k, t : OneOf(k, t) => IsColumns(Scalars[k].specs)
        /\ \A k, t, u : TwoOf(k, t, u) => IsColumns(Scalars[k].specs)
    BY DEF OneOf, TwoOf
  <2>3. QED
    BY <2>1, <2>2, ColumnListing
<1>6. QED
  BY <1>1, <1>2, <1>3, <1>4, <1>5


\* The schemas of overloads that share them, and of those that do not.
LEMMA ListedSchemas ==
  /\ \A m \in 40..44 : Scalars[m].schema = "main"
  /\ Scalars[36].schema # Scalars[37].schema
<1>1. /\ \A k \in 1..5 : Scalars[39 + k] = FormatFunctions[k]
      /\ \A k \in 1..2 : Scalars[35 + k] = SameNameFunctions[k]
  BY PartLists, PartPlaces DEF Inside
<1>2. \A m \in 40..44 : Scalars[m].schema = "main"
  <2> TAKE m \in 40..44
  <2>1. /\ FormatFunctions[1].schema = "main" /\ FormatFunctions[2].schema = "main"
        /\ FormatFunctions[3].schema = "main" /\ FormatFunctions[4].schema = "main"
        /\ FormatFunctions[5].schema = "main"
    BY DEF FormatFunctions, Scalar
  <2>2. m - 39 \in {1, 2, 3, 4, 5} /\ Scalars[m] = FormatFunctions[m - 39]
    BY <1>1
  <2>3. QED
    BY <2>1, <2>2
<1>3. SameNameFunctions[1].schema = "main" /\ SameNameFunctions[2].schema = "data"
  <2> DEFINE f == Scalar("test_same_name_bind", "", <<ColumnSpec(0, TInt64)>>, TText)
             schemas == <<"main", "data">>
  <2>1. \A s : [f EXCEPT !.schema = s].schema = s
    BY DEF Scalar
  <2>2. SameNameFunctions = [k \in 1..2 |-> [f EXCEPT !.schema = schemas[k]]]
    BY DEF SameNameFunctions
  <2>3. schemas[1] = "main" /\ schemas[2] = "data"
    OBVIOUS
  <2> DEFINE Homed(s) == [f EXCEPT !.schema = s]
  <2>4. SameNameFunctions = [k \in 1..2 |-> Homed(schemas[k])] /\ \A s : Homed(s).schema = s
    BY <2>1, <2>2
  <2> HIDE DEF f, schemas, Homed
  <2>5. SameNameFunctions[1] = Homed(schemas[1]) /\ SameNameFunctions[2] = Homed(schemas[2])
    BY <2>4
  <2>6. QED
    BY <2>3, <2>4, <2>5
<1>4. Scalars[36] = SameNameFunctions[1] /\ Scalars[37] = SameNameFunctions[2]
  BY <1>1
<1>5. Scalars[36].schema # Scalars[37].schema
  BY <1>3, <1>4
<1>6. QED
  BY <1>2, <1>5

\* No function is in two sets of overloads.
LEMMA OverloadsDisjoint ==
  ASSUME NEW g \in Overloads, NEW h \in Overloads, NEW m, m \in g, m \in h
  PROVE  g = h
BY DEF Overloads

\* The candidates for a name are one function, or overloads.
LEMMA CandidatesAre ==
  ASSUME NEW call, NEW m \in 1..51, Scalars[m].name = call.fn, Scalars[m].schema = call.schema
  PROVE  /\ ScalarCandidates(call) \in SUBSET (1..51) /\ m \in ScalarCandidates(call)
         /\ \/ ScalarCandidates(call) = {m}
            \/ \E g \in Overloads : m \in g /\ ScalarCandidates(call) \subseteq g
<1> DEFINE candidates == ScalarCandidates(call)
<1>1. /\ candidates \in SUBSET (1..51) /\ m \in candidates
      /\ \A n \in candidates : Scalars[n].name = Scalars[m].name
  BY PartPlaces DEF ScalarCandidates, Numbers
<1> HIDE DEF candidates
<1>2. \A n \in candidates : n # m => \E g \in Overloads : m \in g /\ n \in g
  <2> TAKE n \in candidates
  <2> HAVE n # m
  <2>1. m < n \/ n < m
    BY <1>1
  <2>2. QED
    BY <1>1, <2>1, NamesDiffer
<1>3. ASSUME NEW n \in candidates, n # m
      PROVE  \E g \in Overloads : m \in g /\ candidates \subseteq g
  <2>1. PICK g \in Overloads : m \in g /\ n \in g
    BY <1>2, <1>3
  <2>2. candidates \subseteq g
    BY <1>2, <2>1, OverloadsDisjoint
  <2>3. QED
    BY <2>1, <2>2
<1>4. QED
  BY <1>1, <1>3 DEF candidates

\* Every request is resolved to the function the engine called.
LEMMA ResolvedAsMeant ==
  ASSUME ScalarAssumption, CallsAreListed, NEW r \in ScalarRequests
  PROVE  resolve_scalar(ScalarCandidates(r), read_bind_request(r)) = Meant(r)
<1> DEFINE m == Meant(r)
           C == ScalarCandidates(r)
<1>1. m \in 1..51 /\ Accepts(Scalars[m], r)
  <2>1. \E n \in Numbers : Accepts(Scalars[n], r)
    BY DEF CallsAreListed
  <2>2. QED
    BY <2>1, PartPlaces DEF Meant, Numbers
<1>2. IsCall(r)
  BY DEF ScalarAssumption, IsCall
<1>3. Scalars[m].name = r.fn /\ Scalars[m].schema = r.schema
  BY <1>1 DEF Accepts
<1>4. /\ C \in SUBSET (1..51) /\ m \in C
      /\ C = {m} \/ \E g \in Overloads : m \in g /\ C \subseteq g
  BY <1>1, <1>3, CandidatesAre
<1>5. \A n \in 1..51 : n \in C <=> ListedName[n] = ListedName[m] /\ Scalars[n].schema = Scalars[m].schema
  BY <1>1, <1>3, PartPlaces, ListedNames DEF ScalarCandidates, Numbers
<1>6. ASSUME NEW g, C \subseteq g, IsColumns(Scalars[m].specs),
             \A n \in g : n # m => Apart(m, n)
      PROVE  resolve_scalar(C, read_bind_request(r)) = m
  <2>1. \A n \in C : n # m =>
          \E k \in 1..Len(Scalars[m].specs) :
            /\ k \in DOMAIN Scalars[n].specs /\ Scalars[n].specs[k].index = k - 1
            /\ Scalars[m].specs[k].type # NoType
            /\ Scalars[n].specs[k].type \notin {NoType, Scalars[m].specs[k].type}
    BY <1>6 DEF Apart
  <2>2. m = Meant(r)
    OBVIOUS
  <2> HIDE DEF m, C
  <2>3. QED
    BY <1>1, <1>2, <1>4, <1>6, <2>1, <2>2, ColumnOverloads
<1>7. CASE C = {m}
  <2> HIDE DEF m, C
  <2>1. m \in Int
    BY <1>1
  <2>2. resolve_scalar(C, read_bind_request(r)) = m
    BY <1>7, <2>1, OnlyCandidate
  <2>3. QED
    BY <2>2 DEF m, C
<1>8. ASSUME NEW g \in Overloads, m \in g, C \subseteq g
      PROVE  resolve_scalar(C, read_bind_request(r)) = m
  <2>1. g \in {{6, 12}, 26..30, 31..33, 34..35} \/ g = 36..37 \/ g = 40..42 \/ g = 43..44
    BY DEF Overloads
  <2>2. CASE g \in {{6, 12}, 26..30, 31..33, 34..35}
    <3> HIDE DEF m, C
    <3>1. m \in {6, 12} \cup 26..35
      BY <1>8, <2>2
    <3>2. IsColumns(Scalars[m].specs)
      BY <3>1, ColumnsApart
    <3>3. \A n \in g : n # m => Apart(m, n)
      BY <1>8, <2>2, ColumnsApart
    <3>4. QED
      BY <1>6, <1>8, <3>2, <3>3
  <2>3. CASE g = 36..37
    <3> HIDE DEF m, C
    <3>1. \A n \in C : n = m
      <4>1. \A n \in C : Scalars[n].schema = Scalars[m].schema
        BY <1>4, <1>5
      <4>2. m = 36 \/ m = 37
        BY <1>8, <2>3
      <4>3. \A n \in C : n = 36 \/ n = 37
        BY <1>8, <2>3
      <4>4. QED
        BY <4>1, <4>2, <4>3, ListedSchemas
    <3>2. C = {m}
      BY <1>4, <3>1
    <3>3. QED
      BY <1>7, <3>2 DEF m, C
  <2>4. CASE g = 40..42
    <3> HIDE DEF m, C
    <3>1. \A n \in 40..42 : n \in 1..51 /\ ListedName[n] = "format_number" /\ Scalars[n].schema = "main"
      <4>1. \A n \in 40..42 : n = 40 \/ n = 41 \/ n = 42
        OBVIOUS
      <4>2. ListedName[40] = "format_number" /\ ListedName[41] = "format_number" /\ ListedName[42] = "format_number"
        BY DEF ListedName
      <4>3. QED
        BY <4>1, <4>2, ListedSchemas
    <3>2. C = 40..42
      BY <1>5, <1>8, <2>4, <3>1
    <3>3. QED
      BY <1>1, <1>2, <1>8, <2>4, <3>2, NumberServed DEF m, C
  <2>5. CASE g = 43..44
    <3> HIDE DEF m, C
    <3>1. \A n \in 43..44 : n \in 1..51 /\ ListedName[n] = "smart_format" /\ Scalars[n].schema = "main"
      <4>1. \A n \in 43..44 : n = 43 \/ n = 44
        OBVIOUS
      <4>2. ListedName[43] = "smart_format" /\ ListedName[44] = "smart_format"
        BY DEF ListedName
      <4>3. QED
        BY <4>1, <4>2, ListedSchemas
    <3>2. C = 43..44
      BY <1>5, <1>8, <2>5, <3>1
    <3>3. QED
      BY <1>1, <1>2, <1>8, <2>5, <3>2, SmartServed DEF m, C
  <2>6. QED
    BY <2>1, <2>2, <2>3, <2>4, <2>5
<1>9. QED
  BY <1>4, <1>7, <1>8

\* What bind and init chose is what was called.
ServedInv ==
  /\ scall \in ScalarRequests
  /\ sserved \in [bind : {0, Meant(scall)}, init : {0, Meant(scall)}]

\* bind and init serve the overload the engine called, for every set of requests the
\* engine's own listing admits (resolve_scalar, score_overload, remap_positional).
THEOREM CalledServed ==
  ASSUME ScalarAssumption, CallsAreListed
  PROVE  ScalarSpec => []CalledIsServed
<1>1. ScalarInit => ServedInv
  BY DEF ScalarInit, ServedInv
<1>2. ServedInv /\ [ScalarNext]_scalarVars => ServedInv'
  <2> SUFFICES ASSUME ServedInv, [ScalarNext]_scalarVars PROVE ServedInv'
    OBVIOUS
  <2>1. scall \in ScalarRequests /\ sserved \in [bind : {0, Meant(scall)}, init : {0, Meant(scall)}]
    BY DEF ServedInv
  <2>2. resolve_scalar(ScalarCandidates(scall), read_bind_request(scall)) = Meant(scall)
    BY <2>1, ResolvedAsMeant
  <2>3. scall' = scall
    BY DEF ScalarNext, BindScalar, BindWithSecrets, InitScalar, ExchangeScalar, scalarVars
  <2>4. sserved' \in {sserved, [sserved EXCEPT !.bind = Meant(scall)],
                      [sserved EXCEPT !.init = Meant(scall)]}
    <3>1. CASE BindScalar
      BY <2>2, <3>1 DEF BindScalar, BindAs
    <3>2. CASE BindWithSecrets
      BY <2>2, <3>2 DEF BindWithSecrets
    <3>3. CASE InitScalar
      BY <2>2, <3>3 DEF InitScalar
    <3>4. CASE ExchangeScalar
      BY <3>4 DEF ExchangeScalar
    <3>5. CASE UNCHANGED scalarVars
      BY <3>5 DEF scalarVars
    <3>6. QED
      BY <3>1, <3>2, <3>3, <3>4, <3>5 DEF ScalarNext
  <2>5. sserved' \in [bind : {0, Meant(scall)}, init : {0, Meant(scall)}]
    BY <2>1, <2>4
  <2>6. QED
    BY <2>1, <2>3, <2>5 DEF ServedInv, Meant
<1>3. ServedInv => CalledIsServed
  BY DEF ServedInv, CalledIsServed
<1>4. QED
  BY <1>1, <1>2, <1>3, PTL DEF ScalarSpec
=============================================================================
