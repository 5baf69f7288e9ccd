---------------------------- MODULE FilteredScans ----------------------------
(***************************************************************************)
(* The scans of example-worker/table/filters.cpp and static_scan.cpp that  *)
(* take predicates: what they make of them at init, the rows they          *)
(* generate, and the filtering and delivery of TableProduce.               *)
(* The columns in which they report what they were told are left out, and  *)
(* so is the narrowing to the columns asked for (Generators).              *)
(***************************************************************************)
EXTENDS Predicates

CONSTANTS
  FilterCalls,    \* records [fn, count, batch, predicates, version, shape]
  LatePredicates, \* the predicates a tick may bring
  TableRows       \* kRows of filter_echo_table_scan

VARIABLES
  fcall,     \* the call
  fstate,    \* "called", "running", "done", "refused" or "failed"
  finforce,  \* the predicates in force
  fpos,      \* candidate rows passed
  fout       \* the rows delivered

filterVars == <<fcall, fstate, finforce, fpos, fout>>

TextCell(s) == <<"text", s>>

\* A scan: the type of each column, and its rows as its producer builds them.
Scan(schema, count, Row(_)) ==
  [schema |-> schema, rows |-> [i \in 1..(IF count < 0 THEN 0 ELSE count) |-> Row(i - 1)]]

filter_echo(c) ==
  Scan([n |-> "int", s |-> "text"], c.count,
       LAMBDA i : [n |-> IntCell(i), s |-> TextCell(<<0, i>>)])

\* FilterEchoTableScan: the same behind a table, of 100 rows in the code.
filter_echo_table_scan(c) ==
  Scan([n |-> "int", s |-> "text"], TableRows,
       LAMBDA i : [n |-> IntCell(i), s |-> TextCell(<<0, i>>)])

\* Every third flag is Null.
bool_filter_echo(c) ==
  Scan([n |-> "int", flag |-> "bool"], c.count,
       LAMBDA i : [n |-> IntCell(i), flag |-> CASE i % 3 = 0 -> BoolCell(TRUE)
                                                [] i % 3 = 1 -> BoolCell(FALSE)
                                                [] OTHER -> NullCell])

value_prune(c) == Scan([n |-> "int"], c.count, LAMBDA i : [n |-> IntCell(i)])

filtered_columns_echo(c) ==
  Scan([n |-> "int", tag |-> "text"], c.count,
       LAMBDA i : [n |-> IntCell(i), tag |-> TextCell(<<1, i>>)])

\* The text column is dictionary encoded, of three values.
dict_filter_echo(c) ==
  Scan([n |-> "int", s |-> "dict_text"], c.count,
       LAMBDA i : [n |-> IntCell(i), s |-> TextCell(<<i % 3>>)])

\* In descending order, so that a top-N bound moves.
dynamic_filter_echo(c) ==
  Scan([n |-> "int", s |-> "text"], c.count,
       LAMBDA i : [n |-> IntCell(c.count - 1 - i), s |-> TextCell(<<0, c.count - 1 - i>>)])

expression_filter_test(c) ==
  Scan([n |-> "int", name |-> "text", tags |-> "list"], c.count,
       LAMBDA i : [n |-> IntCell(i), name |-> TextCell(<<0, i>>),
                   tags |-> <<"list", <<TextCell(<<i % 5>>), TextCell(<<(i + 1) % 5>>)>>>>])

\* Points on a diagonal, of which the number is what the predicates name.
spatial_filter_example(c) == Scan([n |-> "int"], c.count, LAMBDA i : [n |-> IntCell(i)])

\* tt_rows: version 1 is a prefix of version 2.
TtCount(version) == IF version = 1 THEN 5 ELSE 10
tt_pushdown_scan(c) ==
  Scan([id |-> "int", val |-> "int"], TtCount(c.version),
       LAMBDA i : [id |-> IntCell(i + 1), val |-> IntCell((i + 1) * 10)])

\* kScramble is odd: orders are scattered and distinct.
Scrambled(i) == (i * 5) % 7
late_materialization(c) ==
  Scan([row_id |-> "int", ord |-> "int"], c.count,
       LAMBDA i : [row_id |-> IntCell(IF c.shape.duplicate THEN i \div 2 ELSE i),
                   ord |-> IF c.shape.stride > 0 /\ i % c.shape.stride = 0 THEN NullCell
                           ELSE IntCell(Scrambled(i))])

\* RffScan, where filters name a field of a struct.
rff_rowid_scan(c) ==
  Scan([row_id |-> "int", bbox |-> "struct"], c.count,
       LAMBDA i : [row_id |-> IntCell(i), bbox |-> <<"struct", IntCell(i)>>])

ScanOf(c) ==
  CASE c.fn = "filter_echo" -> filter_echo(c)
    [] c.fn = "filter_echo_table_scan" -> filter_echo_table_scan(c)
    [] c.fn = "bool_filter_echo" -> bool_filter_echo(c)
    [] c.fn = "value_prune" -> value_prune(c)
    [] c.fn = "filtered_columns_echo" -> filtered_columns_echo(c)
    [] c.fn = "dict_filter_echo" -> dict_filter_echo(c)
    [] c.fn = "dynamic_filter_echo" -> dynamic_filter_echo(c)
    [] c.fn = "expression_filter_test" -> expression_filter_test(c)
    [] c.fn = "spatial_filter_example" -> spatial_filter_example(c)
    [] c.fn = "tt_pushdown_scan" -> tt_pushdown_scan(c)
    [] c.fn = "late_materialization" -> late_materialization(c)
    [] c.fn = "rff_rowid_scan" -> rff_rowid_scan(c)

SchemaOf(c) == ScanOf(c).schema

\* Of the values, the keys the scan owns
OwnKeys(values, count) ==
  LET own == SelectSeq(values, LAMBDA v : v[1] = "int" /\ v[2] >= 0 /\ v[2] < count)
  IN [i \in DOMAIN own |-> own[i][2]]

\* ValuePrune::init: the keys the predicates enumerate that the scan owns, in
\* order and as often as they are listed, or every key.
PrunedKeys(values, count) ==
  IF values = NotFound THEN [i \in 1..count |-> i - 1]
  ELSE SortSeq(OwnKeys(values, count), LAMBDA a, b : a < b)

RowsAt(rows, keys) == [k \in DOMAIN keys |-> rows[keys[k] + 1]]
CandidatesOf(c, scan) ==
  IF c.fn = "value_prune"
  THEN RowsAt(scan.rows, PrunedKeys(column_values(c.predicates, "n", scan.schema),
                                    Len(scan.rows)))
  ELSE scan.rows
Candidates(c) == CandidatesOf(c, ScanOf(c))

\* The rows of a batch: all of them from a producer that has one batch to give.
BatchRows(c, rows) ==
  IF c.fn \in {"bool_filter_echo", "filter_echo_table_scan", "tt_pushdown_scan",
               "rff_rowid_scan"}
  THEN Len(rows) ELSE c.batch

FilterInit ==
  /\ fcall \in FilterCalls
  /\ fstate = "called" /\ fpos = 0 /\ fout = <<>>
  /\ finforce = <<>>

\* PushdownFilters::parse
ParseFilters ==
  /\ fstate = "called"
  /\ IF DocumentAccepted(fcall.predicates, SchemaOf(fcall))
     THEN fstate' = "running" /\ finforce' = fcall.predicates
     ELSE fstate' = "refused" /\ finforce' = finforce
  /\ UNCHANGED <<fcall, fpos, fout>>

\* A tick brings an advisory predicate, and the producer hears of it before it
\* is asked for a batch.
LateFilter ==
  /\ fstate = "running" /\ fcall.fn = "dynamic_filter_echo"
  /\ Len(finforce) = Len(fcall.predicates)
  /\ \E p \in LatePredicates :
       PredicateAccepted(p, SchemaOf(fcall)) /\ finforce' = Append(finforce, p)
  /\ UNCHANGED <<fcall, fstate, fpos, fout>>

\* next_batch, then the predicates in force over the batch.
FilterRows(batch) ==
  \E so \in {applied(finforce, SchemaOf(fcall), batch)} :
    IF so.failed
    THEN fstate' = "failed" /\ UNCHANGED <<fpos, fout>>
    ELSE fstate' = fstate /\ fpos' = fpos + Len(batch) /\ fout' = fout \o so.rows
FilteredBatch ==
  /\ fstate = "running"
  /\ \E rows \in {Candidates(fcall)} :
       /\ fpos < Len(rows)
       /\ FilterRows(SubSeq(rows, fpos + 1, Min({Len(rows), fpos + BatchRows(fcall, rows)})))
  /\ UNCHANGED <<fcall, finforce>>

FilteredEnd ==
  /\ fstate = "running" /\ fpos = Len(Candidates(fcall))
  /\ fstate' = "done"
  /\ UNCHANGED <<fcall, finforce, fpos, fout>>

FilterNext == ParseFilters \/ LateFilter \/ FilteredBatch \/ FilteredEnd

FilterSpec == FilterInit /\ [][FilterNext]_filterVars

-----------------------------------------------------------------------------
(* Properties                                                              *)

\* The rows of a cell type, Null among them.
CellsOf(type) ==
  {NullCell} \cup
  CASE type = "int" -> {IntCell(v) : v \in MinInt64..MaxInt64}
    [] type = "bool" -> {BoolCell(b) : b \in BOOLEAN}
    [] type \in {"text", "dict_text"} -> {TextCell(s) : s \in {<<>>, <<0>>, <<0, 1>>}}
    [] type = "list" -> {<<"list", l>> : l \in {<<>>, <<TextCell(<<0>>), NullCell>>}}
    [] type = "struct" -> {<<"struct", IntCell(v)>> : v \in {0, 1}}
                          \cup {<<"struct", NullCell>>}

\* The rows a table of this schema may hold, over the columns named.
AnyRows(schema, columns) ==
  LET cells == UNION {CellsOf(schema[c]) : c \in columns}
  IN {r \in [columns -> cells] : \A c \in columns : r[c] \in CellsOf(schema[c])}

\* A scan that opens only what column_values names and skips what is outside
\* column_bounds loses no row its predicates are true of, for every row a table may
\* hold and Null and the ends of the integer range included (discrete_values,
\* bounds_for).
PruningLosesNoRow ==
  (fstate = "running" /\ fpos = 0) =>
    LET schema == SchemaOf(fcall)
        columns == filtered_columns(finforce)
        Kept(row) == \A i \in 1..Len(finforce) :
                       \/ finforce[i].expression.kind = "runtime_filter"
                       \/ /\ ~NotEvaluable(finforce[i].expression, schema)
                          /\ Satisfied(finforce[i].expression, row)
    IN \A row \in AnyRows(schema, columns) : Kept(row) =>
         \A c \in columns :
           /\ LET values == column_values(finforce, c, schema)
              IN values # NotFound => row[c] \in Range(values)
           /\ (schema[c] = "int" /\ row[c] # NullCell) =>
                /\ \A m \in column_bounds(finforce, c).min : row[c][2] >= m
                /\ \A m \in column_bounds(finforce, c).max : row[c][2] <= m

\* Where an accepted predicate may raise: it compares nested values, or a dictionary-
\* encoded literal, or computes a number.
RECURSIVE Unserved(_, _)
Unserved(e, schema) ==
  \/ /\ e.kind \in {"constant", "in"}
     /\ \/ TypeOf(e.children[1], schema) \in {"list", "struct"}
        \/ \E i \in 1..Len(e.children) :
             e.children[i].kind = "literal" /\ e.children[i].type = "dict_text"
  \/ e.kind \in {"arithmetic", "negate", "cast", "runtime_filter"}
  \/ \E i \in 1..Len(e.children) : Unserved(e.children[i], schema)

\* What the parser accepts the evaluator can evaluate: on every row of the
\* schema an accepted predicate is true, false or Null, unless it compares
\* nested values, a dictionary-encoded literal, or computes a number out of
\* range (Parser::expression against evaluate).
AcceptedIsEvaluated ==
  (fstate = "running" /\ fpos = 0) =>
    \A i \in 1..Len(finforce) :
      LET e == finforce[i].expression
          schema == SchemaOf(fcall)
      IN Unserved(e, schema) \/
         /\ ~NotEvaluable(e, schema)
         /\ \A row \in AnyRows(schema, collect_columns(e)) :
              evaluate(e, row) \in {BoolCell(TRUE), BoolCell(FALSE), NullCell}

\* The query may ask for the row: each predicate is true of it, or has no verdict on it
\* and left it to the engine, which only an advisory one of a scan that is not pruned can.
NotRuledOut(row) ==
  \A i \in DOMAIN fcall.predicates :
    LET p == fcall.predicates[i]
        e == p.expression
    IN \/ e.kind = "runtime_filter" \/ evaluate(e, row) = BoolCell(TRUE)
       \/ /\ p.advisory /\ fcall.fn # "value_prune"
          /\ NotEvaluable(e, SchemaOf(fcall)) \/ evaluate(e, row) = Raised

\* A predicate the engine need not check again: it is required, or there is no row over
\* which it raises.
Binding(p) ==
  /\ p.expression.kind # "runtime_filter"
  /\ p.advisory => ~Raises(p.expression, SchemaOf(fcall), ScanOf(fcall).rows)

\* A scan that no predicate reached late delivers every row its predicates do not rule
\* out, in order and once each, although it generated only the keys they enumerate, and
\* although an advisory predicate may raise over one batch and not over the next; and of
\* every row it delivers each required predicate is true, and each advisory one that
\* raises over no row of the table (ValuePrune::init, PushdownFilters::apply).
PrunedScanIsWhole ==
  (fstate = "done" /\ Len(finforce) = Len(fcall.predicates)) =>
    /\ SelectSeq(fout, NotRuledOut) = SelectSeq(ScanOf(fcall).rows, NotRuledOut)
    /\ \A i \in DOMAIN fcall.predicates : Binding(fcall.predicates[i]) =>
         \A k \in DOMAIN fout : Satisfied(fcall.predicates[i].expression, fout[k])
=============================================================================
