----------------------------- MODULE Predicates -----------------------------
(***************************************************************************)
(* The predicates of src/pushdown.cpp: what Parser::expression accepts,    *)
(* what evaluate makes of a row, which rows of a batch apply keeps, and    *)
(* what the accessors tell a scan that prunes by them (column_bounds,      *)
(* column_values, filtered_columns).                                       *)
(*                                                                         *)
(* An expression is a record whose kind is the Spec's.  A cell is Null or  *)
(* a pair of its type and its value; Raised is an evaluation that throws.  *)
(* Integers are of IntBits bits, so that overflow is within reach.  There  *)
(* are no floating-point numbers.                                          *)
(***************************************************************************)
EXTENDS Integers, Sequences, FiniteSetsExt, SequencesExt

CONSTANTS
  IntBits,    \* 64 in the code
  kMaxDepth,  \* how deep an expression may nest, 64 in the code
  kMaxNodes   \* the nodes of all predicates of a document, 10000 in the code

PredicatesAssumption == {IntBits, kMaxDepth, kMaxNodes} \subseteq Nat \ {0}

MaxInt64 == 2^(IntBits - 1) - 1
MinInt64 == -(2^(IntBits - 1))

IntCell(v) == <<"int", v>>
BoolCell(b) == <<"bool", b>>
NullCell == <<"null">>
Raised == <<"raised">>

\* Expressions
Column(name) == [kind |-> "column", name |-> name, children |-> <<>>]
Field(parent, name) == [kind |-> "field", name |-> name, children |-> <<parent>>]
Literal(cell, type) ==
  [kind |-> "literal", cell |-> cell, type |-> type, children |-> <<>>]
Comparison(op, left, right) ==
  [kind |-> "constant", op |-> op, children |-> <<left, right>>]
Junction(kind, children) == [kind |-> kind, children |-> children]
NotOf(child) == [kind |-> "not", children |-> <<child>>]
IsNull(child, negated) ==
  [kind |-> IF negated THEN "is_not_null" ELSE "is_null", children |-> <<child>>]
InSet(child, cells, type, negated) ==
  [kind |-> "in", cells |-> cells, type |-> type, negated |-> negated,
   children |-> <<child>>]
CastTo(child, type) == [kind |-> "cast", type |-> type, children |-> <<child>>]
Arithmetic(op, left, right) ==
  [kind |-> "arithmetic", op |-> op, children |-> <<left, right>>]
Negate(child) == [kind |-> "negate", children |-> <<child>>]
CallOf(function, left, right) ==
  [kind |-> "call", function |-> function, children |-> <<left, right>>]
RuntimeFilter(input) == [kind |-> "runtime_filter", children |-> <<input>>]

ComparisonOps == {"eq", "ne", "lt", "le", "gt", "ge", "distinct_from",
                  "not_distinct_from"}

-----------------------------------------------------------------------------
(* Parsing: the type of an expression, "refused" if there is none          *)

\* logical_type: a dictionary stands for its values.
Logical(type) == IF type = "dict_text" THEN "text" ELSE type

\* Wide and narrow integers; a list has text, a struct an integer xmin.
Numeric(type) == type \in {"int", "tiny"}

\* contextual_type: a cast from one to another needs the session, even to itself.
Contextual(type) == Logical(type) = "text"

\* exact_context_free_cast, over the types modelled
Castable(from, to) ==
  /\ ~(Contextual(from) /\ Contextual(to))
  /\ from = to \/ (Numeric(from) /\ Numeric(to))

RECURSIVE TypeOf(_, _)

\* Parser::expression, schema being the types of the columns
TypeOf(e, schema) ==
  LET types == [i \in 1..Len(e.children) |-> TypeOf(e.children[i], schema)]
      Each(P(_)) == \A i \in 1..Len(types) : P(types[i])
      Accept(condition, type) ==
        IF condition /\ ~ \E i \in 1..Len(types) : types[i] = "refused"
        THEN type ELSE "refused"
      Boolean(t) == t = "bool"
  IN CASE e.kind = "column" ->
            Accept(e.name \in DOMAIN schema, IF e.name \in DOMAIN schema
                                             THEN schema[e.name] ELSE "refused")
       [] e.kind = "field" -> Accept(types[1] = "struct" /\ e.name = "xmin", "int")
       [] e.kind = "literal" -> e.type
       [] e.kind = "constant" ->
            Accept(e.op \in ComparisonOps /\ Logical(types[1]) = Logical(types[2]), "bool")
       [] e.kind \in {"and", "or"} -> Accept(Len(types) >= 2 /\ Each(Boolean), "bool")
       [] e.kind = "not" -> Accept(types[1] = "bool", "bool")
       [] e.kind \in {"is_null", "is_not_null"} -> Accept(TRUE, "bool")
       [] e.kind = "in" -> Accept(Logical(types[1]) = Logical(e.type), "bool")
       [] e.kind = "cast" -> Accept(Castable(types[1], e.type), e.type)
       [] e.kind = "arithmetic" ->
            Accept(/\ e.op \in {"add", "subtract", "multiply"}
                   /\ Numeric(types[1]) /\ types[1] = types[2], types[1])
       [] e.kind = "negate" -> Accept(Numeric(types[1]), types[1])
       [] e.kind = "call" ->
            Accept(IF e.function = "list_contains"
                   THEN types[1] = "list" /\ Logical(types[2]) = "text"
                   ELSE Each(LAMBDA t : t = "text"), "bool")
       [] e.kind = "runtime_filter" -> "refused"

RECURSIVE Depth(_)
Depth(e) == 1 + Max({0} \cup {Depth(e.children[i]) : i \in 1..Len(e.children)})

RECURSIVE Nodes(_)
Nodes(e) == 1 + FoldLeft(+, 0, [i \in 1..Len(e.children) |-> Nodes(e.children[i])])

\* parse_predicate: the root is Boolean, or an advisory runtime filter.
PredicateAccepted(p, schema) ==
  /\ Depth(p.expression) <= kMaxDepth
  /\ IF p.expression.kind = "runtime_filter"
     THEN p.advisory /\ TypeOf(p.expression.children[1], schema) # "refused"
     ELSE TypeOf(p.expression, schema) = "bool"

\* The predicates of a document: all of them, or none.
DocumentAccepted(predicates, schema) ==
  /\ \A i \in 1..Len(predicates) : PredicateAccepted(predicates[i], schema)
  /\ FoldLeft(LAMBDA sum, p : sum + Nodes(p.expression), 0, predicates) <= kMaxNodes

-----------------------------------------------------------------------------
(* Evaluation                                                              *)

\* What array_from_datum and decoded_dictionary make of a type: a column's dictionary is
\* decoded, a literal's is not.
EvaluatedType(e, schema) == IF e.kind = "literal" THEN e.type ELSE Logical(TypeOf(e, schema))

comparison_type_supported(type) == type \notin {"list", "struct"}

\* The types compare takes
Comparable(l, r) == l = r /\ comparison_type_supported(l)

\* The expression has no evaluator over a batch of these columns, whatever its rows: a
\* column is absent, or two types are not comparable.
RECURSIVE NotEvaluable(_, _)
NotEvaluable(e, schema) ==
  \/ e.kind = "column" /\ e.name \notin DOMAIN schema
  \/ e.kind = "runtime_filter"
  \/ \E i \in 1..Len(e.children) : NotEvaluable(e.children[i], schema)
  \/ /\ e.kind = "constant"
     /\ ~Comparable(EvaluatedType(e.children[1], schema), EvaluatedType(e.children[2], schema))
  \/ /\ e.kind = "in" /\ e.cells # <<>>
     /\ ~Comparable(EvaluatedType(e.children[1], schema), Logical(e.type))

\* The comparisons of two values; texts and Booleans are compared for equality.
Holds(op, l, r) ==
  LET equal == l = r
      less == l[1] \in {"int", "tiny"} /\ l[2] < r[2]
  IN CASE op \in {"eq", "not_distinct_from"} -> equal
       [] op \in {"ne", "distinct_from"} -> ~equal
       [] op = "lt" -> less
       [] op = "le" -> less \/ equal
       [] op = "gt" -> ~less /\ ~equal
       [] op = "ge" -> ~less

\* compare, of types that are comparable
compare(op, l, r) ==
  LET distinct == op \in {"distinct_from", "not_distinct_from"}
  IN IF Raised \in {l, r} THEN Raised
     ELSE IF NullCell \in {l, r}
     THEN IF distinct THEN BoolCell((l = r) = (op = "not_distinct_from")) ELSE NullCell
     ELSE BoolCell(Holds(op, l, r))

KleeneAnd(a, b) ==
  IF Raised \in {a, b} THEN Raised
  ELSE IF BoolCell(FALSE) \in {a, b} THEN BoolCell(FALSE)
  ELSE IF NullCell \in {a, b} THEN NullCell ELSE BoolCell(TRUE)

Invert(a) == IF a[1] = "bool" THEN BoolCell(~a[2]) ELSE a

KleeneOr(a, b) == Invert(KleeneAnd(Invert(a), Invert(b)))

\* A checked kernel: out of range raises.
Checked(type, v) ==
  LET most == IF type = "tiny" THEN 1 ELSE MaxInt64
  IN IF v > most \/ v < -most - 1 THEN Raised ELSE <<type, v>>

\* A strict kernel: it raises, or is Null, if an argument is.
Strict(l, r, value) ==
  IF Raised \in {l, r} THEN Raised
  ELSE IF NullCell \in {l, r} THEN NullCell ELSE value

Number(op, x, y) ==
  CASE op = "add" -> x + y [] op = "subtract" -> x - y [] op = "multiply" -> x * y

IsInfix(needle, hay) ==
  \E i \in 0..(Len(hay) - Len(needle)) :
    SubSeq(hay, i + 1, i + Len(needle)) = needle

\* A dictionary-encoded value, decoded
Plain(cell) == IF cell[1] = "dict" THEN <<"text", cell[2]>> ELSE cell

\* evaluate_standard_call: NULL elements of a list never match.
StandardCall(function, l, r) ==
  Strict(l, r, BoolCell(CASE function = "starts_with" -> IsPrefix(r[2], l[2])
                          [] function = "ends_with" -> IsSuffix(r[2], l[2])
                          [] function = "contains" -> IsInfix(r[2], l[2])
                          [] function = "list_contains" -> Plain(r) \in Range(l[2])))

RECURSIVE evaluate(_, _)

\* evaluate, on one row of a batch over which the expression has an evaluator
evaluate(e, row) ==
  LET Arg(i) == evaluate(e.children[i], row)
      all == [i \in 1..Len(e.children) |-> Arg(i)]
  IN CASE e.kind = "column" -> row[e.name]
       [] e.kind = "field" -> IF Arg(1)[1] = "struct" THEN Arg(1)[2] ELSE Arg(1)
       [] e.kind = "literal" -> e.cell
       [] e.kind = "constant" -> compare(e.op, Arg(1), Arg(2))
       [] e.kind = "and" -> FoldSeq(KleeneAnd, BoolCell(TRUE), all)
       [] e.kind = "or" -> FoldSeq(KleeneOr, BoolCell(FALSE), all)
       [] e.kind = "not" -> Invert(Arg(1))
       [] e.kind = "is_null" ->
            IF Arg(1) = Raised THEN Raised ELSE BoolCell(Arg(1) = NullCell)
       [] e.kind = "is_not_null" ->
            IF Arg(1) = Raised THEN Raised ELSE BoolCell(Arg(1) # NullCell)
       [] e.kind = "in" ->
            LET found == FoldSeq(LAMBDA c, seen : KleeneOr(seen, compare("eq", Arg(1), c)),
                                 BoolCell(FALSE), e.cells)
            IN IF e.negated THEN Invert(found) ELSE found
       [] e.kind = "cast" -> Strict(Arg(1), Arg(1), Checked(e.type, Arg(1)[2]))
       [] e.kind = "arithmetic" ->
            Strict(Arg(1), Arg(2), Checked(Arg(1)[1], Number(e.op, Arg(1)[2], Arg(2)[2])))
       [] e.kind = "negate" -> Strict(Arg(1), Arg(1), Checked(Arg(1)[1], -Arg(1)[2]))
       [] e.kind = "call" -> StandardCall(e.function, Arg(1), Arg(2))

Satisfied(e, row) == evaluate(e, row) = BoolCell(TRUE)

\* The predicate raises over the batch: none of its rows then has a verdict.
Raises(e, schema, rows) ==
  NotEvaluable(e, schema) \/ \E i \in DOMAIN rows : evaluate(e, rows[i]) = Raised

\* Mutant of applied: an advisory predicate that raises drops the rows it is not true of.
applied_per_row(predicates, schema, batch) ==
  LET Step(so, p) ==
        IF so.failed \/ p.expression.kind = "runtime_filter" THEN so
        ELSE IF ~p.advisory /\ Raises(p.expression, schema, so.rows)
        THEN [so EXCEPT !.failed = TRUE]
        ELSE [so EXCEPT !.rows = SelectSeq(@, LAMBDA row : Satisfied(p.expression, row))]
  IN FoldLeft(Step, [failed |-> FALSE, rows |-> batch], predicates)

\* PushdownFilters::apply: each predicate is evaluated over all the rows that survived
\* the ones before it.  One that raises fails the scan if it is required, and keeps the
\* whole batch if it is advisory.
applied(predicates, schema, batch) ==
  LET Step(so, p) ==
        IF so.failed \/ p.expression.kind = "runtime_filter" THEN so
        ELSE IF Raises(p.expression, schema, so.rows)
        THEN [so EXCEPT !.failed = ~p.advisory]
        ELSE [so EXCEPT !.rows = SelectSeq(@, LAMBDA row : Satisfied(p.expression, row))]
  IN FoldLeft(Step, [failed |-> FALSE, rows |-> batch], predicates)

-----------------------------------------------------------------------------
(* The accessors                                                           *)

RECURSIVE collect_columns(_)
collect_columns(e) ==
  (IF e.kind = "column" THEN {e.name} ELSE {})
  \cup UNION {collect_columns(e.children[i]) : i \in 1..Len(e.children)}

filtered_columns(predicates) ==
  UNION {collect_columns(predicates[i].expression) : i \in 1..Len(predicates)}

Direct(e, column) == e.kind = "column" /\ e.name = column

\* boolean_column_leaf: {} or the value the column has to have.
BooleanLeaf(e, column, schema) ==
  CASE Direct(e, column) /\ schema[column] = "bool" -> {TRUE}
    [] e.kind = "not" -> IF Direct(e.children[1], column) /\ schema[column] = "bool"
                         THEN {FALSE} ELSE {}
    [] OTHER -> {}

NotFound == <<"not found">>

RECURSIVE discrete_values(_, _, _)

\* The values of a disjunction: those of every branch, without repetitions.
OrValues(found) ==
  IF \E i \in 1..Len(found) : found[i] = NotFound THEN NotFound
  ELSE SetToSeq(Range(FlattenSeq(found)))

discrete_values(e, column, schema) ==
  LET found == [i \in 1..Len(e.children) |-> discrete_values(e.children[i], column, schema)]
      known == {i \in 1..Len(found) : found[i] # NotFound}
  IN CASE /\ e.kind = "constant" /\ e.op = "eq"
          /\ Direct(e.children[1], column) /\ e.children[2].kind = "literal"
            -> <<e.children[2].cell>>
       [] BooleanLeaf(e, column, schema) # {} ->
            <<BoolCell(CHOOSE b \in BooleanLeaf(e, column, schema) : TRUE)>>
       [] e.kind = "in" /\ ~e.negated /\ Direct(e.children[1], column) -> e.cells
       [] e.kind = "and" -> IF known = {} THEN NotFound ELSE found[Min(known)]
       [] e.kind = "or" -> OrValues(found)
       [] OTHER -> NotFound

\* column_values: the first predicate that enumerates.
column_values(predicates, column, schema) ==
  LET found == [i \in 1..Len(predicates) |->
                  discrete_values(predicates[i].expression, column, schema)]
      known == {i \in 1..Len(found) : found[i] # NotFound}
  IN IF known = {} THEN NotFound ELSE found[Min(known)]

\* Bounds: sets of at most one number, an absent pair being Unbounded.
Unbounded == [min |-> {}, max |-> {}]
Bound(min, max) == [min |-> min, max |-> max]

intersect(a, b) ==
  Bound(IF a.min = {} THEN b.min ELSE IF b.min = {} THEN a.min ELSE {Max(a.min \cup b.min)},
        IF a.max = {} THEN b.max ELSE IF b.max = {} THEN a.max ELSE {Min(a.max \cup b.max)})

unite(a, b) ==
  Bound(IF a.min = {} \/ b.min = {} THEN {} ELSE {Min(a.min \cup b.min)},
        IF a.max = {} \/ b.max = {} THEN {} ELSE {Max(a.max \cup b.max)})

\* The bounds of a column compared with v, column first unless swapped.
ComparisonBounds(op, v, swapped) ==
  LET above == Bound({IF v = MaxInt64 THEN v ELSE v + 1}, {})
      below == Bound({}, {IF v = MinInt64 THEN v ELSE v - 1})
  IN CASE op = "eq" -> Bound({v}, {v})
       [] op = "gt" -> IF swapped THEN below ELSE above
       [] op = "lt" -> IF swapped THEN above ELSE below
       [] op = "ge" -> IF swapped THEN Bound({}, {v}) ELSE Bound({v}, {})
       [] op = "le" -> IF swapped THEN Bound({v}, {}) ELSE Bound({}, {v})
       [] OTHER -> Unbounded

IntLiteral(e) == e.kind = "literal" /\ e.cell[1] = "int"

RECURSIVE bounds_for(_, _)
bounds_for(e, column) ==
  LET found == [i \in 1..Len(e.children) |-> bounds_for(e.children[i], column)]
      known == SelectSeq(found, LAMBDA b : b # Unbounded)
      numbers == {e.cells[i][2] : i \in {j \in 1..Len(e.cells) : e.cells[j][1] = "int"}}
  IN CASE e.kind = "constant" ->
            IF Direct(e.children[1], column) /\ IntLiteral(e.children[2])
            THEN ComparisonBounds(e.op, e.children[2].cell[2], FALSE)
            ELSE IF Direct(e.children[2], column) /\ IntLiteral(e.children[1])
            THEN ComparisonBounds(e.op, e.children[1].cell[2], TRUE)
            ELSE Unbounded
       [] e.kind = "in" ->
            IF e.negated \/ ~Direct(e.children[1], column) \/ numbers = {} THEN Unbounded
            ELSE Bound({Min(numbers)}, {Max(numbers)})
       [] e.kind = "and" -> FoldSeq(intersect, Unbounded, known)
       [] e.kind = "or" ->
            IF Len(known) < Len(found) THEN Unbounded
            ELSE FoldSeq(unite, found[1], found)
       [] OTHER -> Unbounded

column_bounds(predicates, column) ==
  FoldSeq(intersect, Unbounded,
          [i \in 1..Len(predicates) |-> bounds_for(predicates[i].expression, column)])
=============================================================================
