-------------------------- MODULE ScalarFunctions --------------------------
(***************************************************************************)
(* The scalar functions of example-worker/scalar: what each declares and   *)
(* what its process makes of a batch.                                      *)
(*                                                                         *)
(* A function is a record [name, schema, tag, specs, returns, secrets,     *)
(* special]; tag tells the overloads of a name apart.  process is given    *)
(* the constants as read_bind_request seated them, the columns of the      *)
(* batch, its row count and the bound type, and answers the set of the     *)
(* columns it may return: none if it raises, several if it draws at        *)
(* random.  A text is a tuple of what it was put together from.            *)
(***************************************************************************)
EXTENDS NumericTypes

CONSTANTS
  ScalarSettings,  \* setting -> number, those the session has
  ScalarSecrets,   \* the secrets the engine resolves, in the order of their names
  Drawn            \* numbers a random generator may give

TText == <<"utf8">>
TBool == <<"bool">>
TBinary == <<"binary">>
TPoint(shape) == <<"point", shape>>
TTensor(depth, axes) == <<"tensor", depth, axes>>

\* ArgSpec
ColumnSpec(i, type) ==
  [index |-> i, type |-> type, constant |-> FALSE, varargs |-> FALSE,
   bound |-> "none", allowed |-> {}, optional |-> FALSE]
ConstantSpec(i, type) == [ColumnSpec(i, type) EXCEPT !.constant = TRUE]

Scalar(name, tag, specs, returns) ==
  [name |-> name, schema |-> "main", tag |-> tag, specs |-> specs, returns |-> returns,
   secrets |-> {}, special |-> FALSE]

ArithmeticFunctions ==
  <<Scalar("double", "", <<[ColumnSpec(0, NoType) EXCEPT !.bound = "multipliable"]>>,
           <<"promoted">>),
    Scalar("add_values", "", <<[ColumnSpec(0, NoType) EXCEPT !.bound = "addable"],
                               [ColumnSpec(1, NoType) EXCEPT !.bound = "addable"]>>,
           <<"common">>),
    Scalar("argument_names_probe", "",
           <<ColumnSpec(0, TInt64), ColumnSpec(1, TInt64),
             [ConstantSpec(2, TInt64) EXCEPT !.optional = TRUE]>>, TInt64),
    Scalar("multiply", "", <<ColumnSpec(0, TInt64), ConstantSpec(1, TInt64)>>, TInt64),
    Scalar("sum_values", "", <<[ColumnSpec(0, NoType) EXCEPT !.bound = "addable",
                                                            !.varargs = TRUE]>>,
           <<"promoted">>)>>

StringFunctions ==
  <<Scalar("concat_values", "int", <<[ColumnSpec(0, TInt64) EXCEPT !.varargs = TRUE]>>,
           TText),
    Scalar("upper_case", "", <<ColumnSpec(0, TText)>>, TText),
    Scalar("passthru", "", <<ColumnSpec(0, TText)>>, TText),
    Scalar("sha256_hex", "", <<ColumnSpec(0, TText)>>, TText),
    Scalar("hash_rounds", "", <<ColumnSpec(0, TText), ConstantSpec(1, TInt64)>>, TText),
    Scalar("collatz_steps", "", <<ColumnSpec(0, TInt64)>>, TInt64),
    Scalar("concat_values", "str", <<[ColumnSpec(0, TText) EXCEPT !.varargs = TRUE]>>,
           TText)>>

SeededFunctions ==
  <<[Scalar("null_handling", "", <<ColumnSpec(0, TInt64)>>, TInt64) EXCEPT !.special = TRUE],
    Scalar("conditional_message", "", <<ConstantSpec(0, TInt64), ConstantSpec(1, TText),
                                        ColumnSpec(2, TBool)>>, TText),
    Scalar("hash_seed", "", <<ConstantSpec(0, TInt64)>>, TInt64),
    Scalar("query_seed", "", <<ColumnSpec(0, TInt64)>>, TInt64),
    Scalar("bernoulli", "", <<>>, TBool),
    Scalar("random_int", "", <<ColumnSpec(0, TInt64), ColumnSpec(1, TInt64)>>, TInt64),
    Scalar("random_bytes", "", <<ConstantSpec(0, TInt64), ConstantSpec(1, TInt64)>>,
           TBinary)>>

DistanceOf(name, shape) ==
  Scalar(name, shape, <<ColumnSpec(0, TPoint(shape)), ColumnSpec(1, TPoint(shape))>>, TDouble)
CentroidOf(name, shape) ==
  Scalar(name, shape, <<[ColumnSpec(0, TPoint(shape)) EXCEPT !.varargs = TRUE]>>,
         TPoint("struct"))

GeoFunctions ==
  <<DistanceOf("geo_distance_struct", "struct"), CentroidOf("geo_centroid_struct", "struct"),
    DistanceOf("geo_distance_list", "list"), CentroidOf("geo_centroid_list", "list"),
    DistanceOf("geo_distance_fixed", "fixed"), CentroidOf("geo_centroid_fixed", "fixed")>>

TypeInfoOf(type) == Scalar("type_info", type, <<ColumnSpec(0, type)>>, TText)
PairTypeOf(a, b) == Scalar("pair_type", <<a, b>>, <<ColumnSpec(0, a), ColumnSpec(1, b)>>, TText)
AnyMixedOf(b) == Scalar("any_mixed", b, <<ColumnSpec(0, NoType), ColumnSpec(1, b)>>, TText)

TypeFunctions ==
  <<TypeInfoOf(TInt(3)), TypeInfoOf(TInt64), TypeInfoOf(TUint(3)), TypeInfoOf(TUint(4)),
    TypeInfoOf(TText),
    PairTypeOf(TInt64, TInt64), PairTypeOf(TText, TText), PairTypeOf(TInt64, TText),
    AnyMixedOf(TInt64), AnyMixedOf(TText)>>

SameNameFunctions ==
  [k \in 1..2 |->
     [Scalar("test_same_name_bind", "", <<ColumnSpec(0, TInt64)>>, TText)
      EXCEPT !.schema = <<"main", "data">>[k]]]

SettingsFunctions ==
  <<Scalar("multiply_by_setting", "", <<ColumnSpec(0, TInt64)>>, TInt64),
    Scalar("scale_by_setting", "", <<ColumnSpec(0, TDouble)>>, TDouble)>>

Precision == [ConstantSpec(0, TInt64) EXCEPT !.allowed = 0..10]

FormatFunctions ==
  <<Scalar("format_number", "default", <<ColumnSpec(0, TDouble)>>, TText),
    Scalar("format_number", "precision", <<Precision, ColumnSpec(1, TDouble)>>, TText),
    Scalar("format_number", "prefixed",
           <<Precision, ConstantSpec(1, TText), ColumnSpec(2, TDouble)>>, TText),
    Scalar("smart_format", "width", <<ConstantSpec(0, TInt64), ColumnSpec(1, NoType)>>, TText),
    Scalar("smart_format", "prefix", <<ConstantSpec(0, TText), ColumnSpec(1, NoType)>>, TText)>>

SecretFunctions ==
  <<[Scalar("return_secret_value", "", <<>>, TText) EXCEPT !.secrets = {"vgi_example"}],
    [Scalar("secret_field", "", <<>>, TText) EXCEPT !.secrets = {"vgi_example"}],
    Scalar("global_scalar", "", <<ColumnSpec(0, TInt64)>>, TText),
    Scalar("whoami", "", <<ColumnSpec(0, TInt64)>>, TText),
    Scalar("binary_packet", "", <<ConstantSpec(0, TBinary), ColumnSpec(1, TBinary),
                                  ConstantSpec(2, <<"config">>)>>, TBinary),
    Scalar("unnest_tensor", "", <<ColumnSpec(0, NoType)>>, <<"unnested">>)>>

CachedFunctions == <<Scalar("cached_label", "", <<ColumnSpec(0, TInt64)>>, TText)>>

\* In the order main registers them.
Scalars ==
  ArithmeticFunctions \o StringFunctions \o SeededFunctions \o GeoFunctions
  \o TypeFunctions \o SameNameFunctions \o SettingsFunctions \o FormatFunctions
  \o SecretFunctions \o CachedFunctions

-----------------------------------------------------------------------------
(* process: c is [consts, columns, rows, type, secrets]; a column is       *)
(* [type, cells], a constant [type, cell, given]                           *)

\* Arguments::const_int64 and const_string, with the default of value_or
Const(c, i, default) ==
  IF i < Len(c.consts) /\ c.consts[i + 1].given /\ c.consts[i + 1].cell # NullValue
  THEN c.consts[i + 1].cell[2] ELSE default
Setting(name, default) ==
  IF name \in DOMAIN ScalarSettings THEN ScalarSettings[name] ELSE default

Finish(cells) == IF \E i \in DOMAIN cells : cells[i] = RaisedCell THEN {} ELSE {cells}

\* A value per row, NULL where the first column is.
PerRow(c, F(_)) ==
  {[i \in 1..c.rows |-> IF c.columns[1].cells[i] = NullValue THEN NullValue
                        ELSE F(c.columns[1].cells[i][2])]}

RowOf(c, i) == [k \in 1..Len(c.columns) |-> c.columns[k].cells[i]]
AnyNull(row) == \E k \in DOMAIN row : row[k] = NullValue

Double(c) ==
  Finish([i \in 1..c.rows |->
            DoubleCell(c.columns[1].cells[i], c.columns[1].type, c.type)])

\* AddValues and SumValues: the columns, cast to the bound type and added up
SumValues(c) ==
  LET Cast(k, i) == CastCell(c.columns[k].cells[i], c.columns[k].type, c.type)
  IN IF c.columns = <<>> THEN {}
     ELSE Finish([i \in 1..c.rows |->
                    SumCells([k \in 1..Len(c.columns) |-> Cast(k, i)], c.type)])

ArgumentNamesProbe(c) ==
  {[i \in 1..c.rows |->
      IF AnyNull(RowOf(c, i)) THEN NullValue
      ELSE NumCell((RowOf(c, i)[1][2] + RowOf(c, i)[2][2]) * Const(c, 2, 2))]}

ConcatValues(c, total) ==
  {[i \in 1..c.rows |->
      IF AnyNull(RowOf(c, i)) THEN NullValue
      ELSE <<"text", IF total
                     THEN <<FoldLeft(LAMBDA sum, cell : sum + cell[2], 0, RowOf(c, i))>>
                     ELSE FoldLeft(LAMBDA text, cell : text \o cell[2], <<>>, RowOf(c, i))>>]}

\* sha256 of the bytes, again and again; the digest is shown in hex.
Hashed(text, rounds) == FoldLeftDomain(LAMBDA d, k : <<"sha256", d>>, text, [k \in 1..rounds |-> k])

\* Steps to 1: the orbit of n, as far as the longest of the values given here.
CollatzSteps(n) ==
  LET orbit[k \in 0..20] == IF k = 0 THEN n
                            ELSE IF orbit[k - 1] % 2 = 0 THEN orbit[k - 1] \div 2
                            ELSE 3 * orbit[k - 1] + 1
  IN IF n <= 0 THEN 0 ELSE Min({k \in 0..20 : orbit[k] = 1})

ConditionalMessage(c) ==
  LET times == Const(c, 0, 0)
      On(cell) == cell # NullValue /\ cell[2]
  IN {[i \in 1..c.rows |->
         <<"text", IF On(c.columns[1].cells[i]) /\ times > 0
                   THEN FlattenSeq([k \in 1..times |-> Const(c, 1, <<>>)]) ELSE <<>>>>]}

\* Rng::range: low if the bounds are the wrong way round
RandomInt(c) ==
  LET Range01(row) == IF row[2][2] <= row[1][2] THEN {row[1][2]}
                      ELSE {row[1][2] + (d % (row[2][2] - row[1][2] + 1)) : d \in Drawn}
      Outcomes(i) == IF AnyNull(RowOf(c, i)) THEN {NullValue}
                     ELSE {NumCell(v) : v \in Range01(RowOf(c, i))}
  IN {cells \in [1..c.rows -> UNION {Outcomes(i) : i \in 1..c.rows}] :
        \A i \in 1..c.rows : cells[i] \in Outcomes(i)}

\* Blobs of one stream of bytes that seed starts, in the order of the rows
RandomBytes(c) ==
  LET length == Const(c, 1, 0)
  IN IF length < 0 THEN {}
     ELSE {[i \in 1..c.rows |-> <<"blob", Const(c, 0, 0), (i - 1) * length, length>>]}

\* lat_lon: a struct's fields, or the first two items of a list
LatLon(cell) ==
  IF cell = NullValue THEN <<NullValue, NullValue>>
  ELSE [k \in 1..2 |-> IF k <= Len(cell[2]) THEN cell[2][k] ELSE NullValue]

GeoDistance(c) ==
  LET Coordinates(i) == LatLon(c.columns[1].cells[i]) \o LatLon(c.columns[2].cells[i])
      Square(v) == v * v
  IN {[i \in 1..c.rows |->
         IF AnyNull(Coordinates(i)) THEN NullValue
         ELSE LET p == Coordinates(i)
              IN <<"sqrt", Square(p[3][2] - p[1][2]) + Square(p[4][2] - p[2][2])>>]}

GeoCentroid(c) ==
  LET Point(k, i) == LatLon(c.columns[k].cells[i])
      n == Len(c.columns)
      Total(i, axis) == FoldLeftDomain(LAMBDA sum, k : sum + Point(k, i)[axis][2], 0, c.columns)
  IN {[i \in 1..c.rows |->
         IF n = 0 \/ \E k \in 1..n : AnyNull(Point(k, i)) THEN NullValue
         ELSE <<"mean", Total(i, 1), Total(i, 2), n>>]}

Labelled(c, tag) ==
  {[i \in 1..c.rows |-> IF c.columns[1].cells[i] = NullValue THEN NullValue
                        ELSE <<"label", tag>>]}

\* render: a text, or what can be cast to an integer; otherwise nothing
AnyMixed(c, tag) ==
  {[i \in 1..c.rows |-> IF c.columns[2].cells[i] = NullValue THEN NullValue
                        ELSE <<"any", tag, c.columns[2].cells[i][2]>>]}

\* Secrets::of_type, the fields of the first of that type; any_secret_field
OfType(secrets) == SelectSeq(secrets, LAMBDA s : s.type = "vgi_example")
SecretText(c, fn) ==
  LET typed == OfType(c.secrets)
      named == SelectSeq(c.secrets, LAMBDA s : "secret_string" \in DOMAIN s)
  IN IF fn = "return_secret_value" THEN <<"json", IF typed = <<>> THEN <<>> ELSE <<typed[1]>>>>
     ELSE <<"port", IF typed = <<>> THEN <<>> ELSE <<typed[1].port>>,
            IF named = <<>> THEN <<>> ELSE <<named[1].secret_string>>>>

\* A NULL payload adds nothing; the version is cut to a byte.
BinaryPacket(c) ==
  LET config == Const(c, 2, [label |-> <<>>, version |-> 0])
      suffix == config.label \o <<config.version % 256>>
  IN {[i \in 1..c.rows |->
         <<"bytes", Const(c, 0, <<>>)
                    \o (IF c.columns[1].cells[i] = NullValue THEN <<>>
                        ELSE c.columns[1].cells[i][2]) \o suffix>>]}

\* The index on axis a of the k-th cell, the innermost axis varying fastest
AxisAt(shape, k, a) ==
  (k \div FoldLeft(LAMBDA x, y : x * y, 1, SubSeq(shape, a + 1, Len(shape)))) % shape[a]

\* A tensor is [axes, leaves]; the leaves of a batch are one array and a row's
\* begin where those of the rows before it end.
UnnestTensor(c) ==
  LET tensors == c.columns[1].cells
      Leaves(i) == IF tensors[i] = NullValue THEN <<>> ELSE tensors[i][2].leaves
      leaf == FlattenSeq([i \in 1..c.rows |-> Leaves(i)])
      start == [i \in 1..c.rows |-> Len(FlattenSeq([j \in 1..(i - 1) |-> Leaves(j)]))]
      Cells(i) ==
        LET axes == tensors[i][2].axes
            shape == [a \in 1..Len(axes) |-> Len(axes[a])]
        IN [n \in 1..FoldLeft(LAMBDA x, y : x * y, 1, shape) |->
              [value |-> leaf[start[i] + n],
               axes |-> [a \in 1..Len(axes) |-> axes[a][AxisAt(shape, n - 1, a) + 1]]]]
  IN {[i \in 1..c.rows |-> IF tensors[i] = NullValue THEN NullValue ELSE <<"cells", Cells(i)>>]}

Upper(char) == IF char \in 97..122 THEN char - 32 ELSE char

process(f, c) ==
  CASE f.name = "double" -> Double(c)
    [] f.name = "argument_names_probe" -> ArgumentNamesProbe(c)
    [] f.name = "multiply" -> PerRow(c, LAMBDA v : NumCell(Wrap(v * Const(c, 1, 1), TInt64)))
    [] f.name \in {"add_values", "sum_values"} -> SumValues(c)
    [] f.name = "concat_values" -> ConcatValues(c, f.tag = "int")
    [] f.name = "upper_case" ->
         PerRow(c, LAMBDA v : <<"text", [k \in 1..Len(v) |-> Upper(v[k])]>>)
    [] f.name = "passthru" -> {c.columns[1].cells}
    [] f.name = "sha256_hex" -> PerRow(c, LAMBDA v : <<"hex", Hashed(v, 1)>>)
    [] f.name = "hash_rounds" ->
         PerRow(c, LAMBDA v : <<"hex", Hashed(v, Max({0, Const(c, 1, 1)}))>>)
    [] f.name = "collatz_steps" -> PerRow(c, LAMBDA v : NumCell(CollatzSteps(v)))
    [] f.name = "null_handling" ->
         {[i \in 1..c.rows |-> IF c.columns[1].cells[i] = NullValue THEN NumCell(-5000)
                               ELSE c.columns[1].cells[i]]}
    [] f.name = "conditional_message" -> ConditionalMessage(c)
    [] f.name = "hash_seed" -> {[i \in 1..c.rows |-> NumCell(Const(c, 0, 0) + i - 1)]}
    [] f.name = "query_seed" -> PerRow(c, LAMBDA v : NumCell(v + 1000))
    [] f.name = "bernoulli" -> [1..c.rows -> {<<"bool", TRUE>>, <<"bool", FALSE>>}]
    [] f.name = "random_int" -> RandomInt(c)
    [] f.name = "random_bytes" -> RandomBytes(c)
    [] f.returns = TDouble /\ f.specs[1].type[1] = "point" -> GeoDistance(c)
    [] f.returns = TPoint("struct") -> GeoCentroid(c)
    [] f.name \in {"type_info", "pair_type"} -> Labelled(c, f.tag)
    [] f.name = "any_mixed" -> AnyMixed(c, f.tag)
    [] f.name = "test_same_name_bind" -> PerRow(c, LAMBDA v : <<"in", f.schema, v>>)
    [] f.name = "multiply_by_setting" ->
         PerRow(c, LAMBDA v : NumCell(v * Setting("multiplier", 1)))
    [] f.name = "scale_by_setting" ->
         PerRow(c, LAMBDA v : NumCell(v * Setting("scale_factor", 1)))
    [] f.name = "format_number" ->
         PerRow(c, LAMBDA v :
           <<"fixed", IF f.tag = "prefixed" THEN Const(c, 1, <<>>) ELSE <<>>,
             IF f.tag = "default" THEN 0 ELSE Max({0, Const(c, 0, 0)}), v>>)
    [] f.name = "smart_format" /\ f.tag = "width" ->
         PerRow(c, LAMBDA v : <<"padded", Max({0, Const(c, 0, 0)}), v>>)
    [] f.name = "smart_format" /\ f.tag = "prefix" ->
         PerRow(c, LAMBDA v : <<"prefixed", Const(c, 0, <<>>), v>>)
    [] f.secrets # {} -> {[i \in 1..c.rows |-> SecretText(c, f.name)]}
    [] f.name = "global_scalar" -> PerRow(c, LAMBDA v : <<"global_scalar", v>>)
    [] f.name = "whoami" -> {[i \in 1..c.rows |-> <<"anonymous">>]}
    [] f.name = "binary_packet" -> BinaryPacket(c)
    [] f.name = "unnest_tensor" -> UnnestTensor(c)
    [] f.name = "cached_label" -> PerRow(c, LAMBDA v : IF v < 0 THEN NullValue ELSE <<"lbl", v>>)
=============================================================================
