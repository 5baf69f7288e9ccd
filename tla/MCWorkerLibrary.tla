--------------------------- MODULE MCWorkerLibrary ---------------------------
(* A small instance of WorkerLibrary: for each family, the calls that take *)
(* its functions through every branch.                                     *)
EXTENDS WorkerLibrary

-----------------------------------------------------------------------------
(* Splits                                                                  *)

SplitCall(fn, n, k) == [fn |-> fn, n |-> n, splits |-> k, bounds |-> {},
    projection |-> {}, failAt |-> -1, inInit |-> FALSE]

MCSplitCalls ==
  {SplitCall(fn, n, k) :
        fn \in {"split_sequence","split_empty_ranges","split_skewed","split_zero"},
        n \in {0,3}, k \in {1,2,4}}
  \cup {SplitCall(fn, 5, 5) : fn \in {"split_sequence",
        "split_empty_ranges","split_skewed", "split_paginated",
        "split_batch_index","split_dynamic_filter"}}
  \cup {SplitCall("split_paginated", 6, 6)}
  \cup {SplitCall("split_partitioned", n, 1) : n \in {0, 2}}
  \cup {SplitCall(fn, 2, 2) : fn \in {"sequence", "split_stale_plan",
        "split_endless_cursor", "split_batch_index"}}
  \cup {SplitCall("split_batch_index", n, 2) : n \in {8, 9}}
  \cup {[SplitCall("split_fail_at", 4, 2) EXCEPT !.failAt = f, !.inInit = b] :
        f \in {-1, 1, 2}, b \in BOOLEAN}
  \cup {[SplitCall("split_echo_filters", 0, 3) EXCEPT !.bounds = b, !.projection = p] :
        b \in {{}, {[min |-> 1, max |-> 1]}}, p \in {{}, {0}, {0,1,2}}}

MCFleets == {<<NoKey, NoKey>>, <<"k", "k">>, <<"k", "l">>}

-----------------------------------------------------------------------------
(* Generators                                                              *)

GCall(fn, count) ==
  [fn |-> fn, count |-> count, batch |-> Absent, step |-> Absent, values |-> <<>>,
   hint |-> Absent, wanted |-> <<>>]

GenCounts == {Absent, 0, 1, 5}

MCGenCalls ==
  {[GCall(fn, n) EXCEPT !.batch = b, !.step = s] :
     fn \in {"sequence", "profiling_demo"}, n \in GenCounts \cup {-1}, b \in {Absent, 0,
           2}, s \in {Absent, 0, 2}}
  \cup {[GCall("double_sequence", n) EXCEPT !.batch = b, !.step = s] :
        n \in GenCounts \cup {-1}, b \in {Absent, 2}, s \in {Absent, -1, 0, 2}}
  \cup {[GCall("make_series", Absent) EXCEPT !.values = v] :
        v \in {<<-1>>, <<3>>, <<2, 5>>, <<5, 2>>, <<0, 7, 3>>, <<1, 7, 2>>, <<0, 3, 0>>}}
  \cup {[GCall("make_series_csv", Absent) EXCEPT !.values = v] :
        v \in {<<Absent>>, <<7, Absent, 9>>}}
  \cup {GCall("make_series_float", Absent), GCall("ten_thousand", Absent)}
  \cup {[GCall("make_pairs", Absent) EXCEPT !.hint = h[1], !.values = h[2]] :
          h \in {<<"int", <<1, 3>>>>, <<"int", <<3, 1>>>>, <<"str", <<11, 12>>>>,
                <<"int_str", <<4, 13>>>>}}
  \cup {GCall(fn, n) : fn \in {"generator_exception", "nested_sequence",
        "named_params_echo", "typed_probe", "settings_aware", "struct_settings"},
        n \in GenCounts}
  \cup {[GCall("nested_sequence", 5) EXCEPT !.step = 2], [GCall("typed_probe",
        3) EXCEPT !.values = <<1, 1, 5000000>>],
        [GCall("settings_aware", 5) EXCEPT !.hint = "verbose", !.step = 3],
        [GCall("struct_settings", 5) EXCEPT !.values = <<7, Absent>>, !.hint = "lbl"]}
  \cup {GCall("union_varargs", Absent) @@ [members |-> v] :
        v \in {<<>>, <<<<"i", 4>>, <<"s", 5>>>>}}
  \cup {GCall(fn, 3) @@ [cells |-> v] : fn \in {"constant_columns", "repeat_value"},
        v \in {<<>>, <<Num(1), Null>>}}
  \cup {GCall("versioned_data_scan", v) : v \in {Absent, 1, 2, 3, 9}}
  \cup {[GCall(fn, 5) EXCEPT !.hint = h, !.wanted = w] :
        fn \in {"projected_data", "order_echo", "proj_repro"}, h \in {"strict",
        "chunked", "full", "multi_worker"},
          w \in {<<>>, <<2>>, <<2, 0>>, <<1, 2>>, <<9>>}}
  \cup {[GCall("rff_scan", 3) EXCEPT !.wanted = w] : w \in {<<>>, <<3, 1>>}}

-----------------------------------------------------------------------------
(* Filtered scans                                                          *)

Required(e) == [expression |-> e, advisory |-> FALSE]

Advisory(e) == [expression |-> e, advisory |-> TRUE]

IntLit(v) == Literal(IntCell(v), "int")

ColN == Column("n")

Atoms == {Comparison(op, ColN, IntLit(v)) : op \in ComparisonOps, v \in {0, 2}}
  \cup {Comparison(op, IntLit(v), ColN) : op \in {"eq", "lt", "ge"}, v \in {1}}
  \cup {Comparison(op, ColN, IntLit(v)) : op \in {"gt", "lt"}, v \in {MaxInt64, MinInt64}}
  \cup {InSet(ColN, cs, "int", b) : cs \in {<<IntCell(2), IntCell(0)>>, <<IntCell(3),
        NullCell>>}, b \in BOOLEAN}
  \cup {IsNull(ColN, b) : b \in BOOLEAN}
  \cup {Comparison("gt", Arithmetic("add", ColN, IntLit(1)), IntLit(1)), Comparison("eq",
        ColN, Literal(NullCell, "int"))}

FewAtoms == {Comparison("eq", ColN, IntLit(0)), Comparison("ge", ColN, IntLit(1)),
    Comparison("lt", IntLit(2), ColN), InSet(ColN, <<IntCell(1), IntCell(3)>>, "int",
    FALSE), IsNull(ColN, FALSE)}

Trees == Atoms \cup {Junction(k, <<a, b>>) : k \in {"and", "or"}, a, b \in Atoms}
   \cup {NotOf(Junction(k, <<a, b>>)) : k \in {"and", "or"}, a, b \in FewAtoms}
   \cup {Junction(k, <<Junction(j, <<a, b>>), c>>) :
         k, j \in {"and", "or"}, a, b, c \in FewAtoms}

FilterCall(fn, ps) == [fn |-> fn, count |-> 4, batch |-> 3, predicates |-> ps,
    version |-> 2, shape |-> [duplicate |-> FALSE, stride |-> 2]]

ColFlag == Column("flag")

FlagTrees == {ColFlag, NotOf(ColFlag), Comparison("eq", ColFlag, Literal(BoolCell(TRUE),
    "bool")), NotOf(NotOf(ColFlag)), IsNull(ColFlag, FALSE), Comparison("lt", ColN,
    IntLit(2))}

ColTag == Column("tag")

TextLit(s) == Literal(TextCell(s), "text")

ColS == Column("s")

\* Raises where n does not fit in the narrow integers.
NarrowOne == Comparison("eq", CastTo(ColN, "tiny"), Literal(<<"tiny", 1>>, "tiny"))

BelowTwo == Comparison("lt", ColN, IntLit(2))

\* As many nodes as a document may have
Wide == Junction("or", [i \in 1..4 |-> BelowTwo])

OtherFilterCalls ==
  {FilterCall("bool_filter_echo", <<Required(Junction(k, <<a, b>>))>>) :
        k \in {"and", "or"}, a, b \in FlagTrees}
  \cup {FilterCall("bool_filter_echo", <<Required(a), Advisory(b)>>) : a, b \in FlagTrees}
  \cup {FilterCall("filtered_columns_echo", <<Required(e)>>) :
        e \in {Comparison("eq", ColTag, TextLit(<<1, 2>>)), Junction("or",
        <<Comparison("eq", ColTag, TextLit(<<0>>)), Comparison("eq", ColN, IntLit(1))>>),
        Comparison("eq", ColTag, ColN), CallOf("starts_with", ColTag, TextLit(<<1>>)),
              CallOf("contains", ColTag, TextLit(<<>>)), CallOf("ends_with", ColTag,
              ColN)}}
  \cup {FilterCall("dict_filter_echo", <<p>>) :
        p \in {Required(Comparison("eq", ColS, TextLit(<<1>>))),
        Required(Comparison("eq", ColS, Literal(<<"dict", <<1>>>>, "dict_text"))),
        Advisory(Comparison("eq", ColS, Literal(<<"dict", <<1>>>>, "dict_text"))),
        Required(InSet(ColS, <<TextCell(<<2>>)>>, "dict_text", FALSE))}}
  \cup {FilterCall("expression_filter_test", <<p>>) :
        p \in {Required(CallOf("list_contains", Column("tags"), TextLit(<<1>>))),
        Required(Comparison("eq", Column("tags"), Column("tags"))),
        Advisory(RuntimeFilter(ColN)), Required(RuntimeFilter(ColN)),
        Advisory(Comparison("gt", Negate(ColN), IntLit(-2))),
       Required(Comparison("eq", CastTo(ColN, "tiny"), Literal(<<"tiny", 1>>, "tiny"))),
             Advisory(Comparison("eq", CastTo(ColN, "tiny"), Literal(<<"tiny", 1>>,
             "tiny"))), Required(Comparison("eq", CastTo(ColN, "text"), TextLit(<<0>>))),
             Required(Junction("and", <<ColN, ColN>>)), Required(Column("absent")),
             Required(IsNull(CastTo(Column("name"), "text"), FALSE)),
             Required(NotOf(NotOf(NotOf(IsNull(ColN, FALSE)))))}}
  \cup {[FilterCall("expression_filter_test", ps) EXCEPT !.batch = b] :
        ps \in {<<Advisory(NarrowOne)>>, <<Advisory(NarrowOne), Required(BelowTwo)>>,
        <<Required(BelowTwo), Advisory(NarrowOne)>>, <<Required(NarrowOne)>>,
        <<Required(BelowTwo), Required(NarrowOne)>>, <<Required(Comparison("lt", ColN,
        IntLit(0))), Required(Comparison("eq", Column("tags"), Column("tags")))>>,
        <<Advisory(Comparison("eq", Column("tags"), Column("tags"))), Required(BelowTwo)>>,
        <<Required(Wide), Required(BelowTwo)>>}, b \in {1, 2, 4}}
  \cup {FilterCall("late_materialization", <<Required(e)>>) :
        e \in {InSet(Column("row_id"), <<IntCell(1), IntCell(3)>>, "int", FALSE),
        Comparison("gt", Column("ord"), IntLit(1)), Comparison("ge",
        Arithmetic("multiply", Column("ord"), IntLit(2)), IntLit(0))}}
  \cup {FilterCall("rff_rowid_scan", <<Required(e)>>) :
        e \in {Comparison("eq", Field(Column("bbox"), "xmin"), IntLit(1)),
        IsNull(Field(Column("bbox"), "xmin"), TRUE), Comparison("eq", Column("bbox"),
        Column("bbox")), Comparison("eq", Field(Column("row_id"), "xmin"), IntLit(1))}}
  \cup {[FilterCall("tt_pushdown_scan", <<Required(Comparison("le", Column("id"),
        IntLit(3)))>>) EXCEPT !.version = v] : v \in {1, 2}}
  \cup {[FilterCall("dynamic_filter_echo", <<>>) EXCEPT !.batch = 1],
        FilterCall("filter_echo", <<>>), FilterCall("filter_echo_table_scan",
        <<Required(Comparison("gt", ColN, IntLit(2)))>>), [FilterCall("filter_echo",
        <<>>) EXCEPT !.count = -1], FilterCall("spatial_filter_example",
        <<Required(Comparison("lt", ColN, IntLit(2)))>>)}

MCFilterCalls == {FilterCall("value_prune", <<Required(e)>>) :
    e \in Trees} \cup {FilterCall("value_prune", <<Required(a), Advisory(b)>>) :
    a, b \in FewAtoms} \cup OtherFilterCalls

MCLatePredicates == {Advisory(Comparison("lt", ColN, IntLit(2))),
    Advisory(RuntimeFilter(ColN))}

-----------------------------------------------------------------------------
(* Partitioned scans                                                       *)

PartitionCall(fn, count, rows) == [fn |-> fn, count |-> count, rows |-> rows,
    wanted |-> {}]

MCPartitionCalls ==
  {PartitionCall(fn, n, 2) : fn \in {"partitioned_sequence", "partitioned_fixed_order",
        "filter_echo_partitioned"}, n \in {-1, 0, 5, 7}}
  \cup {PartitionCall("partitioned_batch_index", n, 1) : n \in {0, 4, 7}}
  \cup {PartitionCall("partitioned_batch_index_marked", n, s) :
        n \in {5}, s \in {0, 2, 3}}
  \cup {PartitionCall(fn, 0, n) : fn \in {"country_partitioned_sales",
        "trailing_partition_sales", "region_year_partitioned"}, n \in {0, 1}}
  \cup {PartitionCall("partitioned_with_explicit_override", 0, 3)}
  \cup {[PartitionCall("trailing_partition_sales", 0, 1) EXCEPT !.wanted = w] :
        w \in {{"sales", "country"}, {"seq"}}}
  \cup {PartitionCall(fn, 3, n) : fn \in {"disjoint_range_partitioned",
        "overlapping_range_partitioned"}, n \in {3, 4, 5}}
  \cup {PartitionCall(fn, n, 0) : fn \in BrokenKinds \cup BrokenTags, n \in {0, 1, 2}}

-----------------------------------------------------------------------------
(* Cached results                                                          *)

CacheQuery(fn, n) == [fn |-> fn, n |-> n, ttl |-> 1, schema |-> 0, who |-> 0,
    version |-> 0, filter |-> "none", keep |-> {}, wanted |-> <<>>, input |-> <<>>]

\* A query with a predicate pushed down
Where(q, filter, keep) == [q EXCEPT !.filter = filter, !.keep = keep]

MCCacheQueries ==
  {CacheQuery("cacheable_numbers", 3), CacheQuery("cache_no_store", 2),
        CacheQuery("cache_scoped_txn", 2), CacheQuery("cache_nonce", 1),
        CacheQuery("cache_revalidatable", 1), CacheQuery("cache_parallel", 5),
        CacheQuery("cache_poison", 2), CacheQuery("cache_external_fail", 0),
        CacheQuery("cache_types", 6), CacheQuery("cache_partitioned", 1),
        CacheQuery("cache_multicol", 2)}
  \cup {[CacheQuery("cacheable_numbers", 3) EXCEPT !.ttl = -1], CacheQuery("cache_bench",
        -1), [CacheQuery("cache_ordered", 3) EXCEPT !.ttl = 2]}
  \cup {[CacheQuery("cache_projection", 0) EXCEPT !.wanted = w] :
        w \in {<<1>>, <<10, 100>>}}
  \cup {Where(CacheQuery("cache_filtered", 5), "required", k) : k \in {{1, 4}, {0}}}
  \cup {[CacheQuery("cache_whoami", 0) EXCEPT !.who = w] : w \in {0, 1}}
  \cup {[CacheQuery("cache_versioned_scan", 0) EXCEPT !.version = w] : w \in {1, 2, 3}}
  \cup {[CacheQuery("test_same_name_cached", 0) EXCEPT !.schema = w] : w \in {0, 1}}
  \cup {CacheQuery("cache_partition_scope", n) : n \in {0, 2}}
  \cup {Where(CacheQuery("cache_partition_scope", 2), "required", k) : k \in {0..4, {1, 3}}}
  \cup {CacheQuery("cache_partition_multicol", 1)}
  \cup {Where(CacheQuery("cache_partition_multicol", 1), "required", k) : k \in {{0, 2}, {2}}}
  \cup {CacheQuery("cache_partition_parallel", 1)}
  \cup {Where(CacheQuery("cache_partition_parallel", 1), f, k) :
        f \in {"required", "advisory"}, k \in {{0, 2}, {-1}}}
  \cup {[CacheQuery("cache_partition_proj", 1) EXCEPT !.wanted = w] :
        w \in {<<2>>, <<1, 2>>, <<3, 1>>}}
  \cup {Where([CacheQuery("cache_partition_proj", 1) EXCEPT !.wanted = w], f, {1}) :
        w \in {<<2>>, <<1, 2>>, <<3, 1>>}, f \in {"required", "advisory"}}
  \cup {[CacheQuery(fn, 1) EXCEPT !.input = i] :
        fn \in {"cached_double", "cached_explode", "cached_add_const", "cached_label",
        "cached_echo", "cached_reval_echo", "cached_reval_double"}, i \in {<<2, -1, 0,
        3>>, <<3, 3, 1>>}}

-----------------------------------------------------------------------------
(* Scalar functions                                                        *)

\* Columns of numbers; a constant is the same in every row.
Numbered(type, vs) == [type |-> type, cells |-> [i \in 1..Len(vs) |-> NumCell(vs[i])]]

Constantly(type, v, n) == [type |-> type, cells |-> [i \in 1..n |-> <<type[1], v>>]]

CellsArg(type, cells) == [type |-> type, cells |-> cells]

ScalarCall(fn, args) == [fn |-> fn, schema |-> "main", args |-> args, named |-> TRUE,
    rows |-> IF args = <<>> THEN 3 ELSE Len(args[1].cells)]

Ends(t) == Numbered(t, <<Lowest(t), Highest(t), Highest(t)>>)

IntTypes == {TInt(k) : k \in 1..4} \cup {TUint(k) : k \in 1..4}

Decimal(p, s) == <<"decimal", p, s>>

Decimal256(p, s) == <<"decimal256", p, s>>

Decimals == {Decimal(1, 0), Decimal(2, 1), Decimal(3, 1), Decimal(4, 0)}

DecimalCol(t) == Numbered(t, <<10^t[2] - 1, -1, 10^(t[2] - 1)>>)

MCSums ==
  {ScalarCall("double", <<Ends(t)>>) : t \in IntTypes}
  \cup {ScalarCall("double", <<DecimalCol(t)>>) : t \in Decimals}
  \cup {ScalarCall(fn, <<Ends(t), Ends(u)>>) :
        fn \in {"add_values", "sum_values"}, t, u \in IntTypes}
  \cup {ScalarCall(fn, <<DecimalCol(t), DecimalCol(u)>>) :
        fn \in {"add_values", "sum_values"}, t, u \in Decimals}
  \cup {ScalarCall("sum_values", <<Ends(t), Ends(t), Ends(t)>>) : t \in IntTypes}
  \cup {ScalarCall("add_values", <<Ends(TInt(1)), DecimalCol(Decimal(2, 1))>>),
        ScalarCall("add_values", <<Numbered(TDouble, <<1, 2>>), Numbered(TInt(1), <<1,
              0>>)>>),
        ScalarCall("add_values", <<Numbered(<<"temporal", "date">>, <<1>>),
              Numbered(<<"temporal", "date">>, <<1>>)>>),
        ScalarCall("add_values", <<Numbered(<<"temporal", "date">>, <<1>>),
              Numbered(<<"temporal", "duration">>, <<1>>)>>),
        ScalarCall("double", <<Numbered(<<"temporal", "date">>, <<1>>)>>),
        ScalarCall("double", <<CellsArg(TText, <<<<"utf8", <<1>>>>>>)>>),
        ScalarCall("double", <<CellsArg(TNull, <<NullValue>>)>>)}
  \cup {ScalarCall("double", <<Numbered(Decimal256(5, 0), <<2, v, -1>>)>>) :
        v \in {3, 60000}}
  \cup {ScalarCall("add_values", <<Numbered(Decimal256(5, 0), <<2>>), a>>) :
        a \in {Numbered(Decimal256(5, 0), <<3>>), Numbered(Decimal(4, 0), <<3>>),
        Numbered(TInt(1), <<1>>)}}

MCTexts == CellsArg(TText, <<<<"utf8", <<97, 98>>>>, NullValue, <<"utf8", <<90>>>>>>)

MCNumbers == CellsArg(TInt64, <<NumCell(3), NullValue, NumCell(-2)>>)

MCAbsent == <<NullValue, NullValue, NullValue>>

MCFlags == CellsArg(TBool, <<<<"bool", TRUE>>, NullValue, <<"bool", FALSE>>>>)

MCPoint(a, b) == <<"point", <<NumCell(a), NumCell(b)>>>>

MCPoints(shape) == CellsArg(TPoint(shape), <<MCPoint(0, 1), NullValue, <<"point",
    <<NumCell(2), NullValue>>>>>>)

MCTensor(axes, leaves) == <<"tensor", [axes |-> axes, leaves |-> leaves]>>

MCTensors == CellsArg(TTensor(2, 2), <<MCTensor(<<<<1, 2>>, <<7, 8, 9>>>>, <<11, 12, 13,
    21, 22, 23>>), NullValue, MCTensor(<<<<5>>, <<6, 4>>>>, <<31, 32>>)>>)

MCOthers ==
  {ScalarCall(fn, <<MCNumbers>>) : fn \in {"collatz_steps", "null_handling",
        "query_seed", "type_info", "test_same_name_bind", "multiply_by_setting",
        "global_scalar", "whoami", "cached_label"}}
  \cup {[ScalarCall("test_same_name_bind", <<MCNumbers>>) EXCEPT !.schema = "data"]}
  \cup {ScalarCall(fn, <<MCTexts>>) : fn \in {"upper_case", "passthru", "sha256_hex",
        "type_info"}}
  \cup {ScalarCall("type_info", <<Ends(t)>>) : t \in {TInt(3), TUint(3), TUint(4)}}
  \cup {ScalarCall("pair_type", <<a, b>>) :
        a \in {MCNumbers}, b \in {MCNumbers, MCTexts}} \cup {ScalarCall("pair_type",
        <<MCTexts, MCTexts>>)}
  \cup {ScalarCall("any_mixed", <<a, b>>) :
        a \in {MCFlags, MCTexts, CellsArg(TNull, MCAbsent)}, b \in {MCNumbers, MCTexts}}
  \cup {ScalarCall("concat_values", <<a, a>>) : a \in {MCNumbers, MCTexts}}
  \cup {ScalarCall("multiply", <<MCNumbers, Constantly(TInt64, v, 3)>>) : v \in {2, 100}}
  \cup {ScalarCall("multiply", <<MCNumbers, CellsArg(TInt64, <<NullValue, NullValue,
        NullValue>>)>>)}
  \cup {ScalarCall("hash_rounds", <<MCTexts, Constantly(TInt64, v, 3)>>) : v \in {0, 2}}
  \cup {ScalarCall("argument_names_probe", <<MCNumbers, MCNumbers>> \o a) :
        a \in {<<>>, <<Constantly(TInt64, 3, 3)>>}}
  \cup {[ScalarCall("argument_names_probe", <<MCNumbers, MCNumbers>>) EXCEPT !.named = FALSE]}
  \cup {ScalarCall("conditional_message", <<Constantly(TInt64, n, 3), Constantly(TText,
        <<104>>, 3), MCFlags>>) : n \in {0, 2}}
  \cup {ScalarCall("hash_seed", <<Constantly(TInt64, 4, 3)>>)}
  \cup {ScalarCall("random_bytes", <<Constantly(TInt64, 4, 3), Constantly(TInt64, n,
        3)>>) : n \in {-1, 2}}
  \cup {ScalarCall("random_int", <<Numbered(TInt64, <<1, 5, -1>>), Numbered(TInt64, <<3,
        2, 0>>)>>)}
  \cup {ScalarCall(fn, <<>>) : fn \in {"bernoulli", "return_secret_value",
        "secret_field"}}
  \cup {ScalarCall(fn, <<MCPoints(s), MCPoints(s)>>) :
        s \in {"struct"}, fn \in {"geo_distance_struct", "geo_centroid_struct"}}
  \cup {ScalarCall(fn, <<MCPoints(s), MCPoints(s)>>) :
        s \in {"list"}, fn \in {"geo_distance_list", "geo_centroid_list"}}
  \cup {ScalarCall("scale_by_setting", <<Numbered(TDouble, <<2, 3>>)>>)}
  \cup {ScalarCall("format_number", a \o <<Numbered(TDouble, <<2, 3, 4>>)>>) :
        a \in {<<>>, <<Constantly(TInt64, 2, 3)>>, <<Constantly(TInt64, 11, 3)>>,
        <<Constantly(TInt64, 2, 3), Constantly(TText, <<36>>, 3)>>}}
  \cup {ScalarCall("smart_format", <<a, Numbered(TDouble, <<2, 3, 4>>)>>) :
        a \in {Constantly(TInt64, 2, 3), Constantly(TText, <<36>>, 3)}}
  \cup {ScalarCall("binary_packet", <<Constantly(TBinary, <<1>>, 3), CellsArg(TBinary,
        <<<<"binary", <<5>>>>, NullValue, <<"binary", <<6, 7>>>>>>),
        Constantly(<<"config">>, [label |-> <<9>>, version |-> 258], 3)>>)}
  \cup {ScalarCall("unnest_tensor", <<MCTensors>>), ScalarCall("unnest_tensor",
        <<CellsArg(TTensor(1, 2), MCTensors.cells)>>)}

MCScalarRequests == MCSums \cup MCOthers

MCScalarSettings == [multiplier |-> 3]

MCScalarSecrets == <<[type |-> "other", secret_string |-> 8], [type |-> "vgi_example",
    port |-> 7, secret_string |-> 9]>>

=============================================================================
