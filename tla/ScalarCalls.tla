----------------------------- MODULE ScalarCalls -----------------------------
(***************************************************************************)
(* A call of a scalar function: the engine picks an overload of its own    *)
(* listing and sends the constants, numbered densely, the types of the     *)
(* columns and, batch by batch, the columns.  The worker seats the         *)
(* constants, resolves the overload again - once for bind, once more for   *)
(* init - checks the arguments and answers (src/function_dispatch.cpp and  *)
(* src/arguments.cpp).                                                     *)
(***************************************************************************)
EXTENDS ScalarFunctions

CONSTANTS
  ScalarRequests,  \* records [fn, schema, args, rows, named]; an arg is [type, cells],
                   \* and named says that the name of every parameter came with the bind
  ScalarBatch      \* rows the engine sends at a time

ScalarAssumption ==
  /\ ScalarBatch \in Nat \ {0}
  /\ \A r \in ScalarRequests :
       /\ r.args \in Seq(Range(r.args))
       /\ \A a \in DOMAIN r.args : Len(r.args[a].cells) = r.rows /\ r.args[a].type # NoType

VARIABLES
  scall,      \* the call
  sstate,     \* "called", "asking" for secrets, "bound", "running", "done",
              \* "refused" or "failed"
  sresolved,  \* the secrets the engine resolved, once asked
  sserved,    \* the overloads bind and init chose, as numbers of Scalars
  stype,      \* the type bind settled on
  ssent,      \* rows sent
  sout        \* the cells that came back

scalarVars == <<scall, sstate, sresolved, sserved, stype, ssent, sout>>

Numbers == DOMAIN Scalars

-----------------------------------------------------------------------------
(* The engine's side                                                       *)

\* Which of a function's parameters the k-th argument is for
ParameterOf(f, k) == IF k <= Len(f.specs) THEN f.specs[k] ELSE f.specs[Len(f.specs)]

Accepts(f, call) ==
  LET n == Len(call.args)
      least == Cardinality({k \in DOMAIN f.specs : ~f.specs[k].optional})
      varargs == f.specs # <<>> /\ f.specs[Len(f.specs)].varargs
  IN /\ f.name = call.fn /\ f.schema = call.schema
     /\ n >= least /\ (varargs \/ n <= Len(f.specs))
     /\ \A k \in 1..n : ParameterOf(f, k).type \in {NoType, call.args[k].type}

\* The overload the engine calls: its listing is that of the worker.
Meant(call) == CHOOSE m \in Numbers : Accepts(Scalars[m], call)

\* The engine calls nothing it does not list.
CallsAreListed == \A r \in ScalarRequests : \E m \in Numbers : Accepts(Scalars[m], r)

ArgumentsOf(f, args, constant) ==
  LET chosen == {k \in DOMAIN args : ParameterOf(f, k).constant = constant}
  IN [j \in 1..Cardinality(chosen) |->
        args[CHOOSE k \in chosen : Cardinality({i \in chosen : i < k}) = j - 1]]
ArgumentsWhere(call, constant) ==
  ArgumentsOf(Scalars[Meant(call)], call.args, constant)

\* The constants, one cell each, and the columns
Constants(args) ==
  [j \in DOMAIN args |->
     [type |-> args[j].type, cell |-> args[j].cells[1], given |-> TRUE]]
Positional(call) == Constants(ArgumentsWhere(call, TRUE))
InputColumns(call) == ArgumentsWhere(call, FALSE)

-----------------------------------------------------------------------------
(* The worker's side                                                       *)

NoArgument == [type |-> NoType, cell |-> NullValue, given |-> FALSE]

\* Mutant of remap_positional: the constants stay where the wire numbers them.
remap_densely(positional, specs) == positional

\* Arguments::remap_positional
remap_positional(positional, specs) ==
  LET indices == {specs[k].index : k \in DOMAIN specs}
      declared == {specs[k].index : k \in {j \in DOMAIN specs : specs[j].constant}}
      Rank(p) == Cardinality({q \in declared : q < p}) + 1
  IN IF \/ positional = <<>> \/ specs = <<>>
        \/ Cardinality(declared) = Len(specs)
        \/ Len(positional) > Max(indices)
     THEN positional
     ELSE [p \in 1..(Max(indices) + 1) |->
             IF p - 1 \in declared /\ Rank(p - 1) <= Len(positional)
             THEN positional[Rank(p - 1)] ELSE NoArgument]

\* scalars_named: in scope.  They are looked at in the order of registration, which
\* is that of their numbers.
ScalarCandidates(call) ==
  {m \in Numbers : Scalars[m].name = call.fn /\ Scalars[m].schema = call.schema}

\* argument_specs_of and required_secrets_of read the first candidate.
FirstCandidate(call) == Scalars[Min(ScalarCandidates(call))]

\* The constants where the first candidate declares them, and the columns
read_bind_request(call) ==
  [seated |-> remap_positional(Positional(call), FirstCandidate(call).specs),
   columns |-> InputColumns(call),
   named |-> call.named]

\* BindParams::input_type
input_type(params, i) ==
  IF i < Len(params.seated) /\ params.seated[i + 1].type \notin {NoType, TNull}
  THEN params.seated[i + 1].type
  ELSE IF i < Len(params.columns) THEN params.columns[i + 1].type ELSE NoType

score_overload(f, params) ==
  LET typed == {k \in DOMAIN f.specs :
                  f.specs[k].type # NoType /\ input_type(params, f.specs[k].index) # NoType}
  IN IF \A k \in typed : input_type(params, f.specs[k].index) = f.specs[k].type
     THEN Cardinality(typed) ELSE -1

\* Those of the highest score, a mismatch being none
Best(candidates, params) ==
  {m \in candidates :
     /\ score_overload(Scalars[m], params) >= 0
     /\ \A n \in candidates :
          score_overload(Scalars[n], params) <= score_overload(Scalars[m], params)}

\* Mutant of resolve_scalar: the last of the best.
resolve_scalar_last(candidates, params) ==
  LET best == Best(candidates, params)
  IN IF Cardinality(candidates) = 1 \/ best = {} THEN Min(candidates) ELSE Max(best)

\* The first of the best; the first of all if none can serve.
resolve_scalar(candidates, params) ==
  LET best == Best(candidates, params)
  IN IF Cardinality(candidates) = 1 \/ best = {} THEN Min(candidates) ELSE Min(best)

check_type_bounds(f, params) ==
  \A k \in DOMAIN f.specs :
    LET type == input_type(params, f.specs[k].index)
    IN type # NoType =>
         /\ f.specs[k].bound = "multipliable" => is_multipliable_type(type)
         /\ f.specs[k].bound = "addable" => is_addable_type(type)

\* Of the constants: none is NULL, unless it stands for a tail of arguments, and each
\* is in the range declared for it.  (No scalar function declares a named parameter, a
\* choice of values or a pattern, which this also checks.)
check_arg_constraints(f, params) ==
  \A k \in DOMAIN f.specs :
    LET at == f.specs[k].index + 1
    IN (f.specs[k].constant /\ at <= Len(params.seated) /\ params.seated[at].given) =>
         /\ f.specs[k].varargs \/ params.seated[at].cell # NullValue
         /\ (f.specs[k].allowed # {} /\ params.seated[at].cell # NullValue)
              => params.seated[at].cell[2] \in f.specs[k].allowed

\* unnest_result_type: a tensor as deep as it has axes
UnnestResultType(f, type) == IF type[1] = "tensor" /\ type[2] = type[3] THEN {f.returns} ELSE {}

\* ArgumentNamesProbe::bind: refused unless every parameter's name came
NamesProbeBind(f, params) == IF params.named THEN {f.returns} ELSE {}

\* bind: the type declared, unless the function has a bind of its own; {} if it throws
OutputType(f, params) ==
  CASE f.returns = <<"promoted">> -> {promote_for_addition(input_type(params, 0))}
    [] f.returns = <<"common">> ->
         common_type_for_addition(input_type(params, 0), input_type(params, 1))
    [] f.returns = <<"unnested">> -> UnnestResultType(f, input_type(params, 0))
    [] f.name = "argument_names_probe" -> NamesProbeBind(f, params)
    [] OTHER -> {f.returns}

ScalarInit ==
  /\ scall \in ScalarRequests
  /\ sstate = "called" /\ sresolved = <<>> /\ sserved = [bind |-> 0, init |-> 0]
  /\ stype = NoType /\ ssent = 0 /\ sout = <<>>

\* Dispatcher::bind of the overload m
BindAs(m, f, params) ==
  IF ~check_type_bounds(f, params) \/ ~check_arg_constraints(f, params)
       \/ OutputType(f, params) = {}
  THEN sstate' = "refused" /\ UNCHANGED <<sserved, stype>>
  ELSE /\ sserved' = [sserved EXCEPT !.bind = m]
       /\ stype' = CHOOSE t \in OutputType(f, params) : TRUE
       /\ sstate' = IF FirstCandidate(scall).secrets # {} THEN "asking" ELSE "bound"
BindScalar ==
  /\ sstate = "called"
  /\ \E params \in {read_bind_request(scall)} :
       \E m \in {resolve_scalar(ScalarCandidates(scall), params)} :
         BindAs(m, Scalars[m], params)
  /\ UNCHANGED <<scall, sresolved, ssent, sout>>

\* The engine resolves the secrets asked for and binds again: this bind asks for
\* none (required_secrets_of), and settles the rest as the first did.
BindWithSecrets ==
  /\ sstate = "asking"
  /\ sresolved' = ScalarSecrets
  /\ sserved' = [sserved EXCEPT !.bind = resolve_scalar(ScalarCandidates(scall),
                                                    read_bind_request(scall))]
  /\ sstate' = "bound"
  /\ UNCHANGED <<scall, stype, ssent, sout>>

\* Dispatcher::init
InitScalar ==
  /\ sstate = "bound"
  /\ sserved' = [sserved EXCEPT !.init = resolve_scalar(ScalarCandidates(scall),
                                                    read_bind_request(scall))]
  /\ sstate' = "running"
  /\ UNCHANGED <<scall, sresolved, stype, ssent, sout>>

\* A row with a NULL argument is NULL whatever came back, unless the function
\* handles NULL itself.
Shown(f, columns, cells) ==
  [i \in DOMAIN cells |->
     IF ~f.special /\ \E k \in DOMAIN columns : columns[k].cells[i] = NullValue
     THEN NullValue ELSE cells[i]]

\* The next n rows of the columns
BatchOf(columns, n) ==
  [k \in DOMAIN columns |->
     [type |-> columns[k].type, cells |-> SubSeq(columns[k].cells, ssent + 1, ssent + n)]]

\* ScalarExchange::exchange: as many rows come back as were sent.
ExchangeRows(f, params, n) ==
  \E answers \in {process(f, [consts |-> params.seated, columns |-> params.columns,
                              rows |-> n, type |-> stype, secrets |-> sresolved])} :
    IF answers = {} \/ \E a \in answers : Len(a) # n
    THEN sstate' = "failed" /\ UNCHANGED <<ssent, sout>>
    ELSE /\ \E a \in answers : sout' = sout \o Shown(f, params.columns, a)
         /\ ssent' = ssent + n
         /\ sstate' = IF ssent + n = scall.rows THEN "done" ELSE "running"
ExchangeScalar ==
  /\ sstate = "running" /\ ssent < scall.rows
  /\ \E n \in {Min({ScalarBatch, scall.rows - ssent})} :
       \E params \in {read_bind_request(scall)} :
         ExchangeRows(Scalars[sserved.init],
                      [params EXCEPT !.columns = BatchOf(@, n)], n)
  /\ UNCHANGED <<scall, sresolved, sserved, stype>>

ScalarNext == BindScalar \/ BindWithSecrets \/ InitScalar \/ ExchangeScalar

ScalarSpec == ScalarInit /\ [][ScalarNext]_scalarVars

-----------------------------------------------------------------------------
(* Properties                                                              *)

\* bind and init serve the overload the engine called, though each resolves the
\* name again from densely numbered constants and the columns' types
\* (score_overload, find_table's and resolve_scalar's choice).
CalledIsServed ==
  \A phase \in {"bind", "init"} : sserved[phase] \in {0, Meant(scall)}

\* What a call means, from its arguments where the caller wrote them.
ScaleOf(type) == IF IsDecimal(type) THEN type[3] ELSE 0
ExactSum(i) ==
  FoldLeft(LAMBDA sum, arg : sum + arg.cells[i][2] * 10^(ScaleOf(stype) - ScaleOf(arg.type)),
           0, scall.args)
Given(i, k) == scall.args[k].cells[i][2]

\* Every constant reaches its function at the place it was declared for, is
\* checked there - a NULL is refused - and every row's answer is made of that
\* row's arguments, whatever the batches (check_arg_constraints,
\* remap_positional, ConditionalMessage, BinaryPacket, UnnestTensor ...).
AnswersAreOfTheirRow ==
  /\ sout # <<>> => \A k \in DOMAIN scall.args :
       ParameterOf(Scalars[Meant(scall)], k).constant => scall.args[k].cells[1] # NullValue
  /\ \A i \in DOMAIN sout :
       sout[i] # NullValue =>
         CASE scall.fn = "multiply" -> sout[i] = NumCell(Wrap(Given(i, 1) * Given(i, 2), TInt64))
           [] scall.fn = "argument_names_probe" ->
                sout[i] = NumCell((Given(i, 1) + Given(i, 2))
                                  * IF Len(scall.args) = 3 THEN Given(i, 3) ELSE 2)
           [] scall.fn = "hash_rounds" ->
                sout[i] = <<"hex", Hashed(Given(i, 1), Given(i, 2))>>
           [] scall.fn = "conditional_message" ->
                sout[i][2] = (IF Given(i, 3)
                              THEN FlattenSeq([k \in 1..Given(i, 1) |-> Given(i, 2)])
                              ELSE <<>>)
           [] scall.fn = "binary_packet" ->
                sout[i][2] = Given(i, 1) \o Given(i, 2) \o Given(i, 3).label
                             \o <<Given(i, 3).version % 256>>
           [] scall.fn = "format_number" ->
                LET n == Len(scall.args)
                IN sout[i] = <<"fixed", IF n = 3 THEN Given(i, 2) ELSE <<>>,
                               IF n > 1 THEN Given(i, 1) ELSE 0, Given(i, n)>>
           [] scall.fn = "smart_format" -> <<sout[i][2], sout[i][3]>> = <<Given(i, 1), Given(i, 2)>>
           [] scall.fn = "random_int" ->
                /\ Given(i, 1) <= sout[i][2]
                /\ sout[i][2] <= Max({Given(i, 1), Given(i, 2)})
           [] scall.fn = "unnest_tensor" ->
                LET t == Given(i, 1)
                IN /\ Len(sout[i][2]) = Len(t.leaves)
                   /\ \A a \in DOMAIN t.axes[1], b \in DOMAIN t.axes[2] :
                        sout[i][2][(a - 1) * Len(t.axes[2]) + b]
                          = [value |-> t.leaves[(a - 1) * Len(t.axes[2]) + b],
                             axes |-> <<t.axes[1][a], t.axes[2][b]>>]
           [] OTHER -> TRUE

\* A sum is the sum: an integer type has room for the carry of the arguments'
\* types, and a decimal that has not is refused.  Only 64-bit integers wrap, and
\* sum_values of several types, which takes the first for all of them
\* (promote_for_addition, common_numeric, double_first).
SumsHaveRoom ==
  LET types == {scall.args[k].type : k \in DOMAIN scall.args}
  IN (/\ sout # <<>>
      /\ scall.fn \in {"double", "add_values", "sum_values"}
      /\ scall.fn = "sum_values" => Cardinality(types) = 1
      /\ {TInt64, TUint(4)} \cap types = {})
       => \A i \in DOMAIN sout :
            sout[i] # NullValue =>
              sout[i][2] = ExactSum(i) * IF scall.fn = "double" THEN 2 ELSE 1
=============================================================================
