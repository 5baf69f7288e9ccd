------------------------------ MODULE Execution ------------------------------
(***************************************************************************)
(* From a function name to the protocol that serves it: bind and init of   *)
(* src/function_dispatch.cpp, aggregate_bind of src/aggregate.cpp, and     *)
(* after them the scan, exchange, buffering or aggregate protocol that the *)
(* call was given to.  Registries are per kind, so one name may be         *)
(* registered as several: a COPY format's reader (a table function) and    *)
(* its writer (a buffering function) share one on purpose.                 *)
(***************************************************************************)
EXTENDS Naturals, Sequences

CONSTANTS
  Registrations,      \* per name that may be called, the kinds it is
  Inputs, PageSizes, MaxInputs,                             \* InOutExchange
  Executions, Processes, Batches,                           \* Buffering
  Threads, Updates, Windows, Frames, Chunks, MaxCalls, Null,  \* Aggregation
  ScanPages, Snapshots, Deltas, MaxIds                      \* TableScan

VARIABLES
  registered,   \* the kinds the called name is registered as
  meant,        \* the kind the engine listed it as and calls it for
  stage,        \* of the call: called, bound, running or refused
  bound,        \* the kind whose bind answered
  served,       \* the kind whose stream, or calls, serve the execution
  divided       \* whether on_init pushed work to the execution's queue

VARIABLES fn, state, morePending, failed, sent, got, parents
VARIABLES sink, counter, id, phase, unsunk, stash, log, ordered, afterId, seen,
          output
VARIABLES shape, step, kv, entries, call, unmerged, calls, fed, shipped, answer

VARIABLES autoApply, specs, revisions, required, tag, asked, next, scanned,
          emitted, offered, firstTag, everKept

X == INSTANCE InOutExchange
B == INSTANCE Buffering
A == INSTANCE Aggregation
S == INSTANCE TableScan

dvars == <<registered, meant, stage, bound, served, divided>>
xvars == <<fn, state, morePending, failed, sent, got, parents>>
bvars == <<sink, counter, id, phase, unsunk, stash, log, ordered, afterId, seen,
           output>>
avars == <<shape, step, kv, entries, call, unmerged, calls, fed, shipped, answer>>
svars == <<autoApply, specs, revisions, required, tag, asked, next, scanned,
           emitted, offered, firstTag, everKept>>
vars == <<dvars, xvars, bvars, avars, svars>>

Kinds == {"scalar", "table", "in_out", "buffering", "aggregate"}
None == "none"

ASSUME ExecutionAssumption ==
  /\ Registrations \subseteq (SUBSET Kinds) \ {{}}
  /\ X!ExchangeAssumption /\ B!BufferingAssumption /\ A!AggregationAssumption
  /\ S!TableScanAssumption

-----------------------------------------------------------------------------
(* Which kind a call resolves to                                           *)

\* The function_type a call declares: in-out functions are listed as tables.
Declared ==
  CASE meant = "buffering" -> "table_buffering"
    [] meant \in {"table", "in_out"} -> "table"
    [] OTHER -> meant

\* The first kind of order that holds the name.
FirstOf(order) ==
  LET found == {i \in DOMAIN order : order[i] \in registered}
  IN IF found = {} THEN None ELSE order[CHOOSE i \in found : \A j \in found : i <= j]

\* bind: a call declared `table` tries the sinks last.
BindKind ==
  IF Declared = "table"
  THEN FirstOf(<<"in_out", "table", "buffering", "scalar">>)
  ELSE FirstOf(<<"buffering", "in_out", "table", "scalar">>)

\* Mutant of DividesWork: any table function of the name divides work.
DividesAnyway == "table" \in registered

\* init: on_init runs for a table function, unless the call is for a sink.
DividesWork ==
  /\ "table" \in registered
  /\ ~(Declared = "table_buffering" /\ "buffering" \in registered)

\* init: the stream is the first of these, whatever the call declares.
InitKind == FirstOf(<<"buffering", "table", "in_out", "scalar">>)

-----------------------------------------------------------------------------
(* A call                                                                  *)

\* The protocols a call does not reach stay in one initial state each.
Idle(k) ==
  CASE k = "in_out" -> fn = CHOOSE f \in X!Functions : TRUE
    [] k = "buffering" -> sink = [e \in Executions |-> "buffer"]
    [] k = "aggregate" -> shape = "grouped"
    [] k = "table" -> /\ autoApply /\ tag = S!NoTag
                      /\ specs = CHOOSE p \in Snapshots : TRUE

Init ==
  /\ registered \in Registrations
  /\ meant \in registered
  /\ stage = "called" /\ bound = None /\ served = None /\ divided = FALSE
  /\ X!Init /\ B!Init /\ A!Init /\ S!Init
  /\ \A k \in {"in_out", "buffering", "aggregate", "table"} : meant # k => Idle(k)

\* bind
Bind ==
  /\ stage = "called" /\ meant # "aggregate"
  /\ bound' = BindKind
  /\ stage' = IF BindKind = None THEN "refused" ELSE "bound"
  /\ UNCHANGED <<registered, meant, served, divided, xvars, bvars, avars, svars>>

\* init, primary
InitCall ==
  /\ stage = "bound"
  /\ served' = InitKind
  /\ divided' = DividesWork
  /\ stage' = "running"
  /\ UNCHANGED <<registered, meant, bound, xvars, bvars, avars, svars>>

\* aggregate_bind, whose registry is its own.
AggregateBind ==
  /\ stage = "called" /\ meant = "aggregate"
  /\ bound' = "aggregate" /\ served' = "aggregate"
  /\ stage' = "running"
  /\ UNCHANGED <<registered, meant, divided, xvars, bvars, avars, svars>>

\* The engine drives the protocol it asked for, if that is what it was given.
Serving(k) == stage = "running" /\ served = k /\ meant = k

Exchange ==
  Serving("in_out") /\ X!Next /\ UNCHANGED <<dvars, bvars, avars, svars>>
Buffer ==
  Serving("buffering") /\ B!Next /\ UNCHANGED <<dvars, xvars, avars, svars>>
Aggregate ==
  Serving("aggregate") /\ A!Next /\ UNCHANGED <<dvars, xvars, bvars, svars>>
Scan ==
  Serving("table") /\ S!Next /\ UNCHANGED <<dvars, xvars, bvars, avars>>

Next ==
  \/ Bind \/ InitCall \/ AggregateBind
  \/ Exchange \/ Buffer \/ Aggregate \/ Scan

Spec == Init /\ [][Next]_vars

\* The engine asks for output that is pending, and drives a query that it has
\* not abandoned.
Pull ==
  /\ Serving("in_out") /\ (X!Resume \/ X!EmitRefused)
  /\ UNCHANGED <<dvars, bvars, avars, svars>>
Drive(e) ==
  Serving("buffering") /\ B!Step(e) /\ UNCHANGED <<dvars, xvars, avars, svars>>

FairSpec == Spec /\ WF_vars(Pull) /\ \A e \in Executions : WF_vars(Drive(e))

-----------------------------------------------------------------------------
(* Properties                                                              *)

\* The types of the call and of the four protocols.
TypeOK ==
  /\ registered \subseteq Kinds /\ meant \in registered
  /\ stage \in {"called", "bound", "running", "refused"}
  /\ {bound, served} \subseteq Kinds \cup {None}
  /\ divided \in BOOLEAN
  /\ X!ExchangeTypeOK /\ B!BufferingTypeOK
  /\ A!AggregationTypeOK /\ S!ScanTypeOK

\* Where a COPY format's reader and writer share a name, and nothing else has it:
\* a COPY TO binds and runs the writer, and leaves no work of the reader in the
\* execution's queue; bind alone also keeps the writer from a COPY FROM.
WriterAndReaderApart ==
  registered = {"table", "buffering"} /\ stage = "running" =>
    /\ bound = meant
    /\ meant = "buffering" => served = meant /\ ~divided

\* bind's comment on the tie ("Probing buffering first would hand the writer to
\* a COPY FROM"; "The declared kind is what breaks the tie") and init's ("Same
\* tie-break as `bind`"): init runs the function that bind bound.
InitServesWhatBindBound == stage = "running" => served = bound

\* InOutExchange: what the client holds of an input is a prefix of its output,
\* and all of it once no reply says more; parent_rows name each row's input.
OutputIsWhole == X!OutputIsWhole /\ X!ParentsNameTheirRows

\* InOutExchange: pending output ends, or the stream does.
OutputEnds == X!OutputEnds

\* Buffering: a query delivers each batch it sank once, and no other's.
DeliversWhatWasSunk == B!DeliversWhatWasSunk

\* Buffering: every call runs under its own query's bind context, and a query's
\* destructor takes nothing of one that is running.
QueriesAreApart == B!OwnBindContext /\ B!RunningKeepsItsScope

\* Buffering: every query that is not abandoned ends.
QueryEnds == B!QueryEnds

\* Aggregation: SUM per group over all threads and in every combine order, of a
\* window over its own partition and FILTER, and running on across chunks.
AggregatesAreRight == A!GroupTotals /\ A!WindowTotals /\ A!RunningTotals

\* TableScan: in force are the newest filters offered, in any order of arrival,
\* and the first validators.
InForce == S!NewestWins /\ S!AskedOfTheFirst

\* TableScan: rows are filtered by what is required and by nothing else.
RowsAreRight == S!RowsAreRight

=============================================================================
