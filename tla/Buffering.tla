------------------------------ MODULE Buffering ------------------------------
(***************************************************************************)
(* Table-buffering executions: init's sink phase and finalize phase in     *)
(* src/function_dispatch.cpp, the three RPCs of src/buffering.cpp, and the *)
(* three sinks of the example worker that keep nothing in memory:          *)
(* buffer_input, its batch_index variant, and a COPY TO writer.            *)
(*                                                                         *)
(* The calls of one execution may each land on another worker process;     *)
(* what they share is the storage scope named by the execution id.  The    *)
(* engine (external) sinks the batches in any order and in parallel, calls *)
(* combine once every process call has returned, then finalizes each id    *)
(* combine returned, then the destructor.  It abandons the query on the    *)
(* first error, destructor or not.  An append is atomic and a scan sees    *)
(* every append that returned: FunctionStorage implements SharedLog.       *)
(***************************************************************************)
EXTENDS Naturals, Sequences, SequencesExt, FiniteSets

CONSTANTS
  Executions,   \* queries, each one execution
  Processes,    \* worker processes, each with its own counter
  Batches       \* batch_index of each query's input batches

BufferingAssumption == Batches \subseteq Nat /\ IsFiniteSet(Batches)

VARIABLES
  sink,       \* per execution: the sink function it calls
  counter,    \* per process: next_execution_id's counter
  id,         \* per execution: its execution_id, once init answered
  phase,      \* per execution: where the engine is
  unsunk,     \* per execution: the batches not yet sunk
  stash,      \* storage: per scope, the bind.* keys
  log,        \* storage: per scope, its two logs
  ordered,    \* per execution: what combine has still to append
  afterId,    \* per execution: Replay's position
  seen,       \* history, per execution: whose bind context its calls read
  output      \* per execution: the batches delivered, or written to the file

bvars == <<sink, counter, id, phase, unsunk, stash, log, ordered, afterId, seen,
           output>>

Sinks == {"buffer", "indexed", "copy_to"}
Namespaces == {"buf", "buf.unsorted"}
NoId == <<>>

\* The ids a process mints: prefix (pid and clocks) and counter.
Ids == {<<p, n>> : p \in Processes, n \in 1..Cardinality(Executions)}

Init ==
  /\ sink \in [Executions -> Sinks]
  /\ counter = [p \in Processes |-> 0]
  /\ id = [e \in Executions |-> NoId]
  /\ phase = [e \in Executions |-> "bound"]
  /\ unsunk = [e \in Executions |-> Batches]
  /\ stash = [s \in {} |-> {}]
  /\ log = [s \in {} |-> [n \in Namespaces |-> <<>>]]
  /\ ordered = [e \in Executions |-> <<>>]
  /\ afterId = [e \in Executions |-> 0]
  /\ seen = [e \in Executions |-> {}]
  /\ output = [e \in Executions |-> <<>>]

\* A scope is a directory that its first write creates.
Logs(s) == IF s \in DOMAIN log THEN log[s] ELSE [n \in Namespaces |-> <<>>]
Stashed(s) == IF s \in DOMAIN stash THEN {stash[s]} ELSE {}

Put(f, s, v) == [t \in DOMAIN f \cup {s} |-> IF t = s THEN v ELSE f[t]]
AppendTo(s, n, batch) ==
  log' = Put(log, s, [Logs(s) EXCEPT ![n] = Append(@, batch)])

At(e, from, to) == phase[e] = from /\ phase' = [phase EXCEPT ![e] = to]

\* Mutant of NextExecutionId: every process has the same prefix.
CounterOnly(p) == <<CHOOSE q \in Processes : TRUE, counter[p] + 1>>

\* next_execution_id
NextExecutionId(p) == <<p, counter[p] + 1>>

\* init, primary, sink phase: mints the id and stashes the bind context.
InitSink(e, p) ==
  /\ At(e, "bound", "sinking")
  /\ id' = [id EXCEPT ![e] = NextExecutionId(p)]
  /\ counter' = [counter EXCEPT ![p] = @ + 1]
  /\ stash' = Put(stash, NextExecutionId(p), e)
  /\ UNCHANGED <<sink, unsunk, log, ordered, afterId, seen, output>>

\* buffering_params: every call reloads what bind stashed.
ReloadContext(e) == seen' = [seen EXCEPT ![e] = @ \cup Stashed(id[e])]

\* table_buffering_process
Process(e, b) ==
  /\ phase[e] = "sinking"
  /\ b \in unsunk[e]
  /\ ReloadContext(e)
  /\ AppendTo(id[e], IF sink[e] = "indexed" THEN "buf.unsorted" ELSE "buf",
              [of |-> e, index |-> b])
  /\ unsunk' = [unsunk EXCEPT ![e] = @ \ {b}]
  /\ UNCHANGED <<sink, counter, id, phase, stash, ordered, afterId, output>>

\* stable_sort by batch_index: the one permutation that orders by index and, where
\* two are equal, as they were.
SortedByIndex(staged) ==
  LET n == Len(staged)
      order == CHOOSE p \in [1..n -> 1..n] :
                 /\ Range(p) = 1..n
                 /\ \A i, j \in 1..n : i < j =>
                      \/ staged[p[i]].index < staged[p[j]].index
                      \/ staged[p[i]].index = staged[p[j]].index /\ p[i] < p[j]
  IN [i \in 1..n |-> staged[order[i]]]

\* table_buffering_combine as far as its scan: the batch_index variant sorts
\* what is staged, buffer_input has nothing to reconcile.
Combine(e) ==
  /\ unsunk[e] = {}
  /\ sink[e] # "copy_to"
  /\ At(e, "sinking", "combining")
  /\ ReloadContext(e)
  /\ ordered' = [ordered EXCEPT ![e] =
       IF sink[e] = "indexed" THEN SortedByIndex(Logs(id[e])["buf.unsorted"])
       ELSE <<>>]
  /\ UNCHANGED <<sink, counter, id, unsunk, stash, log, afterId, output>>

\* ... and one append per staged batch.
CombineAppend(e) ==
  /\ phase[e] = "combining"
  /\ ordered[e] # <<>>
  /\ AppendTo(id[e], "buf", Head(ordered[e]))
  /\ ordered' = [ordered EXCEPT ![e] = Tail(@)]
  /\ UNCHANGED <<sink, counter, id, phase, unsunk, stash, afterId, seen, output>>

\* combine of a COPY TO: close writes every shard, and nothing is finalized.
Close(e) ==
  /\ unsunk[e] = {}
  /\ sink[e] = "copy_to"
  /\ At(e, "sinking", "done")
  /\ ReloadContext(e)
  /\ output' = [output EXCEPT ![e] = Logs(id[e])["buf"]]
  /\ UNCHANGED <<sink, counter, id, unsunk, stash, log, ordered, afterId>>

\* init, finalize phase: the id is supplied, so nothing is minted or stashed.
InitFinalize(e) ==
  /\ ordered[e] = <<>>
  /\ At(e, "combining", "replaying")
  /\ UNCHANGED <<sink, counter, id, unsunk, stash, log, ordered, afterId, seen,
                output>>

\* Mutant of NextBatch: the position is that of the output, a page behind.
NextBatchAgain(e) ==
  LET entries == Logs(id[e])["buf"] IN
  /\ phase[e] = "replaying"
  /\ afterId[e] < Len(entries)
  /\ output' = [output EXCEPT ![e] = Append(@, entries[afterId[e] + 1])]
  /\ afterId' = [afterId EXCEPT ![e] = Len(output[e])]
  /\ UNCHANGED <<sink, counter, id, phase, unsunk, stash, log, ordered, seen>>

\* Replay::next_batch: one entry per tick, after the last.
NextBatch(e) ==
  LET entries == Logs(id[e])["buf"] IN
  /\ phase[e] = "replaying"
  /\ afterId[e] < Len(entries)
  /\ output' = [output EXCEPT ![e] = Append(@, entries[afterId[e] + 1])]
  /\ afterId' = [afterId EXCEPT ![e] = @ + 1]
  /\ UNCHANGED <<sink, counter, id, phase, unsunk, stash, log, ordered, seen>>

\* Mutant of ReplayEnds: the end is past the last entry, not at it.
ReplayEndsPast(e) ==
  /\ afterId[e] > Len(Logs(id[e])["buf"])
  /\ At(e, "replaying", "done")
  /\ UNCHANGED <<sink, counter, id, unsunk, stash, log, ordered, afterId, seen,
                output>>

\* Replay::next_batch finds nothing after the last: the stream ends.
ReplayEnds(e) ==
  /\ afterId[e] >= Len(Logs(id[e])["buf"])
  /\ At(e, "replaying", "done")
  /\ UNCHANGED <<sink, counter, id, unsunk, stash, log, ordered, afterId, seen,
                output>>

Without(f, s) == [t \in DOMAIN f \ {s} |-> f[t]]

\* table_buffering_destructor, which clears the scope.
Destructor(e) ==
  /\ phase[e] \in {"done", "failed"}
  /\ phase' = [phase EXCEPT ![e] = "destroyed"]
  /\ log' = Without(log, id[e])
  /\ stash' = Without(stash, id[e])
  /\ UNCHANGED <<sink, counter, id, unsunk, ordered, afterId, seen, output>>

\* A worker dies in a call of the execution, or a function throws.
Fail(e) ==
  /\ phase[e] \in {"sinking", "combining", "replaying"}
  /\ phase' = [phase EXCEPT ![e] = "failed"]
  /\ UNCHANGED <<sink, counter, id, unsunk, stash, log, ordered, afterId, seen,
                output>>

Step(e) ==
  \/ \E p \in Processes : InitSink(e, p)
  \/ \E b \in Batches : Process(e, b)
  \/ Combine(e) \/ CombineAppend(e) \/ Close(e)
  \/ InitFinalize(e) \/ NextBatch(e) \/ ReplayEnds(e)

Next == \E e \in Executions : Step(e) \/ Destructor(e) \/ Fail(e)

Spec == Init /\ [][Next]_bvars

\* The engine drives a query it has not abandoned.
Fairness == \A e \in Executions : WF_bvars(Step(e))

-----------------------------------------------------------------------------
(* Properties                                                              *)

BufferingTypeOK ==
  /\ sink \in [Executions -> Sinks]
  /\ id \in [Executions -> Ids \cup {NoId}]
  /\ unsunk \in [Executions -> SUBSET Batches]
  /\ DOMAIN log \subseteq Ids /\ DOMAIN stash \subseteq Ids

InputOf(e) == {[of |-> e, index |-> b] : b \in Batches}

\* A query that runs to its end delivers (or writes to its file) every batch it
\* sank, once, and none of another query running at the same time, though its
\* calls shared nothing but a storage scope with each other; the batch_index
\* variant delivers them in the input's order, in whatever order they were
\* sunk.
DeliversWhatWasSunk ==
  \A e \in Executions : phase[e] = "done" =>
    /\ Range(output[e]) = InputOf(e)
    /\ Len(output[e]) = Cardinality(Batches)
    /\ sink[e] = "indexed" =>
         \A i, j \in DOMAIN output[e] :
           i < j => output[e][i].index < output[e][j].index

\* Every process, combine and close call runs under the arguments, settings and
\* COPY destination of its own query's bind, wherever it lands.
OwnBindContext ==
  \A e \in Executions :
    /\ seen[e] \subseteq {e}
    /\ phase[e] \in {"combining", "replaying", "done"} => seen[e] = {e}

\* The destructor of one query takes nothing of another that is running.
RunningKeepsItsScope ==
  \A e \in Executions :
    phase[e] \in {"sinking", "combining", "replaying"} => id[e] \in DOMAIN stash

\* Every query ends, unless the engine abandons it.
QueryEnds ==
  \A e \in Executions :
    phase[e] = "sinking" ~> phase[e] \in {"done", "failed", "destroyed"}
=============================================================================
