----------------------------- MODULE Aggregation -----------------------------
(***************************************************************************)
(* One aggregate execution (src/aggregate.cpp), in the three shapes the    *)
(* engine drives: grouped, windowed and streaming-partitioned, each with   *)
(* the example worker's sum.  A call keeps nothing: it reads its state     *)
(* from the execution's storage scope and writes it back, on whichever     *)
(* worker it lands.                                                        *)
(*                                                                         *)
(* The engine (external) gives each of its threads group ids of its own,   *)
(* runs their updates in parallel, combines them pair by pair once every   *)
(* update has returned, and finalizes the survivors.  It sends the chunks  *)
(* of a streaming session one after another.                               *)
(***************************************************************************)
EXTENDS Integers, Sequences, SequencesExt, FiniteSets

CONSTANTS
  Threads,      \* engine threads of a grouped aggregate
  Updates,      \* update batches: sequences of <<SQL group, value>>
  Windows,      \* shipped partitions: [rows, mask], mask <<>> for no FILTER
  Frames,       \* sub-frame lists, each frame a half-open <<begin, end>>
  Chunks,       \* streaming chunks: sequences of <<partition key, value>>
  MaxCalls,     \* bound on the updates, chunks or partitions of an execution
  Null          \* a NULL, and a state that is absent

Values == Int \cup {Null}

\* The separator byte of a streaming entry.
NUL == 0
\* Every other byte of a partition key.  A key that holds the separator itself
\* is excluded: its entry would be split inside the key.
KeyBytes == Nat \ {NUL}

\* Sequences, and sequences of <<key, value>>.
IsSequence(s) == s = [i \in 1..Len(s) |-> s[i]] /\ Len(s) \in Nat
AreRows(s) == IsSequence(s) /\ \A i \in DOMAIN s : s[i][2] \in Values

AggregationAssumption ==
  /\ Threads # {} /\ IsFiniteSet(Threads) /\ MaxCalls \in Nat /\ Null \notin Int
  /\ \A batch \in Updates : AreRows(batch)
  /\ \A chunk \in Chunks :
       AreRows(chunk) /\ \A i \in DOMAIN chunk : chunk[i][1] \in Seq(KeyBytes)
  \* row_count and filter_mask are of the partition's rows.
  /\ \A w \in Windows :
       /\ IsSequence(w.rows)
       /\ w.mask \in Seq(BOOLEAN) /\ (w.mask = <<>> \/ Len(w.mask) = Len(w.rows))

VARIABLES
  shape,      \* the shape of the execution
  step,       \* where the engine is
  kv,         \* the scope's keys
  entries,    \* the scope's "streaming" log
  call,       \* per thread: an update between its reads and its writes
  unmerged,   \* the group ids not yet combined into another
  calls,      \* how many updates, chunks and partitions there were
  fed,        \* history: per SQL group or partition key, its total
  shipped,    \* history: the partitions the engine holds open
  answer      \* the latest answer: what came, and what SQL says

avars == <<shape, step, kv, entries, call, unmerged, calls, fed, shipped, answer>>

Absent(f, k) == IF k \in DOMAIN f THEN f[k] ELSE Null
With(f, k, v) == [x \in DOMAIN f \cup {k} |-> IF x = k THEN v ELSE f[x]]
Without(f, ks) == [x \in DOMAIN f \ ks |-> f[x]]
Empty == [k \in {} |-> Null]
NoAnswer == [is |-> <<>>, should |-> <<>>]
NoCall == [batch |-> <<>>, states |-> Empty]

\* A running SUM: NULL until a value is folded in.  The code adds signed 64-bit
\* integers; totals that leave them are excluded.
Plus(total, value) ==
  IF value = Null THEN total
  ELSE IF total = Null THEN value
  ELSE total + value

\* ... over values, in order.
SumOf(start, values) ==
  LET Sum[i \in 0..Len(values)] ==
        IF i = 0 THEN start ELSE Plus(Sum[i - 1], values[i])
  IN Sum[Len(values)]

SqlGroups == {row[1] : row \in UNION {Range(b) : b \in Updates}}
GroupIds == Threads \X SqlGroups

Init ==
  /\ shape \in {"grouped", "window", "streaming"}
  /\ step = "feeding"
  /\ kv = Empty /\ entries = <<>>
  /\ call = [t \in Threads |-> NoCall]
  /\ unmerged = GroupIds
  /\ calls = 0
  /\ fed = Empty /\ shipped = Empty /\ answer = NoAnswer

-----------------------------------------------------------------------------
(* Grouped: update, combine, finalize                                      *)

StateKey(g) == <<"aggregate.state", g>>

\* The values of rows <<key, value>> under one key; NULL for the others.
ValuesUnder(rows, key) ==
  [i \in DOMAIN rows |-> IF rows[i][1] = key THEN rows[i][2] ELSE Null]

\* Rows added, in order, to the totals f of their keys.
FoldRows(f, rows) ==
  [k \in DOMAIN f \cup {rows[i][1] : i \in {j \in DOMAIN rows : rows[j][2] # Null}} |->
     SumOf(Absent(f, k), ValuesUnder(rows, k))]

\* A thread's batch, under the keys of its group ids.
Keyed(t, batch) ==
  [i \in DOMAIN batch |-> <<StateKey(<<t, batch[i][1]>>), batch[i][2]>>]

\* aggregate_update as far as its reads: the groups that have state.
UpdateReads(t, batch) ==
  LET keys == {row[1] : row \in Range(Keyed(t, batch))} \cap DOMAIN kv
  IN /\ shape = "grouped" /\ step = "feeding" /\ call[t] = NoCall
     /\ calls < MaxCalls
     /\ calls' = calls + 1
     /\ call' = [call EXCEPT ![t] =
          [batch |-> batch, states |-> [k \in keys |-> kv[k]]]]
     /\ UNCHANGED <<shape, step, kv, entries, unmerged, fed, shipped, answer>>

\* Sum::update: a group gains state with its first value, not before.
Updated(t) ==
  FoldRows(call[t].states, Keyed(t, call[t].batch))

\* The rest of aggregate_update: every state is written back.
UpdateWrites(t) ==
  LET states == Updated(t)
  IN /\ call[t] # NoCall
     /\ kv' = [k \in DOMAIN kv \cup DOMAIN states |->
                 IF k \in DOMAIN states THEN states[k] ELSE kv[k]]
     /\ fed' = FoldRows(fed, call[t].batch)
     /\ call' = [call EXCEPT ![t] = NoCall]
     /\ UNCHANGED <<shape, step, entries, unmerged, calls, shipped, answer>>

\* aggregate_combine, one pair: a source without state changes nothing.
Merged(source, target) ==
  LET s == StateKey(source)
      d == StateKey(target)
  IN IF s \notin DOMAIN kv THEN kv
     ELSE With(kv, d, IF d \in DOMAIN kv THEN kv[d] + kv[s] ELSE kv[s])

Combine(source, target) ==
  /\ shape = "grouped" /\ step = "feeding"
  /\ \A t \in Threads : call[t] = NoCall
  /\ {source, target} \subseteq unmerged
  /\ source # target /\ source[2] = target[2]
  /\ kv' = Merged(source, target)
  /\ unmerged' = unmerged \ {source}
  /\ calls' = MaxCalls
  /\ UNCHANGED <<shape, step, entries, call, fed, shipped, answer>>

\* aggregate_finalize of the groups that are left, one per SQL group.
Finalize ==
  LET left(g) == CHOOSE i \in unmerged : i[2] = g
  IN /\ shape = "grouped" /\ step = "feeding"
     /\ \A t \in Threads : call[t] = NoCall
     /\ \A i, j \in unmerged : i[2] = j[2] => i = j
     /\ answer' = [is |-> [g \in SqlGroups |-> Absent(kv, StateKey(left(g)))],
                   should |-> [g \in SqlGroups |-> Absent(fed, g)]]
     /\ step' = "answered"
     /\ UNCHANGED <<shape, kv, entries, call, unmerged, calls, fed, shipped>>

-----------------------------------------------------------------------------
(* Windowed: init, result, destructor                                      *)

WindowKeys(p) ==
  {<<k, p>> : k \in {"window.partition", "window.schema", "window.mask",
                     "window.rows"}}

\* The mask on the wire: bytes (the sets of their one bits) of eight rows each,
\* the first row the lowest bit.
Pack(mask) ==
  [b \in 1..((Len(mask) + 7) \div 8) |->
     {i \in 0..7 : 8 * (b - 1) + i < Len(mask) /\ mask[8 * (b - 1) + i + 1]}]

\* unpack_mask
Unpack(packed, rows) ==
  IF packed = <<>> \/ rows <= 0 THEN <<>>
  ELSE [i \in 1..rows |->
          /\ (i - 1) \div 8 < Len(packed)
          /\ (i - 1) % 8 \in packed[(i - 1) \div 8 + 1]]

\* aggregate_window_init
WindowInit(p, w) ==
  /\ shape = "window" /\ step = "feeding"
  /\ p \notin DOMAIN shipped /\ calls < MaxCalls
  /\ calls' = calls + 1
  /\ kv' = [k \in DOMAIN kv \cup WindowKeys(p) |->
              CASE k = <<"window.partition", p>> -> w.rows
                [] k = <<"window.schema", p>> -> "schema"
                [] k = <<"window.mask", p>> -> Pack(w.mask)
                [] k = <<"window.rows", p>> -> Len(w.rows)
                [] OTHER -> kv[k]]
  /\ shipped' = With(shipped, p, w)
  /\ answer' = NoAnswer
  /\ UNCHANGED <<shape, step, entries, call, unmerged, fed>>

\* WindowSum::window for one output row: the rows of its frames, clamped to
\* the partition, that the mask keeps.
WindowSum(rows, frames, mask) ==
  LET kept(f) == SelectSeq([i \in DOMAIN rows |-> i],
                   LAMBDA i : i > f[1] /\ i <= f[2] /\ (mask = <<>> \/ mask[i]))
      picked == FlattenSeq([n \in DOMAIN frames |-> kept(frames[n])])
  IN Absent(FoldRows(Empty, [n \in DOMAIN picked |-> <<1, rows[picked[n]]>>]), 1)

\* window_result of a partition the engine holds, which is an error ("unknown
\* partition") when the scope does not hold it.
WindowResult(p, frames) ==
  LET held == WindowKeys(p) \subseteq DOMAIN kv
      mask == Unpack(kv[<<"window.mask", p>>], kv[<<"window.rows", p>>])
  IN /\ p \in DOMAIN shipped
     /\ answer' =
          [is |-> IF held
                  THEN <<WindowSum(kv[<<"window.partition", p>>], frames, mask)>>
                  ELSE <<>>,
           should |-> <<WindowSum(shipped[p].rows, frames, shipped[p].mask)>>]
     /\ UNCHANGED <<shape, step, kv, entries, call, unmerged, calls, fed, shipped>>

\* Mutant of WindowDestructor: the whole scope goes with the first partition.
WindowDestructorAll(p) ==
  /\ p \in DOMAIN shipped
  /\ kv' = Empty
  /\ shipped' = Without(shipped, {p})
  /\ answer' = NoAnswer
  /\ UNCHANGED <<shape, step, entries, call, unmerged, calls, fed>>

\* aggregate_window_destructor: the keys of the one partition.
WindowDestructor(p) ==
  /\ p \in DOMAIN shipped
  /\ kv' = Without(kv, WindowKeys(p))
  /\ shipped' = Without(shipped, {p})
  /\ answer' = NoAnswer
  /\ UNCHANGED <<shape, step, entries, call, unmerged, calls, fed>>

-----------------------------------------------------------------------------
(* Streaming: chunk after chunk                                            *)

\* A log entry: the key's bytes, a NUL, the state (no byte while the partition
\* has only NULLs, else the total, one token of text).
Blob(key, state) == key \o <<NUL>> \o (IF state = Null THEN <<>> ELSE <<state>>)

\* What a blob loads as: split at the first NUL.
KeyOf(blob) ==
  SubSeq(blob, 1, SelectInSeq(blob, LAMBDA b : b = NUL) - 1)
StateOf(blob) ==
  LET rest == SubSeq(blob, Len(KeyOf(blob)) + 2, Len(blob))
  IN IF rest = <<>> THEN Null ELSE Head(rest)

\* The cross-chunk map: the newest entry of each key.
Loaded ==
  LET newest(k) == CHOOSE i \in DOMAIN entries :
                     /\ KeyOf(entries[i]) = k
                     /\ \A j \in DOMAIN entries : j > i => KeyOf(entries[j]) # k
  IN [k \in {KeyOf(entries[i]) : i \in DOMAIN entries} |-> StateOf(entries[newest(k)])]

\* StreamingSum: one running total per row, a NULL repeating the one before and
\* a partition that has seen only NULLs answering 0.
Running(f, chunk) ==
  [i \in DOMAIN chunk |->
     LET v == Absent(FoldRows(f, SubSeq(chunk, 1, i)), chunk[i][1])
     IN IF v = Null THEN 0 ELSE v]

\* aggregate_streaming_chunk: load, answer, append every state again.
StreamingChunk(chunk) ==
  LET after == FoldRows(Loaded, chunk)
      keys == DOMAIN after \cup {row[1] : row \in Range(chunk)}
  IN /\ shape = "streaming" /\ step = "feeding"
     /\ calls < MaxCalls
     /\ calls' = calls + 1
     /\ answer' = [is |-> Running(Loaded, chunk), should |-> Running(fed, chunk)]
     /\ fed' = FoldRows(fed, chunk)
     /\ entries' = entries
          \o [i \in DOMAIN SetToSeq(keys) |->
                Blob(SetToSeq(keys)[i], Absent(after, SetToSeq(keys)[i]))]
     /\ UNCHANGED <<shape, step, kv, call, unmerged, shipped>>

\* aggregate_destructor and aggregate_streaming_close: the scope is cleared.
Destructor ==
  /\ IF shape = "grouped" THEN step = "answered"
     ELSE step = "feeding" /\ shipped = Empty
  /\ step' = "closed"
  /\ kv' = Empty /\ entries' = <<>> /\ answer' = NoAnswer
  /\ UNCHANGED <<shape, call, unmerged, calls, fed, shipped>>

Next ==
  \/ \E t \in Threads :
       (\E batch \in Updates : UpdateReads(t, batch)) \/ UpdateWrites(t)
  \/ \E source, target \in GroupIds : Combine(source, target)
  \/ Finalize
  \/ \E p \in 1..2 :
       \/ \E w \in Windows : WindowInit(p, w)
       \/ \E frames \in Frames : WindowResult(p, frames)
       \/ WindowDestructor(p)
  \/ \E chunk \in Chunks : StreamingChunk(chunk)
  \/ Destructor

Spec == Init /\ [][Next]_avars

-----------------------------------------------------------------------------
(* Properties                                                              *)

AggregationTypeOK ==
  /\ shape \in {"grouped", "window", "streaming"}
  /\ step \in {"feeding", "answered", "closed"}
  /\ unmerged \subseteq GroupIds
  /\ calls \in 0..MaxCalls

\* A group's answer is the SUM over the rows of all threads, however they were
\* batched, interleaved and combined, and NULL when it had only NULLs, which
\* no update and no combine may seed with a zero.
GroupTotals == shape = "grouped" => answer.is = answer.should

\* A window call answers over the partition it names, with that partition's
\* FILTER, though partitions of the same execution come and go in between and
\* a partition id may be used again.
WindowTotals == shape = "window" => answer.is = answer.should

\* A running total continues across chunks, per partition key, from an
\* append-only log that still holds every total it ever had.
RunningTotals == shape = "streaming" => answer.is = answer.should
=============================================================================
