---------------------------- MODULE InOutExchange ----------------------------
(***************************************************************************)
(* One table-in-out exchange stream (TableInOutExchange of                 *)
(* src/function_dispatch.cpp) around the functions it drives: a plain one, *)
(* which answers an input with all of its output; a paged one              *)
(* (example-worker/table_in_out/paged.cpp), which answers a page per reply *)
(* and keeps its position in a continuation; and one that says more        *)
(* without being resumable.                                                *)
(*                                                                         *)
(* An input is the sequence of its rows' fan-out counts.  The output row   *)
(* <<r, i>> is the i-th that input row r fans out to.  The client          *)
(* (external) may send an input or a tick whenever it likes.               *)
(***************************************************************************)
EXTENDS Naturals, Sequences, SequencesExt

CONSTANTS
  Inputs,       \* the inputs a client may send, sequences of counts
  PageSizes,    \* values of page_size
  MaxInputs     \* bound on the inputs of one stream

ExchangeAssumption ==
  /\ Inputs \subseteq Seq(Nat)
  /\ PageSizes \subseteq Nat \ {0}
  /\ MaxInputs \in Nat

VARIABLES
  fn,           \* the function: its kind, page size and cache control
  state,        \* the continuation's State
  morePending,  \* more_pending_
  failed,       \* a turn threw: the client discards the connection
  sent,         \* the inputs accepted so far
  got,          \* per accepted input, the output rows the client received
  parents       \* per accepted input, the parent_rows of all its replies

xvars == <<fn, state, morePending, failed, sent, got, parents>>

Kinds == {"plain", "paged", "unresumable"}
Functions ==
  [kind : Kinds, size : PageSizes,
   cache : {"never", "first", "every"},   \* the replies that advertise
   annotated : BOOLEAN]                   \* whether parent_rows are given

\* A function that can resume: open_continuation is not null.
Resumable == fn.kind = "paged"

Init ==
  /\ fn \in Functions
  /\ state = [counts |-> <<>>, row |-> 1, offset |-> 0]
  /\ morePending = FALSE
  /\ failed = FALSE
  /\ sent = <<>> /\ got = <<>> /\ parents = <<>>

-----------------------------------------------------------------------------
(* The functions                                                           *)

Pages ==
  [counts : Seq(Nat), row : Nat \ {0}, offset : Nat, rows : Seq(Nat \X Nat)]

\* next_page's loop: no input row is left, or the page has its size.
PageEnds(s, size) == s.row > Len(s.counts) \/ Len(s.rows) >= size

\* ... and its body: what there is room for of one input row.
TakeFromRow(s, size) ==
  LET left == s.counts[s.row] - s.offset
      room == size - Len(s.rows)
      take == IF left < room THEN left ELSE room
      page == [i \in 1..take |-> <<s.row, s.offset + i - 1>>]
      over == s.offset + take = s.counts[s.row]
  IN [counts |-> s.counts, rows |-> s.rows \o page,
      row |-> IF over THEN s.row + 1 ELSE s.row,
      offset |-> IF over THEN 0 ELSE s.offset + take]

Fill(size) ==
  LET Loop[s \in Pages] ==
        IF PageEnds(s, size) THEN s ELSE Loop[TakeFromRow(s, size)]
  IN Loop

\* Mutant of NextPage: the position within an input row is not kept.
NextPageRestarts(s, size) ==
  LET p == Fill(size)[[counts |-> s.counts, row |-> s.row, offset |-> 0,
                       rows |-> <<>>]]
  IN [rows |-> p.rows, more |-> p.row <= Len(s.counts),
      state |-> [counts |-> s.counts, row |-> p.row, offset |-> 0]]

\* Mutant of NextPage: the rows already taken of an input row count against
\* the size of the page.
NextPageStuck(s, size) ==
  LET p == Fill(IF s.offset >= size THEN 0 ELSE size)
             [[counts |-> s.counts, row |-> s.row, offset |-> s.offset,
               rows |-> <<>>]]
  IN [rows |-> p.rows, more |-> p.row <= Len(s.counts),
      state |-> [counts |-> s.counts, row |-> p.row, offset |-> p.offset]]

\* next_page: the rows, whether more follow, and the position after them.
\* Input rows with no output are skipped at the end of a page.
NextPage(s, size) ==
  LET p == Fill(size)[[counts |-> s.counts, row |-> s.row, offset |-> s.offset,
                       rows |-> <<>>]]
      next == CHOOSE r \in p.row..(Len(s.counts) + 1) :
                /\ r = Len(s.counts) + 1 \/ s.counts[r] # 0
                /\ \A q \in p.row..(r - 1) : s.counts[q] = 0
  IN [rows |-> p.rows, more |-> next <= Len(s.counts),
      state |-> [counts |-> s.counts, row |-> next, offset |-> p.offset]]

\* An EmittedBatch; provenance as parents, one entry per row, or none.
Emitted(rows, first, more) ==
  [rows |-> rows, more |-> more,
   parents |-> IF fn.annotated THEN [i \in DOMAIN rows |-> rows[i][1]] ELSE <<>>,
   annotated |-> fn.annotated,
   cache |-> fn.cache = "every" \/ (fn.cache = "first" /\ first)]

\* A plain function emits one batch per input row, of none, one or more rows.
PlainEmits(input, more) ==
  [r \in DOMAIN input |-> Emitted([i \in 1..input[r] |-> <<r, i - 1>>], TRUE, more)]

-----------------------------------------------------------------------------
(* One turn                                                                *)

Concat(items, f(_)) ==
  FlattenSeq([i \in DOMAIN items |-> f(items[i])])

\* An unannotated batch among annotated ones takes the identity indices.
ParentsOf(item) ==
  IF item.annotated THEN item.parents ELSE [i \in DOMAIN item.rows |-> i]

\* emit_merged: the provenance of the one batch a turn answers with.
MergedParents(items) ==
  IF \E i \in DOMAIN items : items[i].annotated
  THEN Concat(items, ParentsOf)
  ELSE <<>>

More(items) == \E i \in DOMAIN items : items[i].more

\* What emit_merged refuses: more output of a function that cannot resume, and
\* cache control on a reply to a tick.
Refused(items, continued) ==
  \/ More(items) /\ ~Resumable
  \/ continued /\ \E i \in DOMAIN items : items[i].cache

\* The turn answers: one batch, and more_pending_ recorded once it is written.
Reply(items, input, continued) ==
  LET rows == Concat(items, LAMBDA item : item.rows)
      n == Len(sent)
  IN /\ ~Refused(items, continued)
     /\ morePending' = More(items)
     /\ IF continued
        THEN /\ sent' = sent
             /\ got' = [got EXCEPT ![n] = @ \o rows]
             /\ parents' = [parents EXCEPT ![n] = @ \o MergedParents(items)]
        ELSE /\ sent' = Append(sent, input)
             /\ got' = Append(got, rows)
             /\ parents' = Append(parents, MergedParents(items))
     /\ UNCHANGED <<fn, failed>>

Throw ==
  /\ failed' = TRUE
  /\ UNCHANGED <<fn, state, morePending, sent, got, parents>>

\* What the function emits for a real input, and the position it leaves.
Processed(input) ==
  CASE fn.kind = "paged" ->
         LET p == NextPage([counts |-> input, row |-> 1, offset |-> 0], fn.size)
         IN [items |-> <<Emitted(p.rows, TRUE, p.more)>>, state |-> p.state]
    [] fn.kind = "plain" ->
         [items |-> PlainEmits(input, FALSE), state |-> state]
    [] fn.kind = "unresumable" ->
         [items |-> PlainEmits(input, TRUE), state |-> state]

\* exchange, real input: process answers its first reply.
Process(input) ==
  /\ ~failed
  /\ ~morePending
  /\ LET p == Processed(input) IN
     /\ Reply(p.items, input, FALSE)
     /\ state' = p.state

\* exchange, a tick: resume answers the next reply from the State alone.
Resume ==
  /\ ~failed
  /\ morePending
  /\ LET p == NextPage(state, fn.size) IN
     /\ Reply(<<Emitted(p.rows, FALSE, p.more)>>, <<>>, TRUE)
     /\ state' = p.state

\* exchange throws on a tick with nothing pending, a tick with rows, and input
\* over pending output: in every state the client has a wrong turn to take.
OutOfTurn == ~failed /\ Throw

\* exchange throws on a reply that emit_merged refuses.
EmitRefused ==
  /\ ~failed
  /\ \/ /\ ~morePending
        /\ \E input \in Inputs : Refused(Processed(input).items, FALSE)
     \/ /\ morePending
        /\ Refused(<<Emitted(<<>>, FALSE, FALSE)>>, TRUE)
  /\ Throw

Next ==
  \/ \E input \in Inputs : Len(sent) < MaxInputs /\ Process(input)
  \/ Resume
  \/ OutOfTurn \/ EmitRefused

Spec == Init /\ [][Next]_xvars

\* A client that asks for the rest of an output that is pending.
Fairness == WF_xvars(Resume \/ EmitRefused)

-----------------------------------------------------------------------------
(* Properties                                                              *)

\* The output rows of an input.
AllRows(input) ==
  UNION {{<<r, i>> : i \in 0..(input[r] - 1)} : r \in DOMAIN input}
Before(x, y) == x[1] < y[1] \/ (x[1] = y[1] /\ x[2] < y[2])

ExchangeTypeOK ==
  /\ fn \in Functions
  /\ morePending \in BOOLEAN /\ failed \in BOOLEAN
  /\ sent \in Seq(Inputs)
  /\ Len(got) = Len(sent) /\ Len(parents) = Len(sent)

\* Paging loses, repeats and reorders nothing: what the client holds of an
\* input is always an initial segment of its output, in order, and an input
\* whose last reply did not say more (or was followed by another input) has
\* all of it, whatever turns the client tried.
OutputIsWhole ==
  \A k \in DOMAIN sent :
    LET d == got[k] IN
    /\ \A i, j \in DOMAIN d : i < j => Before(d[i], d[j])
    /\ \A x \in Range(d), y \in AllRows(sent[k]) :
         Before(y, x) => y \in Range(d)
    /\ Range(d) \subseteq AllRows(sent[k])
    /\ k < Len(sent) \/ ~morePending => Range(d) = AllRows(sent[k])

\* The engine stamps correlated columns by parent_rows: over all replies of an
\* input they name, for each output row, the input row it came from.
ParentsNameTheirRows ==
  \A k \in DOMAIN sent :
    fn.annotated =>
      parents[k] = [i \in DOMAIN got[k] |-> got[k][i][1]]

\* An output that is pending ends, or the stream does.
OutputEnds == morePending ~> ~morePending \/ failed
=============================================================================
