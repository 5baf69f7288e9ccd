------------------------------ MODULE TableScan ------------------------------
(***************************************************************************)
(* One table scan: TableProduce of src/function_dispatch.cpp, with the     *)
(* filters of src/pushdown.cpp that its ticks keep up to date.             *)
(*                                                                         *)
(* A predicate is the set of rows it keeps; one that cannot be evaluated   *)
(* is Broken, and one that is never evaluated (a runtime_filter) keeps     *)
(* every row.  The engine (external) sends a snapshot of predicates with   *)
(* init and then, with any tick, a delta of updates, each naming a         *)
(* predicate and a revision; deltas may repeat, or come late.              *)
(***************************************************************************)
EXTENDS Naturals, Sequences, FiniteSets

CONSTANTS
  ScanPages,    \* the batches the producer has, a sequence of sets of rows
  Snapshots,    \* the snapshots init may carry: sets of predicates
  Deltas,       \* the deltas a tick may carry: sets of updates
  MaxIds        \* kMaxPredicateIds

\* The condition that raises.
Broken == {0}
NoDelta == {}
NoTag == "no tag"
Tags == {NoTag, "of init", "of a tick"}

TableScanAssumption ==
  /\ \A i \in DOMAIN ScanPages : 0 \notin ScanPages[i]
  /\ MaxIds \in Nat
  \* PushdownFilters::parse refuses a snapshot that names a predicate twice.
  /\ \A p \in Snapshots : \A s, t \in p : s.id = t.id => s = t
  /\ \A d \in Deltas : \A u \in d : /\ u.revision \in Nat
                                      /\ \A b, c \in u.keeps : b = c

VARIABLES
  autoApply,    \* the function's auto_apply_filters
  specs,        \* specs_, as a set: predicates by id
  revisions,    \* revisions_
  required,     \* required_ids_
  tag,          \* the validators to ask the producer with
  asked,        \* asked_, counting
  next,         \* the producer's position
  scanned,      \* whether the scan runs, is done or has failed
  emitted,      \* the rows emitted
  offered,      \* history: the updates of every delta that was taken
  firstTag,     \* history: what the first tick carried, over init's
  everKept      \* history: rows every predicate in force let through

svars == <<autoApply, specs, revisions, required, tag, asked, next, scanned,
           emitted, offered, firstTag, everKept>>

\* PushdownFilters::parse and the stream that init opens.
Init ==
  /\ autoApply \in BOOLEAN
  /\ specs \in Snapshots
  /\ revisions = [i \in {s.id : s \in specs} |-> 0]
  /\ required = {s.id : s \in {t \in specs : ~t.advisory}}
  /\ tag \in {NoTag, "of init"}
  /\ asked = 0 /\ next = 1 /\ scanned = "running"
  /\ emitted = {} /\ everKept = {}
  /\ offered = {[id |-> s.id, revision |-> 0, keeps |-> {s.keeps}] : s \in specs}
  /\ firstTag = "no tick"

\* The updates of a delta that name a later revision than the predicate has.
Newer(delta) ==
  {u \in delta : u.id \in DOMAIN revisions => u.revision > revisions[u.id]}

\* An update's keeps is {} to remove the predicate, or a set of one condition.
Upserted(delta) ==
  {[id |-> u.id, keeps |-> CHOOSE c \in u.keeps : TRUE, advisory |-> TRUE]
     : u \in {v \in delta : v.keeps # {}}}

\* Mutant of Revised: a removed predicate's revision is forgotten.
RevisedForgetting(delta) ==
  LET kept == {u \in Newer(delta) : u.keeps # {}}
      gone == {u.id : u \in Newer(delta)} \ {u.id : u \in kept}
  IN [i \in (DOMAIN revisions \cup {u.id : u \in kept}) \ gone |->
        IF \E u \in kept : u.id = i
        THEN (CHOOSE u \in kept : u.id = i).revision
        ELSE revisions[i]]

\* apply_delta: every newer update is recorded, removals included.
Revised(delta) ==
  LET newer == Newer(delta)
  IN [i \in DOMAIN revisions \cup {u.id : u \in newer} |->
        IF \E u \in newer : u.id = i
        THEN (CHOOSE u \in newer : u.id = i).revision
        ELSE revisions[i]]

Respecified(delta) ==
  LET newer == Newer(delta)
  IN {s \in specs : \A u \in newer : u.id # s.id} \cup Upserted(newer)

\* What apply_delta refuses: a predicate named twice, a required one, and too
\* many ids.
DeltaRefused(delta) ==
  \/ \E u, v \in delta : u # v /\ u.id = v.id
  \/ \E u \in delta : u.id \in required
  \/ Cardinality(DOMAIN Revised(delta)) > MaxIds

\* Mutant of Applied: an advisory predicate that raises drops every row.
AppliedStrictly(predicates, rows) ==
  {r \in rows : \A s \in predicates : r \in s.keeps}

\* PushdownFilters::apply: an advisory predicate that raises is passed over.
Applied(predicates, rows) ==
  {r \in rows : \A s \in predicates :
     r \in s.keeps \/ (s.keeps = Broken /\ s.advisory)}

ApplyThrows(predicates) == \E s \in predicates : s.keeps = Broken /\ ~s.advisory

\* process: validators are read from a tick only before the producer is asked.
HeardTag(t) == IF asked = 0 /\ t # NoTag THEN t ELSE tag

\* A tick of the scan: process, then produce.
Tick(delta, t) ==
  LET filters == Respecified(delta)
      more == next <= Len(ScanPages)
      rows == IF autoApply THEN Applied(filters, ScanPages[next]) ELSE ScanPages[next]
      passing == {r \in ScanPages[next] :
                    \A u \in offered \cup delta :
                      \A c \in u.keeps : r \in c \/ c = Broken}
  IN /\ scanned = "running"
     /\ ~DeltaRefused(delta)
     /\ autoApply /\ more => ~ApplyThrows(filters)
     /\ specs' = filters /\ revisions' = Revised(delta)
     /\ tag' = HeardTag(t)
     /\ asked' = IF asked = 0 THEN 1 ELSE asked
     /\ firstTag' = IF firstTag # "no tick" THEN firstTag
                    ELSE IF t # NoTag THEN t ELSE tag
     /\ next' = IF more THEN next + 1 ELSE next
     /\ scanned' = IF more THEN scanned ELSE "done"
     /\ emitted' = IF more THEN emitted \cup rows ELSE emitted
     /\ everKept' = IF more THEN everKept \cup passing ELSE everKept
     /\ offered' = offered \cup delta
     /\ UNCHANGED <<autoApply, required>>

\* A tick that throws ends the scan, with the filters as they were or, past
\* apply_delta, with the new ones: nothing reads them again.
TickThrows(delta) ==
  /\ scanned = "running"
  /\ \/ DeltaRefused(delta)
     \/ autoApply /\ next <= Len(ScanPages) /\ ApplyThrows(Respecified(delta))
  /\ scanned' = "failed"
  /\ UNCHANGED <<autoApply, specs, revisions, required, tag, asked, next, emitted,
                offered, firstTag, everKept>>

Next ==
  \E delta \in Deltas \cup {NoDelta} :
    (\E t \in {NoTag, "of a tick"} : Tick(delta, t)) \/ TickThrows(delta)

Spec == Init /\ [][Next]_svars

-----------------------------------------------------------------------------
(* Properties                                                              *)

ScanTypeOK ==
  /\ scanned \in {"running", "done", "failed"}
  /\ next \in 1..(Len(ScanPages) + 1)
  /\ asked \in 0..1
  /\ tag \in Tags
  /\ required \subseteq DOMAIN revisions

\* The filters in force depend on what was offered and not on its order: each
\* predicate is as the highest revision offered of it says, gone if that
\* removed it, so that a late or repeated delta never brings one back.
NewestWins ==
  \A i \in {u.id : u \in offered} :
    LET mine == {u \in offered : u.id = i}
        top == {u \in mine : \A v \in mine : v.revision <= u.revision}
    IN {s.keeps : s \in {t \in specs : t.id = i}} \in {u.keeps : u \in top}

\* Filtering loses no row it may not and leaves none it must not: a row that
\* every predicate the scan was ever offered lets through is emitted, though
\* one of them cannot be evaluated, and a scan that applies its filters emits
\* no row a required predicate rejects, whatever deltas come.
RowsAreRight ==
  /\ everKept \subseteq emitted
  /\ autoApply =>
       \A s \in specs : ~s.advisory => emitted \subseteq s.keeps

\* The producer is asked whether its caller's copy is current with the
\* validators of the first tick, or else init's, and never another's.
AskedOfTheFirst == asked = 1 => tag = firstTag
=============================================================================
